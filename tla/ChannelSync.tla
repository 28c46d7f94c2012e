---------------------------- MODULE ChannelSync ----------------------------
(***************************************************************************)
(* What the sales channels are told. The worker answers a booking event by *)
(* queueing a push per enabled channel that maps the room type; the sync   *)
(* relay takes due pushes, reads the availability of that moment and sends *)
(* it; a push that fails goes back on the queue with a delay. Enabling,    *)
(* mapping and the resync button are the manager's.                        *)
(***************************************************************************)
EXTENDS Outbox

CONSTANTS
  Channels,
  Codes,      \* room codes a channel uses
  Syncers,    \* replicas that run the channel relay
  SyncBatch,
  Horizon,    \* the nights a resync covers: thirty from the business date
  MaxConfig,  \* bound: steps of the manager
  NoCode

ASSUME SyncAssumption ==
  /\ IsFiniteSet(Channels)
  /\ IsFiniteSet(RoomTypes) /\ RoomTypes # {}
  /\ NoCode \notin Codes
  /\ Horizon \subseteq Nights
  /\ MaxConfig \in Nat
  /\ NoRef \notin [row : [id : Nat, chan : Channels, type : RoomTypes,
                          nights : SUBSET Nights, waiting : BOOLEAN],
                   code : Codes \cup {NoCode}]

VARIABLES
  channel,   \* channels and their mappings
  outbound,  \* PENDING rows of channel_outbound
  sync,      \* each sync relay's transaction
  ota,       \* what each channel last heard, by its room code and night
  excused,   \* history: nights a channel may not know, until a push reads them again
  config

syncVars == <<channel, outbound, sync, ota, excused, config>>

NoSync == [rows |-> {}, at |-> NoRef, snapshot |-> <<>>, sent |-> {}, failed |-> {}]
Heard  == Nat \cup {-1}
Unheard == -1

NoChannel == [connected |-> FALSE, enabled |-> FALSE,
              code |-> [t \in RoomTypes |-> NoCode], rate |-> FALSE]

SyncTypeOK ==
  /\ \A c \in Channels :
       /\ channel[c].code \in [RoomTypes -> Codes \cup {NoCode}]
       /\ channel[c].enabled => channel[c].connected /\ \E t \in RoomTypes : channel[c].code[t] # NoCode
  /\ \A r \in outbound : r.chan \in Channels /\ r.type \in RoomTypes /\ r.nights \subseteq Nights
  /\ \A s \in Syncers : sync[s].rows \subseteq outbound
  /\ ota \in [Channels -> [Codes -> [Nights -> Heard]]]
  /\ config \in 0 .. MaxConfig

AllNights(c) == {c} \X RoomTypes \X Nights

\* A channel set up for every type, whose first resync has been heard: of the
\* nights beyond it, it knows nothing.
Ready(code) ==
  [connected |-> TRUE, enabled |-> TRUE, code |-> code, rate |-> TRUE]

SyncInit ==
  /\ outbound = {}
  /\ sync = [s \in Syncers |-> NoSync]
  /\ config = 0
  /\ \/ /\ channel = [c \in Channels |-> NoChannel]
        /\ ota = [c \in Channels |-> [x \in Codes |-> [n \in Nights |-> Unheard]]]
        /\ excused = {}
     \/ \E code \in {f \in [RoomTypes -> Codes] :
                       \A t, u \in RoomTypes : f[t] = f[u] => t = u} :
          /\ channel = [c \in Channels |-> Ready(code)]
          /\ ota = [c \in Channels |-> [x \in Codes |-> [n \in Nights |->
                      IF n \in Horizon /\ \E t \in RoomTypes : code[t] = x
                      THEN Capacity[CHOOSE t \in RoomTypes : code[t] = x] ELSE Unheard]]]
          /\ excused = Channels \X RoomTypes \X (Nights \ Horizon)

-----------------------------------------------------------------------------
(* The worker.                                                             *)

\* Mutant: date changes are not listened to.
ListensToSales == {"created", "cancelled"}

ListensTo == {"created", "modified", "cancelled"}

Hull(S) == IF S = {} THEN {} ELSE Min(S) .. Max(S)

\* The booking's nights as they are now, widened to where the event says they
\* were before.
Span(e) == Hull(booking[e.booking].nights \cup e.previous)

Targets(t) == {c \in Channels : channel[c].enabled /\ channel[c].code[t] # NoCode}

Row(c, t, nights, id) ==
  [id |-> id, chan |-> c, type |-> t, nights |-> nights, waiting |-> FALSE]

\* One row per target, numbered with what the queue does not use.
Enqueue(targets, nights) ==
  LET ids == CHOOSE f \in [targets -> 1 .. (Cardinality(outbound) + Cardinality(targets))] :
               /\ \A x, y \in targets : f[x] = f[y] => x = y
               /\ \A x \in targets, r \in outbound : f[x] # r.id
  IN  outbound' = outbound \cup {Row(x[1], x[2], nights, ids[x]) : x \in targets}

\* The bridge onto the browsers' subscriptions: whatever the event, the chart
\* is told to redraw and reads the booking afresh.
Redraw(e) == unseen' = unseen \ {e.booking}

\* publish(e): the worker queues its pushes in a transaction of its own, or
\* fails and says nothing; the bridge tells the browsers, or throws.
PublishEvent(q, e) ==
  LET t == TypeOf[e.booking]
      queue == Enqueue(Targets(t) \X {t}, Span(e)) /\ UNCHANGED excused
      quiet == UNCHANGED <<outbound, excused>>
      swallow == /\ UNCHANGED outbound
                 /\ excused' = excused \cup (Targets(t) \X {t} \X Span(e))
  IN  /\ e \in drain[q].todo
      /\ \/ /\ IF e.type \in ListensTo THEN queue ELSE quiet
            /\ \/ Published(q, e, FALSE) /\ Redraw(e) /\ UNCHANGED faults
               \/ Published(q, e, TRUE) /\ Fault /\ UNCHANGED unseen
         \/ /\ e.type \in ListensTo
            /\ swallow
            /\ Published(q, e, FALSE)
            /\ Redraw(e)
            /\ Fault
      /\ UNCHANGED <<booking, rooms, events, changes, channel, sync, ota, config>>

\* The night audit's release: an event the worker does not listen to.
NoShow(b) ==
  /\ Release(b, "NO_SHOW", "no_show")
  /\ excused' = excused \cup (Channels \X {TypeOf[b]} \X booking[b].nights)
  /\ UNCHANGED <<rooms, drain, faults, channel, outbound, sync, ota, config>>

\* A room of type t goes OOO or OOS, or back on sale: its event,
\* room.status_changed, is not for the worker either.
ChangeRoomStatus(t, onSale) ==
  /\ Change
  /\ onSale \in {rooms[t] - 1, rooms[t] + 1} \cap (0 .. Capacity[t])
  /\ rooms' = [rooms EXCEPT ![t] = onSale]
  /\ excused' = excused \cup (Channels \X {t} \X Nights)
  /\ UNCHANGED <<booking, events, drain, unseen, faults, channel, outbound, sync, ota, config>>

-----------------------------------------------------------------------------
(* The sync relay.                                                         *)

SyncClaim(s) ==
  LET held == UNION {sync[x].rows : x \in Syncers}
      due  == {r \in outbound \ held : ~r.waiting}
  IN  /\ sync[s] = NoSync
      /\ due # {}
      /\ \E batch \in kSubset(Min({SyncBatch, Cardinality(due)}), due) :
           sync' = [sync EXCEPT ![s].rows = batch]
      /\ UNCHANGED <<outboxVars, channel, outbound, ota, excused, config>>

Left(s) == sync[s].rows \ (sync[s].sent \cup sync[s].failed)

\* The availability of this moment, over the row's nights.
Snapshot(t, nights) == [n \in nights |-> Available(t, n)]

\* A channel disabled since the push was queued hears nothing.
SkipPush(s, r) ==
  /\ sync[s].at = NoRef
  /\ r \in Left(s)
  /\ ~channel[r.chan].enabled
  /\ sync' = [sync EXCEPT ![s].sent = @ \cup {r}]
  /\ UNCHANGED <<outboxVars, channel, outbound, ota, excused, config>>

\* What the push says is current, so what it covers is no longer excused.
BuildAri(s, r) ==
  /\ sync[s].at = NoRef
  /\ r \in Left(s)
  /\ channel[r.chan].enabled
  /\ sync' = [sync EXCEPT ![s].at = [row |-> r, code |-> channel[r.chan].code[r.type]],
                          ![s].snapshot = Snapshot(r.type, r.nights)]
  /\ excused' = excused \ ({r.chan} \X {r.type} \X r.nights)
  /\ UNCHANGED <<outboxVars, channel, outbound, ota, config>>

\* Mutant: a failed push is marked as sent.
SettleAsSent(s, outcome) ==
  sync' = [sync EXCEPT ![s].at = NoRef, ![s].snapshot = <<>>,
                       ![s].sent = @ \cup {sync[s].at.row}]

\* Record the outcome of the push under way.
Settle(s, outcome) ==
  sync' = [sync EXCEPT ![s].at = NoRef, ![s].snapshot = <<>>,
             ![s].sent   = IF outcome = "sent" THEN @ \cup {sync[s].at.row} ELSE @,
             ![s].failed = IF outcome = "failed" THEN @ \cup {sync[s].at.row} ELSE @]

\* The channel replaces what it knew of the nights it is told about.
Remember(known, snapshot) ==
  [n \in Nights |-> IF n \in DOMAIN snapshot THEN snapshot[n] ELSE known[n]]

\* A push for the code x of channel c that covers night n is under way.
InFlight(s, c, x, n) ==
  /\ sync[s].at # NoRef
  /\ sync[s].at.row.chan = c /\ sync[s].at.code = x /\ n \in sync[s].at.row.nights

\* The channel takes the snapshot as it stands; of a night another replica is
\* pushing too, the older snapshot may be the one that stays.
PushAri(s) ==
  LET c == sync[s].at.row.chan
      x == sync[s].at.code
      raced == {n \in sync[s].at.row.nights : \E u \in Syncers \ {s} : InFlight(u, c, x, n)}
  IN  /\ sync[s].at # NoRef
      /\ ota' = [ota EXCEPT ![c][x] = Remember(@, sync[s].snapshot)]
      /\ excused' = excused \cup ({c} \X {t \in RoomTypes : channel[c].code[t] = x} \X raced)
      /\ Settle(s, "sent")
      /\ UNCHANGED <<outboxVars, channel, outbound, config>>

PushFails(s) ==
  /\ sync[s].at # NoRef
  /\ Fault
  /\ Settle(s, "failed")
  /\ UNCHANGED <<booking, rooms, events, drain, unseen, changes, channel, outbound, ota, excused, config>>

\* A failed row stays PENDING with its next attempt in the future.
SyncCommit(s) ==
  /\ sync[s].rows # {}
  /\ Left(s) = {}
  /\ outbound' = (outbound \ sync[s].rows)
                   \cup {[r EXCEPT !.waiting = TRUE] : r \in sync[s].failed}
  /\ sync' = [sync EXCEPT ![s] = NoSync]
  /\ UNCHANGED <<outboxVars, channel, ota, excused, config>>

SyncCrash(s) ==
  /\ sync[s].rows # {}
  /\ Fault
  /\ sync' = [sync EXCEPT ![s] = NoSync]
  /\ UNCHANGED <<booking, rooms, events, drain, unseen, changes, channel, outbound, ota, excused, config>>

\* nextPushDelayMs has passed.
BackoffElapses ==
  /\ \E r \in outbound : r.waiting
  /\ outbound' = {[r EXCEPT !.waiting = FALSE] : r \in outbound}
  /\ UNCHANGED <<outboxVars, channel, sync, ota, excused, config>>

-----------------------------------------------------------------------------
(* The manager.                                                            *)

Configure == config < MaxConfig /\ config' = config + 1

Connect(c) ==
  /\ Configure
  /\ ~channel[c].connected
  /\ channel' = [channel EXCEPT ![c].connected = TRUE]
  /\ UNCHANGED <<outboxVars, outbound, sync, ota, excused>>

\* Nothing is pushed when a channel is switched on: until a resync it knows
\* what it last heard.
SetEnabled(c, on) ==
  /\ Configure
  /\ channel[c].connected
  /\ on => \E t \in RoomTypes : channel[c].code[t] # NoCode
  /\ channel' = [channel EXCEPT ![c].enabled = on]
  /\ excused' = IF on /\ ~channel[c].enabled THEN excused \cup AllNights(c) ELSE excused
  /\ UNCHANGED <<outboxVars, outbound, sync, ota>>

\* A code belongs to one room type of the channel.
MapRoomType(c, t, x) ==
  /\ Configure
  /\ channel[c].connected
  /\ \A u \in RoomTypes \ {t} : channel[c].code[u] # x
  /\ channel' = [channel EXCEPT ![c].code[t] = x]
  /\ excused' = IF channel[c].code[t] = x THEN excused
                ELSE excused \cup ({c} \X {t} \X Nights)
  /\ UNCHANGED <<outboxVars, outbound, sync, ota>>

MapRatePlan(c) ==
  /\ Configure
  /\ channel[c].connected
  /\ channel' = [channel EXCEPT ![c].rate = TRUE]
  /\ UNCHANGED <<outboxVars, outbound, sync, ota, excused>>

\* Queue every mapped room type over the horizon.
Resync(c) ==
  LET mapped == {t \in RoomTypes : channel[c].code[t] # NoCode}
  IN  /\ Configure
      /\ channel[c].enabled
      /\ Enqueue({c} \X mapped, Horizon)
      /\ excused' = excused \ ({c} \X mapped \X Horizon)
      /\ UNCHANGED <<outboxVars, channel, sync, ota>>

SyncNext ==
  \/ \E q \in Relays : \E e \in drain[q].todo : PublishEvent(q, e)
  \/ \E b \in Bookings : NoShow(b)
  \/ \E t \in RoomTypes : \E onSale \in 0 .. Capacity[t] : ChangeRoomStatus(t, onSale)
  \/ \E s \in Syncers : \/ SyncClaim(s) \/ PushAri(s) \/ PushFails(s)
                        \/ SyncCommit(s) \/ SyncCrash(s)
                        \/ \E r \in sync[s].rows : SkipPush(s, r) \/ BuildAri(s, r)
  \/ BackoffElapses
  \/ \E c \in Channels : \/ Connect(c) \/ MapRatePlan(c) \/ Resync(c)
                         \/ \E on \in BOOLEAN : SetEnabled(c, on)
                         \/ \E t \in RoomTypes, x \in Codes : MapRoomType(c, t, x)
=============================================================================
