------------------------------- MODULE Outbox -------------------------------
(***************************************************************************)
(* Bookings, the events their transactions write to the outbox, and the    *)
(* relay that hands committed events to the handlers at least once. Each   *)
(* replica drains a batch in one transaction: it claims rows its peers do  *)
(* not hold, runs every handler of each, and marks those none of whose     *)
(* handlers failed; if the process dies before the commit, nothing is      *)
(* marked and the handlers have run all the same.                          *)
(*                                                                         *)
(* Two handlers listen: the bridge to the browsers' subscriptions, which   *)
(* fails when the broker is away, and the worker that queues availability  *)
(* for the sales channels, which swallows its own failures. The worker's   *)
(* insert is a transaction of its own.                                     *)
(***************************************************************************)
EXTENDS Integers, FiniteSetsExt

CONSTANTS
  RoomTypes,
  Capacity,    \* [RoomTypes -> Nat], rooms of the house
  Bookings,    \* reservations that may be made, a room of one type each
  TypeOf,      \* [Bookings -> RoomTypes]
  LastNight,   \* bound: nights are 1..LastNight
  Relays,      \* replicas that run the outbox relay
  BatchSize,
  MaxChanges,  \* bound: bookings made, moved and released, rooms out of order and back
  MaxFaults,   \* bound: crashes and failed calls
  NoRef

Nights == 1 .. LastNight

ASSUME OutboxAssumption ==
  /\ Capacity \in [RoomTypes -> Nat]
  /\ TypeOf \in [Bookings -> RoomTypes]
  /\ LastNight \in Nat /\ BatchSize \in Nat \ {0}
  /\ MaxChanges \in Nat /\ MaxFaults \in Nat

VARIABLES
  booking,  \* reservations.reservation_rooms, one row per reservation
  rooms,    \* rooms of a type that are neither OOO nor OOS
  events,   \* unprocessed rows of shared.outbox_events
  drain,    \* each replica's batch: rows claimed, left to do, delivered
  unseen,   \* bookings changed since the browsers were last told to refetch
  changes,
  faults

outboxVars == <<booking, rooms, events, drain, unseen, changes, faults>>

NoBooking == [status |-> "NONE", nights |-> {}, ref |-> NoRef]
NoBatch   == [claimed |-> {}, todo |-> {}, delivered |-> {}]

EventTypes == {"created", "modified", "cancelled", "no_show"}

Spans == {a .. d : a \in Nights, d \in Nights} \ {{}}

OutboxTypeOK ==
  /\ \A b \in Bookings : /\ booking[b].status \in {"NONE", "HELD", "CANCELLED", "NO_SHOW"}
                         /\ booking[b].nights \in Spans \cup {{}}
  /\ \A t \in RoomTypes : rooms[t] \in 0 .. Capacity[t]
  /\ \A e \in events : e.type \in EventTypes /\ e.booking \in Bookings
  /\ \A q \in Relays : /\ drain[q].claimed \subseteq events
                       /\ drain[q].todo \cup drain[q].delivered \subseteq drain[q].claimed
  /\ unseen \subseteq Bookings
  /\ changes \in 0 .. MaxChanges
  /\ faults \in 0 .. MaxFaults

OutboxInit ==
  /\ booking = [b \in Bookings |-> NoBooking]
  /\ rooms = Capacity
  /\ events = {}
  /\ drain = [q \in Relays |-> NoBatch]
  /\ unseen = {}
  /\ changes = 0
  /\ faults = 0

Fault == faults < MaxFaults /\ faults' = faults + 1

-----------------------------------------------------------------------------
(* Bookings. The counters and their locks are modelled in FrontDesk; here  *)
(* a sale is refused when a night is full.                                 *)

Holding(t, n) == {b \in Bookings :
                    booking[b].status = "HELD" /\ TypeOf[b] = t /\ n \in booking[b].nights}

\* The grid counts the rooms as they are now: never below zero, though rooms may
\* go out of order after they were sold.
Available(t, n) ==
  LET sold == Cardinality(Holding(t, n))
  IN  IF rooms[t] > sold THEN rooms[t] - sold ELSE 0

\* The booking's own nights are given back before they are asked for again.
CanHold(b, nights) ==
  \A n \in nights : rooms[TypeOf[b]] > Cardinality(Holding(TypeOf[b], n) \ {b})

FreshId(S) == Min(1 .. (Cardinality(S) + 1) \ {x.id : x \in S})

\* emit: the event is inserted by the transaction that makes the change.
Emit(type, b, previous) ==
  /\ events' = events \cup
       {[id |-> FreshId(events), type |-> type, booking |-> b, previous |-> previous]}
  /\ unseen' = unseen \cup {b}

Change == changes < MaxChanges /\ changes' = changes + 1

Hold(b, nights, ref) ==
  /\ booking[b].status = "NONE"
  /\ CanHold(b, nights)
  /\ Change
  /\ booking' = [booking EXCEPT ![b] = [status |-> "HELD", nights |-> nights, ref |-> ref]]
  /\ Emit("created", b, {})

\* modifyDates: only this event says where the booking used to be.
ModifyDates(b, nights) ==
  /\ booking[b].status = "HELD"
  /\ nights # booking[b].nights
  /\ CanHold(b, nights)
  /\ Change
  /\ booking' = [booking EXCEPT ![b].nights = nights]
  /\ Emit("modified", b, booking[b].nights)
  /\ UNCHANGED <<rooms, drain, faults>>

Release(b, status, type) ==
  /\ booking[b].status = "HELD"
  /\ Change
  /\ booking' = [booking EXCEPT ![b].status = status]
  /\ Emit(type, b, {})

Cancel(b) ==
  /\ Release(b, "CANCELLED", "cancelled")
  /\ UNCHANGED <<rooms, drain, faults>>

-----------------------------------------------------------------------------
(* The relay.                                                              *)

\* Mutant: rows a peer has locked are not skipped.
NobodyHolds == {}

HeldByPeers == UNION {drain[q].claimed : q \in Relays}

\* One batch; SKIP LOCKED leaves the rows a peer is publishing.
DrainClaim(q) ==
  LET unlocked == events \ HeldByPeers
  IN  /\ drain[q] = NoBatch
      /\ unlocked # {}
      /\ \E batch \in kSubset(Min({BatchSize, Cardinality(unlocked)}), unlocked) :
           drain' = [drain EXCEPT ![q] = [claimed |-> batch, todo |-> batch, delivered |-> {}]]
      /\ UNCHANGED <<booking, rooms, events, unseen, changes, faults>>

\* Mutant: an event counts as delivered although a handler of it failed.
DeliveredAnyway(q, e, failed) ==
  drain' = [drain EXCEPT ![q].todo = @ \ {e}, ![q].delivered = @ \cup {e}]

\* publish() ran every handler of e; the row is marked only if none failed.
Published(q, e, failed) ==
  drain' = [drain EXCEPT ![q].todo = @ \ {e},
                         ![q].delivered = IF failed THEN @ ELSE @ \cup {e}]

DrainCommit(q) ==
  /\ drain[q].claimed # {}
  /\ drain[q].todo = {}
  /\ events' = events \ drain[q].delivered
  /\ drain' = [drain EXCEPT ![q] = NoBatch]
  /\ UNCHANGED <<booking, rooms, unseen, changes, faults>>

\* The process dies: the transaction rolls back.
DrainCrash(q) ==
  /\ drain[q].claimed # {}
  /\ Fault
  /\ drain' = [drain EXCEPT ![q] = NoBatch]
  /\ UNCHANGED <<booking, rooms, events, unseen, changes>>
=============================================================================
