--------------------------- MODULE ChannelManager ---------------------------
(***************************************************************************)
(* The channel manager as a whole: bookings the channels deliver, bookings *)
(* the desk makes, the outbox between them and the availability pushed     *)
(* back. A delivery is four transactions: the receipt, the mapping, the    *)
(* reservation and the outcome, and the process may die between any two.   *)
(***************************************************************************)
EXTENDS ChannelSync

CONSTANTS
  Refs,    \* the channel's references of the bookings it delivers
  RefOf,   \* [Refs -> [chan: Channels, code: Codes, nights: Spans]]
  Calls    \* concurrent calls of ingest()

ASSUME InboundAssumption ==
  /\ RefOf \in [Refs -> [chan : Channels, code : Codes, nights : Spans]]
  /\ NoRef \notin Refs

VARIABLES
  receipt,   \* channel_bookings by reference
  call,      \* each call's progress
  hurt       \* history: references a delivery of which was cut short

inboundVars == <<receipt, call, hurt>>
vars == <<outboxVars, syncVars, inboundVars>>

NoReceipt == [status |-> "NONE", booking |-> NoRef]
NoCall    == [phase |-> "idle", ref |-> NoRef, type |-> NoRef, booking |-> NoRef]

TypeOK ==
  /\ OutboxTypeOK
  /\ SyncTypeOK
  /\ \A d \in Refs : receipt[d].status \in {"NONE", "RECEIVED", "CONFIRMED", "REJECTED"}
  /\ \A p \in Calls : call[p].phase \in {"idle", "resolve", "create", "confirm", "reject"}

Init ==
  /\ OutboxInit
  /\ SyncInit
  /\ receipt = [d \in Refs |-> NoReceipt]
  /\ call = [p \in Calls |-> NoCall]
  /\ hurt = {}

-----------------------------------------------------------------------------
(* ingest.                                                                 *)

Goto(p, phase) == call' = [call EXCEPT ![p].phase = phase]
Return(p) == call' = [call EXCEPT ![p] = NoCall]

\* Mutant: the receipt is not unique per reference.
NeverSeen(d) == TRUE

\* The unique key on (channel, external_ref).
FirstDelivery(d) == receipt[d].status = "NONE"

\* A redelivery is answered DUPLICATE and changes nothing.
RecordReceipt(p, d) ==
  /\ call[p].phase = "idle"
  /\ channel[RefOf[d].chan].connected
  /\ FirstDelivery(d)
  /\ receipt' = [receipt EXCEPT ![d] = [status |-> "RECEIVED", booking |-> NoRef]]
  /\ call' = [call EXCEPT ![p] = [NoCall EXCEPT !.phase = "resolve", !.ref = d]]
  /\ UNCHANGED <<outboxVars, syncVars, hurt>>

\* The room type the channel means, if code and rate are mapped.
MappedTypes(d) ==
  {t \in RoomTypes : /\ channel[RefOf[d].chan].code[t] = RefOf[d].code
                     /\ channel[RefOf[d].chan].rate}

ResolveMapping(p) ==
  /\ call[p].phase = "resolve"
  /\ IF MappedTypes(call[p].ref) = {}
     THEN Goto(p, "reject")
     ELSE \E t \in MappedTypes(call[p].ref) :
            call' = [call EXCEPT ![p].phase = "create", ![p].type = t]
  /\ UNCHANGED <<outboxVars, syncVars, receipt, hurt>>

\* reservations.create, as for a walk-in.
CreateReservation(p) ==
  LET d == call[p].ref
  IN  /\ call[p].phase = "create"
      /\ \E b \in Bookings :
           /\ TypeOf[b] = call[p].type
           /\ Hold(b, RefOf[d].nights, d)
           /\ call' = [call EXCEPT ![p].phase = "confirm", ![p].booking = b]
      /\ UNCHANGED <<rooms, drain, faults, syncVars, receipt, hurt>>

\* Mutant: a full house is rethrown like any other error.
NoRoomRethrown(p) ==
  /\ call[p].phase = "create"
  /\ \E n \in RefOf[call[p].ref].nights : Available(call[p].type, n) <= 0
  /\ Return(p)
  /\ UNCHANGED <<outboxVars, syncVars, receipt, hurt>>

\* ConflictException: a night is full.
NoRoom(p) ==
  /\ call[p].phase = "create"
  /\ \E n \in RefOf[call[p].ref].nights : Available(call[p].type, n) <= 0
  /\ Goto(p, "reject")
  /\ UNCHANGED <<outboxVars, syncVars, receipt, hurt>>

Confirmed(p) == [status |-> "CONFIRMED", booking |-> call[p].booking]

Confirm(p) ==
  LET d == call[p].ref
  IN  /\ call[p].phase = "confirm"
      /\ receipt' = [receipt EXCEPT ![d] = Confirmed(p)]
      /\ Return(p)
      /\ UNCHANGED <<outboxVars, syncVars, hurt>>

Reject(p) ==
  LET d == call[p].ref
  IN  /\ call[p].phase = "reject"
      /\ receipt' = [receipt EXCEPT ![d].status = "REJECTED"]
      /\ Return(p)
      /\ UNCHANGED <<outboxVars, syncVars, hurt>>

\* The process dies or a transaction fails for a reason that is not a full
\* house: the error is rethrown and the receipt stays as it is.
CallFails(p) ==
  /\ call[p].phase # "idle"
  /\ Fault
  /\ hurt' = hurt \cup {call[p].ref}
  /\ call' = [call EXCEPT ![p] = NoCall]
  /\ UNCHANGED <<booking, rooms, events, drain, unseen, changes, syncVars, receipt>>

-----------------------------------------------------------------------------

Desk ==
  /\ \E b \in Bookings :
       \/ \E nights \in Spans \ {{}} : /\ Hold(b, nights, NoRef)
                                       /\ UNCHANGED <<rooms, drain, faults>>
       \/ \E nights \in Spans : ModifyDates(b, nights)
       \/ Cancel(b)
  /\ UNCHANGED <<syncVars, inboundVars>>

Inbound ==
  \E p \in Calls : \/ \E d \in Refs : RecordReceipt(p, d)
                   \/ ResolveMapping(p) \/ CreateReservation(p) \/ NoRoom(p)
                   \/ Confirm(p) \/ Reject(p) \/ CallFails(p)

Relay ==
  /\ \E q \in Relays : DrainClaim(q) \/ DrainCommit(q) \/ DrainCrash(q)
  /\ UNCHANGED <<syncVars, inboundVars>>

Next ==
  \/ Desk
  \/ Inbound
  \/ Relay
  \/ SyncNext /\ UNCHANGED inboundVars

Spec == Init /\ [][Next]_vars

\* The pollers run for as long as the process does, and a delay ends. Nobody
\* is bound to book, to deliver, to configure or to answer.
DrainStep(q) ==
  \/ (DrainClaim(q) \/ DrainCommit(q)) /\ UNCHANGED <<syncVars, inboundVars>>
  \/ (\E e \in drain[q].todo : PublishEvent(q, e)) /\ UNCHANGED inboundVars
SyncStep(s) ==
  /\ \/ SyncClaim(s) \/ PushAri(s) \/ SyncCommit(s)
     \/ \E r \in sync[s].rows : SkipPush(s, r) \/ BuildAri(s, r)
  /\ UNCHANGED inboundVars

FairSpec ==
  /\ Spec
  /\ \A q \in Relays : WF_vars(DrainStep(q))
  /\ \A s \in Syncers : WF_vars(SyncStep(s))
  /\ WF_vars(BackoffElapses /\ UNCHANGED inboundVars)

-----------------------------------------------------------------------------
(* Properties.                                                             *)

MadeFor(d) == {b \in Bookings : booking[b].ref = d}

\* However often and however concurrently a channel delivers a booking, at most
\* one reservation is made for it; a receipt says CONFIRMED only with that
\* reservation on it and REJECTED only when there is none.
OneReservationPerDelivery ==
  \A d \in Refs :
    /\ Cardinality(MadeFor(d)) <= 1
    /\ receipt[d].status = "CONFIRMED" => MadeFor(d) = {receipt[d].booking}
    /\ receipt[d].status = "REJECTED" => MadeFor(d) = {}

\* Unless a failure cut the delivery short, a receipt without an outcome is
\* being worked on, so that a redelivery told DUPLICATE meanwhile is about a
\* booking that gets an outcome, and no reservation waits for a receipt in vain.
NeverHalfHappens ==
  \A d \in Refs \ hurt :
    receipt[d].status = "RECEIVED" =>
      \E p \in Calls : /\ call[p].ref = d
                       /\ MadeFor(d) # {} => call[p].phase = "confirm"

\* A browser shows a booking as it was before its last change only while an
\* event about it is in the outbox: the relay marks an event only when every
\* handler of it succeeded, so a crash or an absent broker loses no redraw.
ScreensFollow == \A b \in unseen : \E e \in events : e.booking = b

\* What an enabled channel believes about a mapped night differs from what can
\* be sold only while a change is on its way: an event not yet processed that
\* spans the night or a push not yet sent. Excused are the nights given back by
\* a no-show, those of a room that went out of order or back, those whose
\* queueing failed, those two replicas of the relay were pushing at once, and a
\* channel switched on or re-mapped: each until a push reads the night again or a
\* resync queues it.
NoSilentDrift ==
  \A c \in Channels, t \in RoomTypes, n \in Nights :
    LET x == channel[c].code[t]
    IN  (/\ channel[c].enabled /\ x # NoCode
         /\ <<c, t, n>> \notin excused
         /\ ota[c][x][n] # Available(t, n))
        => \/ \E e \in events : /\ e.type \in {"created", "modified", "cancelled"}
                                /\ TypeOf[e.booking] = t /\ n \in Hull(booking[e.booking].nights \cup e.previous)
           \/ \E r \in outbound : /\ r.chan = c /\ r.type = t /\ n \in r.nights
                                  /\ \A s \in Syncers : r \notin sync[s].sent

\* Once bookings and failures stop, every enabled channel ends up knowing what
\* can be sold, those nights excepted.
ChannelsCatchUp ==
  <>[](\A c \in Channels, t \in RoomTypes, n \in Nights :
         channel[c].enabled /\ channel[c].code[t] # NoCode /\ <<c, t, n>> \notin excused
           => ota[c][channel[c].code[t]][n] = Available(t, n))
=============================================================================
