------------------------ MODULE ChannelManager_proof ------------------------
(***************************************************************************)
(* Theorems about deliveries and screens, for any number of channels,      *)
(* bookings, relays, concurrent deliveries, crashes and failures.          *)
(***************************************************************************)
EXTENDS ChannelManager, FiniteSetTheorems, FunctionTheorems, WellFoundedInduction, TLAPS

Booking == [status : {"NONE", "HELD", "CANCELLED", "NO_SHOW"}, nights : SUBSET Nights,
            ref : Refs \cup {NoRef}]
Event   == [id : Nat, type : EventTypes, booking : Bookings, previous : SUBSET Nights]
Batch   == [claimed : SUBSET Event, todo : SUBSET Event, delivered : SUBSET Event]
Receipt == [status : {"NONE", "RECEIVED", "CONFIRMED", "REJECTED"},
            booking : Bookings \cup {NoRef}]
CallOf  == [phase : {"idle", "resolve", "create", "confirm", "reject"},
            ref : Refs \cup {NoRef}, type : RoomTypes \cup {NoRef}, booking : Bookings \cup {NoRef}]

\* The rows of the outbox and who holds them.
OutboxTyped ==
  /\ booking \in [Bookings -> Booking]
  /\ events \subseteq Event /\ IsFiniteSet(events)
  /\ drain \in [Relays -> Batch]
  /\ unseen \subseteq Bookings
BatchesApart ==
  /\ \A q \in Relays : /\ drain[q].claimed \subseteq events
                       /\ drain[q].todo \cup drain[q].delivered \subseteq drain[q].claimed
  /\ \A q, r \in Relays : q # r => drain[q].claimed \cap drain[r].claimed = {}
InboundTyped ==
  /\ receipt \in [Refs -> Receipt]
  /\ call \in [Calls -> CallOf]

LEMMA MinimumExists ==
  ASSUME NEW S \in SUBSET Nat, S # {}
  PROVE  \E x \in S : x = Min(S) /\ \A y \in S : x <= y
<1> DEFINE R == OpToRel(<, Nat)
<1>1. \A x, y \in Nat : <<y, x>> \in R <=> y < x
  BY DEF OpToRel
<1>2. IsWellFoundedOn(R, Nat)
  BY NatLessThanWellFounded
<1> HIDE DEF R
<1>3. PICK x \in S : \A y \in S : ~(<<y, x>> \in R)
  BY <1>2, WFMin
<1>4. ASSUME NEW y \in S PROVE x <= y
  <2>1. x \in Nat /\ y \in Nat /\ ~(<<y, x>> \in R)
    BY <1>3
  <2>2. ~(y < x)
    BY <1>1, <2>1
  <2> QED BY <2>1, <2>2
<1>5. Min(S) \in S /\ \A y \in S : Min(S) <= y
  BY <1>4, Zenon DEF Min
<1> QED BY <1>5, Zenon

\* The number of a new event is nobody else's.
LEMMA FreshIdIsFresh ==
  ASSUME NEW S, IsFiniteSet(S)
  PROVE  FreshId(S) \in Nat /\ \A x \in S : x.id # FreshId(S)
<1> DEFINE ids == {x.id : x \in S}
           f == [x \in S |-> x.id]
           n == Cardinality(S)
           free == 1 .. (n + 1) \ ids
<1>1. n \in Nat
  BY FS_CardinalityType
<1>2. IsFiniteSet(ids) /\ Cardinality(ids) <= n
  <2>1. f \in Surjection(S, ids)
    BY DEF Surjection
  <2> QED BY <2>1, FS_Surjection
<1>3. free # {}
  <2>1. SUFFICES ASSUME free = {} PROVE FALSE
    OBVIOUS
  <2>2. 1 .. (n + 1) \in SUBSET ids
    BY <2>1
  <2>3. Cardinality(1 .. (n + 1)) <= Cardinality(ids)
    BY <1>2, <2>2, FS_Subset
  <2>4. Cardinality(1 .. (n + 1)) = n + 1
    BY <1>1, FS_Interval
  <2>5. Cardinality(ids) \in Nat
    BY <1>2, FS_CardinalityType
  <2> HIDE DEF ids, n
  <2> QED BY <1>1, <1>2, <2>3, <2>4, <2>5
<1>4. free \in SUBSET Nat
  BY <1>1
<1>5. Min(free) \in free
  BY <1>3, <1>4, MinimumExists
<1>6. FreshId(S) = Min(free)
  BY DEF FreshId
<1>7. Min(free) \in Nat /\ Min(free) \notin ids
  BY <1>4, <1>5
<1> QED BY <1>6, <1>7

-----------------------------------------------------------------------------
\* The invariant behind ScreensFollow: an event that tells of the change is
\* still there and no replica is about to mark it.
Told == \A b \in unseen :
          \E e \in events : e.booking = b /\ \A q \in Relays : e \notin drain[q].delivered
OutboxInv == OutboxTyped /\ BatchesApart /\ Told

\* A change of a booking: its event is a new row, which nobody has claimed.
LEMMA EmitStep ==
  ASSUME OutboxInv, NEW b \in Bookings, NEW type \in EventTypes, NEW previous \in SUBSET Nights,
         Emit(type, b, previous), booking' \in [Bookings -> Booking], UNCHANGED drain
  PROVE  OutboxInv'
<1> DEFINE e == [id |-> FreshId(events), type |-> type, booking |-> b, previous |-> previous]
<1>1. IsFiniteSet(events) /\ FreshId(events) \in Nat /\ \A x \in events : x.id # FreshId(events)
  BY FreshIdIsFresh DEF OutboxInv, OutboxTyped
<1>2. e \in Event /\ e \notin events /\ e.booking = b
  BY <1>1 DEF Event
<1>3. events' = events \cup {e} /\ unseen' = unseen \cup {b}
  BY DEF Emit
<1> HIDE DEF e
<1>4. IsFiniteSet(events')
  BY <1>1, <1>3, FS_AddElement
<1>5. OutboxTyped'
  BY <1>2, <1>3, <1>4 DEF OutboxInv, OutboxTyped
<1>6. BatchesApart'
  BY <1>3 DEF OutboxInv, BatchesApart
<1>7. Told'
  <2>1. \A q \in Relays : e \notin drain[q].delivered
    BY <1>2 DEF OutboxInv, BatchesApart
  <2>2. ASSUME NEW c \in unseen'
        PROVE  \E x \in events' : x.booking = c /\ \A q \in Relays : x \notin drain'[q].delivered
    BY <1>2, <1>3, <2>1 DEF OutboxInv, Told
  <2> QED BY <2>2 DEF Told
<1> QED BY <1>5, <1>6, <1>7 DEF OutboxInv

\* One replica's batch is replaced.
LEMMA BatchStep ==
  ASSUME OutboxInv, NEW q \in Relays, NEW new \in Batch, drain' = [drain EXCEPT ![q] = new],
         UNCHANGED booking, events' \subseteq events, new.claimed \subseteq events',
         new.todo \cup new.delivered \subseteq new.claimed,
         \A r \in Relays \ {q} : /\ drain[r].claimed \subseteq events'
                                 /\ drain[r].claimed \cap new.claimed = {},
         unseen' \subseteq unseen,
         \A e \in events : e.booking \in unseen' /\ (\A r \in Relays : e \notin drain[r].delivered)
                             => e \in events' /\ e \notin new.delivered
  PROVE  OutboxInv'
<1>1. \A r \in Relays : drain'[r] = IF r = q THEN new ELSE drain[r]
  BY DEF OutboxInv, OutboxTyped
<1>2. IsFiniteSet(events')
  BY FS_Subset DEF OutboxInv, OutboxTyped
<1>3. OutboxTyped'
  BY <1>2 DEF OutboxInv, OutboxTyped
<1>4. BatchesApart'
  BY <1>1 DEF OutboxInv, BatchesApart
<1>5. ASSUME NEW c \in unseen'
      PROVE  \E x \in events' : x.booking = c /\ \A r \in Relays : x \notin drain'[r].delivered
  <2>1. PICK x \in events : x.booking = c /\ \A r \in Relays : x \notin drain[r].delivered
    BY DEF OutboxInv, Told
  <2> QED BY <1>1, <2>1
<1>6. Told'
  BY <1>5 DEF Told
<1> QED BY <1>3, <1>4, <1>6 DEF OutboxInv

LEMMA ClaimStep ==
  ASSUME OutboxInv, NEW q \in Relays, DrainClaim(q) PROVE OutboxInv'
<1>1. PICK batch \in SUBSET (events \ HeldByPeers) :
        drain' = [drain EXCEPT ![q] = [claimed |-> batch, todo |-> batch, delivered |-> {}]]
  BY DEF DrainClaim, kSubset
<1> DEFINE new == [claimed |-> batch, todo |-> batch, delivered |-> {}]
<1>2. batch \subseteq Event /\ batch \subseteq events
  BY DEF OutboxInv, OutboxTyped
<1>3. new \in Batch /\ new.claimed = batch /\ new.todo = batch /\ new.delivered = {}
  BY <1>2 DEF Batch
<1>4. drain' = [drain EXCEPT ![q] = new]
  BY <1>1
<1>5. \A r \in Relays : drain[r].claimed \subseteq events /\ drain[r].claimed \cap batch = {}
  BY DEF HeldByPeers, OutboxInv, BatchesApart
<1>6. UNCHANGED <<booking, rooms, events, unseen>>
  BY DEF DrainClaim
<1> HIDE DEF new
<1> QED BY <1>2, <1>3, <1>4, <1>5, <1>6, BatchStep

LEMMA ReturnStep ==
  ASSUME OutboxInv, NEW q \in Relays, DrainCommit(q) \/ DrainCrash(q) PROVE OutboxInv'
<1>1. NoBatch \in Batch /\ NoBatch.claimed = {} /\ NoBatch.todo = {} /\ NoBatch.delivered = {}
  BY DEF NoBatch, Batch
<1>2. /\ drain' = [drain EXCEPT ![q] = NoBatch] /\ UNCHANGED <<booking, unseen>>
      /\ events' = events \ drain[q].delivered \/ events' = events
  BY DEF DrainCommit, DrainCrash
<1>3. \A r \in Relays \ {q} : drain[r].claimed \subseteq events'
  BY <1>2 DEF OutboxInv, BatchesApart
<1>4. \A e \in events : (\A r \in Relays : e \notin drain[r].delivered) => e \in events'
  BY <1>2
<1> QED BY <1>1, <1>2, <1>3, <1>4, BatchStep

LEMMA PublishStep ==
  ASSUME OutboxInv, NEW q \in Relays, NEW e \in drain[q].todo, PublishEvent(q, e)
  PROVE  OutboxInv'
<1> DEFINE Dropped == [drain[q] EXCEPT !.todo = @ \ {e}]
           Marked  == [drain[q] EXCEPT !.todo = @ \ {e}, !.delivered = @ \cup {e}]
<1>1. /\ UNCHANGED <<booking, rooms, events>>
      /\ \/ Published(q, e, FALSE) /\ Redraw(e)
         \/ Published(q, e, TRUE) /\ UNCHANGED unseen
  BY DEF PublishEvent
<1>2. /\ drain[q] \in Batch /\ e \in Event /\ e \in drain[q].claimed
      /\ drain[q].claimed \subseteq events
      /\ drain[q].todo \cup drain[q].delivered \subseteq drain[q].claimed
  BY DEF OutboxInv, OutboxTyped, BatchesApart, Batch
<1>3. \A r \in Relays \ {q} : /\ drain[r].claimed \subseteq events
                              /\ drain[r].claimed \cap drain[q].claimed = {}
  BY DEF OutboxInv, BatchesApart
<1>4. CASE Published(q, e, FALSE) /\ Redraw(e)
  <2>1. drain' = [drain EXCEPT ![q] = Marked]
    BY <1>4 DEF Published
  <2>2. /\ Marked \in Batch /\ Marked.claimed = drain[q].claimed
        /\ Marked.todo = drain[q].todo \ {e} /\ Marked.delivered = drain[q].delivered \cup {e}
    BY <1>2 DEF Batch
  <2> HIDE DEF Marked
  <2>3. unseen' \subseteq unseen /\ e.booking \notin unseen'
    BY <1>4 DEF Redraw
  <2>4. \A x \in events : x.booking \in unseen' /\ (\A r \in Relays : x \notin drain[r].delivered)
                            => x \in events' /\ x \notin Marked.delivered
    BY <1>1, <2>2, <2>3
  <2>5. /\ Marked.claimed \subseteq events' /\ Marked.todo \cup Marked.delivered \subseteq Marked.claimed
        /\ \A r \in Relays \ {q} : /\ drain[r].claimed \subseteq events'
                                    /\ drain[r].claimed \cap Marked.claimed = {}
    BY <1>1, <1>2, <1>3, <2>2
  <2>6. UNCHANGED booking /\ events' \subseteq events
    BY <1>1
  <2> QED BY <2>1, <2>2, <2>3, <2>4, <2>5, <2>6, BatchStep
<1>5. CASE Published(q, e, TRUE) /\ UNCHANGED unseen
  <2>1. drain' = [drain EXCEPT ![q].todo = @ \ {e}, ![q].delivered = @]
    BY <1>5, Zenon DEF Published
  <2>3. /\ Dropped \in Batch /\ Dropped.claimed = drain[q].claimed
        /\ Dropped.todo = drain[q].todo \ {e} /\ Dropped.delivered = drain[q].delivered
    BY <1>2 DEF Batch
  <2>4. drain' = [drain EXCEPT ![q] = Dropped]
    BY <1>2, <2>1 DEF OutboxInv, OutboxTyped, Batch
  <2> HIDE DEF Dropped
  <2>5. /\ Dropped.claimed \subseteq events' /\ Dropped.todo \cup Dropped.delivered \subseteq Dropped.claimed
        /\ \A r \in Relays \ {q} : /\ drain[r].claimed \subseteq events'
                                    /\ drain[r].claimed \cap Dropped.claimed = {}
    BY <1>1, <1>2, <1>3, <2>3
  <2>6. UNCHANGED <<booking, unseen>> /\ events' \subseteq events
    BY <1>1, <1>5
  <2>7. \A x \in events : x.booking \in unseen' /\ (\A r \in Relays : x \notin drain[r].delivered)
                            => x \in events' /\ x \notin Dropped.delivered
    BY <1>1, <2>3
  <2> QED BY <2>3, <2>4, <2>5, <2>6, <2>7, BatchStep
<1> QED BY <1>1, <1>4, <1>5

-----------------------------------------------------------------------------
\* The invariant behind the two properties of deliveries, reservation by
\* reservation: which deliveries were acted on, and by which call.
Active(c) == c.phase # "idle"

\* A call at work is the only one on its reference, has an open receipt, and
\* knows the reservation that was made for it, if any.
CallsOwn ==
  /\ \A p \in Calls : Active(call[p]) =>
       /\ call[p].ref \in Refs
       /\ receipt[call[p].ref].status = "RECEIVED"
       /\ \A b \in Bookings : booking[b].ref = call[p].ref
                                <=> call[p].phase = "confirm" /\ b = call[p].booking
       /\ call[p].phase = "confirm" => call[p].booking \in Bookings
  /\ \A p, r \in Calls : p # r /\ Active(call[p]) /\ Active(call[r]) => call[p].ref # call[r].ref

\* What the reservations and the receipts say of each other.
ReceiptsAgree ==
  /\ \A b \in Bookings : booking[b].status = "NONE" => booking[b].ref = NoRef
  /\ \A b \in Bookings, d \in Refs :
       booking[b].ref = d => receipt[d].status \notin {"NONE", "REJECTED"}
  /\ \A b, c \in Bookings, d \in Refs : booking[b].ref = d /\ booking[c].ref = d => b = c
  /\ \A d \in Refs : receipt[d].status = "CONFIRMED" =>
       receipt[d].booking \in Bookings /\ booking[receipt[d].booking].ref = d
  /\ \A d \in Refs \ hurt : receipt[d].status = "RECEIVED" =>
       \E p \in Calls : Active(call[p]) /\ call[p].ref = d

InboundInv == InboundTyped /\ CallsOwn /\ ReceiptsAgree
ChannelInv == OutboxInv /\ InboundInv

\* A step the deliveries do not notice.
Quiet ==
  /\ UNCHANGED inboundVars
  /\ \A b \in Bookings : /\ booking'[b].ref = booking[b].ref
                         /\ booking'[b].status = "NONE" => booking[b].status = "NONE"

LEMMA QuietKeeps ==
  ASSUME InboundInv, Quiet PROVE InboundInv'
<1>1. UNCHANGED <<receipt, call, hurt>>
  BY DEF Quiet, inboundVars
<1>2. InboundTyped'
  BY <1>1 DEF InboundInv, InboundTyped
<1>3. CallsOwn'
  BY <1>1 DEF InboundInv, CallsOwn, Quiet, Active
<1>4. ReceiptsAgree'
  BY <1>1 DEF InboundInv, ReceiptsAgree, Quiet, Active
<1> QED BY <1>2, <1>3, <1>4 DEF InboundInv

LEMMA IdleStep ==
  ASSUME OutboxInv, UNCHANGED <<booking, events, drain, unseen>>
  PROVE  OutboxInv'
BY DEF OutboxInv, OutboxTyped, BatchesApart, Told

LEMMA HoldStep ==
  ASSUME OutboxInv, NEW b \in Bookings, NEW nights \in SUBSET Nights,
         NEW ref \in Refs \cup {NoRef}, Hold(b, nights, ref), UNCHANGED drain
  PROVE  /\ OutboxInv' /\ booking[b].status = "NONE"
         /\ \A c \in Bookings : booking'[c] = IF c = b THEN [status |-> "HELD", nights |-> nights, ref |-> ref]
                                              ELSE booking[c]
<1>1. /\ booking[b].status = "NONE" /\ Emit("created", b, {})
      /\ booking' = [booking EXCEPT ![b] = [status |-> "HELD", nights |-> nights, ref |-> ref]]
  BY DEF Hold
<1>2. booking \in [Bookings -> Booking]
  BY DEF OutboxInv, OutboxTyped
<1>3. booking' \in [Bookings -> Booking]
  BY <1>1, <1>2 DEF Booking
<1>4. "created" \in EventTypes /\ {} \in SUBSET Nights
  BY DEF EventTypes
<1>5. OutboxInv'
  BY <1>1, <1>3, <1>4, EmitStep
<1> QED BY <1>1, <1>2, <1>5

LEMMA SpansAreNights == \A nights \in Spans : nights \in SUBSET Nights
BY OutboxAssumption DEF Spans, Nights

LEMMA ReleaseStep ==
  ASSUME OutboxInv, NEW b \in Bookings, NEW type \in EventTypes,
         NEW status \in {"CANCELLED", "NO_SHOW"}, Release(b, status, type), UNCHANGED drain,
         UNCHANGED inboundVars
  PROVE  OutboxInv' /\ Quiet
<1>1. /\ Emit(type, b, {})
      /\ booking' = [booking EXCEPT ![b].status = status]
  BY DEF Release
<1>2. booking \in [Bookings -> Booking]
  BY DEF OutboxInv, OutboxTyped
<1>3. booking' \in [Bookings -> Booking]
  BY <1>1, <1>2 DEF Booking
<1>4. OutboxInv'
  BY <1>1, <1>3, EmitStep
<1>5. Quiet
  BY <1>1, <1>2 DEF Quiet, Booking
<1> QED BY <1>4, <1>5

LEMMA ModifyStep ==
  ASSUME OutboxInv, NEW b \in Bookings, NEW nights \in SUBSET Nights, ModifyDates(b, nights),
         UNCHANGED inboundVars
  PROVE  OutboxInv' /\ Quiet
<1>1. /\ Emit("modified", b, booking[b].nights) /\ UNCHANGED drain
      /\ booking' = [booking EXCEPT ![b].nights = nights]
  BY DEF ModifyDates
<1>2. booking \in [Bookings -> Booking]
  BY DEF OutboxInv, OutboxTyped
<1>3. booking' \in [Bookings -> Booking] /\ booking[b].nights \in SUBSET Nights
  BY <1>1, <1>2 DEF Booking
<1>4. "modified" \in EventTypes
  BY DEF EventTypes
<1>5. OutboxInv'
  BY <1>1, <1>3, <1>4, EmitStep
<1>6. Quiet
  BY <1>1, <1>2 DEF Quiet, Booking
<1> QED BY <1>5, <1>6

LEMMA DeskStep ==
  ASSUME ChannelInv, Desk PROVE OutboxInv' /\ Quiet
<1>1. OutboxInv /\ UNCHANGED inboundVars
  BY DEF ChannelInv, Desk
<1>2. PICK b \in Bookings :
        \/ \E nights \in Spans \ {{}} : Hold(b, nights, NoRef) /\ UNCHANGED <<rooms, drain, faults>>
        \/ \E nights \in Spans : ModifyDates(b, nights)
        \/ Cancel(b)
  BY DEF Desk
<1>3. ASSUME NEW nights \in Spans \ {{}}, Hold(b, nights, NoRef), UNCHANGED <<drain, faults>>
      PROVE  OutboxInv' /\ Quiet
  <2>1. nights \in SUBSET Nights
    BY <1>3, SpansAreNights
  <2>2. /\ OutboxInv' /\ booking[b].status = "NONE"
        /\ \A c \in Bookings : booking'[c] = IF c = b THEN [status |-> "HELD", nights |-> nights, ref |-> NoRef]
                                             ELSE booking[c]
    BY <1>1, <1>3, <2>1, HoldStep
  <2>3. booking[b].ref = NoRef
    BY <2>2 DEF ChannelInv, InboundInv, ReceiptsAgree
  <2>4. Quiet
    BY <1>1, <2>2, <2>3 DEF Quiet
  <2> QED BY <2>2, <2>4
<1>4. ASSUME NEW nights \in Spans, ModifyDates(b, nights) PROVE OutboxInv' /\ Quiet
  BY <1>1, <1>4, SpansAreNights, ModifyStep
<1>5. CASE Cancel(b)
  <2>1. Release(b, "CANCELLED", "cancelled") /\ UNCHANGED drain /\ "cancelled" \in EventTypes
    BY <1>5 DEF Cancel, EventTypes
  <2> QED BY <1>1, <2>1, ReleaseStep
<1> QED BY <1>2, <1>3, <1>4, <1>5

LEMMA RelayStep ==
  ASSUME ChannelInv, Relay PROVE OutboxInv' /\ Quiet
<1>1. OutboxInv /\ UNCHANGED inboundVars
  BY DEF ChannelInv, Relay
<1>2. PICK q \in Relays : DrainClaim(q) \/ DrainCommit(q) \/ DrainCrash(q)
  BY DEF Relay
<1>3. UNCHANGED booking
  BY <1>2 DEF DrainClaim, DrainCommit, DrainCrash
<1>4. OutboxInv'
  BY <1>1, <1>2, ClaimStep, ReturnStep
<1> QED BY <1>1, <1>3, <1>4 DEF Quiet

LEMMA ChannelStep ==
  ASSUME ChannelInv, SyncNext, UNCHANGED inboundVars PROVE OutboxInv' /\ Quiet
<1>1. OutboxInv
  BY DEF ChannelInv
<1>2. CASE UNCHANGED <<booking, events, drain, unseen>>
  BY <1>1, <1>2, IdleStep DEF Quiet
<1>3. ASSUME NEW q \in Relays, NEW e \in drain[q].todo, PublishEvent(q, e)
      PROVE  OutboxInv' /\ Quiet
  <2>1. UNCHANGED booking
    BY <1>3 DEF PublishEvent
  <2> QED BY <1>1, <1>3, <2>1, PublishStep DEF Quiet
<1>4. ASSUME NEW b \in Bookings, NoShow(b) PROVE OutboxInv' /\ Quiet
  <2>1. Release(b, "NO_SHOW", "no_show") /\ UNCHANGED drain /\ "no_show" \in EventTypes
    BY <1>4 DEF NoShow, EventTypes
  <2> QED BY <1>1, <2>1, ReleaseStep
<1>5. ASSUME NEW s \in Syncers,
             \/ SyncClaim(s) \/ PushAri(s) \/ PushFails(s) \/ SyncCommit(s) \/ SyncCrash(s)
             \/ \E r \in sync[s].rows : SkipPush(s, r) \/ BuildAri(s, r)
      PROVE  UNCHANGED <<booking, events, drain, unseen>>
  BY <1>5 DEF SyncClaim, PushAri, PushFails, SyncCommit, SyncCrash, SkipPush, BuildAri, outboxVars
<1>6. ASSUME NEW c \in Channels,
             \/ Connect(c) \/ MapRatePlan(c) \/ Resync(c)
             \/ \E on \in BOOLEAN : SetEnabled(c, on)
             \/ \E t \in RoomTypes, x \in Codes : MapRoomType(c, t, x)
      PROVE  UNCHANGED <<booking, events, drain, unseen>>
  BY <1>6 DEF Connect, MapRatePlan, Resync, SetEnabled, MapRoomType, outboxVars
<1>7. BackoffElapses => UNCHANGED <<booking, events, drain, unseen>>
  BY DEF BackoffElapses, outboxVars
<1>8. ASSUME NEW t \in RoomTypes, NEW onSale, ChangeRoomStatus(t, onSale)
      PROVE  UNCHANGED <<booking, events, drain, unseen>>
  BY <1>8 DEF ChangeRoomStatus
<1> QED BY <1>2, <1>3, <1>4, <1>5, <1>6, <1>7, <1>8 DEF SyncNext

-----------------------------------------------------------------------------
(* The steps of a delivery.                                                *)

\* A call reports: its receipt gets an outcome that agrees with what it made.
LEMMA OutcomeStep ==
  ASSUME ChannelInv, NEW p \in Calls, Confirm(p) \/ Reject(p) PROVE ChannelInv'
<1> DEFINE d == call[p].ref
<1>1. /\ OutboxInv /\ InboundTyped /\ CallsOwn /\ ReceiptsAgree /\ Active(call[p]) /\ d \in Refs
      /\ receipt \in [Refs -> Receipt] /\ call \in [Calls -> CallOf]
  BY DEF ChannelInv, InboundInv, InboundTyped, CallsOwn, Confirm, Reject, Active
<1>2. /\ UNCHANGED <<booking, rooms, events, drain, unseen, hurt>>
      /\ call' = [call EXCEPT ![p] = NoCall]
  BY DEF Confirm, Reject, Return, outboxVars
<1>3. NoCall \in CallOf /\ ~Active(NoCall)
  BY DEF NoCall, CallOf, Active
<1>4. OutboxInv'
  BY <1>1, <1>2, IdleStep
<1>5. PICK new \in Receipt :
        /\ receipt' = [receipt EXCEPT ![d] = new]
        /\ \/ /\ call[p].phase = "confirm"
              /\ new.status = "CONFIRMED" /\ new.booking = call[p].booking
           \/ call[p].phase = "reject" /\ new.status = "REJECTED"
  <2>1. CASE Confirm(p)
    <3>1. /\ call[p].phase = "confirm" /\ receipt' = [receipt EXCEPT ![d] = Confirmed(p)]
      BY <2>1 DEF Confirm
    <3>2. Confirmed(p) \in Receipt
      BY <1>1, <3>1 DEF Confirmed, Receipt, CallsOwn
    <3> QED BY <3>1, <3>2 DEF Confirmed
  <2>2. CASE Reject(p)
    <3>1. call[p].phase = "reject" /\ receipt' = [receipt EXCEPT ![d] = [receipt[d] EXCEPT !.status = "REJECTED"]]
      BY <2>2, <1>1 DEF Reject
    <3>2. receipt[d] \in Receipt
      BY <1>1
    <3>3. [receipt[d] EXCEPT !.status = "REJECTED"] \in Receipt
      BY <3>2 DEF Receipt
    <3> QED BY <3>1, <3>2, <3>3 DEF Receipt
  <2> QED BY <2>1, <2>2
<1>6. /\ \A r \in Calls : call'[r] = IF r = p THEN NoCall ELSE call[r]
      /\ \A x \in Refs : receipt'[x] = IF x = d THEN new ELSE receipt[x]
  BY <1>1, <1>2, <1>5
<1>7. InboundTyped'
  BY <1>1, <1>2, <1>3, <1>5 DEF InboundTyped
<1>8. CallsOwn'
  <2>1. ASSUME NEW r \in Calls, Active(call'[r])
        PROVE  r # p /\ call'[r] = call[r] /\ Active(call[r]) /\ call[r].ref # d
    BY <1>1, <1>3, <1>6, <2>1 DEF CallsOwn
  <2>2. ASSUME NEW r \in Calls, Active(call'[r])
        PROVE  /\ call'[r].ref \in Refs
               /\ receipt'[call'[r].ref].status = "RECEIVED"
               /\ \A b \in Bookings : booking'[b].ref = call'[r].ref
                                        <=> call'[r].phase = "confirm" /\ b = call'[r].booking
               /\ call'[r].phase = "confirm" => call'[r].booking \in Bookings
    BY <1>1, <1>2, <1>6, <2>1, <2>2 DEF CallsOwn
  <2>3. ASSUME NEW q \in Calls, NEW r \in Calls, q # r, Active(call'[q]), Active(call'[r])
        PROVE  call'[q].ref # call'[r].ref
    BY <1>1, <2>1, <2>3 DEF CallsOwn
  <2> QED BY <2>2, <2>3 DEF CallsOwn, Active
<1>9. ReceiptsAgree'
  <2>1. \A b \in Bookings : booking[b].ref = d <=> call[p].phase = "confirm" /\ b = call[p].booking
    BY <1>1 DEF CallsOwn
  <2>2. call[p].phase = "confirm" => call[p].booking \in Bookings
    BY <1>1 DEF CallsOwn
  <2>3. ASSUME NEW b \in Bookings, NEW x \in Refs, booking'[b].ref = x
        PROVE  receipt'[x].status \notin {"NONE", "REJECTED"}
    BY <1>1, <1>2, <1>5, <1>6, <2>1, <2>3 DEF ReceiptsAgree
  <2>4. ASSUME NEW x \in Refs, receipt'[x].status = "CONFIRMED"
        PROVE  receipt'[x].booking \in Bookings /\ booking'[receipt'[x].booking].ref = x
    BY <1>1, <1>2, <1>5, <1>6, <2>1, <2>2, <2>4 DEF ReceiptsAgree
  <2>5. ASSUME NEW x \in Refs \ hurt', receipt'[x].status = "RECEIVED"
        PROVE  \E r \in Calls : Active(call'[r]) /\ call'[r].ref = x
    <3>1. x # d /\ receipt[x].status = "RECEIVED" /\ x \in Refs \ hurt
      BY <1>2, <1>5, <1>6, <2>5
    <3>2. PICK r \in Calls : Active(call[r]) /\ call[r].ref = x
      BY <1>1, <3>1 DEF ReceiptsAgree
    <3>3. r # p
      BY <3>1, <3>2
    <3> QED BY <1>6, <3>2, <3>3
  <2>6. /\ \A b \in Bookings : booking'[b].status = "NONE" => booking'[b].ref = NoRef
        /\ \A b, c \in Bookings, x \in Refs : booking'[b].ref = x /\ booking'[c].ref = x => b = c
    BY <1>1, <1>2 DEF ReceiptsAgree
  <2> QED BY <2>3, <2>4, <2>5, <2>6 DEF ReceiptsAgree, Active
<1> QED BY <1>4, <1>7, <1>8, <1>9 DEF ChannelInv, InboundInv

\* A delivery is taken up by an idle call.
LEMMA ReceiptStep ==
  ASSUME ChannelInv, NEW p \in Calls, NEW d \in Refs, RecordReceipt(p, d) PROVE ChannelInv'
<1> DEFINE new == [NoCall EXCEPT !.phase = "resolve", !.ref = d]
           open == [status |-> "RECEIVED", booking |-> NoRef]
<1>1. /\ OutboxInv /\ InboundTyped /\ CallsOwn /\ ReceiptsAgree
      /\ receipt \in [Refs -> Receipt] /\ call \in [Calls -> CallOf]
  BY DEF ChannelInv, InboundInv, InboundTyped
<1>2. /\ UNCHANGED <<booking, rooms, events, drain, unseen, hurt>>
      /\ ~Active(call[p]) /\ receipt[d].status = "NONE"
      /\ receipt' = [receipt EXCEPT ![d] = open] /\ call' = [call EXCEPT ![p] = new]
  BY DEF RecordReceipt, FirstDelivery, Active, outboxVars
<1>3. new \in CallOf /\ Active(new) /\ new.ref = d /\ new.phase = "resolve"
  BY DEF NoCall, CallOf, Active
<1>4. open \in Receipt /\ open.status = "RECEIVED"
  BY DEF Receipt
<1> HIDE DEF new, open
<1>5. OutboxInv'
  BY <1>1, <1>2, IdleStep
<1>6. /\ \A r \in Calls : call'[r] = IF r = p THEN new ELSE call[r]
      /\ \A x \in Refs : receipt'[x] = IF x = d THEN open ELSE receipt[x]
  BY <1>1, <1>2
<1>7. InboundTyped'
  BY <1>1, <1>2, <1>3, <1>4 DEF InboundTyped
<1>8. \A b \in Bookings : booking[b].ref # d
  BY <1>1, <1>2 DEF ReceiptsAgree
<1>9. \A r \in Calls : Active(call[r]) => r # p /\ call[r].ref # d
  BY <1>1, <1>2 DEF CallsOwn
<1>10. CallsOwn'
  <2>1. ASSUME NEW r \in Calls, Active(call'[r])
        PROVE  /\ call'[r].ref \in Refs
               /\ receipt'[call'[r].ref].status = "RECEIVED"
               /\ \A b \in Bookings : booking'[b].ref = call'[r].ref
                                        <=> call'[r].phase = "confirm" /\ b = call'[r].booking
               /\ call'[r].phase = "confirm" => call'[r].booking \in Bookings
    <3>1. CASE r = p
      BY <1>2, <1>3, <1>4, <1>6, <1>8, <3>1
    <3>2. CASE r # p
      BY <1>1, <1>2, <1>6, <1>9, <2>1, <3>2 DEF CallsOwn
    <3> QED BY <3>1, <3>2
  <2>2. ASSUME NEW q \in Calls, NEW r \in Calls, q # r, Active(call'[q]), Active(call'[r])
        PROVE  call'[q].ref # call'[r].ref
    BY <1>1, <1>3, <1>6, <1>9, <2>2 DEF CallsOwn
  <2> QED BY <2>1, <2>2 DEF CallsOwn, Active
<1>11. ReceiptsAgree'
  <2>1. ASSUME NEW x \in Refs \ hurt', receipt'[x].status = "RECEIVED"
        PROVE  \E r \in Calls : Active(call'[r]) /\ call'[r].ref = x
    <3>1. CASE x = d
      BY <1>3, <1>6, <3>1
    <3>2. CASE x # d
      <4>1. PICK r \in Calls : Active(call[r]) /\ call[r].ref = x
        BY <1>1, <1>2, <1>6, <2>1, <3>2 DEF ReceiptsAgree
      <4> QED BY <1>6, <1>9, <4>1
    <3> QED BY <3>1, <3>2
  <2>2. ASSUME NEW x \in Refs, receipt'[x].status = "CONFIRMED"
        PROVE  receipt'[x].booking \in Bookings /\ booking'[receipt'[x].booking].ref = x
    BY <1>1, <1>2, <1>4, <1>6, <2>2 DEF ReceiptsAgree
  <2>3. ASSUME NEW b \in Bookings, NEW x \in Refs, booking'[b].ref = x
        PROVE  receipt'[x].status \notin {"NONE", "REJECTED"}
    BY <1>1, <1>2, <1>4, <1>6, <2>3 DEF ReceiptsAgree
  <2>4. /\ \A b \in Bookings : booking'[b].status = "NONE" => booking'[b].ref = NoRef
        /\ \A b, c \in Bookings, x \in Refs : booking'[b].ref = x /\ booking'[c].ref = x => b = c
    BY <1>1, <1>2 DEF ReceiptsAgree
  <2> QED BY <2>1, <2>2, <2>3, <2>4 DEF ReceiptsAgree, Active
<1> QED BY <1>5, <1>7, <1>10, <1>11 DEF ChannelInv, InboundInv

\* A call looks up the mapping or finds the house full: nothing was made yet.
LEMMA LookupStep ==
  ASSUME ChannelInv, NEW p \in Calls, ResolveMapping(p) \/ NoRoom(p) PROVE ChannelInv'
<1>1. /\ OutboxInv /\ InboundTyped /\ CallsOwn /\ ReceiptsAgree
      /\ receipt \in [Refs -> Receipt] /\ call \in [Calls -> CallOf]
  BY DEF ChannelInv, InboundInv, InboundTyped
<1>2. /\ UNCHANGED <<booking, rooms, events, drain, unseen, hurt, receipt>>
      /\ call[p].phase \in {"resolve", "create"}
  BY DEF ResolveMapping, NoRoom, outboxVars
<1>3. OutboxInv'
  BY <1>1, <1>2, IdleStep
<1>4. PICK new \in CallOf :
        call' = [call EXCEPT ![p] = new] /\ new.phase \in {"create", "reject"} /\ new.ref = call[p].ref
  <2>1. CASE call' = [call EXCEPT ![p].phase = "reject"]
    <3> DEFINE new == [call[p] EXCEPT !.phase = "reject"]
    <3>1. call[p] \in CallOf
      BY <1>1
    <3>2. new \in CallOf /\ new.phase = "reject" /\ new.ref = call[p].ref
      BY <3>1 DEF CallOf
    <3>3. call' = [call EXCEPT ![p] = new]
      BY <1>1, <2>1
    <3> HIDE DEF new
    <3> QED BY <3>2, <3>3
  <2>2. ASSUME NEW t \in RoomTypes, call' = [call EXCEPT ![p].phase = "create", ![p].type = t]
        PROVE  \E new \in CallOf : /\ call' = [call EXCEPT ![p] = new]
                                   /\ new.phase \in {"create", "reject"} /\ new.ref = call[p].ref
    <3> DEFINE new == [call[p] EXCEPT !.phase = "create", !.type = t]
    <3>1. call[p] \in CallOf
      BY <1>1
    <3>2. new \in CallOf /\ new.phase = "create" /\ new.ref = call[p].ref
      BY <3>1 DEF CallOf
    <3>3. call' = [call EXCEPT ![p] = new]
      BY <1>1, <2>2
    <3> HIDE DEF new
    <3> QED BY <3>2, <3>3
  <2>3. \/ call' = [call EXCEPT ![p].phase = "reject"]
        \/ \E t \in RoomTypes : call' = [call EXCEPT ![p].phase = "create", ![p].type = t]
    <3>1. CASE NoRoom(p)
      BY <3>1 DEF NoRoom, Goto
    <3>2. CASE ResolveMapping(p)
      <4>1. \A t \in MappedTypes(call[p].ref) : t \in RoomTypes
        BY DEF MappedTypes
      <4> QED BY <3>2, <4>1, Zenon DEF ResolveMapping, Goto
    <3> QED BY <3>1, <3>2
  <2> QED BY <2>1, <2>2, <2>3
<1>5. \A r \in Calls : /\ Active(call'[r]) <=> Active(call[r])
                       /\ call'[r].ref = call[r].ref
                       /\ r # p => call'[r] = call[r]
  BY <1>1, <1>2, <1>4 DEF Active
<1>6. call'[p].phase \in {"create", "reject"} /\ Active(call[p]) /\ call[p].phase # "confirm"
  BY <1>1, <1>2, <1>4 DEF Active
<1>7. InboundTyped'
  BY <1>1, <1>2, <1>4 DEF InboundTyped
<1>8. CallsOwn'
  BY <1>1, <1>2, <1>5, <1>6 DEF CallsOwn, Active
<1>9. ReceiptsAgree'
  <2>1. ASSUME NEW x \in Refs \ hurt', receipt'[x].status = "RECEIVED"
        PROVE  \E r \in Calls : Active(call'[r]) /\ call'[r].ref = x
    <3>1. PICK r \in Calls : Active(call[r]) /\ call[r].ref = x
      BY <1>1, <1>2, <2>1 DEF ReceiptsAgree
    <3> QED BY <1>5, <3>1
  <2> QED BY <1>1, <1>2, <2>1 DEF ReceiptsAgree, Active
<1> QED BY <1>3, <1>7, <1>8, <1>9 DEF ChannelInv, InboundInv

\* The reservation is made: a new row, which carries the call's reference.
LEMMA CreateStep ==
  ASSUME ChannelInv, NEW p \in Calls, CreateReservation(p) PROVE ChannelInv'
<1> DEFINE d == call[p].ref
<1>1. /\ OutboxInv /\ InboundTyped /\ CallsOwn /\ ReceiptsAgree /\ Active(call[p]) /\ d \in Refs
      /\ receipt \in [Refs -> Receipt] /\ call \in [Calls -> CallOf]
  BY DEF ChannelInv, InboundInv, InboundTyped, CallsOwn, CreateReservation, Active
<1>2. PICK b \in Bookings :
        /\ Hold(b, RefOf[d].nights, d)
        /\ call' = [call EXCEPT ![p].phase = "confirm", ![p].booking = b]
  BY DEF CreateReservation
<1>3. UNCHANGED <<drain, receipt, hurt>> /\ call[p].phase = "create"
  BY DEF CreateReservation
<1>4. RefOf[d].nights \in SUBSET Nights
  BY <1>1, SpansAreNights, InboundAssumption
<1>5. PICK nights \in SUBSET Nights :
        /\ OutboxInv' /\ booking[b].status = "NONE"
        /\ \A c \in Bookings : booking'[c] = IF c = b THEN [status |-> "HELD", nights |-> nights, ref |-> d]
                                             ELSE booking[c]
  BY <1>1, <1>2, <1>3, <1>4, HoldStep
<1>6. booking[b].ref = NoRef /\ d # NoRef
  BY <1>1, <1>5, InboundAssumption DEF ReceiptsAgree
<1>7. \A c \in Bookings : /\ booking'[c].ref = IF c = b THEN d ELSE booking[c].ref
                          /\ booking'[c].status = IF c = b THEN "HELD" ELSE booking[c].status
  BY <1>5
<1>8. \A r \in Calls : /\ r # p => call'[r] = call[r]
                       /\ Active(call'[r]) <=> Active(call[r])
                       /\ call'[r].ref = call[r].ref
  BY <1>1, <1>2 DEF Active, CallOf
<1>9. call'[p].phase = "confirm" /\ call'[p].booking = b /\ call'[p] \in CallOf
  BY <1>1, <1>2 DEF CallOf
<1>10. InboundTyped'
  BY <1>1, <1>2, <1>3, <1>9 DEF InboundTyped
<1>11. \A c \in Bookings : booking[c].ref # d
  BY <1>1, <1>3 DEF CallsOwn
<1>12. receipt[d].status = "RECEIVED"
  BY <1>1 DEF CallsOwn
<1>13. CallsOwn'
  <2>1. ASSUME NEW r \in Calls, Active(call'[r])
        PROVE  /\ call'[r].ref \in Refs
               /\ receipt'[call'[r].ref].status = "RECEIVED"
               /\ \A c \in Bookings : booking'[c].ref = call'[r].ref
                                        <=> call'[r].phase = "confirm" /\ c = call'[r].booking
               /\ call'[r].phase = "confirm" => call'[r].booking \in Bookings
    <3>1. CASE r = p
      BY <1>1, <1>3, <1>7, <1>8, <1>9, <1>11, <1>12, <3>1
    <3>2. CASE r # p
      <4>1. call'[r] = call[r] /\ Active(call[r]) /\ call[r].ref # d
        BY <1>1, <1>8, <2>1, <3>2 DEF CallsOwn
      <4>2. /\ call[r].ref \in Refs /\ receipt[call[r].ref].status = "RECEIVED"
            /\ \A c \in Bookings : booking[c].ref = call[r].ref
                                     <=> call[r].phase = "confirm" /\ c = call[r].booking
            /\ call[r].phase = "confirm" => call[r].booking \in Bookings
        BY <1>1, <4>1 DEF CallsOwn
      <4>3. call[r].ref # NoRef
        BY <4>2, InboundAssumption
      <4> QED BY <1>3, <1>6, <1>7, <4>1, <4>2, <4>3
    <3> QED BY <3>1, <3>2
  <2>2. ASSUME NEW q \in Calls, NEW r \in Calls, q # r, Active(call'[q]), Active(call'[r])
        PROVE  call'[q].ref # call'[r].ref
    BY <1>1, <1>8, <2>2 DEF CallsOwn
  <2> QED BY <2>1, <2>2 DEF CallsOwn, Active
<1>14. ReceiptsAgree'
  <2>1. ASSUME NEW x \in Refs, receipt'[x].status = "CONFIRMED"
        PROVE  receipt'[x].booking \in Bookings /\ booking'[receipt'[x].booking].ref = x
    <3>1. x # d /\ receipt[x].booking \in Bookings /\ booking[receipt[x].booking].ref = x /\ x # NoRef
      BY <1>1, <1>3, <1>12, <2>1, InboundAssumption DEF ReceiptsAgree
    <3> QED BY <1>3, <1>6, <1>7, <3>1
  <2>2. ASSUME NEW c \in Bookings, NEW x \in Refs, booking'[c].ref = x
        PROVE  receipt'[x].status \notin {"NONE", "REJECTED"}
    BY <1>1, <1>3, <1>7, <1>12, <2>2 DEF ReceiptsAgree
  <2>3. ASSUME NEW c \in Bookings, NEW g \in Bookings, NEW x \in Refs,
               booking'[c].ref = x, booking'[g].ref = x
        PROVE  c = g
    BY <1>1, <1>7, <1>11, <2>3 DEF ReceiptsAgree
  <2>4. ASSUME NEW c \in Bookings, booking'[c].status = "NONE" PROVE booking'[c].ref = NoRef
    BY <1>1, <1>7, <2>4 DEF ReceiptsAgree
  <2>5. ASSUME NEW x \in Refs \ hurt', receipt'[x].status = "RECEIVED"
        PROVE  \E r \in Calls : Active(call'[r]) /\ call'[r].ref = x
    BY <1>1, <1>3, <1>8, <2>5 DEF ReceiptsAgree
  <2> QED BY <2>1, <2>2, <2>3, <2>4, <2>5 DEF ReceiptsAgree, Active
<1> QED BY <1>5, <1>10, <1>13, <1>14 DEF ChannelInv, InboundInv

\* A delivery is cut short: from then on nobody works on its receipt.
LEMMA FailStep ==
  ASSUME ChannelInv, NEW p \in Calls, CallFails(p) PROVE ChannelInv'
<1>1. /\ OutboxInv /\ InboundTyped /\ CallsOwn /\ ReceiptsAgree
      /\ receipt \in [Refs -> Receipt] /\ call \in [Calls -> CallOf]
  BY DEF ChannelInv, InboundInv, InboundTyped
<1>2. /\ UNCHANGED <<booking, rooms, events, drain, unseen, receipt>>
      /\ hurt' = hurt \cup {call[p].ref} /\ call' = [call EXCEPT ![p] = NoCall]
  BY DEF CallFails
<1>3. NoCall \in CallOf /\ ~Active(NoCall)
  BY DEF NoCall, CallOf, Active
<1>4. OutboxInv'
  BY <1>1, <1>2, IdleStep
<1>5. \A r \in Calls : /\ call'[r] = IF r = p THEN NoCall ELSE call[r]
                       /\ Active(call'[r]) => r # p /\ Active(call[r])
  BY <1>1, <1>2, <1>3
<1>6. InboundTyped'
  BY <1>1, <1>2, <1>3 DEF InboundTyped
<1>7. CallsOwn'
  BY <1>1, <1>2, <1>5 DEF CallsOwn, Active
<1>8. ASSUME NEW x \in Refs \ hurt', receipt'[x].status = "RECEIVED"
      PROVE  \E r \in Calls : Active(call'[r]) /\ call'[r].ref = x
  <2>1. x \in Refs \ hurt /\ x # call[p].ref /\ receipt[x].status = "RECEIVED"
    BY <1>2, <1>8
  <2>2. PICK r \in Calls : Active(call[r]) /\ call[r].ref = x
    BY <1>1, <2>1 DEF ReceiptsAgree
  <2> QED BY <1>5, <2>1, <2>2
<1>9. ReceiptsAgree'
  BY <1>1, <1>2, <1>8 DEF ReceiptsAgree, Active
<1> QED BY <1>4, <1>6, <1>7, <1>9 DEF ChannelInv, InboundInv

-----------------------------------------------------------------------------

LEMMA ChannelInitial == Init => ChannelInv
<1> SUFFICES ASSUME Init PROVE ChannelInv
  OBVIOUS
<1>1. OutboxInv
  BY FS_EmptySet DEF Init, OutboxInit, OutboxInv, OutboxTyped, BatchesApart, Told,
                     NoBooking, NoBatch, Booking, Batch
<1>2. InboundTyped
  BY DEF Init, InboundTyped, NoReceipt, Receipt, NoCall, CallOf
<1>3. CallsOwn
  BY DEF Init, CallsOwn, NoCall, Active
<1>4. ReceiptsAgree
  BY InboundAssumption DEF Init, OutboxInit, ReceiptsAgree, NoReceipt, NoBooking
<1> QED BY <1>1, <1>2, <1>3, <1>4 DEF ChannelInv, InboundInv

LEMMA ChannelNext == ChannelInv /\ [Next]_vars => ChannelInv'
<1> SUFFICES ASSUME ChannelInv, [Next]_vars PROVE ChannelInv'
  OBVIOUS
<1>1. (OutboxInv' /\ Quiet) => ChannelInv'
  BY QuietKeeps DEF ChannelInv
<1>2. CASE Desk
  BY <1>1, <1>2, DeskStep
<1>3. CASE Inbound
  BY <1>3, ReceiptStep, LookupStep, CreateStep, OutcomeStep, FailStep DEF Inbound
<1>4. CASE Relay
  BY <1>1, <1>4, RelayStep
<1>5. CASE SyncNext /\ UNCHANGED inboundVars
  BY <1>1, <1>5, ChannelStep
<1>6. CASE UNCHANGED vars
  <2>1. UNCHANGED inboundVars /\ UNCHANGED <<booking, events, drain, unseen>>
    BY <1>6 DEF vars, outboxVars
  <2>2. OutboxInv'
    BY <2>1, IdleStep DEF ChannelInv
  <2>3. Quiet
    BY <2>1 DEF Quiet
  <2> QED BY <1>1, <2>2, <2>3
<1> QED BY <1>2, <1>3, <1>4, <1>5, <1>6 DEF Next

LEMMA ChannelAlways == Spec => []ChannelInv
BY ChannelInitial, ChannelNext, PTL DEF Spec

\* However channels deliver, and whatever fails, at most one reservation is made
\* for a reference (the unique key of channel_bookings), and its receipt tells
\* the truth about it.
THEOREM DeliveriesAreBookedOnce == Spec => []OneReservationPerDelivery
<1>1. ChannelInv => OneReservationPerDelivery
  <2> SUFFICES ASSUME ChannelInv, NEW d \in Refs
               PROVE  /\ Cardinality(MadeFor(d)) <= 1
                      /\ receipt[d].status = "CONFIRMED" => MadeFor(d) = {receipt[d].booking}
                      /\ receipt[d].status = "REJECTED" => MadeFor(d) = {}
    BY DEF OneReservationPerDelivery
  <2>1. ReceiptsAgree
    BY DEF ChannelInv, InboundInv
  <2>2. MadeFor(d) = {} \/ \E b \in Bookings : MadeFor(d) = {b}
    BY <2>1 DEF ReceiptsAgree, MadeFor
  <2>3. Cardinality(MadeFor(d)) <= 1
    <3>1. CASE MadeFor(d) = {}
      BY <3>1, FS_EmptySet
    <3>2. ASSUME NEW b, MadeFor(d) = {b} PROVE Cardinality(MadeFor(d)) <= 1
      <4>1. Cardinality({b}) = 1
        BY FS_Singleton
      <4> QED BY <3>2, <4>1
    <3> QED BY <2>2, <3>1, <3>2
  <2>4. receipt[d].status = "CONFIRMED" => MadeFor(d) = {receipt[d].booking}
    BY <2>1 DEF ReceiptsAgree, MadeFor
  <2>5. receipt[d].status = "REJECTED" => MadeFor(d) = {}
    BY <2>1 DEF ReceiptsAgree, MadeFor
  <2> QED BY <2>3, <2>4, <2>5
<1> QED BY <1>1, ChannelAlways, PTL

\* A receipt without an outcome is being worked on unless a failure cut the
\* delivery short, and the call that works on it is the one that will confirm
\* the reservation, if there is one.
THEOREM DeliveriesGetAnOutcome == Spec => []NeverHalfHappens
<1>1. ChannelInv => NeverHalfHappens
  <2> SUFFICES ASSUME ChannelInv, NEW d \in Refs \ hurt, receipt[d].status = "RECEIVED"
               PROVE  \E p \in Calls : call[p].ref = d /\ (MadeFor(d) # {} => call[p].phase = "confirm")
    BY DEF NeverHalfHappens
  <2>1. ReceiptsAgree /\ CallsOwn
    BY DEF ChannelInv, InboundInv
  <2>2. PICK p \in Calls : Active(call[p]) /\ call[p].ref = d
    BY <2>1 DEF ReceiptsAgree
  <2>3. \A b \in Bookings : booking[b].ref = d => call[p].phase = "confirm"
    BY <2>1, <2>2 DEF CallsOwn
  <2> QED BY <2>2, <2>3 DEF MadeFor
<1> QED BY <1>1, ChannelAlways, PTL

\* An event is marked only by a relay whose handlers all succeeded, and no two
\* relays hold the same row: while a browser is behind, an event about the
\* booking is still to be delivered, for any number of replicas and crashes.
THEOREM BrowsersAreTold == Spec => []ScreensFollow
<1>1. ChannelInv => ScreensFollow
  BY DEF ChannelInv, OutboxInv, Told, ScreensFollow
<1> QED BY <1>1, ChannelAlways, PTL

-----------------------------------------------------------------------------
\* The nights between the first and the last of a set.

\* A finite range of nights has a first and a last one.
LEMMA FirstAndLast ==
  ASSUME NEW S \in SUBSET Nights, S # {}
  PROVE  /\ \E x \in S : x = Min(S) /\ \A n \in S : x <= n
         /\ \E x \in S : x = Max(S) /\ \A n \in S : n <= x
<1>1. S \in SUBSET Nat /\ LastNight \in Nat /\ \A n \in S : n <= LastNight
  BY OutboxAssumption DEF Nights
<1>2. \E x \in S : x = Min(S) /\ \A n \in S : x <= n
  BY <1>1, MinimumExists
<1> DEFINE above == {k \in Nat : \A n \in S : n <= k}
<1>3. above \in SUBSET Nat /\ above # {}
  BY <1>1
<1>4. PICK m \in above : \A k \in above : m <= k
  BY <1>3, MinimumExists
<1>5. m \in Nat /\ \A n \in S : n <= m
  BY <1>4
<1>6. m \in S
  <2> SUFFICES ASSUME m \notin S PROVE FALSE
    OBVIOUS
  <2>1. \A n \in S : n \in Nat /\ n <= m - 1
    BY <1>1, <1>5
  <2>2. m - 1 \in Nat
    <3>1. PICK n \in S : TRUE
      OBVIOUS
    <3>2. n \in Nat /\ n <= m - 1
      BY <2>1
    <3> QED BY <1>5, <3>2
  <2>3. m - 1 \in above
    BY <2>1, <2>2
  <2>4. m <= m - 1
    BY <1>4, <2>3
  <2> QED BY <1>5, <2>4
<1>7. \E x \in S : \A y \in S : x >= y
  BY <1>1, <1>5, <1>6
<1>8. Max(S) \in S /\ \A y \in S : Max(S) >= y
  BY <1>7, Zenon DEF Max
<1> HIDE DEF above
<1>9. PICK x \in S : x = Max(S) /\ \A y \in S : x >= y
  BY <1>8, Zenon
<1>10. \A y \in S : y <= x
  BY <1>1, <1>9
<1> QED BY <1>2, <1>9, <1>10

LEMMA HullHolds ==
  ASSUME NEW S \in SUBSET Nights, NEW n \in Nights
  PROVE  n \in Hull(S) <=> \E a, b \in S : a <= n /\ n <= b
<1>1. CASE S = {}
  BY <1>1 DEF Hull
<1>2. CASE S # {}
  <2>1. PICK x, y \in S : x = Min(S) /\ y = Max(S) /\ \A k \in S : x <= k /\ k <= y
    BY <1>2, FirstAndLast
  <2>2. n \in Int /\ \A k \in S : k \in Int
    BY OutboxAssumption DEF Nights
  <2>3. Hull(S) = x .. y
    BY <1>2, <2>1 DEF Hull
  <2>4. n \in Hull(S) <=> x <= n /\ n <= y
    BY <2>2, <2>3
  <2> QED BY <2>1, <2>2, <2>4
<1> QED BY <1>1, <1>2

\* A night spanned before is spanned after, by the old event or by the new one,
\* which remembers where the booking was.
LEMMA HullMoves ==
  ASSUME NEW A \in SUBSET Nights, NEW B \in SUBSET Nights, NEW P \in SUBSET Nights, B # {},
         NEW n \in Nights, n \in Hull(A \cup P)
  PROVE  n \in Hull(B \cup P) \/ n \in Hull(B \cup A)
<1>1. PICK a, d \in A \cup P : a <= n /\ n <= d
  BY HullHolds
<1>2. PICK b \in B : TRUE
  OBVIOUS
<1>3. a \in Int /\ d \in Int /\ b \in Int /\ n \in Int
  BY OutboxAssumption DEF Nights
<1>4. b <= n \/ n <= b
  BY <1>3
<1>5. \/ \E x, y \in B \cup P : x <= n /\ n <= y
      \/ \E x, y \in B \cup A : x <= n /\ n <= y
  BY <1>1, <1>2, <1>4
<1> QED BY <1>5, HullHolds

LEMMA HullGrows ==
  ASSUME NEW A \in SUBSET Nights, NEW B \in SUBSET Nights, A \subseteq B, NEW n \in Nights, n \in Hull(A)
  PROVE  n \in Hull(B)
BY HullHolds

-----------------------------------------------------------------------------
\* The queue of pushes: its rows have numbers of their own.

PushRow   == [id : Nat, chan : Channels, type : RoomTypes, nights : SUBSET Nights,
              waiting : BOOLEAN]
Push      == [row : PushRow, code : Codes \cup {NoCode}]
Snapshots == UNION {[nights -> Nat] : nights \in SUBSET Nights}
SyncOf    == [rows : SUBSET PushRow, at : Push \cup {NoRef}, snapshot : Snapshots,
              sent : SUBSET PushRow, failed : SUBSET PushRow]
ChannelOf == [connected : BOOLEAN, enabled : BOOLEAN, code : [RoomTypes -> Codes \cup {NoCode}],
              rate : BOOLEAN]

\* Every row of the queue has a number of its own.
QueueSound ==
  /\ outbound \in SUBSET PushRow
  /\ IsFiniteSet(outbound)
  /\ \A r, u \in outbound : r.id = u.id => r = u

\* There are numbers for the rows of a set of targets that no row of the queue
\* has.
LEMMA NumbersAreFound ==
  ASSUME NEW rows, IsFiniteSet(rows), NEW targets, IsFiniteSet(targets)
  PROVE  \E f \in [targets -> 1 .. (Cardinality(rows) + Cardinality(targets))] :
           /\ \A x, y \in targets : f[x] = f[y] => x = y
           /\ \A x \in targets, r \in rows : f[x] # r.id
<1> DEFINE n == Cardinality(rows)
           m == Cardinality(targets)
           used == {r.id : r \in rows}
           all == 1 .. (n + m)
           free == all \ used
<1>1. n \in Nat /\ m \in Nat
  BY FS_CardinalityType
<1>2. IsFiniteSet(used) /\ Cardinality(used) <= n
  <2> DEFINE g == [r \in rows |-> r.id]
  <2>1. g \in Surjection(rows, used)
    BY DEF Surjection
  <2> HIDE DEF g, used
  <2> QED BY <2>1, FS_Surjection
<1>3. Cardinality(used) \in Nat
  BY <1>2, FS_CardinalityType
<1>4. IsFiniteSet(all) /\ Cardinality(all) = n + m
  <2> DEFINE top == n + m
  <2>1. top \in Nat
    <3> HIDE DEF n, m
    <3> QED BY <1>1
  <2> HIDE DEF top
  <2>2. IsFiniteSet(1 .. top) /\ Cardinality(1 .. top) = top
    BY <2>1, FS_Interval
  <2> QED BY <2>2 DEF top
<1> HIDE DEF used, all
<1>5. IsFiniteSet(free) /\ Cardinality(free) = Cardinality(all) - Cardinality(all \cap used)
  BY <1>4, FS_Difference, Zenon
<1>6. Cardinality(all \cap used) \in Nat /\ Cardinality(all \cap used) <= Cardinality(used)
  <2>1. IsFiniteSet(all \cap used) /\ Cardinality(all \cap used) <= Cardinality(used)
    BY <1>2, FS_Intersection
  <2> QED BY <2>1, FS_CardinalityType
<1>7. Cardinality(free) \in Nat /\ m <= Cardinality(free)
  <2>1. Cardinality(free) \in Nat
    BY <1>5, FS_CardinalityType
  <2> HIDE DEF n, m, free
  <2> QED BY <1>1, <1>2, <1>3, <1>4, <1>5, <1>6, <2>1
<1>8. ExistsInjection(targets, free)
  <2>1. ExistsInjection(targets, 1 .. m)
    BY FS_CardinalityType, Fun_ExistsBijEquiv
  <2>2. ExistsInjection(1 .. m, 1 .. Cardinality(free))
    BY <1>1, <1>7, Fun_NatInjLeq
  <2>3. ExistsInjection(1 .. Cardinality(free), free)
    BY <1>5, FS_CardinalityType, Fun_ExistsBijEquiv
  <2> HIDE DEF m, free
  <2> QED BY <2>1, <2>2, <2>3, Fun_ExistsInjTransitive
<1>9. PICK f \in Injection(targets, free) : TRUE
  BY <1>8 DEF ExistsInjection
<1>10. f \in [targets -> free] /\ \A x, y \in targets : f[x] = f[y] => x = y
  BY <1>9, Fun_InjectionProperties
<1>11. f \in [targets -> all]
  BY <1>10
<1>12. \A x \in targets, r \in rows : f[x] # r.id
  BY <1>10 DEF used
<1> QED BY <1>10, <1>11, <1>12 DEF all

\* Queueing adds a new row per target.
LEMMA EnqueueAdds ==
  ASSUME QueueSound, NEW targets \in SUBSET (Channels \X RoomTypes), NEW nights \in SUBSET Nights,
         Enqueue(targets, nights)
  PROVE  /\ QueueSound'
         /\ outbound \subseteq outbound'
         /\ \A x \in targets : \E r \in outbound' \ outbound :
              r.chan = x[1] /\ r.type = x[2] /\ r.nights = nights
<1> DEFINE room == 1 .. (Cardinality(outbound) + Cardinality(targets))
           IdsFor(f) == /\ \A x, y \in targets : f[x] = f[y] => x = y
                        /\ \A x \in targets, r \in outbound : f[x] # r.id
<1>1. IsFiniteSet(targets)
  <2>1. IsFiniteSet(Channels \X RoomTypes)
    BY SyncAssumption, FS_Product
  <2> QED BY <2>1, FS_Subset
<1>2. \E f \in [targets -> room] : IdsFor(f)
  BY <1>1, NumbersAreFound DEF QueueSound
<1> DEFINE ids == CHOOSE f \in [targets -> room] : IdsFor(f)
           RowOf(x) == Row(x[1], x[2], nights, ids[x])
           new == {RowOf(x) : x \in targets}
<1>3. ids \in [targets -> room] /\ IdsFor(ids)
  BY <1>2, Zenon
<1>4. outbound' = outbound \cup new
  BY Zenon DEF Enqueue
<1>5. \A x \in targets : ids[x] \in Nat
  <2>1. \A x \in targets : ids[x] \in room
    BY <1>3
  <2>2. room \subseteq Nat
    <3>1. Cardinality(outbound) \in Nat /\ Cardinality(targets) \in Nat
      BY <1>1, FS_CardinalityType DEF QueueSound
    <3> QED BY <3>1
  <2> HIDE DEF ids, room
  <2> QED BY <2>1, <2>2
<1> HIDE DEF ids, room
<1>6. \A x \in targets : /\ RowOf(x) \in PushRow /\ RowOf(x) \notin outbound
                         /\ RowOf(x).id = ids[x]
                         /\ RowOf(x).chan = x[1] /\ RowOf(x).type = x[2] /\ RowOf(x).nights = nights
  BY <1>3, <1>5 DEF Row, PushRow
<1>7. IsFiniteSet(new)
  <2> DEFINE g == [x \in targets |-> RowOf(x)]
  <2>1. g \in Surjection(targets, new)
    BY DEF Surjection
  <2> HIDE DEF g, new
  <2> QED BY <1>1, <2>1, FS_Surjection
<1> HIDE DEF RowOf
<1>8. QueueSound'
  <2>1. IsFiniteSet(outbound')
    BY <1>4, <1>7, FS_Union DEF QueueSound
  <2>2. outbound' \in SUBSET PushRow
    BY <1>4, <1>6 DEF QueueSound
  <2>3. ASSUME NEW r \in outbound', NEW u \in outbound', r.id = u.id PROVE r = u
    <3>1. CASE r \in outbound /\ u \in outbound
      BY <2>3, <3>1 DEF QueueSound
    <3>2. CASE r \in new /\ u \in new
      BY <1>3, <1>6, <2>3, <3>2
    <3>3. CASE (r \in new /\ u \in outbound) \/ (u \in new /\ r \in outbound)
      BY <1>3, <1>6, <2>3, <3>3
    <3> QED BY <1>4, <3>1, <3>2, <3>3
  <2> QED BY <2>1, <2>2, <2>3 DEF QueueSound
<1>9. \A x \in targets : \E r \in outbound' \ outbound :
        r.chan = x[1] /\ r.type = x[2] /\ r.nights = nights
  BY <1>4, <1>6
<1> QED BY <1>4, <1>8, <1>9

-----------------------------------------------------------------------------
\* The invariant behind TypeOK: bookings and rooms on sale have their shape, no
\* two room types of a channel share a code, a relay holds rows of the queue.

\* Finitely many bookings are held, nights are a booking's only once it is made, and
\* no more rooms are on sale than the house has.
BookingsSound ==
  /\ IsFiniteSet({b \in Bookings : booking[b].status = "HELD"})
  /\ \A b \in Bookings : /\ booking[b].status = "NONE" => booking[b].nights = {}
                         /\ booking[b].status # "NONE" => booking[b].nights \in Spans
  /\ rooms \in [RoomTypes -> Nat] /\ \A t \in RoomTypes : rooms[t] \in 0 .. Capacity[t]
  /\ changes \in 0 .. MaxChanges

\* No two room types of a channel share a code.
ChannelsSound ==
  /\ channel \in [Channels -> ChannelOf]
  /\ \A c \in Channels :
       /\ channel[c].enabled => channel[c].connected /\ \E t \in RoomTypes : channel[c].code[t] # NoCode
       /\ \A t, u \in RoomTypes :
            channel[c].code[t] = channel[c].code[u] /\ channel[c].code[t] # NoCode => t = u

\* A relay's rows are in the queue, due and its own, and it pushes one of those
\* it has not settled.
SyncSound ==
  /\ sync \in [Syncers -> SyncOf]
  /\ \A s \in Syncers :
       /\ sync[s].rows \subseteq outbound
       /\ \A r \in sync[s].rows : ~r.waiting
       /\ sync[s].sent \cup sync[s].failed \subseteq sync[s].rows
       /\ sync[s].at # NoRef => /\ sync[s].at.row \in Left(s)
                                /\ sync[s].snapshot \in [sync[s].at.row.nights -> Nat]
  /\ \A s, u \in Syncers : s # u => sync[s].rows \cap sync[u].rows = {}

OtaTyped == ota \in [Channels -> [Codes -> [Nights -> Heard]]]
Bounded  == faults \in 0 .. MaxFaults /\ config \in 0 .. MaxConfig

SyncInv == BookingsSound /\ ChannelsSound /\ QueueSound /\ SyncSound /\ OtaTyped /\ Bounded

LEMMA AvailableIsANumber ==
  ASSUME BookingsSound, NEW t \in RoomTypes, NEW n
  PROVE  Available(t, n) \in Nat
<1> DEFINE sold == Cardinality(Holding(t, n))
<1>1. Holding(t, n) \in SUBSET {b \in Bookings : booking[b].status = "HELD"}
  BY DEF Holding
<1>2. IsFiniteSet(Holding(t, n))
  BY <1>1, FS_Subset DEF BookingsSound
<1>3. sold \in Nat /\ rooms[t] \in Nat
  BY <1>2, FS_CardinalityType DEF BookingsSound
<1>4. Available(t, n) = IF rooms[t] > sold THEN rooms[t] - sold ELSE 0
  BY DEF Available
<1> HIDE DEF sold
<1> QED BY <1>3, <1>4

\* A booking is made, moved or released.
LEMMA SaleStep ==
  ASSUME BookingsSound, OutboxTyped, NEW b \in Bookings, NEW new,
         booking' = [booking EXCEPT ![b] = new], new.status # "NONE", new.nights \in Spans,
         Change, UNCHANGED rooms
  PROVE  BookingsSound'
<1> DEFINE held == {x \in Bookings : booking[x].status = "HELD"}
<1>1. \A x \in Bookings : booking'[x] = IF x = b THEN new ELSE booking[x]
  BY DEF OutboxTyped
<1>2. IsFiniteSet({x \in Bookings : booking'[x].status = "HELD"})
  <2>1. IsFiniteSet(held \cup {b})
    BY FS_AddElement DEF BookingsSound
  <2>2. {x \in Bookings : booking'[x].status = "HELD"} \in SUBSET (held \cup {b})
    BY <1>1
  <2> QED BY <2>1, <2>2, FS_Subset
<1>3. changes' \in 0 .. MaxChanges
  BY OutboxAssumption DEF Change, BookingsSound
<1> QED BY <1>1, <1>2, <1>3 DEF BookingsSound

LEMMA HoldIsASale ==
  ASSUME BookingsSound, OutboxTyped, NEW b \in Bookings, NEW nights \in Spans, NEW ref,
         Hold(b, nights, ref), UNCHANGED rooms
  PROVE  BookingsSound'
<1> DEFINE new == [status |-> "HELD", nights |-> nights, ref |-> ref]
<1>1. booking' = [booking EXCEPT ![b] = new] /\ Change
  BY DEF Hold
<1>2. new.status = "HELD" /\ new.nights = nights
  OBVIOUS
<1> HIDE DEF new
<1> QED BY <1>1, <1>2, SaleStep

LEMMA ModifyIsASale ==
  ASSUME BookingsSound, OutboxTyped, NEW b \in Bookings, NEW nights \in Spans, ModifyDates(b, nights)
  PROVE  BookingsSound'
<1> DEFINE new == [booking[b] EXCEPT !.nights = nights]
<1>1. /\ booking \in [Bookings -> Booking] /\ booking[b].status = "HELD" /\ Change
      /\ UNCHANGED rooms
  BY DEF OutboxTyped, ModifyDates
<1>2. booking' = [booking EXCEPT ![b] = new]
  BY <1>1 DEF ModifyDates
<1>3. new.status = "HELD" /\ new.nights = nights
  BY <1>1 DEF Booking
<1> HIDE DEF new
<1> QED BY <1>1, <1>2, <1>3, SaleStep

LEMMA ReleaseIsASale ==
  ASSUME BookingsSound, OutboxTyped, NEW b \in Bookings, NEW type,
         NEW status \in {"CANCELLED", "NO_SHOW"}, Release(b, status, type), UNCHANGED rooms
  PROVE  BookingsSound'
<1> DEFINE new == [booking[b] EXCEPT !.status = status]
<1>1. booking \in [Bookings -> Booking] /\ booking[b].status = "HELD" /\ Change
  BY DEF OutboxTyped, Release
<1>2. booking' = [booking EXCEPT ![b] = new]
  BY <1>1 DEF Release
<1>3. new.status = status /\ new.nights = booking[b].nights
  BY <1>1 DEF Booking
<1>4. new.nights \in Spans
  BY <1>1, <1>3 DEF BookingsSound
<1> HIDE DEF new
<1> QED BY <1>1, <1>2, <1>3, <1>4, SaleStep

\* A room goes out of order or comes back.
LEMMA RoomsStep ==
  ASSUME BookingsSound, NEW t \in RoomTypes, NEW onSale, ChangeRoomStatus(t, onSale)
  PROVE  BookingsSound'
<1>1. /\ rooms' = [rooms EXCEPT ![t] = onSale] /\ rooms \in [RoomTypes -> Nat]
      /\ onSale \in 0 .. Capacity[t] /\ Capacity[t] \in Nat /\ UNCHANGED booking /\ Change
  BY OutboxAssumption DEF ChangeRoomStatus, BookingsSound
<1>2. rooms' \in [RoomTypes -> Nat] /\ \A u \in RoomTypes : rooms'[u] \in 0 .. Capacity[u]
  BY <1>1 DEF BookingsSound
<1>3. changes' \in 0 .. MaxChanges
  BY <1>1, OutboxAssumption DEF Change, BookingsSound
<1> QED BY <1>1, <1>2, <1>3 DEF BookingsSound

LEMMA NoSyncTyped == NoSync \in SyncOf /\ NoSync.rows = {} /\ NoSync.at = NoRef
                     /\ NoSync.sent = {} /\ NoSync.failed = {}
<1>1. <<>> \in [{} -> Nat] /\ {} \in SUBSET Nights
  OBVIOUS
<1>2. <<>> \in Snapshots
  BY <1>1, Zenon DEF Snapshots
<1> QED BY <1>2 DEF NoSync, SyncOf

\* A relay's transaction moves on.
LEMMA SyncerStep ==
  ASSUME SyncSound, NEW s \in Syncers, NEW new \in SyncOf, sync' = [sync EXCEPT ![s] = new],
         \A u \in Syncers \ {s} : sync[u].rows \subseteq outbound' /\ sync[u].rows \cap new.rows = {},
         new.rows \subseteq outbound', \A r \in new.rows : ~r.waiting,
         new.sent \cup new.failed \subseteq new.rows,
         new.at # NoRef => /\ new.at.row \in new.rows \ (new.sent \cup new.failed)
                           /\ new.snapshot \in [new.at.row.nights -> Nat]
  PROVE  SyncSound'
<1>1. \A u \in Syncers : sync'[u] = IF u = s THEN new ELSE sync[u]
  BY DEF SyncSound
<1>2. sync' \in [Syncers -> SyncOf]
  BY DEF SyncSound
<1>3. ASSUME NEW u \in Syncers
      PROVE  /\ sync'[u].rows \subseteq outbound'
             /\ \A r \in sync'[u].rows : ~r.waiting
             /\ sync'[u].sent \cup sync'[u].failed \subseteq sync'[u].rows
             /\ sync'[u].at # NoRef =>
                  /\ sync'[u].at.row \in sync'[u].rows \ (sync'[u].sent \cup sync'[u].failed)
                  /\ sync'[u].snapshot \in [sync'[u].at.row.nights -> Nat]
  BY <1>1 DEF SyncSound, Left
<1>4. ASSUME NEW u \in Syncers, NEW v \in Syncers, u # v
      PROVE  sync'[u].rows \cap sync'[v].rows = {}
  BY <1>1, <1>4 DEF SyncSound
<1> QED BY <1>2, <1>3, <1>4 DEF SyncSound, Left

LEMMA ClaimPushesStep ==
  ASSUME SyncInv, NEW s \in Syncers, SyncClaim(s) PROVE SyncSound' /\ UNCHANGED outbound
<1>1. SyncSound /\ QueueSound /\ sync \in [Syncers -> SyncOf] /\ outbound \in SUBSET PushRow
  BY DEF SyncInv, SyncSound, QueueSound
<1> DEFINE due == {r \in outbound \ UNION {sync[x].rows : x \in Syncers} : ~r.waiting}
<1>2. /\ sync[s] = NoSync /\ UNCHANGED outbound
      /\ \E batch \in SUBSET due : sync' = [sync EXCEPT ![s].rows = batch]
  BY DEF SyncClaim, kSubset
<1>3. PICK batch \in SUBSET due : sync' = [sync EXCEPT ![s].rows = batch]
  BY <1>2
<1> DEFINE new == [NoSync EXCEPT !.rows = batch]
<1>4. batch \subseteq outbound /\ (\A r \in batch : ~r.waiting)
      /\ \A u \in Syncers : sync[u].rows \cap batch = {}
  OBVIOUS
<1>5. new \in SyncOf /\ new.rows = batch /\ new.at = NoRef /\ new.sent = {} /\ new.failed = {}
  BY <1>1, <1>4, NoSyncTyped DEF SyncOf
<1>6. sync' = [sync EXCEPT ![s] = new]
  BY <1>1, <1>2, <1>3
<1>7. \A u \in Syncers : sync[u].rows \subseteq outbound'
  BY <1>1, <1>2 DEF SyncSound
<1> HIDE DEF new, due
<1> QED BY <1>1, <1>2, <1>4, <1>5, <1>6, <1>7, SyncerStep

LEMMA SettleStep ==
  ASSUME SyncInv, NEW s \in Syncers, NEW outcome, sync[s].at # NoRef, Settle(s, outcome), UNCHANGED outbound
  PROVE  SyncSound'
<1>1. SyncSound /\ sync \in [Syncers -> SyncOf] /\ sync[s] \in SyncOf
  BY DEF SyncInv, SyncSound
<1> DEFINE row == sync[s].at.row
           sent == IF outcome = "sent" THEN sync[s].sent \cup {row} ELSE sync[s].sent
           failed == IF outcome = "failed" THEN sync[s].failed \cup {row} ELSE sync[s].failed
           new == [sync[s] EXCEPT !.at = NoRef, !.snapshot = <<>>, !.sent = sent, !.failed = failed]
<1>2. row \in sync[s].rows
  BY <1>1 DEF SyncSound, Left
<1>3. sync' = [sync EXCEPT ![s] = new]
  BY <1>1 DEF Settle
<1>4. sent \cup failed \subseteq sync[s].rows
  BY <1>1, <1>2 DEF SyncSound
<1>5. <<>> \in Snapshots
  BY NoSyncTyped DEF NoSync, SyncOf
<1>6. sent \in SUBSET PushRow /\ failed \in SUBSET PushRow
  BY <1>1, <1>4 DEF SyncOf
<1> HIDE DEF sent, failed
<1>7. /\ new \in SyncOf /\ new.rows = sync[s].rows /\ new.sent = sent /\ new.failed = failed
      /\ new.at = NoRef
  BY <1>1, <1>5, <1>6 DEF SyncOf
<1> HIDE DEF new
<1>8. \A u \in Syncers : sync[u].rows \subseteq outbound'
  BY <1>1 DEF SyncSound
<1>9. /\ \A u \in Syncers \ {s} : sync[u].rows \cap new.rows = {}
      /\ \A r \in new.rows : ~r.waiting
  BY <1>1, <1>7 DEF SyncSound
<1> QED BY <1>1, <1>3, <1>4, <1>7, <1>8, <1>9, SyncerStep

LEMMA SkipPushStep ==
  ASSUME SyncInv, NEW s \in Syncers, NEW r, SkipPush(s, r) PROVE SyncSound' /\ UNCHANGED outbound
<1>1. SyncSound /\ sync \in [Syncers -> SyncOf] /\ sync[s] \in SyncOf /\ UNCHANGED outbound
  BY DEF SyncInv, SyncSound, SkipPush
<1> DEFINE new == [sync[s] EXCEPT !.sent = @ \cup {r}]
<1>2. sync' = [sync EXCEPT ![s] = new] /\ r \in sync[s].rows /\ sync[s].at = NoRef
  BY DEF SkipPush, Left
<1>3. /\ new \in SyncOf /\ new.rows = sync[s].rows /\ new.at = NoRef
      /\ new.sent = sync[s].sent \cup {r} /\ new.failed = sync[s].failed
  BY <1>1, <1>2 DEF SyncOf
<1> HIDE DEF new
<1>4. \A u \in Syncers : sync[u].rows \subseteq outbound'
  BY <1>1 DEF SyncSound
<1>5. /\ \A u \in Syncers \ {s} : sync[u].rows \cap new.rows = {}
      /\ \A x \in new.rows : ~x.waiting
      /\ new.sent \cup new.failed \subseteq new.rows
  BY <1>1, <1>2, <1>3 DEF SyncSound
<1> QED BY <1>1, <1>2, <1>3, <1>4, <1>5, SyncerStep

\* What a push has to say.
LEMMA BuildStep ==
  ASSUME SyncInv, NEW s \in Syncers, NEW r, BuildAri(s, r)
  PROVE  /\ SyncSound' /\ UNCHANGED outbound
         /\ r \in sync[s].rows /\ r \in PushRow /\ sync[s].at = NoRef
         /\ sync'[s].at # NoRef /\ sync'[s].at.row = r /\ sync'[s].at.code = channel[r.chan].code[r.type]
         /\ sync'[s].snapshot = Snapshot(r.type, r.nights)
         /\ sync'[s].sent = sync[s].sent
         /\ \A u \in Syncers : u # s => sync'[u] = sync[u]
<1>1. /\ SyncSound /\ sync \in [Syncers -> SyncOf] /\ sync[s] \in SyncOf /\ UNCHANGED outbound
      /\ BookingsSound /\ channel \in [Channels -> ChannelOf] /\ outbound \in SUBSET PushRow
  BY DEF SyncInv, SyncSound, BuildAri, ChannelsSound, QueueSound
<1>2. /\ sync[s].at = NoRef
      /\ r \in sync[s].rows /\ r \notin sync[s].sent \cup sync[s].failed
      /\ sync' = [sync EXCEPT ![s].at = [row |-> r, code |-> channel[r.chan].code[r.type]],
                              ![s].snapshot = Snapshot(r.type, r.nights)]
  BY Zenon DEF BuildAri, Left
<1> DEFINE at == [row |-> r, code |-> channel[r.chan].code[r.type]]
           snapshot == Snapshot(r.type, r.nights)
           new == [sync[s] EXCEPT !.at = at, !.snapshot = snapshot]
<1>3. r \in PushRow
  BY <1>1, <1>2 DEF SyncSound
<1>4. r.chan \in Channels /\ r.type \in RoomTypes /\ r.nights \in SUBSET Nights
  BY <1>3 DEF PushRow
<1>5. at \in Push
  BY <1>1, <1>3, <1>4 DEF Push, ChannelOf
<1>6. snapshot \in [r.nights -> Nat]
  BY <1>1, <1>4, AvailableIsANumber DEF Snapshot
<1>7. snapshot \in Snapshots
  BY <1>4, <1>6 DEF Snapshots
<1>8. at # NoRef /\ at.row = r /\ at.code = channel[r.chan].code[r.type]
  BY <1>5, SyncAssumption DEF Push, PushRow
<1> HIDE DEF snapshot, at
<1>9. /\ new \in SyncOf /\ new.rows = sync[s].rows /\ new.at = at /\ new.snapshot = snapshot
      /\ new.sent = sync[s].sent /\ new.failed = sync[s].failed
  BY <1>1, <1>5, <1>7 DEF SyncOf
<1>10. sync' = [sync EXCEPT ![s] = new]
  BY <1>1, <1>2 DEF snapshot, at
<1> HIDE DEF new
<1>11. \A u \in Syncers : sync[u].rows \subseteq outbound'
  BY <1>1 DEF SyncSound
<1>12. /\ \A u \in Syncers \ {s} : sync[u].rows \cap new.rows = {}
       /\ \A x \in new.rows : ~x.waiting
       /\ new.sent \cup new.failed \subseteq new.rows
  BY <1>1, <1>9 DEF SyncSound
<1>13. SyncSound'
  BY <1>1, <1>2, <1>6, <1>8, <1>9, <1>10, <1>11, <1>12, SyncerStep
<1>14. \A u \in Syncers : sync'[u] = IF u = s THEN new ELSE sync[u]
  BY <1>1, <1>10
<1> QED BY <1>1, <1>2, <1>3, <1>8, <1>9, <1>13, <1>14 DEF snapshot

Waiting(r, w) == [r EXCEPT !.waiting = w]

LEMMA WaitingKeepsTheRow ==
  \A r \in PushRow, w \in BOOLEAN :
    /\ Waiting(r, w) \in PushRow
    /\ Waiting(r, w).id = r.id /\ Waiting(r, w).chan = r.chan /\ Waiting(r, w).type = r.type
    /\ Waiting(r, w).nights = r.nights
    /\ Waiting(r, w).waiting = w
    /\ r.waiting = w => Waiting(r, w) = r
BY DEF PushRow, Waiting

LEMMA CommitPushesStep ==
  ASSUME SyncInv, NEW s \in Syncers, SyncCommit(s) \/ SyncCrash(s)
  PROVE  SyncSound' /\ QueueSound'
<1>1. /\ SyncSound /\ sync \in [Syncers -> SyncOf] /\ QueueSound /\ outbound \in SUBSET PushRow
      /\ sync' = [sync EXCEPT ![s] = NoSync] /\ sync[s] \in SyncOf
  BY DEF SyncInv, SyncSound, QueueSound, SyncCommit, SyncCrash
<1> DEFINE back == {Waiting(r, TRUE) : r \in sync[s].failed}
<1>2. outbound' = (outbound \ sync[s].rows) \cup back \/ outbound' = outbound
  BY DEF SyncCommit, SyncCrash, Waiting
<1>3. sync[s].failed \subseteq sync[s].rows /\ sync[s].rows \subseteq outbound
  BY <1>1 DEF SyncSound
<1>4. \A u \in Syncers \ {s} : sync[u].rows \subseteq outbound'
  BY <1>1, <1>2 DEF SyncSound
<1>5. SyncSound'
  BY <1>1, <1>4, NoSyncTyped, SyncerStep
<1>6. QueueSound'
  <2>1. CASE outbound' = outbound
    BY <1>1, <2>1 DEF QueueSound
  <2>2. CASE outbound' = (outbound \ sync[s].rows) \cup back
    <3>1. \A r \in sync[s].failed : /\ Waiting(r, TRUE) \in PushRow
                                    /\ Waiting(r, TRUE).id = r.id
      <4>1. sync[s].failed \subseteq PushRow
        BY <1>1, <1>3
      <4> QED BY <4>1, WaitingKeepsTheRow
    <3>2. outbound' \in SUBSET PushRow
      BY <1>1, <2>2, <3>1
    <3>3. IsFiniteSet(outbound')
      <4>1. IsFiniteSet(sync[s].failed) /\ IsFiniteSet(outbound \ sync[s].rows)
        BY <1>1, <1>3, FS_Subset DEF QueueSound
      <4> DEFINE g == [r \in sync[s].failed |-> Waiting(r, TRUE)]
      <4>2. g \in Surjection(sync[s].failed, back)
        BY DEF Surjection
      <4> HIDE DEF g, back
      <4>3. IsFiniteSet(back)
        BY <4>1, <4>2, FS_Surjection
      <4> QED BY <2>2, <4>1, <4>3, FS_Union
    <3>4. \A r \in outbound' : \E x \in outbound :
            /\ x.id = r.id
            /\ \/ r = x /\ x \notin sync[s].rows
               \/ r = Waiting(x, TRUE) /\ x \in sync[s].rows
      BY <1>3, <2>2, <3>1
    <3>5. ASSUME NEW r \in outbound', NEW u \in outbound', r.id = u.id PROVE r = u
      BY <1>1, <3>4, <3>5 DEF QueueSound
    <3> QED BY <3>2, <3>3, <3>5 DEF QueueSound
  <2> QED BY <1>2, <2>1, <2>2
<1> QED BY <1>5, <1>6

LEMMA BackoffStep ==
  ASSUME SyncInv, BackoffElapses PROVE SyncSound' /\ QueueSound'
<1>1. /\ SyncSound /\ sync \in [Syncers -> SyncOf] /\ QueueSound /\ outbound \in SUBSET PushRow
      /\ UNCHANGED sync /\ outbound' = {Waiting(r, FALSE) : r \in outbound}
  BY DEF SyncInv, SyncSound, QueueSound, BackoffElapses, Waiting
<1>2. \A r \in outbound : /\ Waiting(r, FALSE) \in PushRow
                          /\ Waiting(r, FALSE).id = r.id
                          /\ ~r.waiting => Waiting(r, FALSE) = r
  <2>1. \A r \in PushRow : r.waiting \in BOOLEAN
    BY DEF PushRow
  <2>2. \A r \in PushRow : /\ Waiting(r, FALSE) \in PushRow
                           /\ Waiting(r, FALSE).id = r.id
                           /\ r.waiting = FALSE => Waiting(r, FALSE) = r
    BY WaitingKeepsTheRow
  <2> QED BY <1>1, <2>1, <2>2
<1>3. IsFiniteSet(outbound')
  <2> DEFINE g == [r \in outbound |-> Waiting(r, FALSE)]
  <2>1. g \in Surjection(outbound, outbound')
    BY <1>1 DEF Surjection
  <2> HIDE DEF g
  <2> QED BY <1>1, <2>1, FS_Surjection DEF QueueSound
<1>4. QueueSound'
  <2>1. \A r \in outbound' : \E x \in outbound : x.id = r.id /\ r = Waiting(x, FALSE)
    BY <1>1, <1>2
  <2>2. ASSUME NEW r \in outbound', NEW u \in outbound', r.id = u.id PROVE r = u
    <3>1. PICK x \in outbound : x.id = r.id /\ r = Waiting(x, FALSE)
      BY <2>1
    <3>2. PICK y \in outbound : y.id = u.id /\ u = Waiting(y, FALSE)
      BY <2>1
    <3>3. x = y
      BY <1>1, <2>2, <3>1, <3>2 DEF QueueSound
    <3> QED BY <3>1, <3>2, <3>3
  <2>3. outbound' \in SUBSET PushRow
    BY <1>1, <1>2
  <2> QED BY <1>3, <2>2, <2>3 DEF QueueSound
<1>5. ASSUME NEW s \in Syncers, NEW r \in sync[s].rows PROVE r \in outbound'
  <2>1. r \in outbound /\ Waiting(r, FALSE) = r
    BY <1>1, <1>2 DEF SyncSound
  <2> QED BY <1>1, <2>1
<1>6. SyncSound'
  BY <1>1, <1>5 DEF SyncSound, Left
<1> QED BY <1>4, <1>6

LEMMA HullOfNights ==
  ASSUME NEW S \in SUBSET Nights PROVE Hull(S) \in SUBSET Nights
<1>1. CASE S = {}
  BY <1>1 DEF Hull
<1>2. CASE S # {}
  <2>1. PICK x, y \in S : x = Min(S) /\ y = Max(S)
    BY <1>2, FirstAndLast
  <2>2. Hull(S) = x .. y
    BY <1>2, <2>1 DEF Hull
  <2> QED BY <2>2, OutboxAssumption DEF Nights
<1> QED BY <1>1, <1>2

\* The worker's pushes are for channels and nights there are.
LEMMA PublishQueues ==
  ASSUME OutboxInv, NEW q \in Relays, NEW e \in drain[q].todo
  PROVE  /\ e \in events /\ e \in Event /\ TypeOf[e.booking] \in RoomTypes
         /\ Targets(TypeOf[e.booking]) \X {TypeOf[e.booking]} \in SUBSET (Channels \X RoomTypes)
         /\ Span(e) \in SUBSET Nights
<1>1. /\ e \in events /\ e \in Event /\ booking \in [Bookings -> Booking]
  BY DEF OutboxInv, OutboxTyped, BatchesApart, Batch
<1>2. e.booking \in Bookings /\ booking[e.booking].nights \cup e.previous \in SUBSET Nights
  BY <1>1 DEF Event, Booking
<1>3. TypeOf[e.booking] \in RoomTypes
  BY <1>2, OutboxAssumption
<1>4. Targets(TypeOf[e.booking]) \in SUBSET Channels
  BY DEF Targets
<1>5. Span(e) \in SUBSET Nights
  BY <1>2, HullOfNights DEF Span
<1> QED BY <1>1, <1>3, <1>4, <1>5

LEMMA SyncInitial == Init => SyncInv
<1> SUFFICES ASSUME Init PROVE SyncInv
  OBVIOUS
<1>1. /\ booking = [b \in Bookings |-> NoBooking] /\ outbound = {}
      /\ sync = [s \in Syncers |-> NoSync]
      /\ changes = 0 /\ faults = 0 /\ config = 0
  BY DEF Init, OutboxInit, SyncInit
<1>2. BookingsSound
  <2>1. {b \in Bookings : booking[b].status = "HELD"} = {}
    BY <1>1 DEF NoBooking
  <2>2. rooms \in [RoomTypes -> Nat] /\ \A t \in RoomTypes : rooms[t] \in 0 .. Capacity[t]
    BY OutboxAssumption DEF Init, OutboxInit
  <2>3. \A b \in Bookings : booking[b].status = "NONE" /\ booking[b].nights = {}
    BY <1>1 DEF NoBooking
  <2>4. IsFiniteSet({b \in Bookings : booking[b].status = "HELD"})
    BY <2>1, FS_EmptySet
  <2>5. changes \in 0 .. MaxChanges
    BY <1>1, OutboxAssumption
  <2> QED BY <2>2, <2>3, <2>4, <2>5 DEF BookingsSound
<1>3. QueueSound
  BY <1>1, FS_EmptySet DEF QueueSound
<1>4. SyncSound
  BY <1>1, NoSyncTyped DEF SyncSound, Left
<1>5. Bounded
  BY <1>1, OutboxAssumption, SyncAssumption DEF Bounded
<1>6. ChannelsSound /\ OtaTyped
  <2>1. CASE /\ channel = [c \in Channels |-> NoChannel]
             /\ ota = [c \in Channels |-> [x \in Codes |-> [n \in Nights |-> Unheard]]]
    BY <2>1 DEF ChannelsSound, OtaTyped, NoChannel, ChannelOf, Unheard, Heard
  <2>2. ASSUME NEW code \in [RoomTypes -> Codes], \A t, u \in RoomTypes : code[t] = code[u] => t = u,
               channel = [c \in Channels |-> Ready(code)],
               ota = [c \in Channels |-> [x \in Codes |-> [n \in Nights |->
                        IF n \in Horizon /\ \E t \in RoomTypes : code[t] = x
                        THEN Capacity[CHOOSE t \in RoomTypes : code[t] = x] ELSE Unheard]]]
        PROVE  ChannelsSound /\ OtaTyped
    <3>1. \E t \in RoomTypes : code[t] # NoCode
      BY SyncAssumption
    <3>2. \A c \in Channels : channel[c] = Ready(code)
      BY <2>2
    <3>3. Ready(code) \in ChannelOf /\ Ready(code).code = code /\ Ready(code).connected
      BY DEF Ready, ChannelOf
    <3>4. ChannelsSound
      BY <2>2, <3>1, <3>2, <3>3 DEF ChannelsSound
    <3> DEFINE value(x, n) == IF n \in Horizon /\ \E t \in RoomTypes : code[t] = x
                           THEN Capacity[CHOOSE t \in RoomTypes : code[t] = x] ELSE Unheard
    <3>5. \A x \in Codes, n \in Nights : value(x, n) \in Heard
      <4> SUFFICES ASSUME NEW x \in Codes, NEW n \in Nights PROVE value(x, n) \in Heard
        OBVIOUS
      <4>1. CASE n \in Horizon /\ \E t \in RoomTypes : code[t] = x
        <5>1. (CHOOSE t \in RoomTypes : code[t] = x) \in RoomTypes
          BY <4>1, Zenon
        <5> QED BY <4>1, <5>1, OutboxAssumption DEF Heard
      <4>2. CASE ~(n \in Horizon /\ \E t \in RoomTypes : code[t] = x)
        BY <4>2 DEF Heard, Unheard
      <4> QED BY <4>1, <4>2
    <3>6. ota = [c \in Channels |-> [x \in Codes |-> [n \in Nights |-> value(x, n)]]]
      BY <2>2
    <3> HIDE DEF value
    <3>7. OtaTyped
      BY <3>5, <3>6 DEF OtaTyped
    <3> QED BY <3>4, <3>7
  <2> QED BY <2>1, <2>2 DEF Init, SyncInit
<1> QED BY <1>2, <1>3, <1>4, <1>5, <1>6 DEF SyncInv

\* The channels' side is not touched.
LEMMA ElsewhereKeeps ==
  ASSUME SyncInv, UNCHANGED <<channel, outbound, sync, ota>>
  PROVE  ChannelsSound' /\ QueueSound' /\ SyncSound' /\ OtaTyped'
BY DEF SyncInv, ChannelsSound, QueueSound, SyncSound, OtaTyped, Left

LEMMA SameBookings ==
  ASSUME SyncInv, UNCHANGED <<booking, rooms, changes>>
  PROVE  BookingsSound'
BY DEF SyncInv, BookingsSound

LEMMA FaultsBounded ==
  ASSUME SyncInv, Fault \/ UNCHANGED faults, Configure \/ UNCHANGED config PROVE Bounded'
BY OutboxAssumption, SyncAssumption DEF SyncInv, Bounded, Fault, Configure

LEMMA GrownQueue ==
  ASSUME SyncInv, outbound \subseteq outbound', UNCHANGED sync PROVE SyncSound'
BY DEF SyncInv, SyncSound, Left

LEMMA DeskKeepsSync ==
  ASSUME OutboxInv, SyncInv, Desk PROVE SyncInv'
<1>1. PICK b \in Bookings :
        \/ \E nights \in Spans \ {{}} : Hold(b, nights, NoRef) /\ UNCHANGED <<rooms, drain, faults>>
        \/ \E nights \in Spans : ModifyDates(b, nights)
        \/ Cancel(b)
  BY DEF Desk
<1>2. UNCHANGED <<channel, outbound, sync, ota, config, faults>>
  BY <1>1 DEF Desk, syncVars, ModifyDates, Cancel
<1>3. BookingsSound'
  BY <1>1, HoldIsASale, ModifyIsASale, ReleaseIsASale DEF OutboxInv, SyncInv, Cancel
<1> QED BY <1>2, <1>3, ElsewhereKeeps, FaultsBounded DEF SyncInv

LEMMA InboundKeepsSync ==
  ASSUME ChannelInv, SyncInv, Inbound PROVE SyncInv'
<1>1. PICK p \in Calls : \/ \E d \in Refs : RecordReceipt(p, d)
                         \/ ResolveMapping(p) \/ CreateReservation(p) \/ NoRoom(p)
                         \/ Confirm(p) \/ Reject(p) \/ CallFails(p)
  BY DEF Inbound
<1>2. UNCHANGED <<channel, outbound, sync, ota, config>>
  BY <1>1 DEF syncVars, RecordReceipt, ResolveMapping, CreateReservation, NoRoom, Confirm, Reject, CallFails
<1>3. Fault \/ UNCHANGED faults
  BY <1>1 DEF outboxVars, RecordReceipt, ResolveMapping, CreateReservation, NoRoom, Confirm, Reject, CallFails
<1>4. BookingsSound'
  <2>1. CASE UNCHANGED <<booking, rooms, changes>>
    BY <2>1, SameBookings
  <2>2. CASE CreateReservation(p)
    <3>1. call[p].ref \in Refs /\ OutboxTyped
      BY <2>2 DEF ChannelInv, InboundInv, CallsOwn, Active, CreateReservation, OutboxInv
    <3>2. RefOf[call[p].ref].nights \in Spans
      BY <3>1, InboundAssumption
    <3> QED BY <2>2, <3>1, <3>2, HoldIsASale DEF CreateReservation, SyncInv
  <2> QED BY <1>1, <2>1, <2>2 DEF outboxVars, RecordReceipt, ResolveMapping, NoRoom, Confirm, Reject, CallFails
<1> QED BY <1>2, <1>3, <1>4, ElsewhereKeeps, FaultsBounded DEF SyncInv

LEMMA RelayKeepsSync ==
  ASSUME SyncInv, Relay PROVE SyncInv'
<1>1. UNCHANGED <<channel, outbound, sync, ota, config, booking, rooms, changes>> /\ (Fault \/ UNCHANGED faults)
  BY DEF Relay, syncVars, DrainClaim, DrainCommit, DrainCrash
<1> QED BY <1>1, ElsewhereKeeps, FaultsBounded, SameBookings DEF SyncInv

LEMMA PublishKeepsSync ==
  ASSUME OutboxInv, SyncInv, NEW q \in Relays, NEW e \in drain[q].todo, PublishEvent(q, e)
  PROVE  SyncInv'
<1>1. UNCHANGED <<booking, rooms, changes, channel, sync, ota, config>> /\ (Fault \/ UNCHANGED faults)
  BY Zenon DEF PublishEvent
<1>2. \/ Enqueue(Targets(TypeOf[e.booking]) \X {TypeOf[e.booking]}, Span(e))
      \/ UNCHANGED outbound
  BY Zenon DEF PublishEvent
<1>3. QueueSound' /\ outbound \subseteq outbound'
  <2>1. CASE UNCHANGED outbound
    BY <2>1 DEF SyncInv, QueueSound
  <2>2. CASE Enqueue(Targets(TypeOf[e.booking]) \X {TypeOf[e.booking]}, Span(e))
    BY <2>2, PublishQueues, EnqueueAdds DEF SyncInv
  <2> QED BY <1>2, <2>1, <2>2
<1>4. ChannelsSound' /\ OtaTyped'
  BY <1>1 DEF SyncInv, ChannelsSound, OtaTyped
<1> QED BY <1>1, <1>3, <1>4, GrownQueue, FaultsBounded, SameBookings DEF SyncInv

LEMMA ChannelStays ==
  ASSUME SyncInv, UNCHANGED <<channel, ota, booking, rooms, changes, config>>, Fault \/ UNCHANGED faults,
         SyncSound', QueueSound'
  PROVE  SyncInv'
<1>1. ChannelsSound' /\ OtaTyped'
  BY DEF SyncInv, ChannelsSound, OtaTyped
<1> QED BY <1>1, SameBookings, FaultsBounded DEF SyncInv

\* What a channel is told is what could be sold.
LEMMA PushKeepsOta ==
  ASSUME SyncInv, NEW s \in Syncers, PushAri(s) PROVE OtaTyped'
<1>1. /\ sync[s] \in SyncOf /\ sync[s].at # NoRef /\ sync[s].at \in Push
      /\ sync[s].snapshot \in [sync[s].at.row.nights -> Nat] /\ ota \in [Channels -> [Codes -> [Nights -> Heard]]]
  BY DEF SyncInv, SyncSound, PushAri, OtaTyped, SyncOf
<1> DEFINE c == sync[s].at.row.chan
           x == sync[s].at.code
           known(y) == Remember(y, sync[s].snapshot)
<1>2. ota' = [ota EXCEPT ![c][x] = known(@)]
  BY DEF PushAri
<1>3. \A y \in [Nights -> Heard] : known(y) \in [Nights -> Heard]
  BY <1>1 DEF Remember, Heard
<1>4. c \in Channels
  BY <1>1 DEF Push, PushRow
<1> HIDE DEF known, c, x
<1> QED BY <1>1, <1>2, <1>3, <1>4 DEF OtaTyped

LEMMA SyncerKeepsSync ==
  ASSUME SyncInv, NEW s \in Syncers,
         \/ SyncClaim(s) \/ PushAri(s) \/ PushFails(s) \/ SyncCommit(s) \/ SyncCrash(s)
         \/ \E r \in sync[s].rows : SkipPush(s, r) \/ BuildAri(s, r)
  PROVE  SyncInv'
<1>1. QueueSound
  BY DEF SyncInv
<1>2. UNCHANGED outbound => QueueSound'
  BY <1>1 DEF QueueSound
<1>3. CASE SyncClaim(s)
  <2>1. UNCHANGED <<channel, ota, booking, rooms, changes, config, faults>>
    BY <1>3 DEF SyncClaim, outboxVars
  <2> QED BY <1>2, <1>3, <2>1, ClaimPushesStep, ChannelStays
<1>4. CASE PushAri(s)
  <2>1. UNCHANGED <<channel, outbound, booking, rooms, changes, config, faults>> /\ SyncSound'
    BY <1>4, SettleStep DEF PushAri, outboxVars
  <2>2. ChannelsSound'
    BY <2>1 DEF SyncInv, ChannelsSound
  <2> QED BY <1>2, <1>4, <2>1, <2>2, PushKeepsOta, SameBookings, FaultsBounded DEF SyncInv
<1>5. CASE PushFails(s)
  <2>1. UNCHANGED <<channel, ota, outbound, booking, rooms, changes, config>> /\ Fault /\ SyncSound'
    BY <1>5, SettleStep DEF PushFails
  <2> QED BY <1>2, <2>1, ChannelStays
<1>6. CASE SyncCommit(s) \/ SyncCrash(s)
  <2>1. UNCHANGED <<channel, ota, booking, rooms, changes, config>> /\ (Fault \/ UNCHANGED faults)
    BY <1>6 DEF SyncCommit, SyncCrash, outboxVars
  <2> QED BY <1>6, <2>1, CommitPushesStep, ChannelStays
<1>7. ASSUME NEW r \in sync[s].rows, SkipPush(s, r) \/ BuildAri(s, r) PROVE SyncInv'
  <2>1. UNCHANGED <<channel, ota, booking, rooms, changes, config, faults>>
    BY <1>7 DEF SkipPush, BuildAri, outboxVars
  <2> QED BY <1>2, <1>7, <2>1, SkipPushStep, BuildStep, ChannelStays
<1> QED BY <1>3, <1>4, <1>5, <1>6, <1>7

LEMMA ManagerKeepsSync ==
  ASSUME SyncInv, NEW c \in Channels,
         \/ Connect(c) \/ MapRatePlan(c) \/ Resync(c)
         \/ \E on \in BOOLEAN : SetEnabled(c, on)
         \/ \E t \in RoomTypes, x \in Codes : MapRoomType(c, t, x)
  PROVE  SyncInv'
<1>1. ChannelsSound /\ QueueSound /\ channel \in [Channels -> ChannelOf] /\ channel[c] \in ChannelOf
  BY DEF SyncInv, ChannelsSound
<1>2. UNCHANGED <<booking, rooms, changes, faults, sync, ota>> /\ Configure
  BY DEF Connect, MapRatePlan, Resync, SetEnabled, MapRoomType, outboxVars
<1>3. OtaTyped'
  BY <1>2 DEF SyncInv, OtaTyped
<1>4. ASSUME NEW new \in ChannelOf, channel' = [channel EXCEPT ![c] = new], UNCHANGED outbound,
             new.enabled => new.connected /\ \E t \in RoomTypes : new.code[t] # NoCode,
             \A t, u \in RoomTypes : new.code[t] = new.code[u] /\ new.code[t] # NoCode => t = u
      PROVE  SyncInv'
  <2>1. \A k \in Channels : channel'[k] = IF k = c THEN new ELSE channel[k]
    BY <1>1, <1>4
  <2>2. ChannelsSound'
    BY <1>1, <1>4, <2>1 DEF ChannelsSound
  <2>3. QueueSound'
    BY <1>1, <1>4 DEF QueueSound
  <2>4. SyncSound'
    BY <1>2, <1>4, GrownQueue
  <2> QED BY <1>2, <1>3, <2>2, <2>3, <2>4, SameBookings, FaultsBounded DEF SyncInv
<1>5. /\ channel[c].enabled => channel[c].connected /\ \E t \in RoomTypes : channel[c].code[t] # NoCode
      /\ \A t, u \in RoomTypes :
           channel[c].code[t] = channel[c].code[u] /\ channel[c].code[t] # NoCode => t = u
  BY <1>1 DEF ChannelsSound
<1>6. CASE Connect(c)
  <2> DEFINE new == [channel[c] EXCEPT !.connected = TRUE]
  <2>1. new \in ChannelOf /\ new.connected /\ new.enabled = channel[c].enabled /\ new.code = channel[c].code
    BY <1>1 DEF ChannelOf
  <2>2. channel' = [channel EXCEPT ![c] = new] /\ UNCHANGED outbound
    BY <1>1, <1>6 DEF Connect
  <2> HIDE DEF new
  <2>3. /\ new.enabled => new.connected /\ \E t \in RoomTypes : new.code[t] # NoCode
        /\ \A t, u \in RoomTypes : new.code[t] = new.code[u] /\ new.code[t] # NoCode => t = u
    BY <1>5, <2>1, <2>2
  <2> QED BY <1>4, <2>1, <2>2, <2>3
<1>7. CASE MapRatePlan(c)
  <2> DEFINE new == [channel[c] EXCEPT !.rate = TRUE]
  <2>1. /\ new \in ChannelOf /\ new.connected = channel[c].connected /\ new.enabled = channel[c].enabled
        /\ new.code = channel[c].code
    BY <1>1 DEF ChannelOf
  <2>2. channel' = [channel EXCEPT ![c] = new] /\ UNCHANGED outbound
    BY <1>1, <1>7 DEF MapRatePlan
  <2> HIDE DEF new
  <2>3. /\ new.enabled => new.connected /\ \E t \in RoomTypes : new.code[t] # NoCode
        /\ \A t, u \in RoomTypes : new.code[t] = new.code[u] /\ new.code[t] # NoCode => t = u
    BY <1>5, <2>1, <2>2
  <2> QED BY <1>4, <2>1, <2>2, <2>3
<1>8. ASSUME NEW on \in BOOLEAN, SetEnabled(c, on) PROVE SyncInv'
  <2> DEFINE new == [channel[c] EXCEPT !.enabled = on]
  <2>1. /\ new \in ChannelOf /\ new.connected = channel[c].connected /\ new.enabled = on
        /\ new.code = channel[c].code
    BY <1>1 DEF ChannelOf
  <2>2. /\ channel' = [channel EXCEPT ![c] = new] /\ UNCHANGED outbound
        /\ channel[c].connected /\ (on => \E t \in RoomTypes : channel[c].code[t] # NoCode)
    BY <1>1, <1>8 DEF SetEnabled
  <2> HIDE DEF new
  <2>3. /\ new.enabled => new.connected /\ \E t \in RoomTypes : new.code[t] # NoCode
        /\ \A t, u \in RoomTypes : new.code[t] = new.code[u] /\ new.code[t] # NoCode => t = u
    BY <1>5, <2>1, <2>2
  <2> QED BY <1>4, <2>1, <2>2, <2>3
<1>9. ASSUME NEW t \in RoomTypes, NEW x \in Codes, MapRoomType(c, t, x) PROVE SyncInv'
  <2> DEFINE code == [channel[c].code EXCEPT ![t] = x]
             new == [channel[c] EXCEPT !.code = code]
  <2>1. channel[c].code \in [RoomTypes -> Codes \cup {NoCode}]
    BY <1>1 DEF ChannelOf
  <2>2. code \in [RoomTypes -> Codes \cup {NoCode}] /\ \A u \in RoomTypes : code[u] = IF u = t THEN x ELSE channel[c].code[u]
    BY <2>1
  <2>3. /\ channel' = [channel EXCEPT ![c] = new] /\ UNCHANGED outbound /\ channel[c].connected
        /\ \A u \in RoomTypes \ {t} : channel[c].code[u] # x
    BY <1>1, <1>9 DEF MapRoomType
  <2> HIDE DEF code
  <2>4. /\ new \in ChannelOf /\ new.connected = channel[c].connected /\ new.enabled = channel[c].enabled
        /\ new.code = code
    BY <1>1, <2>2 DEF ChannelOf
  <2>5. \E u \in RoomTypes : new.code[u] # NoCode
    BY <2>2, <2>4, SyncAssumption
  <2>6. \A u, v \in RoomTypes : new.code[u] = new.code[v] /\ new.code[u] # NoCode => u = v
    BY <1>5, <2>2, <2>3, <2>4
  <2> HIDE DEF new
  <2> QED BY <1>4, <2>3, <2>4, <2>5, <2>6
<1>10. CASE Resync(c)
  <2> DEFINE mapped == {t \in RoomTypes : channel[c].code[t] # NoCode}
  <2>1. /\ Enqueue({c} \X mapped, Horizon) /\ UNCHANGED channel
        /\ {c} \X mapped \in SUBSET (Channels \X RoomTypes) /\ Horizon \in SUBSET Nights
    BY <1>10, SyncAssumption DEF Resync
  <2>2. QueueSound' /\ outbound \subseteq outbound'
    BY <1>1, <2>1, EnqueueAdds
  <2>3. ChannelsSound'
    BY <1>1, <2>1 DEF ChannelsSound
  <2> QED BY <1>2, <1>3, <2>2, <2>3, GrownQueue, SameBookings, FaultsBounded DEF SyncInv
<1> QED BY <1>6, <1>7, <1>8, <1>9, <1>10

LEMMA SyncNextKeeps == ChannelInv /\ SyncInv /\ [Next]_vars => SyncInv'
<1> SUFFICES ASSUME ChannelInv, SyncInv, [Next]_vars PROVE SyncInv'
  OBVIOUS
<1>1. OutboxInv
  BY DEF ChannelInv
<1>2. CASE Desk
  BY <1>1, <1>2, DeskKeepsSync
<1>3. CASE Inbound
  BY <1>3, InboundKeepsSync
<1>4. CASE Relay
  BY <1>4, RelayKeepsSync
<1>5. CASE SyncNext
  <2>1. ASSUME NEW b \in Bookings, NoShow(b) PROVE SyncInv'
    <3>1. UNCHANGED <<rooms, channel, outbound, sync, ota, config, faults>> /\ Release(b, "NO_SHOW", "no_show")
      BY <2>1 DEF NoShow
    <3>2. BookingsSound'
      BY <1>1, <3>1, ReleaseIsASale DEF OutboxInv, SyncInv
    <3> QED BY <3>1, <3>2, ElsewhereKeeps, FaultsBounded DEF SyncInv
  <2>2. CASE BackoffElapses
    <3>1. UNCHANGED <<channel, ota, booking, rooms, changes, config, faults>>
      BY <2>2 DEF BackoffElapses, outboxVars
    <3> QED BY <2>2, <3>1, BackoffStep, ChannelStays
  <2>3. ASSUME NEW t \in RoomTypes, NEW onSale, ChangeRoomStatus(t, onSale) PROVE SyncInv'
    <3>1. UNCHANGED <<channel, outbound, sync, ota, config, faults>>
      BY <2>3 DEF ChangeRoomStatus
    <3>2. BookingsSound'
      BY <2>3, RoomsStep DEF SyncInv
    <3> QED BY <3>1, <3>2, ElsewhereKeeps, FaultsBounded DEF SyncInv
  <2> QED BY <1>1, <1>5, <2>1, <2>2, <2>3, PublishKeepsSync, SyncerKeepsSync, ManagerKeepsSync DEF SyncNext
<1>6. CASE UNCHANGED vars
  <2>1. UNCHANGED <<channel, outbound, sync, ota, config, booking, rooms, changes, faults>>
    BY <1>6 DEF vars, outboxVars, syncVars
  <2> QED BY <2>1, ElsewhereKeeps, FaultsBounded, SameBookings DEF SyncInv
<1> QED BY <1>2, <1>3, <1>4, <1>5, <1>6 DEF Next

LEMMA SyncAlways == Spec => [](ChannelInv /\ SyncInv)
<1>1. Init => ChannelInv /\ SyncInv
  BY ChannelInitial, SyncInitial
<1>2. ChannelInv /\ SyncInv /\ [Next]_vars => (ChannelInv /\ SyncInv)'
  BY ChannelNext, SyncNextKeeps
<1> QED BY <1>1, <1>2, PTL DEF Spec

\* What is known, queued, claimed and delivered keeps its shape: an enabled channel
\* is connected and maps some room type, a queued push is for a channel, a room
\* type and nights there are, a sync relay works on rows of the queue, and what a
\* channel has heard is the numbers a push carried, for any number of relays.
THEOREM ChannelsTypeCorrect == Spec => []TypeOK
<1>1. ChannelInv /\ SyncInv => TypeOK
  <2> SUFFICES ASSUME ChannelInv, SyncInv PROVE TypeOK
    OBVIOUS
  <2>1. /\ booking \in [Bookings -> Booking] /\ events \subseteq Event /\ BatchesApart
        /\ unseen \subseteq Bookings /\ receipt \in [Refs -> Receipt] /\ call \in [Calls -> CallOf]
    BY DEF ChannelInv, OutboxInv, OutboxTyped, InboundInv, InboundTyped
  <2>2. OutboxTypeOK
    <3>1. \A b \in Bookings : /\ booking[b].status \in {"NONE", "HELD", "CANCELLED", "NO_SHOW"}
                              /\ booking[b].nights \in Spans \cup {{}}
      BY <2>1 DEF SyncInv, BookingsSound, Booking
    <3>2. \A e \in events : e.type \in EventTypes /\ e.booking \in Bookings
      BY <2>1 DEF Event
    <3> QED BY <2>1, <3>1, <3>2 DEF OutboxTypeOK, BatchesApart, SyncInv, BookingsSound, Bounded
  <2>3. SyncTypeOK
    <3>1. \A c \in Channels : channel[c].code \in [RoomTypes -> Codes \cup {NoCode}]
      BY DEF SyncInv, ChannelsSound, ChannelOf
    <3>2. \A r \in outbound : r.chan \in Channels /\ r.type \in RoomTypes /\ r.nights \subseteq Nights
      BY DEF SyncInv, QueueSound, PushRow
    <3> QED BY <3>1, <3>2 DEF SyncTypeOK, SyncInv, ChannelsSound, SyncSound, OtaTyped, Bounded
  <2>4. /\ \A d \in Refs : receipt[d].status \in {"NONE", "RECEIVED", "CONFIRMED", "REJECTED"}
        /\ \A p \in Calls : call[p].phase \in {"idle", "resolve", "create", "confirm", "reject"}
    BY <2>1 DEF Receipt, CallOf
  <2> QED BY <2>2, <2>3, <2>4 DEF TypeOK
<1> QED BY <1>1, SyncAlways, PTL

-----------------------------------------------------------------------------
\* The invariant behind NoSilentDrift: a channel that is watched and that may not
\* know what can be sold is told by an event still to be delivered, by a row still
\* to be taken up, or by the push under way, whose numbers are the current ones.

\* An event about the night is still to be turned into pushes.
EventAwaited(t, n) ==
  \E e \in events : /\ e.type \in ListensTo
                    /\ TypeOf[e.booking] = t /\ n \in Span(e)
                    /\ \A q \in Relays : e \notin drain[q].delivered

\* A row for the night is still to be taken up: its numbers are read then.
PushAwaited(c, t, n) ==
  \E r \in outbound : /\ r.chan = c /\ r.type = t /\ n \in r.nights
                      /\ \A s \in Syncers : /\ r \notin sync[s].sent
                                            /\ sync[s].at # NoRef => r # sync[s].at.row

\* The push under way says what can be sold now.
OnItsWay(c, t, n) ==
  \E s \in Syncers : /\ InFlight(s, c, channel[c].code[t], n)
                     /\ sync[s].at.row.type = t
                     /\ sync[s].snapshot[n] = Available(t, n)

\* The channel knows, and nothing under way will tell it otherwise.
Known(c, t, n) ==
  /\ ota[c][channel[c].code[t]][n] = Available(t, n)
  /\ \A s \in Syncers : ~InFlight(s, c, channel[c].code[t], n)

Watched(c, t, n) ==
  channel[c].enabled /\ channel[c].code[t] # NoCode /\ <<c, t, n>> \notin excused

Accounted(c, t, n) ==
  EventAwaited(t, n) \/ PushAwaited(c, t, n) \/ OnItsWay(c, t, n) \/ Known(c, t, n)

Drift == \A c \in Channels, t \in RoomTypes, n \in Nights :
           Watched(c, t, n) => Accounted(c, t, n)

LEMMA SameEvents ==
  ASSUME UNCHANGED <<booking, events, drain>>, NEW t, NEW n
  PROVE  EventAwaited(t, n)' <=> EventAwaited(t, n)
BY DEF EventAwaited, Span

LEMMA SameAvailable ==
  ASSUME UNCHANGED <<booking, rooms>>, NEW t, NEW n
  PROVE  Available(t, n)' = Available(t, n)
BY DEF Available, Holding

LEMMA SamePushes ==
  ASSUME UNCHANGED <<channel, outbound, sync, ota>>, NEW c, NEW t, NEW n,
         Available(t, n)' = Available(t, n)
  PROVE  /\ PushAwaited(c, t, n)' <=> PushAwaited(c, t, n)
         /\ OnItsWay(c, t, n)' <=> OnItsWay(c, t, n)
         /\ Known(c, t, n)' <=> Known(c, t, n)
<1>1. \A s \in Syncers : InFlight(s, c, channel[c].code[t], n)' <=> InFlight(s, c, channel[c].code[t], n)
  BY DEF InFlight
<1> QED BY <1>1 DEF PushAwaited, OnItsWay, Known, InFlight

LEMMA NothingMoves ==
  ASSUME Drift, UNCHANGED <<booking, rooms, events, drain, channel, outbound, sync, ota, excused>>
  PROVE  Drift'
<1> SUFFICES ASSUME NEW c \in Channels, NEW t \in RoomTypes, NEW n \in Nights, Watched(c, t, n)'
             PROVE  Accounted(c, t, n)'
  BY DEF Drift
<1>1. Watched(c, t, n)
  BY DEF Watched
<1> QED BY <1>1, SameEvents, SameAvailable, SamePushes DEF Drift, Accounted

\* A booking changes and an event says so: the new event, or an old one about
\* the same booking, spans every night whose availability moved and every night
\* an old event spanned.
LEMMA ToldStep ==
  ASSUME OutboxInv, Drift, NEW b \in Bookings, NEW new \in Booking, NEW type \in ListensTo,
         NEW previous \in SUBSET Nights, booking' = [booking EXCEPT ![b] = new],
         Emit(type, b, previous), UNCHANGED <<rooms, drain, channel, outbound, sync, ota, excused>>,
         \A P \in SUBSET Nights, n \in Nights : n \in Hull(booking[b].nights \cup P) =>
             n \in Hull(new.nights \cup P) \/ n \in Hull(new.nights \cup previous),
         \A n \in Nights :
           ~((new.status = "HELD" /\ n \in new.nights)
                <=> (booking[b].status = "HELD" /\ n \in booking[b].nights))
             => n \in Hull(new.nights \cup previous)
  PROVE  Drift'
<1>0. PICK e : e = [id |-> FreshId(events), type |-> type, booking |-> b, previous |-> previous]
  OBVIOUS
<1>1. /\ booking \in [Bookings -> Booking] /\ events \subseteq Event /\ IsFiniteSet(events)
      /\ \A q \in Relays : drain[q].delivered \subseteq events
  BY DEF OutboxInv, OutboxTyped, BatchesApart
<1>2. \A x \in events : x.id # FreshId(events)
  BY <1>1, FreshIdIsFresh
<1>3. e \notin events /\ e.booking = b /\ e.type = type /\ e.previous = previous
  BY <1>0, <1>2
<1>4. events' = events \cup {e}
  BY <1>0 DEF Emit
<1>5. \A x \in Bookings : booking'[x] = IF x = b THEN new ELSE booking[x]
  BY <1>1
<1>6. ASSUME NEW n \in Nights, n \in Hull(new.nights \cup previous) PROVE EventAwaited(TypeOf[b], n)'
  <2>1. n \in Span(e)'
    BY <1>3, <1>5, <1>6 DEF Span
  <2>2. \A q \in Relays : e \notin drain'[q].delivered
    BY <1>1, <1>3
  <2> QED BY <1>3, <1>4, <2>1, <2>2 DEF EventAwaited
<1>7. ASSUME NEW t \in RoomTypes, NEW n \in Nights, EventAwaited(t, n) PROVE EventAwaited(t, n)'
  <2>1. PICK x \in events : /\ x.type \in ListensTo /\ TypeOf[x.booking] = t /\ n \in Span(x)
                            /\ \A q \in Relays : x \notin drain[q].delivered
    BY <1>7 DEF EventAwaited
  <2>2. x.booking \in Bookings /\ x.previous \in SUBSET Nights
    BY <1>1 DEF Event
  <2>3. n \in Span(x)' \/ (x.booking = b /\ n \in Hull(new.nights \cup previous))
    BY <1>5, <2>1, <2>2 DEF Span
  <2>4. CASE n \in Span(x)'
    BY <1>4, <2>1, <2>4 DEF EventAwaited
  <2>5. CASE x.booking = b /\ n \in Hull(new.nights \cup previous)
    BY <1>6, <2>1, <2>5
  <2> QED BY <2>3, <2>4, <2>5
<1>8. ASSUME NEW t \in RoomTypes, NEW n \in Nights, ~(EventAwaited(t, n)')
      PROVE  Available(t, n)' = Available(t, n)
  <2>1. TypeOf[b] # t \/ ((new.status = "HELD" /\ n \in new.nights)
                             <=> (booking[b].status = "HELD" /\ n \in booking[b].nights))
    BY <1>6, <1>8
  <2>2. Holding(t, n)' = Holding(t, n)
    BY <1>5, <2>1 DEF Holding
  <2> QED BY <2>2 DEF Available
<1>9. ASSUME NEW c \in Channels, NEW t \in RoomTypes, NEW n \in Nights, Watched(c, t, n)'
      PROVE  Accounted(c, t, n)'
  <2>1. Watched(c, t, n)
    BY <1>9 DEF Watched
  <2> QED BY <1>7, <1>8, <2>1, SamePushes DEF Drift, Accounted
<1> QED BY <1>9 DEF Drift

LEMMA HullContains ==
  ASSUME NEW S \in SUBSET Nights, NEW n \in S PROVE n \in Hull(S)
<1>1. n \in Nights /\ n <= n
  BY OutboxAssumption DEF Nights
<1> QED BY <1>1, HullHolds

LEMMA HoldIsTold ==
  ASSUME OutboxInv, SyncInv, Drift, NEW b \in Bookings, NEW nights \in Spans, NEW ref \in Refs \cup {NoRef},
         Hold(b, nights, ref), UNCHANGED <<rooms, drain, channel, outbound, sync, ota, excused>>
  PROVE  Drift'
<1> DEFINE new == [status |-> "HELD", nights |-> nights, ref |-> ref]
<1>1. /\ booking' = [booking EXCEPT ![b] = new] /\ Emit("created", b, {})
      /\ booking[b].nights = {} /\ booking[b].status = "NONE"
  BY DEF Hold, SyncInv, BookingsSound
<1>2. nights \in SUBSET Nights
  BY SpansAreNights
<1>3. new \in Booking /\ new.nights = nights
  BY <1>2 DEF Booking
<1>4. ASSUME NEW P \in SUBSET Nights, NEW n \in Nights, n \in Hull(booking[b].nights \cup P)
      PROVE  n \in Hull(new.nights \cup P)
  BY <1>1, <1>2, <1>3, <1>4, HullGrows
<1>5. \A n \in nights : n \in Hull(new.nights \cup {})
  BY <1>2, <1>3, HullContains
<1>6. "created" \in ListensTo
  BY DEF ListensTo
<1> HIDE DEF new
<1> QED BY <1>1, <1>3, <1>4, <1>5, <1>6, ToldStep

LEMMA ModifyIsTold ==
  ASSUME OutboxInv, SyncInv, Drift, NEW b \in Bookings, NEW nights \in Spans,
         ModifyDates(b, nights), UNCHANGED <<channel, outbound, sync, ota, excused>>
  PROVE  Drift'
<1> DEFINE new == [booking[b] EXCEPT !.nights = nights]
<1>1. /\ booking \in [Bookings -> Booking] /\ booking[b].status = "HELD"
      /\ Emit("modified", b, booking[b].nights) /\ UNCHANGED <<rooms, drain>>
  BY DEF OutboxInv, OutboxTyped, ModifyDates
<1>2. nights \in SUBSET Nights /\ nights # {} /\ booking[b].nights \in SUBSET Nights
  BY <1>1, SpansAreNights DEF Spans, Booking
<1>3. booking' = [booking EXCEPT ![b] = new]
  BY <1>1 DEF ModifyDates
<1>4. new \in Booking /\ new.nights = nights
  BY <1>1, <1>2 DEF Booking
<1>5. \A P \in SUBSET Nights, n \in Nights : n \in Hull(booking[b].nights \cup P) =>
             n \in Hull(new.nights \cup P) \/ n \in Hull(new.nights \cup booking[b].nights)
  BY <1>2, <1>4, HullMoves
<1>6. \A n \in nights \cup booking[b].nights : n \in Hull(new.nights \cup booking[b].nights)
  BY <1>2, <1>4, HullContains
<1>7. "modified" \in ListensTo
  BY DEF ListensTo
<1> HIDE DEF new
<1> QED BY <1>1, <1>2, <1>3, <1>4, <1>5, <1>6, <1>7, ToldStep

LEMMA CancelIsTold ==
  ASSUME OutboxInv, SyncInv, Drift, NEW b \in Bookings, Cancel(b),
         UNCHANGED <<channel, outbound, sync, ota, excused>>
  PROVE  Drift'
<1> DEFINE new == [booking[b] EXCEPT !.status = "CANCELLED"]
<1>1. /\ booking \in [Bookings -> Booking] /\ Emit("cancelled", b, {}) /\ UNCHANGED <<rooms, drain>>
  BY DEF OutboxInv, OutboxTyped, Cancel, Release
<1>2. booking' = [booking EXCEPT ![b] = new] /\ booking[b].nights \in SUBSET Nights
  BY <1>1 DEF Cancel, Release, Booking
<1>3. new \in Booking /\ new.nights = booking[b].nights /\ new.status = "CANCELLED"
  BY <1>1 DEF Booking
<1>4. \A n \in booking[b].nights : n \in Hull(new.nights \cup {})
  BY <1>2, <1>3, HullContains
<1>5. \A P \in SUBSET Nights : booking[b].nights \cup P = new.nights \cup P
  BY <1>3
<1>6. "cancelled" \in ListensTo /\ {} \in SUBSET Nights
  BY DEF ListensTo
<1> HIDE DEF new
<1>7. \A P \in SUBSET Nights, n \in Nights : n \in Hull(booking[b].nights \cup P) =>
         n \in Hull(new.nights \cup P) \/ n \in Hull(new.nights \cup {})
  BY <1>5
<1>8. \A n \in Nights :
        ~((new.status = "HELD" /\ n \in new.nights)
             <=> (booking[b].status = "HELD" /\ n \in booking[b].nights))
          => n \in Hull(new.nights \cup {})
  BY <1>3, <1>4
<1> QED BY <1>1, <1>2, <1>3, <1>6, <1>7, <1>8, ToldStep

\* The release nobody is told of: its nights are excused.
LEMMA NoShowIsExcused ==
  ASSUME OutboxInv, Drift, NEW b \in Bookings, NoShow(b) PROVE Drift'
<1> DEFINE new == [booking[b] EXCEPT !.status = "NO_SHOW"]
<1>1. /\ booking \in [Bookings -> Booking] /\ events \subseteq events'
      /\ UNCHANGED <<rooms, drain, channel, outbound, sync, ota>>
      /\ excused' = excused \cup (Channels \X {TypeOf[b]} \X booking[b].nights)
  BY DEF OutboxInv, OutboxTyped, NoShow, Release, Emit
<1>2. booking' = [booking EXCEPT ![b] = new]
  BY <1>1 DEF NoShow, Release
<1>3. new.nights = booking[b].nights /\ new.status = "NO_SHOW"
  BY <1>1 DEF Booking
<1> HIDE DEF new
<1>4. \A x \in Bookings : booking'[x] = IF x = b THEN new ELSE booking[x]
  BY <1>1, <1>2
<1>5. ASSUME NEW t, NEW n, EventAwaited(t, n) PROVE EventAwaited(t, n)'
  <2>1. PICK x \in events : /\ x.type \in ListensTo /\ TypeOf[x.booking] = t /\ n \in Span(x)
                            /\ \A q \in Relays : x \notin drain[q].delivered
    BY <1>5 DEF EventAwaited
  <2>2. x.booking \in Bookings
    BY DEF OutboxInv, OutboxTyped, Event
  <2>3. Span(x)' = Span(x)
    BY <1>3, <1>4, <2>2 DEF Span
  <2> QED BY <1>1, <2>1, <2>3 DEF EventAwaited
<1>6. ASSUME NEW c \in Channels, NEW t \in RoomTypes, NEW n \in Nights, Watched(c, t, n)'
      PROVE  Accounted(c, t, n)'
  <2>1. Watched(c, t, n) /\ <<c, t, n>> \notin Channels \X {TypeOf[b]} \X booking[b].nights
    BY <1>1, <1>6 DEF Watched
  <2>2. TypeOf[b] # t \/ n \notin booking[b].nights
    BY <2>1
  <2>3. Holding(t, n)' = Holding(t, n)
    BY <1>3, <1>4, <2>2 DEF Holding
  <2>4. Available(t, n)' = Available(t, n)
    BY <1>1, <2>3 DEF Available
  <2> QED BY <1>1, <1>5, <2>1, <2>4, SamePushes DEF Drift, Accounted
<1> QED BY <1>6 DEF Drift

\* What the house can sell changes without a word: the nights are excused.
LEMMA RoomsAreExcused ==
  ASSUME Drift, NEW t \in RoomTypes, NEW onSale, ChangeRoomStatus(t, onSale) PROVE Drift'
<1>1. /\ UNCHANGED <<booking, events, drain, channel, outbound, sync, ota>>
      /\ excused' = excused \cup (Channels \X {t} \X Nights)
      /\ rooms' = [rooms EXCEPT ![t] = onSale]
  BY DEF ChangeRoomStatus
<1>2. ASSUME NEW c \in Channels, NEW u \in RoomTypes, NEW n \in Nights, Watched(c, u, n)'
      PROVE  Accounted(c, u, n)'
  <2>1. Watched(c, u, n) /\ u # t
    BY <1>1, <1>2 DEF Watched
  <2>2. Holding(u, n)' = Holding(u, n) /\ rooms'[u] = rooms[u]
    BY <1>1, <2>1 DEF Holding
  <2>3. Available(u, n)' = Available(u, n)
    BY <2>2 DEF Available
  <2> QED BY <1>1, <2>1, <2>3, SameEvents, SamePushes DEF Drift, Accounted
<1> QED BY <1>2 DEF Drift

LEMMA BatchKeepsDrift ==
  ASSUME OutboxInv, Drift, NEW q \in Relays, DrainClaim(q) \/ DrainCommit(q) \/ DrainCrash(q),
         UNCHANGED syncVars
  PROVE  Drift'
<1>1. /\ UNCHANGED <<booking, rooms, channel, outbound, sync, ota, excused>>
      /\ events' = events \ drain[q].delivered \/ events' = events
  BY DEF DrainClaim, DrainCommit, DrainCrash, syncVars
<1>2. drain'[q].delivered = {} /\ \A r \in Relays : r # q => drain'[r] = drain[r]
  BY DEF OutboxInv, OutboxTyped, DrainClaim, DrainCommit, DrainCrash, NoBatch
<1>3. ASSUME NEW t, NEW n, EventAwaited(t, n) PROVE EventAwaited(t, n)'
  <2>1. PICK x \in events : /\ x.type \in ListensTo /\ TypeOf[x.booking] = t /\ n \in Span(x)
                            /\ \A r \in Relays : x \notin drain[r].delivered
    BY <1>3 DEF EventAwaited
  <2>2. x \in events' /\ Span(x)' = Span(x)
    BY <1>1, <2>1 DEF Span
  <2>3. \A r \in Relays : x \notin drain'[r].delivered
    BY <1>2, <2>1
  <2> QED BY <2>1, <2>2, <2>3 DEF EventAwaited
<1>4. ASSUME NEW c \in Channels, NEW t \in RoomTypes, NEW n \in Nights, Watched(c, t, n)'
      PROVE  Accounted(c, t, n)'
  <2>1. Watched(c, t, n)
    BY <1>1, <1>4 DEF Watched
  <2> QED BY <1>1, <1>3, <2>1, SameAvailable, SamePushes DEF Drift, Accounted
<1> QED BY <1>4 DEF Drift

\* What the relays hold is in the queue.
LEMMA HeldRows ==
  ASSUME SyncInv
  PROVE  \A s \in Syncers : /\ sync[s].rows \subseteq outbound /\ sync[s].sent \subseteq sync[s].rows
                            /\ sync[s].at # NoRef => /\ sync[s].at.row \in sync[s].rows
                                                     /\ sync[s].at.row \notin sync[s].sent
BY DEF SyncInv, SyncSound, Left

\* Rows are added to the queue: what was accounted for still is, and so is what
\* a new row covers.
LEMMA QueueGrows ==
  ASSUME SyncInv, outbound \subseteq outbound', UNCHANGED <<sync, channel, ota>>,
         NEW c, NEW t, NEW n, Available(t, n)' = Available(t, n)
  PROVE  /\ PushAwaited(c, t, n) \/ OnItsWay(c, t, n) \/ Known(c, t, n)
              => PushAwaited(c, t, n)' \/ OnItsWay(c, t, n)' \/ Known(c, t, n)'
         /\ (\E r \in outbound' \ outbound : r.chan = c /\ r.type = t /\ n \in r.nights)
              => PushAwaited(c, t, n)'
<1>1. \A s \in Syncers : InFlight(s, c, channel[c].code[t], n)' <=> InFlight(s, c, channel[c].code[t], n)
  BY DEF InFlight
<1>2. OnItsWay(c, t, n) => OnItsWay(c, t, n)'
  BY <1>1 DEF OnItsWay
<1>3. Known(c, t, n) => Known(c, t, n)'
  BY <1>1 DEF Known
<1>4. PushAwaited(c, t, n) => PushAwaited(c, t, n)'
  BY DEF PushAwaited
<1>5. (\E r \in outbound' \ outbound : r.chan = c /\ r.type = t /\ n \in r.nights)
         => PushAwaited(c, t, n)'
  BY HeldRows DEF PushAwaited
<1> QED BY <1>2, <1>3, <1>4, <1>5

LEMMA PublishKeepsDrift ==
  ASSUME OutboxInv, SyncInv, Drift, NEW q \in Relays, NEW e \in drain[q].todo, PublishEvent(q, e)
  PROVE  Drift'
<1> DEFINE type == TypeOf[e.booking]
           queued == Enqueue(Targets(type) \X {type}, Span(e)) /\ UNCHANGED excused
           swallowed == /\ UNCHANGED outbound
                        /\ excused' = excused \cup (Targets(type) \X {type} \X Span(e))
<1>1. UNCHANGED <<booking, rooms, events, channel, sync, ota>>
  BY Zenon DEF PublishEvent
<1>2. \/ e.type \notin ListensTo /\ UNCHANGED <<outbound, excused>>
      \/ e.type \in ListensTo /\ (queued \/ swallowed)
  BY Zenon DEF PublishEvent
<1>3. \A r \in Relays : drain'[r].delivered \subseteq drain[r].delivered \cup {e}
  <2>1. Published(q, e, FALSE) \/ Published(q, e, TRUE)
    BY DEF PublishEvent
  <2>2. drain \in [Relays -> Batch] /\ \A r \in Relays : drain[r] \in Batch
    BY DEF OutboxInv, OutboxTyped
  <2>3. CASE Published(q, e, FALSE)
    BY <2>2, <2>3 DEF Published, Batch
  <2>4. CASE Published(q, e, TRUE)
    BY <2>2, <2>4 DEF Published, Batch
  <2> QED BY <2>1, <2>3, <2>4
<1>4. queued => /\ outbound \subseteq outbound'
                /\ \A x \in Targets(type) \X {type} : \E r \in outbound' \ outbound :
                     r.chan = x[1] /\ r.type = x[2] /\ r.nights = Span(e)
  <2>1. /\ Targets(type) \X {type} \in SUBSET (Channels \X RoomTypes)
        /\ Span(e) \in SUBSET Nights /\ QueueSound
    BY PublishQueues DEF SyncInv
  <2> HIDE DEF type
  <2> QED BY <2>1, EnqueueAdds
<1>5. outbound \subseteq outbound' /\ excused \subseteq excused'
  BY <1>2, <1>4
<1>6. ASSUME NEW c \in Channels, NEW t \in RoomTypes, NEW n \in Nights, Watched(c, t, n)'
      PROVE  Accounted(c, t, n)'
  <2>1. /\ Watched(c, t, n) /\ <<c, t, n>> \notin excused'
        /\ channel[c].enabled /\ channel[c].code[t] # NoCode /\ Available(t, n)' = Available(t, n)
    BY <1>1, <1>5, <1>6, SameAvailable DEF Watched
  <2>2. CASE EventAwaited(t, n)
    <3>1. PICK x \in events : /\ x.type \in ListensTo /\ TypeOf[x.booking] = t /\ n \in Span(x)
                              /\ \A r \in Relays : x \notin drain[r].delivered
      BY <2>2 DEF EventAwaited
    <3>2. CASE x # e
      <4>1. Span(x)' = Span(x)
        BY <1>1 DEF Span
      <4>2. \A r \in Relays : x \notin drain'[r].delivered
        BY <1>3, <3>1, <3>2
      <4>3. EventAwaited(t, n)'
        BY <1>1, <3>1, <4>1, <4>2 DEF EventAwaited
      <4> QED BY <4>3 DEF Accounted
    <3>3. CASE x = e
      <4>1. <<c, t>> \in Targets(type) \X {type} /\ <<c, t, n>> \in Targets(type) \X {type} \X Span(e)
        BY <2>1, <3>1, <3>3 DEF Targets
      <4>2. queued
        BY <1>2, <2>1, <3>1, <3>3, <4>1
      <4>3. \E r \in outbound' \ outbound : r.chan = c /\ r.type = t /\ n \in r.nights
        <5>1. \E r \in outbound' \ outbound : /\ r.chan = <<c, t>>[1] /\ r.type = <<c, t>>[2]
                                              /\ r.nights = Span(e)
          BY <1>4, <4>1, <4>2
        <5> QED BY <3>1, <3>3, <5>1
      <4>4. PushAwaited(c, t, n)'
        BY <1>1, <1>5, <2>1, <4>3, QueueGrows
      <4> QED BY <4>4 DEF Accounted
    <3> QED BY <3>2, <3>3
  <2>3. CASE ~EventAwaited(t, n)
    <3>1. PushAwaited(c, t, n) \/ OnItsWay(c, t, n) \/ Known(c, t, n)
      BY <2>1, <2>3 DEF Drift, Accounted
    <3> QED BY <1>1, <1>5, <2>1, <3>1, QueueGrows DEF Accounted
  <2> QED BY <2>2, <2>3
<1> QED BY <1>6 DEF Drift

-----------------------------------------------------------------------------
(* The relay's pushes.                                                     *)

LEMMA SyncerFacts ==
  ASSUME SyncInv, NEW s \in Syncers
  PROVE  /\ sync \in [Syncers -> SyncOf] /\ sync[s] \in SyncOf
         /\ \A u \in Syncers \ {s} : sync[u].rows \cap sync[s].rows = {}
         /\ sync[s].at # NoRef => /\ sync[s].at \in Push /\ sync[s].at.row \in outbound
                                  /\ sync[s].at.row.nights \subseteq Nights
                                  /\ sync[s].at.row.chan \in Channels
                                  /\ DOMAIN sync[s].snapshot = sync[s].at.row.nights
<1>1. sync \in [Syncers -> SyncOf] /\ sync[s] \in SyncOf
  BY DEF SyncInv, SyncSound
<1>2. \A u \in Syncers \ {s} : sync[u].rows \cap sync[s].rows = {}
  BY DEF SyncInv, SyncSound
<1>3. sync[s].at # NoRef => /\ sync[s].at \in Push /\ sync[s].at.row \in outbound
                            /\ DOMAIN sync[s].snapshot = sync[s].at.row.nights
  BY <1>1 DEF SyncInv, SyncSound, Left, SyncOf
<1>4. \A p \in Push : p.row.nights \subseteq Nights /\ p.row.chan \in Channels
  BY DEF Push, PushRow
<1> QED BY <1>1, <1>2, <1>3, <1>4

\* No row is taken up or settled: nothing changes.
LEMMA ClaimKeepsDrift ==
  ASSUME SyncInv, Drift, NEW s \in Syncers, SyncClaim(s) PROVE Drift'
<1>1. UNCHANGED <<booking, rooms, events, drain, channel, outbound, ota, excused>>
  BY DEF SyncClaim, outboxVars
<1>2. \A u \in Syncers : /\ sync'[u].sent = sync[u].sent /\ sync'[u].at = sync[u].at
                         /\ sync'[u].snapshot = sync[u].snapshot
  BY SyncerFacts DEF SyncClaim, SyncOf
<1>3. ASSUME NEW c \in Channels, NEW t \in RoomTypes, NEW n \in Nights, Watched(c, t, n)'
      PROVE  Accounted(c, t, n)'
  <2>1. Watched(c, t, n) /\ Available(t, n)' = Available(t, n)
    BY <1>1, <1>3, SameAvailable DEF Watched
  <2>2. \A u \in Syncers : InFlight(u, c, channel[c].code[t], n)' <=> InFlight(u, c, channel[c].code[t], n)
    BY <1>1, <1>2 DEF InFlight
  <2>3. PushAwaited(c, t, n) => PushAwaited(c, t, n)'
    BY <1>1, <1>2 DEF PushAwaited
  <2>4. OnItsWay(c, t, n) => OnItsWay(c, t, n)'
    BY <1>1, <1>2, <2>1, <2>2 DEF OnItsWay
  <2>5. Known(c, t, n) => Known(c, t, n)'
    BY <1>1, <2>1, <2>2 DEF Known
  <2> QED BY <1>1, <2>1, <2>3, <2>4, <2>5, SameEvents DEF Drift, Accounted
<1> QED BY <1>3 DEF Drift

\* A row of a channel that is off: nobody watches.
LEMMA SkipKeepsDrift ==
  ASSUME SyncInv, Drift, NEW s \in Syncers, NEW r, SkipPush(s, r) PROVE Drift'
<1>1. UNCHANGED <<booking, rooms, events, drain, channel, outbound, ota, excused>> /\ ~channel[r.chan].enabled
  BY DEF SkipPush, outboxVars
<1>2. /\ \A u \in Syncers : sync'[u].at = sync[u].at /\ sync'[u].snapshot = sync[u].snapshot
      /\ \A u \in Syncers : sync'[u].sent \subseteq sync[u].sent \cup {r}
  BY SyncerFacts DEF SkipPush, SyncOf
<1>3. ASSUME NEW c \in Channels, NEW t \in RoomTypes, NEW n \in Nights, Watched(c, t, n)'
      PROVE  Accounted(c, t, n)'
  <2>1. Watched(c, t, n) /\ Available(t, n)' = Available(t, n) /\ r.chan # c
    BY <1>1, <1>3, SameAvailable DEF Watched
  <2>2. \A u \in Syncers : InFlight(u, c, channel[c].code[t], n)' <=> InFlight(u, c, channel[c].code[t], n)
    BY <1>1, <1>2 DEF InFlight
  <2>3. PushAwaited(c, t, n) => PushAwaited(c, t, n)'
    BY <1>1, <1>2, <2>1 DEF PushAwaited
  <2>4. OnItsWay(c, t, n) => OnItsWay(c, t, n)'
    BY <1>1, <1>2, <2>1, <2>2 DEF OnItsWay
  <2>5. Known(c, t, n) => Known(c, t, n)'
    BY <1>1, <2>1, <2>2 DEF Known
  <2> QED BY <1>1, <2>1, <2>3, <2>4, <2>5, SameEvents DEF Drift, Accounted
<1> QED BY <1>3 DEF Drift

\* The push of a row says what can be sold at this moment; no other room type
\* of the channel has its code.
LEMMA BuildKeepsDrift ==
  ASSUME SyncInv, Drift, NEW s \in Syncers, NEW r, BuildAri(s, r) PROVE Drift'
<1>1. /\ UNCHANGED <<booking, rooms, events, drain, channel, outbound, ota>>
      /\ excused' = excused \ ({r.chan} \X {r.type} \X r.nights)
  BY DEF BuildAri, outboxVars
<1>2. /\ r \in PushRow /\ sync[s].at = NoRef
      /\ sync'[s].at # NoRef /\ sync'[s].at.row = r /\ sync'[s].at.code = channel[r.chan].code[r.type]
      /\ sync'[s].snapshot = Snapshot(r.type, r.nights)
      /\ sync'[s].sent = sync[s].sent
      /\ \A u \in Syncers : u # s => sync'[u] = sync[u]
  BY BuildStep
<1>3. ASSUME NEW c \in Channels, NEW t \in RoomTypes, NEW n \in Nights, Watched(c, t, n)'
      PROVE  Accounted(c, t, n)'
  <2>1. Available(t, n)' = Available(t, n) /\ channel[c].code[t] # NoCode
    BY <1>1, <1>3, SameAvailable DEF Watched
  <2>2. CASE r.chan = c /\ r.type = t /\ n \in r.nights
    <3>1. InFlight(s, c, channel[c].code[t], n)'
      BY <1>1, <1>2, <2>2 DEF InFlight
    <3>2. sync'[s].snapshot[n] = Available(t, n)
      BY <1>2, <2>2 DEF Snapshot
    <3>3. OnItsWay(c, t, n)'
      BY <1>1, <1>2, <2>1, <2>2, <3>1, <3>2 DEF OnItsWay
    <3> QED BY <3>3 DEF Accounted
  <2>3. CASE ~(r.chan = c /\ r.type = t /\ n \in r.nights)
    <3>0. Watched(c, t, n)
      BY <1>1, <1>3, <2>3 DEF Watched
    <3>1. ~(InFlight(s, c, channel[c].code[t], n)') /\ ~InFlight(s, c, channel[c].code[t], n)
      <4>1. r.chan = c /\ n \in r.nights => channel[c].code[r.type] # channel[c].code[t]
        BY <1>2, <2>1, <2>3 DEF SyncInv, ChannelsSound, PushRow
      <4> QED BY <1>1, <1>2, <4>1 DEF InFlight
    <3>2. \A u \in Syncers : InFlight(u, c, channel[c].code[t], n)' <=> InFlight(u, c, channel[c].code[t], n)
      BY <1>1, <1>2, <3>1 DEF InFlight
    <3>3. PushAwaited(c, t, n) => PushAwaited(c, t, n)'
      BY <1>1, <1>2, <2>3 DEF PushAwaited
    <3>4. OnItsWay(c, t, n) => OnItsWay(c, t, n)'
      BY <1>1, <1>2, <2>1, <3>1, <3>2 DEF OnItsWay
    <3>5. Known(c, t, n) => Known(c, t, n)'
      BY <1>1, <2>1, <3>2 DEF Known
    <3> QED BY <1>1, <2>1, <3>0, <3>3, <3>4, <3>5, SameEvents DEF Drift, Accounted
  <2> QED BY <2>2, <2>3
<1> QED BY <1>3 DEF Drift

\* The channel hears a push: unless another replica is pushing the night too, which
\* excuses it, what the push says is what is known from then on.
LEMMA PushKeepsDrift ==
  ASSUME SyncInv, Drift, NEW s \in Syncers, PushAri(s) PROVE Drift'
<1>1. UNCHANGED <<booking, rooms, events, drain, channel, outbound>> /\ sync[s].at # NoRef
  BY DEF PushAri, outboxVars
<1> DEFINE c0 == sync[s].at.row.chan
           x0 == sync[s].at.code
           row == sync[s].at.row
           known(y) == Remember(y, sync[s].snapshot)
<1>2. /\ sync'[s].at = NoRef /\ sync'[s].sent = sync[s].sent \cup {row}
      /\ \A u \in Syncers : u # s => sync'[u] = sync[u]
  BY SyncerFacts DEF PushAri, Settle, SyncOf
<1>3. /\ DOMAIN sync[s].snapshot = row.nights /\ c0 \in Channels
      /\ ota \in [Channels -> [Codes -> [Nights -> Heard]]]
  BY <1>1, SyncerFacts DEF SyncInv, OtaTyped
<1>4. ota' = [ota EXCEPT ![c0][x0] = known(@)]
  BY DEF PushAri
<1> DEFINE raced == {n \in row.nights : \E u \in Syncers \ {s} : InFlight(u, c0, x0, n)}
<1>6. excused' = excused \cup ({c0} \X {t \in RoomTypes : channel[c0].code[t] = x0} \X raced)
  BY DEF PushAri
<1>5. ASSUME NEW c \in Channels, NEW t \in RoomTypes, NEW n \in Nights, Watched(c, t, n)'
      PROVE  Accounted(c, t, n)'
  <2> DEFINE x == channel[c].code[t]
  <2>1. Watched(c, t, n) /\ Available(t, n)' = Available(t, n) /\ x \in Codes
    <3>1. Watched(c, t, n) /\ Available(t, n)' = Available(t, n)
      BY <1>1, <1>5, <1>6, SameAvailable DEF Watched
    <3>2. channel[c] \in ChannelOf
      BY DEF SyncInv, ChannelsSound
    <3> QED BY <3>1, <3>2 DEF ChannelOf, Watched
  <2>2. PushAwaited(c, t, n) => PushAwaited(c, t, n)'
    BY <1>1, <1>2 DEF PushAwaited
  <2>3. /\ ~(InFlight(s, c, x, n)')
        /\ \A u \in Syncers : u # s => (InFlight(u, c, x, n)' <=> InFlight(u, c, x, n))
    BY <1>1, <1>2 DEF InFlight
  <2>4. CASE InFlight(s, c, x, n)
    <3>1. c0 = c /\ x0 = x /\ n \in row.nights
      BY <2>4 DEF InFlight
    <3>2. ota'[c][x][n] = sync[s].snapshot[n]
      <4>1. ota'[c][x] = known(ota[c][x])
        <5> HIDE DEF known, c0, x0, x
        <5> QED BY <1>3, <1>4, <2>1, <3>1
      <4> QED BY <1>3, <3>1, <4>1 DEF Remember
    <3>0. \A u \in Syncers : InFlight(u, c, x, n) => u = s
      <4>1. <<c, t, n>> \notin excused'
        BY <1>5 DEF Watched
      <4>2. n \notin raced
        BY <1>6, <3>1, <4>1
      <4> QED BY <3>1, <4>2
    <3>3. OnItsWay(c, t, n) => ota'[c][x][n] = Available(t, n)
      BY <3>0, <3>2 DEF OnItsWay
    <3>4. ~Known(c, t, n)
      BY <2>4 DEF Known
    <3>5. OnItsWay(c, t, n) => Known(c, t, n)'
      BY <1>1, <2>1, <2>3, <3>0, <3>3 DEF Known
    <3> QED BY <1>1, <2>1, <2>2, <3>4, <3>5, SameEvents DEF Drift, Accounted
  <2>5. CASE ~InFlight(s, c, x, n)
    <3>1. OnItsWay(c, t, n) => OnItsWay(c, t, n)'
      BY <1>1, <1>2, <2>1, <2>3, <2>5 DEF OnItsWay
    <3>2. ota'[c][x][n] = ota[c][x][n]
      <4>1. CASE c0 = c /\ x0 = x
        <5>1. n \notin row.nights
          BY <1>1, <2>5, <4>1 DEF InFlight
        <5>2. ota'[c][x] = known(ota[c][x])
          <6> HIDE DEF known, c0, x0, x
          <6> QED BY <1>3, <1>4, <2>1, <4>1
        <5> QED BY <1>3, <5>1, <5>2 DEF Remember
      <4>2. CASE ~(c0 = c /\ x0 = x)
        <5> HIDE DEF known, c0, x0, x
        <5> QED BY <1>3, <1>4, <2>1, <4>2
      <4> QED BY <4>1, <4>2
    <3>3. Known(c, t, n) => Known(c, t, n)'
      BY <1>1, <2>1, <2>3, <2>5, <3>2 DEF Known
    <3> QED BY <1>1, <2>1, <2>2, <3>1, <3>3, SameEvents DEF Drift, Accounted
  <2> QED BY <2>4, <2>5
<1> QED BY <1>5 DEF Drift

\* The push under way is given up: its row is waiting again.
LEMMA AbandonKeepsDrift ==
  ASSUME SyncInv, Drift, NEW s \in Syncers, UNCHANGED <<booking, rooms, events, drain, channel, ota, excused>>,
         UNCHANGED outbound,
         \A u \in Syncers : u # s => sync'[u] = sync[u],
         sync'[s].at = NoRef, sync'[s].sent \subseteq sync[s].sent
  PROVE  Drift'
<1>1. ASSUME NEW c \in Channels, NEW t \in RoomTypes, NEW n \in Nights, Watched(c, t, n)'
      PROVE  Accounted(c, t, n)'
  <2> DEFINE x == channel[c].code[t]
  <2>1. Watched(c, t, n) /\ Available(t, n)' = Available(t, n)
    BY <1>1, SameAvailable DEF Watched
  <2>2. PushAwaited(c, t, n) => PushAwaited(c, t, n)'
    BY DEF PushAwaited
  <2>3. \A u \in Syncers : u # s => (InFlight(u, c, x, n)' <=> InFlight(u, c, x, n))
    BY DEF InFlight
  <2>4. ~(InFlight(s, c, x, n)')
    BY DEF InFlight
  <2>5. OnItsWay(c, t, n) => OnItsWay(c, t, n)' \/ PushAwaited(c, t, n)'
    <3>1. SUFFICES ASSUME NEW u \in Syncers, InFlight(u, c, x, n), sync[u].at.row.type = t,
                          sync[u].snapshot[n] = Available(t, n)
                   PROVE  OnItsWay(c, t, n)' \/ PushAwaited(c, t, n)'
      BY DEF OnItsWay
    <3>2. CASE u # s
      BY <2>1, <2>3, <3>1, <3>2 DEF OnItsWay
    <3>3. CASE u = s
      <4> DEFINE r == sync[s].at.row
      <4>1. r \in outbound' /\ r.chan = c /\ r.type = t /\ n \in r.nights /\ r \in sync[s].rows
        BY <3>1, <3>3, HeldRows DEF InFlight
      <4>2. ASSUME NEW v \in Syncers PROVE r \notin sync'[v].sent /\ (sync'[v].at # NoRef => r # sync'[v].at.row)
        BY <3>1, <3>3, <4>1, HeldRows, SyncerFacts DEF InFlight
      <4> HIDE DEF r
      <4> QED BY <4>1, <4>2 DEF PushAwaited
    <3> QED BY <3>2, <3>3
  <2>6. Known(c, t, n) => Known(c, t, n)'
    BY <2>1, <2>3, <2>4 DEF Known
  <2> QED BY <2>1, <2>2, <2>5, <2>6, SameEvents DEF Drift, Accounted
<1> QED BY <1>1 DEF Drift

LEMMA FailKeepsDrift ==
  ASSUME SyncInv, Drift, NEW s \in Syncers, PushFails(s) \/ SyncCrash(s) PROVE Drift'
<1>1. UNCHANGED <<booking, rooms, events, drain, channel, ota, excused, outbound>>
  BY DEF PushFails, SyncCrash
<1>2. /\ \A u \in Syncers : u # s => sync'[u] = sync[u]
      /\ sync'[s].at = NoRef /\ sync'[s].sent \subseteq sync[s].sent
  <2>1. CASE PushFails(s)
    BY <2>1, SyncerFacts DEF PushFails, Settle, SyncOf
  <2>2. CASE SyncCrash(s)
    BY <2>2, SyncerFacts, NoSyncTyped DEF SyncCrash
  <2> QED BY <2>1, <2>2
<1> QED BY <1>1, <1>2, AbandonKeepsDrift

\* Sent rows leave the queue, failed ones wait in it.
LEMMA CommitKeepsDrift ==
  ASSUME SyncInv, Drift, NEW s \in Syncers, SyncCommit(s) PROVE Drift'
<1>1. /\ UNCHANGED <<booking, rooms, events, drain, channel, ota, excused>> /\ Left(s) = {}
      /\ outbound' = (outbound \ sync[s].rows) \cup {Waiting(r, TRUE) : r \in sync[s].failed}
  BY DEF SyncCommit, outboxVars, Waiting
<1>2. /\ sync'[s].at = NoRef /\ sync'[s].sent = {} /\ sync[s].at = NoRef
      /\ \A u \in Syncers : u # s => sync'[u] = sync[u]
  BY <1>1, SyncerFacts, NoSyncTyped DEF SyncCommit, SyncInv, SyncSound
<1>3. ASSUME NEW c \in Channels, NEW t \in RoomTypes, NEW n \in Nights, Watched(c, t, n)'
      PROVE  Accounted(c, t, n)'
  <2>1. Watched(c, t, n) /\ Available(t, n)' = Available(t, n)
    BY <1>1, <1>3, SameAvailable DEF Watched
  <2>2. ASSUME PushAwaited(c, t, n) PROVE PushAwaited(c, t, n)'
    <3>1. PICK r \in outbound : /\ r.chan = c /\ r.type = t /\ n \in r.nights
                                /\ \A u \in Syncers : /\ r \notin sync[u].sent
                                                      /\ sync[u].at # NoRef => r # sync[u].at.row
      BY <2>2 DEF PushAwaited
    <3>2. CASE r \notin sync[s].rows
      <4>1. r \in outbound'
        BY <1>1, <3>2
      <4>2. \A u \in Syncers : /\ r \notin sync'[u].sent
                               /\ sync'[u].at # NoRef => r # sync'[u].at.row
        BY <1>2, <3>1
      <4> QED BY <3>1, <4>1, <4>2 DEF PushAwaited
    <3>3. CASE r \in sync[s].rows
      <4>1. r \in sync[s].failed /\ r \in PushRow
        BY <1>1, <3>1, <3>3 DEF Left, SyncInv, QueueSound
      <4>0. Waiting(r, TRUE) \in outbound'
        BY <1>1, <4>1
      <4>2. PICK w : w = Waiting(r, TRUE)
        OBVIOUS
      <4>3. w \in outbound' /\ w.chan = c /\ w.type = t /\ n \in w.nights /\ w.id = r.id
        BY <3>1, <4>0, <4>1, <4>2, WaitingKeepsTheRow
      <4>4. w \in outbound => w = r
        BY <3>1, <4>3 DEF SyncInv, QueueSound
      <4>5. \A u \in Syncers : /\ w \notin sync[u].sent
                               /\ sync[u].at # NoRef => w # sync[u].at.row
        BY <3>1, <4>4, HeldRows
      <4>6. \A u \in Syncers : /\ w \notin sync'[u].sent
                               /\ sync'[u].at # NoRef => w # sync'[u].at.row
        BY <1>2, <4>5
      <4> QED BY <4>3, <4>6 DEF PushAwaited
    <3> QED BY <3>2, <3>3
  <2>3. OnItsWay(c, t, n) => OnItsWay(c, t, n)'
    BY <1>1, <1>2, <2>1 DEF OnItsWay, InFlight
  <2>4. Known(c, t, n) => Known(c, t, n)'
    BY <1>1, <1>2, <2>1 DEF Known, InFlight
  <2> QED BY <1>1, <2>1, <2>2, <2>3, <2>4, SameEvents DEF Drift, Accounted
<1> QED BY <1>3 DEF Drift

\* A row that becomes due is not one a relay holds: those were due already.
LEMMA BackoffKeepsDrift ==
  ASSUME SyncInv, Drift, BackoffElapses PROVE Drift'
<1>1. /\ UNCHANGED <<booking, rooms, events, drain, channel, sync, ota, excused>>
      /\ outbound' = {Waiting(r, FALSE) : r \in outbound}
  BY DEF BackoffElapses, outboxVars, Waiting
<1>2. ASSUME NEW c \in Channels, NEW t \in RoomTypes, NEW n \in Nights, Watched(c, t, n)'
      PROVE  Accounted(c, t, n)'
  <2>1. Watched(c, t, n) /\ Available(t, n)' = Available(t, n)
    BY <1>1, <1>2, SameAvailable DEF Watched
  <2>2. ASSUME PushAwaited(c, t, n) PROVE PushAwaited(c, t, n)'
    <3>1. PICK r \in outbound : /\ r.chan = c /\ r.type = t /\ n \in r.nights
                                /\ \A s \in Syncers : /\ r \notin sync[s].sent
                                                      /\ sync[s].at # NoRef => r # sync[s].at.row
      BY <2>2 DEF PushAwaited
    <3>2. PICK w \in outbound' : w = Waiting(r, FALSE)
      BY <1>1
    <3>3. r \in PushRow
      BY DEF SyncInv, QueueSound
    <3>4. w.chan = c /\ w.type = t /\ n \in w.nights /\ w.id = r.id
      BY <3>1, <3>2, <3>3, WaitingKeepsTheRow
    <3>5. w \in outbound => w = r
      BY <3>4 DEF SyncInv, QueueSound
    <3>6. \A s \in Syncers : /\ w \notin sync[s].sent
                             /\ sync[s].at # NoRef => w # sync[s].at.row
      BY <3>1, <3>5, HeldRows
    <3> QED BY <1>1, <3>4, <3>6 DEF PushAwaited
  <2>3. (OnItsWay(c, t, n) => OnItsWay(c, t, n)') /\ (Known(c, t, n) => Known(c, t, n)')
    BY <1>1, <2>1 DEF OnItsWay, Known, InFlight
  <2> QED BY <1>1, <2>1, <2>2, <2>3, SameEvents DEF Drift, Accounted
<1> QED BY <1>2 DEF Drift

-----------------------------------------------------------------------------
(* The manager.                                                            *)

LEMMA ManagerKeepsDrift ==
  ASSUME SyncInv, Drift, NEW c \in Channels,
         \/ Connect(c) \/ MapRatePlan(c)
         \/ \E on \in BOOLEAN : SetEnabled(c, on)
         \/ \E t \in RoomTypes, x \in Codes : MapRoomType(c, t, x)
  PROVE  Drift'
<1>1. /\ UNCHANGED <<booking, rooms, events, drain, outbound, sync, ota>> /\ excused \subseteq excused'
  BY DEF Connect, MapRatePlan, SetEnabled, MapRoomType, outboxVars
<1>2. channel \in [Channels -> ChannelOf] /\ \A k \in Channels : channel[k] \in ChannelOf
  BY DEF SyncInv, ChannelsSound
<1>3. ASSUME NEW k \in Channels, NEW t \in RoomTypes, NEW n \in Nights, Watched(k, t, n)'
      PROVE  channel'[k].code[t] = channel[k].code[t] /\ channel[k].enabled
  <2>1. CASE k # c
    BY <1>2, <1>3, <2>1 DEF Connect, MapRatePlan, SetEnabled, MapRoomType, Watched
  <2>2. CASE k = c
    <3>1. CASE Connect(c) \/ MapRatePlan(c)
      BY <1>2, <1>3, <2>2, <3>1 DEF Connect, MapRatePlan, ChannelOf, Watched
    <3>2. ASSUME NEW on \in BOOLEAN, SetEnabled(c, on)
          PROVE  channel'[k].code[t] = channel[k].code[t] /\ channel[k].enabled
      <4>1. channel'[c].enabled = on /\ channel'[c].code = channel[c].code
        BY <1>2, <3>2 DEF SetEnabled, ChannelOf
      <4>2. <<c, t, n>> \notin excused' /\ on
        BY <1>3, <2>2, <4>1 DEF Watched
      <4>3. channel[c].enabled
        BY <3>2, <4>2 DEF SetEnabled, AllNights
      <4> QED BY <2>2, <4>1, <4>3
    <3>3. ASSUME NEW u \in RoomTypes, NEW x \in Codes, MapRoomType(c, u, x)
          PROVE  channel'[k].code[t] = channel[k].code[t] /\ channel[k].enabled
      <4>1. channel[c].code \in [RoomTypes -> Codes \cup {NoCode}]
        BY <1>2 DEF ChannelOf
      <4>2. /\ channel'[c].enabled = channel[c].enabled
            /\ channel'[c].code[t] = IF t = u THEN x ELSE channel[c].code[t]
        BY <1>2, <3>3, <4>1 DEF MapRoomType, ChannelOf
      <4>3. <<c, t, n>> \notin excused' /\ channel'[c].enabled
        BY <1>3, <2>2 DEF Watched
      <4>4. t = u => channel[c].code[t] = x
        BY <3>3, <4>3 DEF MapRoomType
      <4> QED BY <2>2, <4>2, <4>3, <4>4
    <3> QED BY <3>1, <3>2, <3>3
  <2> QED BY <2>1, <2>2
<1>4. ASSUME NEW k \in Channels, NEW t \in RoomTypes, NEW n \in Nights, Watched(k, t, n)'
      PROVE  Accounted(k, t, n)'
  <2>1. channel'[k].code[t] = channel[k].code[t] /\ Available(t, n)' = Available(t, n) /\ Watched(k, t, n)
    BY <1>1, <1>3, <1>4, SameAvailable DEF Watched
  <2>2. \A u \in Syncers : InFlight(u, k, channel[k].code[t], n)' <=> InFlight(u, k, channel[k].code[t], n)
    BY <1>1, <2>1 DEF InFlight
  <2>3. /\ PushAwaited(k, t, n) => PushAwaited(k, t, n)'
        /\ OnItsWay(k, t, n) => OnItsWay(k, t, n)'
        /\ Known(k, t, n) => Known(k, t, n)'
    BY <1>1, <2>1, <2>2 DEF PushAwaited, OnItsWay, Known
  <2> QED BY <1>1, <2>1, <2>3, SameEvents DEF Drift, Accounted
<1> QED BY <1>4 DEF Drift

LEMMA ResyncKeepsDrift ==
  ASSUME SyncInv, Drift, NEW c \in Channels, Resync(c) PROVE Drift'
<1> DEFINE mapped == {t \in RoomTypes : channel[c].code[t] # NoCode}
<1>1. /\ UNCHANGED <<booking, rooms, events, drain, channel, sync, ota>>
      /\ Enqueue({c} \X mapped, Horizon) /\ {c} \X mapped \in SUBSET (Channels \X RoomTypes)
      /\ Horizon \in SUBSET Nights
      /\ excused' = excused \ ({c} \X mapped \X Horizon)
  BY SyncAssumption DEF Resync, outboxVars
<1>2. /\ outbound \subseteq outbound'
      /\ \A x \in {c} \X mapped : \E r \in outbound' \ outbound :
           r.chan = x[1] /\ r.type = x[2] /\ r.nights = Horizon
  BY <1>1, EnqueueAdds DEF SyncInv
<1>3. ASSUME NEW k \in Channels, NEW t \in RoomTypes, NEW n \in Nights, Watched(k, t, n)'
      PROVE  Accounted(k, t, n)'
  <2>1. Available(t, n)' = Available(t, n)
    BY <1>1, SameAvailable
  <2>2. CASE k = c /\ n \in Horizon
    <3>1. <<c, t>> \in {c} \X mapped
      BY <1>1, <1>3, <2>2 DEF Watched
    <3>2. \E r \in outbound' \ outbound : r.chan = <<c, t>>[1] /\ r.type = <<c, t>>[2] /\ r.nights = Horizon
      BY <1>2, <3>1
    <3>3. \E r \in outbound' \ outbound : r.chan = k /\ r.type = t /\ n \in r.nights
      BY <2>2, <3>2
    <3> QED BY <1>1, <1>2, <2>1, <3>3, QueueGrows DEF Accounted
  <2>3. CASE ~(k = c /\ n \in Horizon)
    <3>1. Watched(k, t, n)
      BY <1>1, <1>3, <2>3 DEF Watched
    <3> QED BY <1>1, <1>2, <2>1, <3>1, QueueGrows, SameEvents DEF Drift, Accounted
  <2> QED BY <2>2, <2>3
<1> QED BY <1>3 DEF Drift

-----------------------------------------------------------------------------

LEMMA DriftInitial == Init => Drift
<1> SUFFICES ASSUME Init PROVE Drift
  OBVIOUS
<1> SUFFICES ASSUME NEW c \in Channels, NEW t \in RoomTypes, NEW n \in Nights, Watched(c, t, n)
             PROVE  Known(c, t, n)
  BY DEF Drift, Accounted
<1>1. PICK code \in [RoomTypes -> Codes] :
        /\ \A u, v \in RoomTypes : code[u] = code[v] => u = v
        /\ channel = [k \in Channels |-> Ready(code)]
        /\ excused = Channels \X RoomTypes \X (Nights \ Horizon)
        /\ ota = [k \in Channels |-> [x \in Codes |-> [m \in Nights |->
                    IF m \in Horizon /\ \E u \in RoomTypes : code[u] = x
                    THEN Capacity[CHOOSE u \in RoomTypes : code[u] = x] ELSE Unheard]]]
  <2>1. channel # [k \in Channels |-> NoChannel]
    BY DEF Watched, NoChannel
  <2> QED BY <2>1 DEF Init, SyncInit
<1>2. channel[c].code = code
  BY <1>1 DEF Ready
<1>3. (CHOOSE u \in RoomTypes : code[u] = code[t]) = t
  BY <1>1
<1>4. ota[c][code[t]][n] = Capacity[t]
  <2>1. n \in Horizon
    BY <1>1 DEF Watched
  <2> QED BY <1>1, <1>3, <2>1
<1>5. Available(t, n) = Capacity[t]
  <2>1. Holding(t, n) = {}
    BY DEF Init, OutboxInit, NoBooking, Holding
  <2>2. Cardinality(Holding(t, n)) = 0
    BY <2>1, FS_EmptySet
  <2>3. rooms[t] = Capacity[t] /\ Capacity[t] \in Nat
    BY OutboxAssumption DEF Init, OutboxInit
  <2> QED BY <2>2, <2>3 DEF Available
<1>6. \A s \in Syncers : sync[s].at = NoRef
  BY NoSyncTyped DEF Init, SyncInit
<1> QED BY <1>2, <1>4, <1>5, <1>6 DEF Known, InFlight

LEMMA DriftNext == ChannelInv /\ SyncInv /\ Drift /\ [Next]_vars => Drift'
<1> SUFFICES ASSUME ChannelInv, SyncInv, Drift, [Next]_vars PROVE Drift'
  OBVIOUS
<1>1. OutboxInv
  BY DEF ChannelInv
<1>2. CASE Desk
  <2>1. UNCHANGED <<channel, outbound, sync, ota, excused>>
    BY <1>2 DEF Desk, syncVars
  <2>2. PICK b \in Bookings :
          \/ \E nights \in Spans \ {{}} : Hold(b, nights, NoRef) /\ UNCHANGED <<rooms, drain, faults>>
          \/ \E nights \in Spans : ModifyDates(b, nights)
          \/ Cancel(b)
    BY <1>2 DEF Desk
  <2> QED BY <1>1, <2>1, <2>2, HoldIsTold, ModifyIsTold, CancelIsTold
<1>3. CASE Inbound
  <2>1. PICK p \in Calls : \/ \E d \in Refs : RecordReceipt(p, d)
                           \/ ResolveMapping(p) \/ CreateReservation(p) \/ NoRoom(p)
                           \/ Confirm(p) \/ Reject(p) \/ CallFails(p)
    BY <1>3 DEF Inbound
  <2>2. UNCHANGED <<channel, outbound, sync, ota, excused, drain, rooms>>
    BY <2>1 DEF syncVars, outboxVars, RecordReceipt, ResolveMapping, CreateReservation, NoRoom, Confirm, Reject, CallFails
  <2>3. CASE CreateReservation(p)
    <3>1. call[p].ref \in Refs
      BY <2>3 DEF ChannelInv, InboundInv, CallsOwn, Active, CreateReservation
    <3>2. RefOf[call[p].ref].nights \in Spans
      BY <3>1, InboundAssumption
    <3>3. PICK b \in Bookings : Hold(b, RefOf[call[p].ref].nights, call[p].ref)
      BY <2>3 DEF CreateReservation
    <3> QED BY <1>1, <2>2, <3>1, <3>2, <3>3, HoldIsTold
  <2>4. CASE UNCHANGED <<booking, rooms, events>>
    BY <2>2, <2>4, NothingMoves
  <2> QED BY <2>1, <2>3, <2>4 DEF outboxVars, RecordReceipt, ResolveMapping, NoRoom, Confirm, Reject, CallFails
<1>4. CASE Relay
  BY <1>1, <1>4, BatchKeepsDrift DEF Relay
<1>5. CASE SyncNext
  BY <1>1, <1>5, PublishKeepsDrift, NoShowIsExcused, RoomsAreExcused, ClaimKeepsDrift, SkipKeepsDrift, BuildKeepsDrift,
     PushKeepsDrift, FailKeepsDrift, CommitKeepsDrift, BackoffKeepsDrift, ManagerKeepsDrift, ResyncKeepsDrift
     DEF SyncNext
<1>6. CASE UNCHANGED vars
  BY <1>6, NothingMoves DEF vars, outboxVars, syncVars
<1> QED BY <1>2, <1>3, <1>4, <1>5, <1>6 DEF Next

\* A booking made, moved or cancelled emits an event, the worker turns it into a row
\* for every enabled channel before the outbox marks it, the relay reads the numbers
\* after it has claimed the row, and a row leaves the queue only once it was pushed:
\* an enabled channel that lists other numbers than the house can sell is about to
\* be told, whatever fails or restarts, for any number of channels, room types,
\* bookings, relays and syncers. The nights the code tells nobody about, or may tell
\* twice in the wrong order, are excused until a push reads them again.
THEOREM DriftIsOnItsWay == Spec => []NoSilentDrift
<1>1. Init => Drift
  BY DriftInitial
<1>2. (ChannelInv /\ SyncInv) /\ Drift /\ [Next]_vars => Drift'
  BY DriftNext
<1>3. (ChannelInv /\ SyncInv) /\ Drift => NoSilentDrift
  <2> DEFINE Carried(c, t, n) ==
               \/ \E e \in events : /\ e.type \in {"created", "modified", "cancelled"}
                                    /\ TypeOf[e.booking] = t
                                    /\ n \in Hull(booking[e.booking].nights \cup e.previous)
               \/ \E r \in outbound : /\ r.chan = c /\ r.type = t /\ n \in r.nights
                                      /\ \A s \in Syncers : r \notin sync[s].sent
  <2>1. ASSUME SyncInv, Drift, NEW c \in Channels, NEW t \in RoomTypes, NEW n \in Nights,
               Watched(c, t, n), ota[c][channel[c].code[t]][n] # Available(t, n)
        PROVE  Carried(c, t, n)
    <3>1. EventAwaited(t, n) \/ PushAwaited(c, t, n) \/ OnItsWay(c, t, n)
      BY <2>1 DEF Drift, Accounted, Known
    <3>2. CASE EventAwaited(t, n)
      BY <3>2 DEF EventAwaited, Span, ListensTo
    <3>3. CASE PushAwaited(c, t, n)
      BY <3>3 DEF PushAwaited
    <3>4. ASSUME OnItsWay(c, t, n)
          PROVE  \E r \in outbound : /\ r.chan = c /\ r.type = t /\ n \in r.nights
                                     /\ \A s \in Syncers : r \notin sync[s].sent
      <4>1. PICK u \in Syncers : /\ sync[u].at # NoRef
                                 /\ sync[u].at.row.chan = c /\ n \in sync[u].at.row.nights
                                 /\ sync[u].at.row.type = t
        BY <3>4 DEF OnItsWay, InFlight
      <4>2. \A s \in Syncers : sync[u].at.row \notin sync[s].sent
        BY <2>1, <4>1, HeldRows, SyncerFacts
      <4> QED BY <2>1, <4>1, <4>2, HeldRows
    <3> QED BY <3>1, <3>2, <3>3, <3>4
  <2>2. ASSUME SyncInv, Drift, NEW c \in Channels, NEW t \in RoomTypes, NEW n \in Nights
        PROVE  LET x == channel[c].code[t]
               IN  (/\ channel[c].enabled /\ x # NoCode
                    /\ <<c, t, n>> \notin excused
                    /\ ota[c][x][n] # Available(t, n))
                   => Carried(c, t, n)
    <3> HIDE DEF Carried
    <3> QED BY <2>1, <2>2 DEF Watched
  <2> QED BY <2>2, Zenon DEF NoSilentDrift
<1> QED BY <1>1, <1>2, <1>3, SyncAlways, PTL DEF Spec
=============================================================================
