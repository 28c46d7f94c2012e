------------------------ MODULE FrontDesk_refinement ------------------------
(* The front desk implements RoomNights: each of its steps, seen through    *)
(* RoomNightsOf, is a step of the promise or leaves it alone.               *)
EXTENDS FrontDesk_proof

\* A guest about to be checked in has a room on every line: the read looked,
\* and no handler takes a room from a line again.
RoomsAssigned ==
  \A s \in Sessions : pending[s].op = "checkIn" =>
    \A l \in Lines : ReservationOf[l] \in pending[s].ids => roomOf[l] # NoRoom

LEMMA RoomsAssignedStep == TypeOK /\ RoomsAssigned /\ [Next]_vars => RoomsAssigned'
<1> SUFFICES ASSUME TypeOK, RoomsAssigned, [Next]_vars PROVE RoomsAssigned'
  OBVIOUS
<1> USE IdsAssumption DEF TypeOK
<1>1. ASSUME NEW l \in Lines, NEW k \in Rooms, AssignRoom(l, k) PROVE RoomsAssigned'
  BY <1>1 DEF AssignRoom, RoomsAssigned
<1>2. ASSUME NEW s \in Sessions, NEW r \in Reservations, CheckInRead(s, r)
      PROVE  RoomsAssigned'
  <2>1. \A l \in Lines : ReservationOf[l] = r => roomOf[l] # NoRoom
    BY <1>2 DEF CheckInRead, RoomsOf, LinesOf
  <2> QED BY <1>2, <2>1 DEF CheckInRead, RoomsAssigned, Saw, booking
<1>3. ASSUME NEW s \in Sessions, NEW r \in Reservations, CheckInCommit(s, r)
      PROVE  RoomsAssigned'
  BY <1>3 DEF CheckInCommit, RoomsAssigned, Saw, Idle
<1>4. ASSUME NEW s \in Sessions, NEW r \in Reservations, CheckOutRead(s, r)
      PROVE  RoomsAssigned'
  BY <1>4 DEF CheckOutRead, RoomsAssigned, Saw, booking
<1>5. ASSUME NEW s \in Sessions, NEW r \in Reservations, CheckOutCommit(s, r)
      PROVE  RoomsAssigned'
  BY <1>5 DEF CheckOutCommit, RoomsAssigned, Saw, Idle
<1>6. ASSUME NEW s \in Sessions, NoShowRead(s) PROVE RoomsAssigned'
  BY <1>6 DEF NoShowRead, RoomsAssigned, Saw, booking
<1>7. ASSUME NEW s \in Sessions, NoShowCommit(s) PROVE RoomsAssigned'
  BY <1>7 DEF NoShowCommit, RoomsAssigned, Saw, Idle
<1>8. ASSUME NEW s \in Sessions, Rollback(s) PROVE RoomsAssigned'
  BY <1>8 DEF Rollback, RoomsAssigned, Saw, Idle, booking
<1>9. CASE UNCHANGED <<roomOf, pending>>
  BY <1>9 DEF RoomsAssigned
<1>10. CASE \E s \in Sessions : RoomChargesRead(s)
  BY <1>10 DEF RoomChargesRead, RoomsAssigned, Saw, Idle, booking
<1>11. CASE \E s \in Sessions, c \in Charges : RoomChargesCommit(s, c)
  BY <1>11 DEF RoomChargesCommit, RoomsAssigned, Saw, Idle, booking
<1> QED
  BY <1>1, <1>2, <1>3, <1>4, <1>5, <1>6, <1>7, <1>8, <1>9, <1>10, <1>11
  DEF Next, vars, Create, Cancel, ModifyDates, UpdateRoomStatus, PostCharge, PostPayment,
      Post, AdvanceBusinessDate, booking

-----------------------------------------------------------------------------
\* After a step every claim is of rooms and nights of the property.
LEMMA ClaimsTyped ==
  ASSUME TypeOK'
  PROVE  RoomNightsOf' \in [Lines -> SUBSET (Rooms \X Nights)]
<1> SUFFICES ASSUME NEW l \in Lines, roomOf'[l] # NoRoom
             PROVE  {roomOf'[l]} \X NightsOf(stay'[ReservationOf[l]]) \subseteq Rooms \X Nights
  BY DEF RoomNightsOf, OnChart
<1>1. roomOf'[l] \in Rooms
  BY IdsAssumption DEF TypeOK
<1>2. stay'[ReservationOf[l]] \in Stays
  BY IdsAssumption DEF TypeOK
<1>3. NightsOf(stay'[ReservationOf[l]]) \subseteq Nights
  BY <1>2, BoundsAssumption DEF Stays, Dates, Nights, NightsOf
<1> QED BY <1>1, <1>3

\* A line with a room and a live booking claims at least the arrival night.
LEMMA ClaimsSomething ==
  ASSUME TypeOK, NEW l \in Lines, Holds(ReservationOf[l]), roomOf[l] # NoRoom
  PROVE  RoomNightsOf[l] # {}
<1> DEFINE s == stay[ReservationOf[l]]
<1>1. s \in Stays
  BY IdsAssumption DEF TypeOK
<1>2. s.arrival \in NightsOf(s)
  BY <1>1, BoundsAssumption DEF Stays, Dates, NightsOf
<1>3. <<roomOf[l], s.arrival>> \in RoomNightsOf[l]
  BY <1>2 DEF RoomNightsOf, OnChart
<1> QED BY <1>3

-----------------------------------------------------------------------------
LEMMA InitPromised == Init => Promise!Init
BY IdsAssumption DEF Init, Promise!Init, RoomNightsOf, OnChart, Holds

\* What the desk must know for its steps to be steps of the promise.
Known == TypeOK /\ Booked /\ LocksHold /\ NoDoubleBooking /\ Fresh /\ RoomsAssigned

LEMMA CreatePromised ==
  ASSUME Known, NEW r \in Reservations, NEW s \in Stays, Create(r, s)
  PROVE  Promise!Book(r)
<1> USE IdsAssumption
<1>1. status[r] = "NONE" /\ status' = [status EXCEPT ![r] = "CONFIRMED"]
  BY DEF Create
<1>2. \A l \in Lines : ReservationOf[l] = r => roomOf[l] = NoRoom
  BY <1>1 DEF Known, Booked
<1>3. RoomNightsOf' = RoomNightsOf
  BY <1>1, <1>2 DEF Create, RoomNightsOf, OnChart, Holds, Known, TypeOK
<1> QED BY <1>1, <1>3 DEF Promise!Book, Promise!Move

LEMMA CancelPromised ==
  ASSUME Known, NEW r \in Reservations, Cancel(r)
  PROVE  Promise!CallOff({r}, "CANCELLED")
<1> USE IdsAssumption DEF Known, TypeOK
<1>1. CanTransition(status[r], "CANCELLED") /\ status' = [status EXCEPT ![r] = "CANCELLED"]
  BY DEF Cancel
<1>2. status' = [q \in Reservations |-> IF q \in {r} THEN "CANCELLED" ELSE status[q]]
  BY <1>1
<1>3. RoomNightsOf' = [l \in Lines |-> IF ReservationOf[l] \in {r} THEN {} ELSE RoomNightsOf[l]]
  BY <1>1 DEF Cancel, RoomNightsOf, OnChart, Holds, OccupiesInventory
<1> QED BY <1>1, <1>2, <1>3
  DEF Promise!CallOff, Promise!CanTransition, CanTransition, Promise!ReservationMoves,
      ReservationMoves

\* A step that leaves the statuses alone and moves one live booking's rooms or
\* nights, without a double booking, is a rearrangement.
LEMMA RearrangePromised ==
  ASSUME Known, TypeOK', NoDoubleBooking', NEW r \in Reservations,
         IsModifiable(status[r]) \/ Holds(r), UNCHANGED status,
         \A l \in Lines : ReservationOf[l] # r =>
           roomOf'[l] = roomOf[l] /\ stay'[ReservationOf[l]] = stay[ReservationOf[l]]
  PROVE  Promise!Rearrange(r)
<1>1. Promise!Live(r)
  BY DEF Promise!Live, Promise!OccupiesInventory, Holds, OccupiesInventory, IsModifiable
<1>2. RoomNightsOf' \in [Lines -> SUBSET (Rooms \X Nights)]
  BY ClaimsTyped
<1>3. \A l \in Lines \ Promise!LinesOf(r) : RoomNightsOf'[l] = RoomNightsOf[l]
  BY DEF Promise!LinesOf, RoomNightsOf, OnChart, Holds
<1>4. \A l, m \in Lines : l # m => RoomNightsOf'[l] \cap RoomNightsOf'[m] = {}
  BY DEF NoDoubleBooking, RoomNightsOf, OnChart
<1>5. \A l \in Promise!LinesOf(r) : \A m \in Lines \ {l} :
        RoomNightsOf'[l] \cap RoomNightsOf'[m] = {}
  BY <1>4 DEF Promise!LinesOf
<1> QED BY <1>1, <1>2, <1>3, <1>5 DEF Promise!Rearrange

LEMMA ModifyDatesPromised ==
  ASSUME Known, TypeOK', NoDoubleBooking', NEW r \in Reservations, NEW s \in Stays,
         ModifyDates(r, s)
  PROVE  Promise!Rearrange(r)
<1>1. UNCHANGED <<status, roomOf>> /\ IsModifiable(status[r])
  BY DEF ModifyDates
<1>2. \A l \in Lines : ReservationOf[l] # r => stay'[ReservationOf[l]] = stay[ReservationOf[l]]
  BY IdsAssumption DEF ModifyDates, Known, TypeOK
<1> QED BY <1>1, <1>2, RearrangePromised

LEMMA AssignRoomPromised ==
  ASSUME Known, TypeOK', NoDoubleBooking', NEW l \in Lines, NEW k \in Rooms,
         AssignRoom(l, k)
  PROVE  Promise!Rearrange(ReservationOf[l])
<1>1. UNCHANGED <<status, stay>> /\ Holds(ReservationOf[l]) /\ ReservationOf[l] \in Reservations
  BY IdsAssumption DEF AssignRoom
<1>2. \A m \in Lines : ReservationOf[m] # ReservationOf[l] => roomOf'[m] = roomOf[m]
  BY DEF AssignRoom, Known, TypeOK
<1> QED BY <1>1, <1>2, RearrangePromised

\* A move between two statuses that both hold leaves every claim as it is.
LEMMA HoldingMove ==
  ASSUME Known, NEW r \in Reservations, NEW to, Holds(r), OccupiesInventory(to), to # "NONE",
         status' = [status EXCEPT ![r] = to], UNCHANGED <<stay, roomOf>>
  PROVE  RoomNightsOf' = RoomNightsOf
BY IdsAssumption DEF Known, TypeOK, RoomNightsOf, OnChart, Holds

LEMMA CheckInPromised ==
  ASSUME Known, NEW s \in Sessions, NEW r \in Reservations, CheckInCommit(s, r)
  PROVE  Promise!Arrive(r)
<1>1. status[r] = "CONFIRMED"
  BY DEF CheckInCommit, Known, LocksHold
<1>2. Holds(r)
  BY <1>1 DEF Holds, OccupiesInventory
<1>3. \A l \in Promise!LinesOf(r) : RoomNightsOf[l] # {}
  BY <1>2, ClaimsSomething DEF CheckInCommit, Known, RoomsAssigned, Promise!LinesOf
<1>4. RoomNightsOf' = RoomNightsOf
  BY <1>2, HoldingMove DEF CheckInCommit, OccupiesInventory
<1> QED BY <1>1, <1>3, <1>4 DEF CheckInCommit, Promise!Arrive, Promise!Move

LEMMA CheckOutPromised ==
  ASSUME Known, NEW s \in Sessions, NEW r \in Reservations, CheckOutCommit(s, r)
  PROVE  Promise!Depart(r)
<1>1. status[r] = "CHECKED_IN"
  BY DEF CheckOutCommit, Known, LocksHold
<1>2. Holds(r)
  BY <1>1 DEF Holds, OccupiesInventory
<1>3. RoomNightsOf' = RoomNightsOf
  BY <1>2, HoldingMove DEF CheckOutCommit, OccupiesInventory
<1> QED BY <1>1, <1>3 DEF CheckOutCommit, Promise!Depart, Promise!Move

LEMMA NoShowPromised ==
  ASSUME Known, NEW s \in Sessions, NoShowCommit(s)
  PROVE  /\ pending[s].ids \in SUBSET Reservations
         /\ Promise!CallOff(pending[s].ids, "NO_SHOW")
<1> USE IdsAssumption
<1>1. pending[s].ids \subseteq Reservations
  BY DEF Known, TypeOK, Transactions
<1>2. \A r \in pending[s].ids : Promise!CanTransition(status[r], "NO_SHOW")
  BY DEF Known, Fresh, NoShowCommit, Promise!CanTransition, Promise!ReservationMoves
<1>3. status' = [r \in Reservations |-> IF r \in pending[s].ids THEN "NO_SHOW" ELSE status[r]]
  BY DEF NoShowCommit
<1>4. RoomNightsOf' =
        [l \in Lines |-> IF ReservationOf[l] \in pending[s].ids THEN {} ELSE RoomNightsOf[l]]
  BY <1>3 DEF NoShowCommit, RoomNightsOf, OnChart, Holds, OccupiesInventory
<1> QED BY <1>1, <1>2, <1>3, <1>4 DEF Promise!CallOff

LEMMA StepPromised ==
  ASSUME Known, TypeOK', NoDoubleBooking', [Next]_vars
  PROVE  [Promise!Next]_<<status, RoomNightsOf>>
<1> USE DEF Promise!Next
<1>1. ASSUME NEW r \in Reservations, NEW s \in Stays, Create(r, s) PROVE Promise!Next
  BY <1>1, CreatePromised
<1>2. ASSUME NEW r \in Reservations, Cancel(r) PROVE Promise!Next
  <2>1. {r} \in SUBSET Reservations
    OBVIOUS
  <2> QED BY <1>2, <2>1, CancelPromised
<1>3. ASSUME NEW r \in Reservations, NEW s \in Stays, ModifyDates(r, s) PROVE Promise!Next
  BY <1>3, ModifyDatesPromised
<1>4. ASSUME NEW l \in Lines, NEW k \in Rooms, AssignRoom(l, k) PROVE Promise!Next
  BY <1>4, AssignRoomPromised, IdsAssumption
<1>5. ASSUME NEW s \in Sessions, NEW r \in Reservations, CheckInCommit(s, r)
      PROVE  Promise!Next
  BY <1>5, CheckInPromised
<1>6. ASSUME NEW s \in Sessions, NEW r \in Reservations, CheckOutCommit(s, r)
      PROVE  Promise!Next
  BY <1>6, CheckOutPromised
<1>7. ASSUME NEW s \in Sessions, NoShowCommit(s) PROVE Promise!Next
  BY <1>7, NoShowPromised
<1>8. CASE UNCHANGED <<status, stay, roomOf>>
  BY <1>8 DEF RoomNightsOf, OnChart, Holds
<1> QED
  BY <1>1, <1>2, <1>3, <1>4, <1>5, <1>6, <1>7, <1>8
  DEF Next, vars, UpdateRoomStatus, PostCharge, PostPayment, Post, CheckInRead,
      CheckOutRead, NoShowRead, RoomChargesRead, RoomChargesCommit, Rollback,
      AdvanceBusinessDate, booking

\* Beside a no-show step that runs alone, the whole front desk, with its
\* counters, locks and races, keeps the promise of RoomNights: every behaviour
\* of the desk is one of the promise.
THEOREM DeskKeepsRoomNights ==
  ASSUME NoShowAlone
  PROVE  Spec => KeepsRoomNights
<1>1. Init => Known
  BY InitType, InitLocks, InitSold DEF Known, RoomsAssigned, Init, Idle, Saw
<1>2. Known /\ [Next]_vars => Known'
  BY NextType, BookedStep, LocksStep, NoDoubleBookingStep, FreshStep, RoomsAssignedStep
  DEF Known
<1>3. Known /\ Known' /\ [Next]_vars => [Promise!Next]_<<status, RoomNightsOf>>
  BY StepPromised DEF Known
<1> QED
  BY <1>1, <1>2, <1>3, InitPromised, PTL DEF Spec, KeepsRoomNights, Promise!Spec
=============================================================================
