--------------------------- MODULE FrontDesk_proof ---------------------------
(***************************************************************************)
(* Theorems about the front desk, for every set of reservations, lines,    *)
(* rooms and sessions, every horizon and every choice of overlaps.         *)
(***************************************************************************)
EXTENDS FrontDesk, FiniteSetTheorems, TLAPS

-----------------------------------------------------------------------------
(* The numbers the counters are built from are natural.                    *)

LEMMA DemandNat ==
  ASSUME NEW r, NEW s, NEW t, NEW n
  PROVE  Demand(r, s, t, n) \in Nat
<1>1. IsFiniteSet({l \in LinesOf(r) : LineType[l] = t})
  BY FS_Subset, FiniteAssumption DEF LinesOf
<1> QED BY <1>1, FS_CardinalityType DEF Demand

LEMMA HoldType ==
  ASSUME NEW c \in [RoomTypes -> [Nights -> Nat]], NEW r, NEW s
  PROVE  Hold(c, r, s) \in [RoomTypes -> [Nights -> Nat]]
BY DemandNat DEF Hold

LEMMA ReleaseType ==
  ASSUME NEW c \in [RoomTypes -> [Nights -> Nat]], NEW r, NEW s,
         NonNegative(Release(c, r, s))
  PROVE  Release(c, r, s) \in [RoomTypes -> [Nights -> Nat]]
<1> SUFFICES ASSUME NEW t \in RoomTypes, NEW n \in Nights
             PROVE  c[t][n] - Demand(r, s, t, n) \in Nat
  BY DEF Release
<1>1. c[t][n] \in Nat /\ Demand(r, s, t, n) \in Nat
  BY DemandNat
<1>2. c[t][n] - Demand(r, s, t, n) >= 0
  BY DEF NonNegative, Release
<1> QED BY <1>1, <1>2

LEMMA ReturnedType ==
  ASSUME sold \in [RoomTypes -> [Nights -> Nat]],
         NEW cells, NEW t \in RoomTypes, NEW n \in Nights
  PROVE  Returned(cells, t, n) \in Nat
<1>1. IsFiniteSet({l \in Lines : LineType[l] = t /\ <<l, n>> \in cells})
  BY FS_Subset, FiniteAssumption
<1>2. Cardinality({l \in Lines : LineType[l] = t /\ <<l, n>> \in cells}) \in Nat
  BY <1>1, FS_CardinalityType
<1> DEFINE count == Cardinality({l \in Lines : LineType[l] = t /\ <<l, n>> \in cells})
<1>3. sold[t][n] \in Nat
  OBVIOUS
<1>4. Returned(cells, t, n) = IF sold[t][n] >= count THEN sold[t][n] - count ELSE 0
  BY DEF Returned
<1>5. count \in Nat
  BY <1>2
<1> HIDE DEF count
<1> QED BY <1>3, <1>4, <1>5

-----------------------------------------------------------------------------
LEMMA InitType == Init => TypeOK
<1> SUFFICES ASSUME Init PROVE TypeOK
  OBVIOUS
<1>1. [arrival |-> 1, departure |-> 2] \in Stays
  BY BoundsAssumption DEF Stays, Dates
<1> QED
  BY <1>1, BoundsAssumption DEF Init, TypeOK, Transactions, Idle, Saw, RoomStatus, Dates

LEMMA NextType == TypeOK /\ [Next]_vars => TypeOK'
<1> SUFFICES ASSUME TypeOK, [Next]_vars PROVE TypeOK'
  OBVIOUS
<1> USE DEF TypeOK
<1>1. ASSUME NEW r \in Reservations, NEW s \in Stays, Create(r, s) PROVE TypeOK'
  BY <1>1, HoldType DEF Create, bills, ReservationStatus
<1>2. ASSUME NEW r \in Reservations, Cancel(r) PROVE TypeOK'
  BY <1>2, ReleaseType DEF Cancel, bills, ReservationStatus
<1>3. ASSUME NEW r \in Reservations, NEW s \in Stays, ModifyDates(r, s) PROVE TypeOK'
  <2>1. Release(sold, r, stay[r]) \in [RoomTypes -> [Nights -> Nat]]
    BY <1>3, ReleaseType DEF ModifyDates
  <2>2. sold' \in [RoomTypes -> [Nights -> Nat]]
    BY <1>3, <2>1, HoldType DEF ModifyDates
  <2> QED BY <1>3, <2>2 DEF ModifyDates, bills
<1>4. ASSUME NEW l \in Lines, NEW k \in Rooms, AssignRoom(l, k) PROVE TypeOK'
  BY <1>4 DEF AssignRoom, bills
<1>5. ASSUME NEW k \in Rooms, NEW to \in BoardStatuses, UpdateRoomStatus(k, to) PROVE TypeOK'
  BY <1>5, ScopeAssumption DEF UpdateRoomStatus, booking, bills
<1>6. ASSUME NEW r \in Reservations, NEW a \in Int, Post(r, a) PROVE TypeOK'
  BY <1>6 DEF Post, booking
<1>7. CASE \E r \in Reservations, a \in Amounts : PostCharge(r, a) \/ PostPayment(r, a)
  <2>1. \A a \in Amounts : a \in Int /\ -a \in Int
    BY BoundsAssumption
  <2> QED BY <1>6, <1>7, <2>1 DEF PostCharge, PostPayment
<1>8. ASSUME NEW s \in Sessions, NEW r \in Reservations, CheckInRead(s, r) PROVE TypeOK'
  <2>1. RoomsOf(r) \subseteq Rooms \cup {NoRoom}
    BY DEF RoomsOf, LinesOf
  <2> QED BY <1>8, <2>1 DEF CheckInRead, booking, bills, Transactions, Idle, Saw, TwoPhase
<1>9. ASSUME NEW s \in Sessions, NEW r \in Reservations, CheckInCommit(s, r) PROVE TypeOK'
  BY <1>9 DEF CheckInCommit, MoveRooms, Transactions, Idle, Saw, ReservationStatus, RoomStatus
<1>10. ASSUME NEW s \in Sessions, NEW r \in Reservations, CheckOutRead(s, r) PROVE TypeOK'
  <2>1. RoomsOf(r) \ {NoRoom} \subseteq Rooms
    BY DEF RoomsOf, LinesOf
  <2> QED BY <1>10, <2>1 DEF CheckOutRead, booking, bills, Transactions, Idle, Saw, TwoPhase
<1>11. ASSUME NEW s \in Sessions, NEW r \in Reservations, CheckOutCommit(s, r) PROVE TypeOK'
  BY <1>11 DEF CheckOutCommit, MoveRooms, Transactions, Idle, Saw, ReservationStatus, RoomStatus
<1>12. ASSUME NEW s \in Sessions, NoShowRead(s) PROVE TypeOK'
  BY <1>12 DEF NoShowRead, Stragglers, LineNights, booking, bills, Transactions, Idle, Saw, TwoPhase
<1>13. ASSUME NEW s \in Sessions, NoShowCommit(s) PROVE TypeOK'
  <2>1. sold' \in [RoomTypes -> [Nights -> Nat]]
    BY <1>13, ReturnedType DEF NoShowCommit
  <2> QED BY <1>13, <2>1 DEF NoShowCommit, bills, Transactions, Idle, Saw, ReservationStatus
<1>14. ASSUME NEW s \in Sessions, Rollback(s) PROVE TypeOK'
  BY <1>14 DEF Rollback, booking, bills, Transactions, Idle, Saw
<1>15. CASE AdvanceBusinessDate
  BY <1>15, BoundsAssumption DEF AdvanceBusinessDate, booking, bills, Dates
<1>16. CASE UNCHANGED vars
  BY <1>16 DEF vars
<1>17. CASE \E s \in Sessions : RoomChargesRead(s)
  BY <1>17 DEF RoomChargesRead, StayingTonight, booking, bills, Transactions, Idle, Saw, TwoPhase
<1>18. CASE \E s \in Sessions, c \in Charges : RoomChargesCommit(s, c)
  <2>1. PICK s \in Sessions, charges \in Charges : RoomChargesCommit(s, charges)
    BY <1>18
  <2>2. \A r \in Reservations : charges[r] \in Int
    <3>1. Amounts \cup {0} \subseteq Int
      BY BoundsAssumption
    <3> QED BY <3>1 DEF Charges
  <2>3. balance' \in [Reservations -> Int]
    BY <2>1, <2>2 DEF RoomChargesCommit
  <2>4. /\ UNCHANGED <<status, stay, roomOf, sold, roomStatus, folio, businessDate>>
        /\ pending' = [pending EXCEPT ![s] = Idle]
    BY <2>1 DEF RoomChargesCommit, booking
  <2>5. pending' \in [Sessions -> Transactions]
    BY <2>4 DEF Transactions, Idle, Saw
  <2> QED BY <2>3, <2>4, <2>5
<1> HIDE DEF TypeOK
<1> QED
  BY <1>1, <1>2, <1>3, <1>4, <1>5, <1>7, <1>8, <1>9, <1>10, <1>11, <1>12, <1>13,
     <1>14, <1>15, <1>16, <1>17, <1>18 DEF Next

\* Every reachable state of the front desk is well typed, whatever overlaps:
\* in particular no counter is ever negative and no session remembers anything
\* but reservations, rooms and nights that exist.
THEOREM TypeCorrect == Spec => []TypeOK
BY InitType, NextType, PTL DEF Spec

-----------------------------------------------------------------------------
(* Row locks. A reservation under check-in or check-out keeps the status   *)
(* its handler read, because every other writer of the status either locks *)
(* the row (cancel, the other stay handlers) or waits for it at its own    *)
(* UPDATE (the no-show step).                                              *)

\* Nothing is read or assigned for a reservation that does not exist yet.
Booked ==
  /\ \A s \in Sessions : \A r \in pending[s].ids : status[r] # "NONE"
  /\ \A l \in Lines : status[ReservationOf[l]] = "NONE" => roomOf[l] = NoRoom

LEMMA BookedStep == TypeOK /\ Booked /\ [Next]_vars => Booked'
<1> SUFFICES ASSUME TypeOK, Booked, [Next]_vars PROVE Booked'
  OBVIOUS
<1> USE DEF Booked, TypeOK
<1> USE IdsAssumption
<1>1. ASSUME NEW r \in Reservations, NEW s \in Stays, Create(r, s) PROVE Booked'
  BY <1>1 DEF Create
<1>2. ASSUME NEW r \in Reservations, Cancel(r) PROVE Booked'
  BY <1>2 DEF Cancel
<1>3. ASSUME NEW r \in Reservations, NEW s \in Stays, ModifyDates(r, s) PROVE Booked'
  BY <1>3 DEF ModifyDates
<1>4. ASSUME NEW l \in Lines, NEW k \in Rooms, AssignRoom(l, k) PROVE Booked'
  BY <1>4 DEF AssignRoom, Holds
<1>5. ASSUME NEW s \in Sessions, NEW r \in Reservations, CheckInRead(s, r) PROVE Booked'
  BY <1>5 DEF CheckInRead, Saw, booking, CanTransition, ReservationMoves
<1>6. ASSUME NEW s \in Sessions, NEW r \in Reservations, CheckInCommit(s, r) PROVE Booked'
  BY <1>6 DEF CheckInCommit, Saw, Idle
<1>7. ASSUME NEW s \in Sessions, NEW r \in Reservations, CheckOutRead(s, r) PROVE Booked'
  BY <1>7 DEF CheckOutRead, Saw, booking, CanTransition, ReservationMoves
<1>8. ASSUME NEW s \in Sessions, NEW r \in Reservations, CheckOutCommit(s, r) PROVE Booked'
  BY <1>8 DEF CheckOutCommit, Saw, Idle
<1>9. ASSUME NEW s \in Sessions, NoShowRead(s) PROVE Booked'
  BY <1>9 DEF NoShowRead, Saw, Stragglers, booking
<1>10. ASSUME NEW s \in Sessions, NoShowCommit(s) PROVE Booked'
  BY <1>10 DEF NoShowCommit, Saw, Idle, Transactions
<1>11. ASSUME NEW s \in Sessions, Rollback(s) PROVE Booked'
  BY <1>11 DEF Rollback, Saw, Idle, booking
<1>12. CASE UNCHANGED <<booking, pending>>
  BY <1>12 DEF booking
<1>13. CASE \E s \in Sessions : RoomChargesRead(s)
  BY <1>13 DEF RoomChargesRead, StayingTonight, Saw, Idle, booking
<1>14. CASE \E s \in Sessions, c \in Charges : RoomChargesCommit(s, c)
  BY <1>14 DEF RoomChargesCommit, Saw, Idle, booking
<1> QED
  BY <1>1, <1>2, <1>3, <1>4, <1>5, <1>6, <1>7, <1>8, <1>9, <1>10, <1>11, <1>12, <1>13, <1>14
  DEF Next, vars, UpdateRoomStatus, PostCharge, PostPayment, Post,
      AdvanceBusinessDate, booking

LEMMA LocksStep == TypeOK /\ LocksHold /\ [Next]_vars => LocksHold'
<1> SUFFICES ASSUME TypeOK, LocksHold, [Next]_vars PROVE LocksHold'
  OBVIOUS
<1> USE DEF LocksHold, TypeOK
<1>1. ASSUME NEW r \in Reservations, NEW s \in Stays, Create(r, s) PROVE LocksHold'
  BY <1>1 DEF Create
<1>2. ASSUME NEW r \in Reservations, Cancel(r) PROVE LocksHold'
  BY <1>2 DEF Cancel, Locked
<1>3. ASSUME NEW s \in Sessions, NEW r \in Reservations, CheckInRead(s, r) PROVE LocksHold'
  BY <1>3 DEF CheckInRead, Locked, Saw, booking, CanTransition, ReservationMoves
<1>4. ASSUME NEW s \in Sessions, NEW r \in Reservations, CheckInCommit(s, r) PROVE LocksHold'
  BY <1>4 DEF CheckInCommit, Saw, Idle
<1>5. ASSUME NEW s \in Sessions, NEW r \in Reservations, CheckOutRead(s, r) PROVE LocksHold'
  BY <1>5 DEF CheckOutRead, Locked, Saw, booking, CanTransition, ReservationMoves
<1>6. ASSUME NEW s \in Sessions, NEW r \in Reservations, CheckOutCommit(s, r) PROVE LocksHold'
  BY <1>6 DEF CheckOutCommit, Saw, Idle
<1>7. ASSUME NEW s \in Sessions, NoShowRead(s) PROVE LocksHold'
  BY <1>7 DEF NoShowRead, Saw, booking
<1>8. ASSUME NEW s \in Sessions, NoShowCommit(s) PROVE LocksHold'
  BY <1>8 DEF NoShowCommit, Locked, Saw, Idle, Transactions
<1>9. ASSUME NEW s \in Sessions, Rollback(s) PROVE LocksHold'
  BY <1>9 DEF Rollback, Saw, Idle, booking
<1>10. CASE UNCHANGED <<status, pending>>
  BY <1>10
<1>11. CASE \E s \in Sessions : RoomChargesRead(s)
  BY <1>11 DEF RoomChargesRead, Saw, Idle, booking
<1>12. CASE \E s \in Sessions, c \in Charges : RoomChargesCommit(s, c)
  BY <1>12 DEF RoomChargesCommit, Saw, Idle, booking
<1> QED
  BY <1>1, <1>2, <1>3, <1>4, <1>5, <1>6, <1>7, <1>8, <1>9, <1>10, <1>11, <1>12
  DEF Next, vars, ModifyDates, AssignRoom, UpdateRoomStatus, PostCharge, PostPayment,
      Post, AdvanceBusinessDate, booking

\* Under every overlap, a check-in or check-out commits on the status it read.
THEOREM LocksAreEnough == Spec => []LocksHold
<1>1. Init => LocksHold
  BY DEF Init, LocksHold, Idle, Saw
<1>2. TypeOK /\ LocksHold /\ [Next]_vars => LocksHold'
  BY LocksStep
<1> QED BY <1>1, <1>2, TypeCorrect, PTL DEF Spec

-----------------------------------------------------------------------------
(* Double booking. Only modifyDates and assignRoom can make two live lines *)
(* share a room-night; a step that neither moves a line nor revives a      *)
(* reservation cannot.                                                     *)

LEMMA NoNewClaim ==
  ASSUME NoDoubleBooking, IdsAssumption, UNCHANGED <<roomOf, stay>>,
         \A r \in Reservations : Holds(r)' => Holds(r)
  PROVE  NoDoubleBooking'
BY DEF NoDoubleBooking, IdsAssumption

LEMMA NoDoubleBookingStep ==
  TypeOK /\ Booked /\ LocksHold /\ NoDoubleBooking /\ [Next]_vars => NoDoubleBooking'
<1> SUFFICES ASSUME TypeOK, Booked, LocksHold, NoDoubleBooking, [Next]_vars
             PROVE  NoDoubleBooking'
  OBVIOUS
<1> USE IdsAssumption
<1>1. ASSUME NEW r \in Reservations, NEW s \in Stays, Create(r, s) PROVE NoDoubleBooking'
  <2>1. \A l \in Lines : ReservationOf[l] = r => roomOf[l] = NoRoom
    BY <1>1 DEF Create, Booked
  <2> QED BY <1>1, <2>1 DEF Create, NoDoubleBooking, Holds, TypeOK
<1>2. ASSUME NEW r \in Reservations, Cancel(r) PROVE NoDoubleBooking'
  BY <1>2, NoNewClaim DEF Cancel, Holds, OccupiesInventory, TypeOK
<1>3. ASSUME NEW r \in Reservations, NEW s \in Stays, ModifyDates(r, s) PROVE NoDoubleBooking'
  <2>1. \A q \in Reservations : Holds(q)' <=> Holds(q)
    BY <1>3 DEF ModifyDates, Holds
  <2>2. \A q \in Reservations : stay'[q] = IF q = r THEN s ELSE stay[q]
    BY <1>3 DEF ModifyDates, TypeOK
  <2>3. roomOf' = roomOf
    BY <1>3 DEF ModifyDates
  <2>4. ASSUME NEW l \in Lines, NEW m \in Lines, l # m, ReservationOf[l] = r,
               roomOf[l] = roomOf[m], roomOf[l] # NoRoom, Holds(ReservationOf[m])
        PROVE  /\ ReservationOf[m] # r
               /\ NightsOf(stay[ReservationOf[m]]) \cap NightsOf(s) = {}
    <3>1. ~Clashes(l, roomOf[l], s)
      BY <1>3, <2>4 DEF ModifyDates, LinesOf
    <3> QED BY <3>1, <2>4 DEF Clashes
  <2>5. ASSUME NEW l \in Lines, NEW m \in Lines, l # m, roomOf[l] = roomOf[m],
               roomOf[l] # NoRoom, Holds(ReservationOf[l]), Holds(ReservationOf[m])
        PROVE  NightsOf(stay'[ReservationOf[l]]) \cap NightsOf(stay'[ReservationOf[m]]) = {}
    <3>1. CASE ReservationOf[l] = r
      BY <3>1, <2>2, <2>4, <2>5
    <3>2. CASE ReservationOf[m] = r
      BY <3>2, <2>2, <2>4, <2>5
    <3>3. CASE ReservationOf[l] # r /\ ReservationOf[m] # r
      BY <3>3, <2>2, <2>5 DEF NoDoubleBooking
    <3> QED BY <3>1, <3>2, <3>3
  <2> QED BY <2>1, <2>3, <2>5 DEF NoDoubleBooking, NightsOf
<1>4. ASSUME NEW l \in Lines, NEW k \in Rooms, AssignRoom(l, k) PROVE NoDoubleBooking'
  <2>1. ASSUME NEW m \in Lines, m # l, roomOf[m] = k, Holds(ReservationOf[m])
        PROVE  NightsOf(stay[ReservationOf[m]]) \cap NightsOf(stay[ReservationOf[l]]) = {}
    BY <1>4, <2>1 DEF AssignRoom, Clashes
  <2>2. \A m \in Lines : roomOf'[m] = IF m = l THEN k ELSE roomOf[m]
    BY <1>4 DEF AssignRoom, TypeOK
  <2> QED BY <1>4, <2>1, <2>2 DEF AssignRoom, NoDoubleBooking, Holds
<1>5. ASSUME NEW s \in Sessions, NEW r \in Reservations, CheckInCommit(s, r)
      PROVE  NoDoubleBooking'
  <2>1. Holds(r)
    BY <1>5 DEF CheckInCommit, LocksHold, Holds, OccupiesInventory
  <2> QED BY <1>5, <2>1, NoNewClaim DEF CheckInCommit, Holds, TypeOK
<1>6. ASSUME NEW s \in Sessions, NEW r \in Reservations, CheckOutCommit(s, r)
      PROVE  NoDoubleBooking'
  <2>1. Holds(r)
    BY <1>6 DEF CheckOutCommit, LocksHold, Holds, OccupiesInventory
  <2> QED BY <1>6, <2>1, NoNewClaim DEF CheckOutCommit, Holds, TypeOK
<1>7. ASSUME NEW s \in Sessions, NoShowCommit(s) PROVE NoDoubleBooking'
  BY <1>7, NoNewClaim DEF NoShowCommit, Holds, OccupiesInventory
<1>8. CASE UNCHANGED booking
  BY <1>8, NoNewClaim DEF booking, Holds
<1> QED
  BY <1>1, <1>2, <1>3, <1>4, <1>5, <1>6, <1>7, <1>8
  DEF Next, vars, UpdateRoomStatus, PostCharge, PostPayment, Post, CheckInRead,
      CheckOutRead, NoShowRead, RoomChargesRead, RoomChargesCommit, Rollback,
      AdvanceBusinessDate, booking

LEMMA InitLocks == Init => Booked /\ LocksHold /\ NoDoubleBooking
BY DEF Init, Booked, LocksHold, NoDoubleBooking, Idle, Saw

\* Whatever overlaps, one room is never promised to two live stays on one
\* night: assignRoom's and modifyDates' races end at the exclusion constraint.
THEOREM RoomsAreNeverDoubleBooked == Spec => []NoDoubleBooking
<1> DEFINE IInv == TypeOK /\ Booked /\ LocksHold /\ NoDoubleBooking
<1>1. Init => IInv
  BY InitType, InitLocks
<1>2. IInv /\ [Next]_vars => IInv'
  BY NextType, BookedStep, LocksStep, NoDoubleBookingStep
<1>3. IInv => NoDoubleBooking
  OBVIOUS
<1> QED BY <1>1, <1>2, <1>3, PTL DEF Spec

-----------------------------------------------------------------------------
(* The counters. sold is inductive only together with two facts: a no-show *)
(* step still knows the truth when it commits (Fresh, which needs that no  *)
(* handler commits beside it), and a stay handler commits on a live        *)
(* reservation (LocksHold).                                                *)

NoShowAlone == \A o \in Ops : <<"noShow", o>> \notin Overlaps

Fresh ==
  \A s \in Sessions : pending[s].op = "noShow" =>
    /\ \A r \in pending[s].ids : status[r] = "CONFIRMED"
    /\ pending[s].cells = LineNights(pending[s].ids)

LEMMA NoShowExcludes ==
  ASSUME NoShowAlone, NEW o \in Ops, NEW self, MayCommit(o, self),
         NEW s \in Sessions \ self
  PROVE  pending[s].op # "noShow"
BY DEF NoShowAlone, MayCommit

LEMMA FreshStep == NoShowAlone /\ TypeOK /\ Fresh /\ [Next]_vars => Fresh'
<1> SUFFICES ASSUME NoShowAlone, TypeOK, Fresh, [Next]_vars PROVE Fresh'
  OBVIOUS
<1> USE DEF TypeOK, Ops, TwoPhase
<1>1. ASSUME NEW r \in Reservations, NEW s \in Stays, Create(r, s) PROVE Fresh'
  BY <1>1, NoShowExcludes DEF Create, Fresh
<1>2. ASSUME NEW r \in Reservations, Cancel(r) PROVE Fresh'
  BY <1>2, NoShowExcludes DEF Cancel, Fresh
<1>3. ASSUME NEW r \in Reservations, NEW s \in Stays, ModifyDates(r, s) PROVE Fresh'
  BY <1>3, NoShowExcludes DEF ModifyDates, Fresh
<1>4. ASSUME NEW s \in Sessions, NEW r \in Reservations, CheckInRead(s, r) PROVE Fresh'
  BY <1>4 DEF CheckInRead, Fresh, LineNights, Saw, booking
<1>5. ASSUME NEW s \in Sessions, NEW r \in Reservations, CheckInCommit(s, r) PROVE Fresh'
  BY <1>5, NoShowExcludes DEF CheckInCommit, Fresh, Saw, Idle
<1>6. ASSUME NEW s \in Sessions, NEW r \in Reservations, CheckOutRead(s, r) PROVE Fresh'
  BY <1>6 DEF CheckOutRead, Fresh, LineNights, Saw, booking
<1>7. ASSUME NEW s \in Sessions, NEW r \in Reservations, CheckOutCommit(s, r) PROVE Fresh'
  BY <1>7, NoShowExcludes DEF CheckOutCommit, Fresh, Saw, Idle
<1>8. ASSUME NEW s \in Sessions, NoShowRead(s) PROVE Fresh'
  BY <1>8 DEF NoShowRead, Fresh, LineNights, Saw, Stragglers, booking
<1>9. ASSUME NEW s \in Sessions, NoShowCommit(s) PROVE Fresh'
  BY <1>9, NoShowExcludes DEF NoShowCommit, Fresh, Saw, Idle
<1>10. ASSUME NEW s \in Sessions, Rollback(s) PROVE Fresh'
  BY <1>10 DEF Rollback, Fresh, LineNights, Saw, Idle, booking
<1>11. CASE UNCHANGED <<status, stay, pending>>
  BY <1>11 DEF Fresh, LineNights
<1>12. CASE \E s \in Sessions : RoomChargesRead(s)
  BY <1>12 DEF RoomChargesRead, Fresh, LineNights, Saw, Idle, booking
<1>13. CASE \E s \in Sessions, c \in Charges : RoomChargesCommit(s, c)
  BY <1>13 DEF RoomChargesCommit, Fresh, LineNights, Saw, Idle, booking
<1> QED
  BY <1>1, <1>2, <1>3, <1>4, <1>5, <1>6, <1>7, <1>8, <1>9, <1>10, <1>11, <1>12, <1>13
  DEF Next, vars, AssignRoom, UpdateRoomStatus, PostCharge, PostPayment, Post,
      AdvanceBusinessDate, booking

\* The lines Demand counts.
Wanted(r, s, t, n) ==
  IF n \in NightsOf(s) THEN {l \in LinesOf(r) : LineType[l] = t} ELSE {}

LEMMA DemandCounts ==
  ASSUME NEW r, NEW s, NEW t, NEW n
  PROVE  /\ Wanted(r, s, t, n) \subseteq Lines
         /\ IsFiniteSet(Wanted(r, s, t, n))
         /\ Demand(r, s, t, n) = Cardinality(Wanted(r, s, t, n))
<1>1. Wanted(r, s, t, n) \subseteq Lines
  BY DEF Wanted, LinesOf
<1>2. IsFiniteSet(Wanted(r, s, t, n))
  BY <1>1, FS_Subset, FiniteAssumption
<1>3. Demand(r, s, t, n) = Cardinality(Wanted(r, s, t, n))
  BY FS_EmptySet DEF Demand, Wanted
<1> QED BY <1>1, <1>2, <1>3

LEMMA HeldFinite ==
  ASSUME NEW t, NEW n
  PROVE  IsFiniteSet(HeldLines(t, n)) /\ Cardinality(HeldLines(t, n)) \in Nat
BY FS_Subset, FS_CardinalityType, FiniteAssumption DEF HeldLines

LEMMA CountUnion ==
  ASSUME NEW S, NEW T, IsFiniteSet(S), IsFiniteSet(T), S \cap T = {}
  PROVE  Cardinality(S \cup T) = Cardinality(S) + Cardinality(T)
<1>1. Cardinality(S \cup T) = Cardinality(S) + Cardinality(T) - Cardinality(S \cap T)
  BY FS_Union
<1>2. Cardinality(S \cap T) = 0
  BY FS_EmptySet
<1>3. Cardinality(S) \in Nat /\ Cardinality(T) \in Nat
  BY FS_CardinalityType
<1> QED BY <1>1, <1>2, <1>3

LEMMA CountDifference ==
  ASSUME NEW S, NEW T, IsFiniteSet(S), T \subseteq S
  PROVE  /\ Cardinality(S \ T) = Cardinality(S) - Cardinality(T)
         /\ Cardinality(T) <= Cardinality(S)
<1>1. Cardinality(S \ T) = Cardinality(S) - Cardinality(S \cap T)
  BY FS_Difference
<1>2. S \cap T = T
  OBVIOUS
<1> QED BY <1>1, <1>2, FS_Subset

LEMMA SoldStep ==
  NoShowAlone /\ TypeOK /\ LocksHold /\ Fresh /\ SoldMatchesHeld /\ [Next]_vars
    => SoldMatchesHeld'
<1> SUFFICES ASSUME NoShowAlone, TypeOK, LocksHold, Fresh, SoldMatchesHeld, [Next]_vars,
                    NEW t \in RoomTypes, NEW n \in Nights
             PROVE  sold'[t][n] = Cardinality(HeldLines(t, n)')
  BY DEF SoldMatchesHeld
<1> USE IdsAssumption
<1>0. sold[t][n] = Cardinality(HeldLines(t, n)) /\ sold[t][n] \in Nat
  BY DEF SoldMatchesHeld, TypeOK
<1>1. ASSUME NEW r \in Reservations, NEW s \in Stays, Create(r, s)
      PROVE  sold'[t][n] = Cardinality(HeldLines(t, n)')
  <2>1. HeldLines(t, n)' = HeldLines(t, n) \cup Wanted(r, s, t, n)
    BY <1>1 DEF Create, HeldLines, Wanted, LinesOf, Holds, OccupiesInventory, TypeOK
  <2>2. HeldLines(t, n) \cap Wanted(r, s, t, n) = {}
    BY <1>1 DEF Create, HeldLines, Wanted, LinesOf, Holds
  <2>3. sold'[t][n] = sold[t][n] + Demand(r, s, t, n)
    BY <1>1 DEF Create, Hold
  <2> QED BY <1>0, <2>1, <2>2, <2>3, DemandCounts, HeldFinite, CountUnion
<1>2. ASSUME NEW r \in Reservations, Cancel(r)
      PROVE  sold'[t][n] = Cardinality(HeldLines(t, n)')
  <2>1. HeldLines(t, n)' = HeldLines(t, n) \ Wanted(r, stay[r], t, n)
    BY <1>2 DEF Cancel, HeldLines, Wanted, LinesOf, Holds, OccupiesInventory, TypeOK
  <2>2. Wanted(r, stay[r], t, n) \subseteq HeldLines(t, n)
    BY <1>2 DEF Cancel, HeldLines, Wanted, LinesOf, Holds, OccupiesInventory,
                CanTransition, ReservationMoves
  <2>3. sold'[t][n] = sold[t][n] - Demand(r, stay[r], t, n)
    BY <1>2 DEF Cancel, Release
  <2> QED BY <1>0, <2>1, <2>2, <2>3, DemandCounts, HeldFinite, CountDifference
<1>3. ASSUME NEW r \in Reservations, NEW s \in Stays, ModifyDates(r, s)
      PROVE  sold'[t][n] = Cardinality(HeldLines(t, n)')
  <2> DEFINE kept == HeldLines(t, n) \ Wanted(r, stay[r], t, n)
  <2>0. Holds(r)
    BY <1>3 DEF ModifyDates, IsModifiable, Holds, OccupiesInventory
  <2>1. HeldLines(t, n)' = kept \cup Wanted(r, s, t, n)
    BY <1>3, <2>0 DEF ModifyDates, HeldLines, Wanted, LinesOf, Holds, TypeOK, NightsOf
  <2>2. Wanted(r, stay[r], t, n) \subseteq HeldLines(t, n)
    BY <2>0 DEF HeldLines, Wanted, LinesOf
  <2>3. kept \cap Wanted(r, s, t, n) = {}
    BY DEF HeldLines, Wanted, LinesOf
  <2>4. IsFiniteSet(kept)
    BY HeldFinite, FS_Subset
  <2>5. sold'[t][n] = sold[t][n] - Demand(r, stay[r], t, n) + Demand(r, s, t, n)
    BY <1>3 DEF ModifyDates, Release, Hold
  <2>6. Cardinality(kept) = Cardinality(HeldLines(t, n)) - Demand(r, stay[r], t, n)
    BY <2>2, DemandCounts, HeldFinite, CountDifference
  <2>7. Cardinality(HeldLines(t, n)') = Cardinality(kept) + Demand(r, s, t, n)
    BY <2>1, <2>3, <2>4, DemandCounts, CountUnion
  <2> QED BY <1>0, <2>5, <2>6, <2>7
<1>4. ASSUME NEW s \in Sessions, NEW r \in Reservations,
             CheckInCommit(s, r) \/ CheckOutCommit(s, r)
      PROVE  sold'[t][n] = Cardinality(HeldLines(t, n)')
  <2>1. Holds(r) /\ Holds(r)'
    BY <1>4 DEF CheckInCommit, CheckOutCommit, LocksHold, Holds, OccupiesInventory, TypeOK
  <2>2. HeldLines(t, n)' = HeldLines(t, n)
    BY <1>4, <2>1 DEF CheckInCommit, CheckOutCommit, HeldLines, Holds, TypeOK
  <2> QED BY <1>0, <1>4, <2>2 DEF CheckInCommit, CheckOutCommit
<1>5. ASSUME NEW s \in Sessions, NoShowCommit(s)
      PROVE  sold'[t][n] = Cardinality(HeldLines(t, n)')
  <2> DEFINE gone == {l \in Lines : LineType[l] = t /\ <<l, n>> \in pending[s].cells}
  <2>1. gone = {l \in Lines : /\ LineType[l] = t
                              /\ ReservationOf[l] \in pending[s].ids
                              /\ n \in NightsOf(stay[ReservationOf[l]])}
    <3>1. pending[s].cells = LineNights(pending[s].ids)
      BY <1>5 DEF NoShowCommit, Fresh
    <3>2. ASSUME NEW l \in Lines
          PROVE  <<l, n>> \in LineNights(pending[s].ids) <=>
                   ReservationOf[l] \in pending[s].ids /\ n \in NightsOf(stay[ReservationOf[l]])
      <4>1. <<l, n>> \in Lines \X Nights /\ <<l, n>>[1] = l /\ <<l, n>>[2] = n
        OBVIOUS
      <4> QED BY <4>1, Zenon DEF LineNights
    <3> QED BY <3>1, <3>2
  <2>2. \A r \in pending[s].ids : Holds(r)
    BY <1>5 DEF NoShowCommit, Fresh, Holds, OccupiesInventory
  <2>3. gone \subseteq HeldLines(t, n)
    BY <2>1, <2>2 DEF HeldLines
  <2>4. HeldLines(t, n)' = HeldLines(t, n) \ gone
    BY <1>5, <2>1 DEF NoShowCommit, HeldLines, Holds, OccupiesInventory
  <2>5. sold'[t][n] = Returned(pending[s].cells, t, n)
    BY <1>5 DEF NoShowCommit
  <2>6. Cardinality(HeldLines(t, n) \ gone) = Cardinality(HeldLines(t, n)) - Cardinality(gone)
        /\ Cardinality(gone) <= Cardinality(HeldLines(t, n))
    BY <2>3, HeldFinite, CountDifference
  <2>7. Returned(pending[s].cells, t, n)
          = IF sold[t][n] >= Cardinality(gone) THEN sold[t][n] - Cardinality(gone) ELSE 0
    BY DEF Returned
  <2>8. Cardinality(gone) \in Nat
    BY <2>3, HeldFinite, FS_Subset, FS_CardinalityType
  <2> HIDE DEF gone
  <2> QED BY <1>0, <2>4, <2>5, <2>6, <2>7, <2>8
<1>6. CASE UNCHANGED <<status, stay, sold>>
  BY <1>0, <1>6 DEF HeldLines, Holds
<1> QED
  BY <1>1, <1>2, <1>3, <1>4, <1>5, <1>6
  DEF Next, vars, AssignRoom, UpdateRoomStatus, PostCharge, PostPayment, Post,
      CheckInRead, CheckOutRead, NoShowRead, RoomChargesRead, RoomChargesCommit, Rollback,
      AdvanceBusinessDate, booking

LEMMA InitSold == Init => Fresh /\ SoldMatchesHeld
<1> SUFFICES ASSUME Init PROVE Fresh /\ SoldMatchesHeld
  OBVIOUS
<1>1. Fresh
  BY DEF Init, Fresh, Idle, Saw
<1>2. \A t \in RoomTypes, n \in Nights : HeldLines(t, n) = {}
  BY IdsAssumption DEF Init, HeldLines, Holds
<1>3. \A t \in RoomTypes, n \in Nights : sold[t][n] = 0
  BY DEF Init
<1> QED BY <1>1, <1>2, <1>3, FS_EmptySet DEF SoldMatchesHeld

\* When no other handler commits beside the no-show step, the counters that
\* sell nights are exactly the live lines, through every other overlap.
THEOREM CountersAreExact ==
  ASSUME NoShowAlone
  PROVE  Spec => []SoldMatchesHeld
<1> DEFINE IInv == TypeOK /\ LocksHold /\ Fresh /\ SoldMatchesHeld
<1>1. Init => IInv
  BY InitType, InitLocks, InitSold
<1>2. IInv /\ [Next]_vars => IInv'
  BY NextType, LocksStep, FreshStep, SoldStep
<1>3. IInv => SoldMatchesHeld
  OBVIOUS
<1> QED BY <1>1, <1>2, <1>3, PTL DEF Spec

-----------------------------------------------------------------------------
(* No night is oversold: the counters stay within the rooms of the type,   *)
(* and they are the live lines.                                            *)

RoomsOfType(t) == {k \in Rooms : RoomType[k] = t}

SoldWithinRooms ==
  \A t \in RoomTypes, n \in Nights : sold[t][n] <= Cardinality(RoomsOfType(t))

LEMMA SellableWithinRooms ==
  ASSUME NEW t
  PROVE  /\ Sellable(t) \in Nat
         /\ Cardinality(RoomsOfType(t)) \in Nat
         /\ Sellable(t) <= Cardinality(RoomsOfType(t))
<1>1. IsFiniteSet(RoomsOfType(t))
  BY FS_Subset, FiniteAssumption DEF RoomsOfType
<1>2. {k \in Rooms : RoomType[k] = t /\ ~IsBlocked(roomStatus[k])} \subseteq RoomsOfType(t)
  BY DEF RoomsOfType
<1> QED BY <1>1, <1>2, FS_Subset, FS_CardinalityType DEF Sellable

\* A hold that passed its check ends within the rooms.
LEMMA HoldWithinRooms ==
  ASSUME NEW c \in [RoomTypes -> [Nights -> Nat]], NEW r, NEW s, CanHold(c, r, s),
         NEW t \in RoomTypes, NEW n \in Nights, c[t][n] <= Cardinality(RoomsOfType(t))
  PROVE  Hold(c, r, s)[t][n] <= Cardinality(RoomsOfType(t))
<1>1. Hold(c, r, s)[t][n] = c[t][n] + Demand(r, s, t, n)
  BY DEF Hold
<1>2. Demand(r, s, t, n) > 0 => Sellable(t) - c[t][n] >= Demand(r, s, t, n)
  BY DEF CanHold
<1>3. c[t][n] \in Nat /\ Demand(r, s, t, n) \in Nat
  BY DemandNat
<1> QED BY <1>1, <1>2, <1>3, SellableWithinRooms

LEMMA SoldWithinStep == TypeOK /\ SoldWithinRooms /\ [Next]_vars => SoldWithinRooms'
<1> SUFFICES ASSUME TypeOK, SoldWithinRooms, [Next]_vars,
                    NEW t \in RoomTypes, NEW n \in Nights
             PROVE  sold'[t][n] <= Cardinality(RoomsOfType(t))
  BY DEF SoldWithinRooms, RoomsOfType
<1>0. /\ sold \in [RoomTypes -> [Nights -> Nat]]
      /\ sold[t][n] \in Nat
      /\ sold[t][n] <= Cardinality(RoomsOfType(t))
      /\ Cardinality(RoomsOfType(t)) \in Nat
  BY SellableWithinRooms DEF TypeOK, SoldWithinRooms
<1>1. ASSUME NEW r \in Reservations, NEW s \in Stays, Create(r, s)
      PROVE  sold'[t][n] <= Cardinality(RoomsOfType(t))
  BY <1>0, <1>1, HoldWithinRooms DEF Create
<1>2. ASSUME NEW r \in Reservations, Cancel(r)
      PROVE  sold'[t][n] <= Cardinality(RoomsOfType(t))
  BY <1>0, <1>2, DemandNat DEF Cancel, Release
<1>3. ASSUME NEW r \in Reservations, NEW s \in Stays, ModifyDates(r, s)
      PROVE  sold'[t][n] <= Cardinality(RoomsOfType(t))
  <2> DEFINE released == Release(sold, r, stay[r])
  <2>1. released \in [RoomTypes -> [Nights -> Nat]]
    BY <1>0, <1>3, ReleaseType DEF ModifyDates
  <2>2. released[t][n] = sold[t][n] - Demand(r, stay[r], t, n)
    BY DEF Release
  <2>3. released[t][n] <= Cardinality(RoomsOfType(t))
    BY <1>0, <2>2, DemandNat
  <2>4. CanHold(released, r, s) /\ sold' = Hold(released, r, s)
    BY <1>3 DEF ModifyDates
  <2> HIDE DEF released
  <2> QED BY <2>1, <2>3, <2>4, HoldWithinRooms
<1>4. ASSUME NEW s \in Sessions, NoShowCommit(s)
      PROVE  sold'[t][n] <= Cardinality(RoomsOfType(t))
  <2> DEFINE count ==
        Cardinality({l \in Lines : LineType[l] = t /\ <<l, n>> \in pending[s].cells})
  <2>1. count \in Nat
    BY FS_Subset, FS_CardinalityType, FiniteAssumption
  <2>2. sold'[t][n] = IF sold[t][n] >= count THEN sold[t][n] - count ELSE 0
    BY <1>4 DEF NoShowCommit, Returned
  <2> HIDE DEF count
  <2> QED BY <1>0, <2>1, <2>2
<1>5. CASE UNCHANGED sold
  BY <1>0, <1>5
<1> QED
  BY <1>1, <1>2, <1>3, <1>4, <1>5
  DEF Next, vars, AssignRoom, UpdateRoomStatus, PostCharge, PostPayment, Post,
      CheckInRead, CheckInCommit, CheckOutRead, CheckOutCommit, NoShowRead,
      RoomChargesRead, RoomChargesCommit, Rollback, AdvanceBusinessDate, booking

\* Beside a no-show step that runs alone, no night of a room type is ever held
\* by more lines than the hotel has rooms of the type, even when rooms go out of
\* order after they were sold.
THEOREM NightsAreNeverOversold ==
  ASSUME NoShowAlone
  PROVE  Spec => []NeverOversold
<1>1. Init => SoldWithinRooms
  BY SellableWithinRooms DEF Init, SoldWithinRooms
<1>2. TypeOK /\ SoldWithinRooms /\ [Next]_vars => SoldWithinRooms'
  BY SoldWithinStep
<1>3. SoldWithinRooms /\ SoldMatchesHeld => NeverOversold
  BY DEF SoldWithinRooms, SoldMatchesHeld, NeverOversold, RoomsOfType
<1> QED BY <1>1, <1>2, <1>3, TypeCorrect, CountersAreExact, PTL DEF Spec

-----------------------------------------------------------------------------
(* Statuses and bills.                                                     *)

LEMMA LegalStep ==
  TypeOK /\ LocksHold /\ Fresh /\ [Next]_vars =>
    \A r \in Reservations : status'[r] # status[r] =>
      \/ status[r] = "NONE" /\ status'[r] = "CONFIRMED"
      \/ CanTransition(status[r], status'[r])
<1> SUFFICES ASSUME TypeOK, LocksHold, Fresh, [Next]_vars, NEW q \in Reservations,
                    status'[q] # status[q]
             PROVE  \/ status[q] = "NONE" /\ status'[q] = "CONFIRMED"
                    \/ CanTransition(status[q], status'[q])
  OBVIOUS
<1> USE DEF TypeOK
<1>1. ASSUME NEW r \in Reservations, NEW s \in Stays, Create(r, s)
      PROVE  status[q] = "NONE" /\ status'[q] = "CONFIRMED"
  BY <1>1 DEF Create
<1>2. ASSUME NEW r \in Reservations, Cancel(r) PROVE CanTransition(status[q], status'[q])
  BY <1>2 DEF Cancel
<1>3. ASSUME NEW s \in Sessions, NEW r \in Reservations, CheckInCommit(s, r)
      PROVE  CanTransition(status[q], status'[q])
  BY <1>3 DEF CheckInCommit, LocksHold, CanTransition, ReservationMoves
<1>4. ASSUME NEW s \in Sessions, NEW r \in Reservations, CheckOutCommit(s, r)
      PROVE  CanTransition(status[q], status'[q])
  BY <1>4 DEF CheckOutCommit, LocksHold, CanTransition, ReservationMoves
<1>5. ASSUME NEW s \in Sessions, NoShowCommit(s) PROVE CanTransition(status[q], status'[q])
  BY <1>5 DEF NoShowCommit, Fresh, CanTransition, ReservationMoves
<1> QED
  BY <1>1, <1>2, <1>3, <1>4, <1>5
  DEF Next, vars, ModifyDates, AssignRoom, UpdateRoomStatus, PostCharge, PostPayment,
      Post, CheckInRead, CheckOutRead, NoShowRead, RoomChargesRead, RoomChargesCommit, Rollback,
      AdvanceBusinessDate, booking

\* Beside a no-show step that runs alone, every change of a reservation's
\* status is a move of the transition table.
THEOREM StatusesMoveLegally ==
  ASSUME NoShowAlone
  PROVE  Spec => LegalTransitionsOnly
<1>1. Init => TypeOK /\ LocksHold /\ Fresh
  BY InitType, InitLocks, InitSold
<1>2. TypeOK /\ LocksHold /\ Fresh /\ [Next]_vars => (TypeOK /\ LocksHold /\ Fresh)'
  BY NextType, LocksStep, FreshStep
<1> QED BY <1>1, <1>2, LegalStep, PTL DEF Spec, LegalTransitionsOnly

LEMMA FolioStep ==
  TypeOK /\ LocksHold /\ Fresh /\ FolioFollowsStay /\ [Next]_vars => FolioFollowsStay'
<1> SUFFICES ASSUME TypeOK, LocksHold, Fresh, FolioFollowsStay, [Next]_vars
             PROVE  FolioFollowsStay'
  OBVIOUS
<1> USE DEF TypeOK, FolioFollowsStay
<1>1. ASSUME NEW r \in Reservations, NEW s \in Stays, Create(r, s) PROVE FolioFollowsStay'
  BY <1>1 DEF Create, bills
<1>2. ASSUME NEW r \in Reservations, Cancel(r) PROVE FolioFollowsStay'
  BY <1>2 DEF Cancel, bills, CanTransition, ReservationMoves
<1>3. ASSUME NEW s \in Sessions, NEW r \in Reservations, CheckInCommit(s, r)
      PROVE  FolioFollowsStay'
  BY <1>3 DEF CheckInCommit, LocksHold
<1>4. ASSUME NEW s \in Sessions, NEW r \in Reservations, CheckOutCommit(s, r)
      PROVE  FolioFollowsStay'
  BY <1>4 DEF CheckOutCommit, LocksHold
<1>5. ASSUME NEW s \in Sessions, NoShowCommit(s) PROVE FolioFollowsStay'
  BY <1>5 DEF NoShowCommit, Fresh, bills
<1>6. CASE UNCHANGED <<status, folio>>
  BY <1>6
<1> QED
  BY <1>1, <1>2, <1>3, <1>4, <1>5, <1>6
  DEF Next, vars, ModifyDates, AssignRoom, UpdateRoomStatus, PostCharge, PostPayment,
      Post, CheckInRead, CheckOutRead, NoShowRead, RoomChargesRead, RoomChargesCommit,
      Rollback, AdvanceBusinessDate,
      booking, bills

\* Beside a no-show step that runs alone, a folio is open exactly while its
\* guest is in the house and settled exactly when they have left.
THEOREM BillsFollowStays ==
  ASSUME NoShowAlone
  PROVE  Spec => []FolioFollowsStay
<1> DEFINE IInv == TypeOK /\ LocksHold /\ Fresh /\ FolioFollowsStay
<1>1. Init => IInv
  BY InitType, InitLocks, InitSold DEF Init, FolioFollowsStay
<1>2. IInv /\ [Next]_vars => IInv'
  BY NextType, LocksStep, FreshStep, FolioStep
<1>3. IInv => FolioFollowsStay
  OBVIOUS
<1> QED BY <1>1, <1>2, <1>3, PTL DEF Spec

-----------------------------------------------------------------------------
(* Settlement. The audit charges folios it found open by a guest's status,  *)
(* so what it needs to know is that they have not been settled since.       *)

\* No posting and no charging step commits beside a check-out, and no check-out
\* beside a charging step.
PostingWaits ==
  /\ <<"checkOut", "post">> \notin Overlaps
  /\ <<"checkOut", "roomCharges">> \notin Overlaps
  /\ <<"roomCharges", "checkOut">> \notin Overlaps

\* A booking has no bill before its guest arrives and an open one while they stay.
BillsOpen ==
  \A r \in Reservations :
    /\ status[r] \in {"NONE", "CONFIRMED"} => folio[r] = "NONE"
    /\ status[r] = "CHECKED_IN" => folio[r] = "OPEN"

\* A check-out that is waiting to commit still sees the balance it read, and a
\* charging step charges no bill that has been settled.
BalanceRead ==
  \A s \in Sessions :
    /\ pending[s].op = "checkOut" => \A r \in pending[s].ids : balance[r] = 0
    /\ pending[s].op = "roomCharges" => \A r \in pending[s].ids : folio[r] # "SETTLED"

LEMMA BillsOpenStep == TypeOK /\ LocksHold /\ BillsOpen /\ [Next]_vars => BillsOpen'
<1> SUFFICES ASSUME TypeOK, LocksHold, BillsOpen, [Next]_vars PROVE BillsOpen'
  OBVIOUS
<1> USE DEF TypeOK, BillsOpen
<1>1. ASSUME NEW r \in Reservations, NEW s \in Stays, Create(r, s) PROVE BillsOpen'
  BY <1>1 DEF Create, bills
<1>2. ASSUME NEW r \in Reservations, Cancel(r) PROVE BillsOpen'
  BY <1>2 DEF Cancel, bills
<1>3. ASSUME NEW s \in Sessions, NEW r \in Reservations, CheckInCommit(s, r) PROVE BillsOpen'
  BY <1>3 DEF CheckInCommit, LocksHold
<1>4. ASSUME NEW s \in Sessions, NEW r \in Reservations, CheckOutCommit(s, r) PROVE BillsOpen'
  BY <1>4 DEF CheckOutCommit
<1>5. ASSUME NEW s \in Sessions, NoShowCommit(s) PROVE BillsOpen'
  BY <1>5 DEF NoShowCommit, bills
<1>6. CASE UNCHANGED <<status, folio>>
  BY <1>6
<1> QED
  BY <1>1, <1>2, <1>3, <1>4, <1>5, <1>6
  DEF Next, vars, ModifyDates, AssignRoom, UpdateRoomStatus, PostCharge, PostPayment,
      Post, CheckInRead, CheckOutRead, NoShowRead, RoomChargesRead, RoomChargesCommit,
      Rollback, AdvanceBusinessDate, booking, bills

LEMMA BalanceStep ==
  PostingWaits /\ TypeOK /\ LocksHold /\ BillsOpen /\ BalanceRead /\ SettledAtZero /\ [Next]_vars
    => BalanceRead' /\ SettledAtZero'
<1> SUFFICES ASSUME PostingWaits, TypeOK, LocksHold, BillsOpen, BalanceRead, SettledAtZero,
                    [Next]_vars
             PROVE  BalanceRead' /\ SettledAtZero'
  OBVIOUS
<1> USE DEF TypeOK, BalanceRead, SettledAtZero
<1>1. ASSUME NEW r \in Reservations, NEW a, Post(r, a) PROVE BalanceRead' /\ SettledAtZero'
  <2>1. \A s \in Sessions : pending[s].op # "checkOut"
    BY <1>1 DEF Post, MayCommit, PostingWaits
  <2> QED BY <1>1, <2>1 DEF Post
<1>2. ASSUME NEW s \in Sessions, NEW r \in Reservations, CheckInRead(s, r)
      PROVE  BalanceRead' /\ SettledAtZero'
  BY <1>2 DEF CheckInRead, Saw, bills
<1>3. ASSUME NEW s \in Sessions, NEW r \in Reservations, CheckInCommit(s, r)
      PROVE  BalanceRead' /\ SettledAtZero'
  BY <1>3 DEF CheckInCommit, Saw, Idle
<1>4. ASSUME NEW s \in Sessions, NEW r \in Reservations, CheckOutRead(s, r)
      PROVE  BalanceRead' /\ SettledAtZero'
  BY <1>4 DEF CheckOutRead, Saw, bills
<1>5. ASSUME NEW s \in Sessions, NEW r \in Reservations, CheckOutCommit(s, r)
      PROVE  BalanceRead' /\ SettledAtZero'
  <2>1. \A t \in Sessions \ {s} : pending[t].op # "roomCharges"
    BY <1>5 DEF CheckOutCommit, MayCommit, PostingWaits
  <2> QED BY <1>5, <2>1 DEF CheckOutCommit, Saw, Idle
<1>6. ASSUME NEW s \in Sessions, NoShowRead(s) \/ NoShowCommit(s) \/ Rollback(s)
      PROVE  BalanceRead' /\ SettledAtZero'
  BY <1>6 DEF NoShowRead, NoShowCommit, Rollback, Saw, Idle, bills
<1>7. CASE UNCHANGED <<bills, pending>>
  BY <1>7 DEF bills
<1>8. ASSUME NEW s \in Sessions, RoomChargesRead(s) PROVE BalanceRead' /\ SettledAtZero'
  <2>1. \A r \in StayingTonight : folio[r] = "OPEN"
    BY DEF StayingTonight, BillsOpen
  <2> QED BY <1>8, <2>1 DEF RoomChargesRead, Saw, bills
<1>9. ASSUME NEW s \in Sessions, NEW charges \in Charges,
             RoomChargesCommit(s, charges)
      PROVE  BalanceRead' /\ SettledAtZero'
  <2>1. \A t \in Sessions \ {s} : pending[t].op # "checkOut"
    BY <1>9 DEF RoomChargesCommit, MayCommit, PostingWaits
  <2>2. ASSUME NEW r \in Reservations, folio[r] = "SETTLED" PROVE balance'[r] = 0
    <3>1. r \notin pending[s].ids /\ balance[r] = 0
      BY <1>9, <2>2 DEF RoomChargesCommit
    <3>2. balance'[r] = balance[r] + 0
      BY <1>9, <3>1 DEF RoomChargesCommit
    <3> QED BY <3>1, <3>2
  <2>3. pending' = [pending EXCEPT ![s] = Idle] /\ folio' = folio
    BY <1>9 DEF RoomChargesCommit
  <2> QED BY <2>1, <2>2, <2>3 DEF Idle, Saw
<1> QED
  BY <1>1, <1>2, <1>3, <1>4, <1>5, <1>6, <1>7, <1>8, <1>9
  DEF Next, vars, Create, Cancel, ModifyDates, AssignRoom, UpdateRoomStatus, PostCharge,
      PostPayment, AdvanceBusinessDate, bills

\* If neither the desk's postings nor the night audit's charging step overlap a
\* check-out, a settled folio's balance is zero for good, although the audit
\* picks whom it charges from an unlocked list and never looks at the folio.
THEOREM FoliosSettleAtZero ==
  ASSUME PostingWaits
  PROVE  Spec => []SettledAtZero
<1> DEFINE IInv == TypeOK /\ LocksHold /\ BillsOpen /\ BalanceRead /\ SettledAtZero
<1>1. Init => IInv
  BY InitType, InitLocks DEF Init, BillsOpen, BalanceRead, SettledAtZero, Idle, Saw
<1>2. IInv /\ [Next]_vars => IInv'
  BY NextType, LocksStep, BillsOpenStep, BalanceStep
<1>3. IInv => SettledAtZero
  OBVIOUS
<1> QED BY <1>1, <1>2, <1>3, PTL DEF Spec

-----------------------------------------------------------------------------
(* The room board. Check-in and check-out write the rooms and the          *)
(* reservation together, of lines they read before without a lock: the two *)
(* boards agree as long as nobody else touches those lines in between.     *)

\* A desk that takes turns: no handler beside a no-show step, nobody assigns a
\* room or checks another guest in beside a check-in, and a guest is neither
\* moved while in the house nor checked in to a room that is occupied.
DeskTakesTurns ==
  /\ NoShowAlone
  /\ <<"checkIn", "assignRoom">> \notin Overlaps
  /\ <<"checkIn", "checkIn">> \notin Overlaps
  /\ ~MoveInHouse
  /\ ~JoinOccupied

\* A stay handler still knows its reservation's rooms when it commits, and a
\* check-in's rooms are still free.
RoomsRead ==
  \A s \in Sessions :
    /\ pending[s].op = "checkIn" =>
         /\ \A r \in pending[s].ids : pending[s].rooms = RoomsOf(r)
         /\ \A k \in pending[s].rooms \cap Rooms : roomStatus[k] # "OCCUPIED"
    /\ pending[s].op = "checkOut" =>
         \A r \in pending[s].ids : pending[s].rooms = RoomsOf(r) \ {NoRoom}

\* Two guests of different bookings never sleep in one room.
RoomToThemselves ==
  \A l, m \in InHouse :
    roomOf[l] = roomOf[m] /\ roomOf[l] # NoRoom => ReservationOf[l] = ReservationOf[m]

LEMMA BoardStable ==
  ASSUME RoomBoardAgrees, RoomToThemselves, UNCHANGED roomOf,
         \A l \in Lines : status'[ReservationOf[l]] = "CHECKED_IN"
                          <=> status[ReservationOf[l]] = "CHECKED_IN",
         \A k \in Rooms : roomStatus'[k] = "OCCUPIED" <=> roomStatus[k] = "OCCUPIED"
  PROVE  RoomBoardAgrees' /\ RoomToThemselves'
<1>1. InHouse' = InHouse
  BY DEF InHouse
<1> QED BY <1>1 DEF RoomBoardAgrees, RoomToThemselves

LEMMA RoomsReadStable ==
  ASSUME RoomsRead, UNCHANGED <<roomOf, pending>>,
         \A k \in Rooms : roomStatus'[k] = "OCCUPIED" => roomStatus[k] = "OCCUPIED"
  PROVE  RoomsRead'
BY DEF RoomsRead, RoomsOf, LinesOf

LEMMA RoomsReadStep ==
  DeskTakesTurns /\ TypeOK /\ LocksHold /\ RoomsRead /\ RoomBoardAgrees /\ [Next]_vars => RoomsRead'
<1> SUFFICES ASSUME DeskTakesTurns, TypeOK, LocksHold, RoomsRead, RoomBoardAgrees, [Next]_vars
             PROVE  RoomsRead'
  OBVIOUS
<1> USE IdsAssumption DEF TypeOK
<1>1. ASSUME NEW l \in Lines, NEW k \in Rooms, AssignRoom(l, k) PROVE RoomsRead'
  <2>1. \A s \in Sessions : pending[s].op # "checkIn"
    BY <1>1 DEF AssignRoom, MayCommit, DeskTakesTurns
  <2>2. status[ReservationOf[l]] = "CONFIRMED"
    BY <1>1 DEF AssignRoom, DeskTakesTurns
  <2>3. ASSUME NEW r \in Reservations, status[r] # "CONFIRMED" PROVE RoomsOf(r)' = RoomsOf(r)
    BY <1>1, <2>2, <2>3 DEF AssignRoom, RoomsOf, LinesOf
  <2>4. ASSUME NEW s \in Sessions, pending[s].op = "checkOut", NEW r \in pending[s].ids
        PROVE  pending[s].rooms = RoomsOf(r)' \ {NoRoom}
    <3>1. r \in Reservations /\ status[r] = "CHECKED_IN"
      BY <2>4 DEF LocksHold, Transactions
    <3> QED BY <2>3, <2>4, <3>1 DEF RoomsRead
  <2>5. pending' = pending
    BY <1>1 DEF AssignRoom
  <2> QED BY <2>1, <2>4, <2>5 DEF RoomsRead
<1>2. ASSUME NEW k \in Rooms, NEW to \in BoardStatuses, UpdateRoomStatus(k, to) PROVE RoomsRead'
  <2>1. to # "OCCUPIED"
    BY <1>2 DEF UpdateRoomStatus, CanTransitionManually, RoomMoves, SystemOnly
  <2>2. \A j \in Rooms : roomStatus'[j] = "OCCUPIED" => roomStatus[j] = "OCCUPIED"
    BY <1>2, <2>1 DEF UpdateRoomStatus
  <2> QED BY <1>2, <2>2, RoomsReadStable DEF UpdateRoomStatus, booking
<1>3. ASSUME NEW s \in Sessions, NEW r \in Reservations, CheckInRead(s, r) PROVE RoomsRead'
  <2>1. /\ pending' = [pending EXCEPT ![s] = Saw("checkIn", {r}, RoomsOf(r), {})]
        /\ \A k \in RoomsOf(r) : roomStatus[k] # "OCCUPIED"
        /\ UNCHANGED <<roomOf, roomStatus>>
    BY <1>3 DEF CheckInRead, DeskTakesTurns, booking
  <2> QED BY <2>1 DEF RoomsRead, RoomsOf, LinesOf, Saw
<1>4. ASSUME NEW s \in Sessions, NEW r \in Reservations, CheckInCommit(s, r) PROVE RoomsRead'
  <2>1. \A t \in Sessions \ {s} : pending[t].op # "checkIn"
    BY <1>4 DEF CheckInCommit, MayCommit, DeskTakesTurns
  <2>2. pending' = [pending EXCEPT ![s] = Idle] /\ roomOf' = roomOf
    BY <1>4 DEF CheckInCommit
  <2> QED BY <2>1, <2>2 DEF RoomsRead, RoomsOf, LinesOf, Idle, Saw
<1>5. ASSUME NEW s \in Sessions, NEW r \in Reservations, CheckOutRead(s, r) PROVE RoomsRead'
  BY <1>5 DEF CheckOutRead, RoomsRead, RoomsOf, LinesOf, Saw, booking
<1>6. ASSUME NEW s \in Sessions, NEW r \in Reservations, CheckOutCommit(s, r) PROVE RoomsRead'
  <2>1. \A k \in Rooms : roomStatus'[k] = "OCCUPIED" => roomStatus[k] = "OCCUPIED"
    BY <1>6 DEF CheckOutCommit, MoveRooms
  <2>2. pending' = [pending EXCEPT ![s] = Idle] /\ roomOf' = roomOf
    BY <1>6 DEF CheckOutCommit
  <2> QED BY <2>1, <2>2 DEF RoomsRead, RoomsOf, LinesOf, Idle, Saw
<1>7. ASSUME NEW s \in Sessions, NoShowRead(s) PROVE RoomsRead'
  BY <1>7 DEF NoShowRead, RoomsRead, RoomsOf, LinesOf, Saw, booking
<1>8. ASSUME NEW s \in Sessions, NoShowCommit(s) \/ Rollback(s) PROVE RoomsRead'
  <2>1. pending' = [pending EXCEPT ![s] = Idle] /\ UNCHANGED <<roomOf, roomStatus>>
    BY <1>8 DEF NoShowCommit, Rollback, booking
  <2> QED BY <2>1 DEF RoomsRead, RoomsOf, LinesOf, Idle, Saw
<1>9. CASE UNCHANGED <<roomOf, roomStatus, pending>>
  BY <1>9, RoomsReadStable
<1>10. CASE \E s \in Sessions : RoomChargesRead(s)
  BY <1>10 DEF RoomChargesRead, RoomsRead, RoomsOf, LinesOf, Saw, Idle, booking
<1>11. CASE \E s \in Sessions, c \in Charges : RoomChargesCommit(s, c)
  BY <1>11 DEF RoomChargesCommit, RoomsRead, RoomsOf, LinesOf, Saw, Idle, booking
<1> QED
  BY <1>1, <1>2, <1>3, <1>4, <1>5, <1>6, <1>7, <1>8, <1>9, <1>10, <1>11
  DEF Next, vars, Create, Cancel, ModifyDates, PostCharge, PostPayment, Post,
      AdvanceBusinessDate, booking

LEMMA BoardStep ==
  DeskTakesTurns /\ TypeOK /\ LocksHold /\ Fresh /\ RoomsRead /\ RoomBoardAgrees
      /\ RoomToThemselves /\ [Next]_vars
    => RoomBoardAgrees' /\ RoomToThemselves'
<1> SUFFICES ASSUME DeskTakesTurns, TypeOK, LocksHold, Fresh, RoomsRead, RoomBoardAgrees,
                    RoomToThemselves, [Next]_vars
             PROVE  RoomBoardAgrees' /\ RoomToThemselves'
  OBVIOUS
<1> USE IdsAssumption DEF TypeOK
<1>1. ASSUME NEW r \in Reservations, NEW s \in Stays, Create(r, s)
      PROVE  RoomBoardAgrees' /\ RoomToThemselves'
  BY <1>1, BoardStable DEF Create
<1>2. ASSUME NEW r \in Reservations, Cancel(r) PROVE RoomBoardAgrees' /\ RoomToThemselves'
  BY <1>2, BoardStable DEF Cancel, CanTransition, ReservationMoves
<1>3. ASSUME NEW l \in Lines, NEW k \in Rooms, AssignRoom(l, k)
      PROVE  RoomBoardAgrees' /\ RoomToThemselves'
  <2>1. l \notin InHouse
    BY <1>3 DEF AssignRoom, DeskTakesTurns, InHouse
  <2>2. InHouse' = InHouse /\ roomStatus' = roomStatus
    BY <1>3 DEF AssignRoom, InHouse
  <2>3. \A m \in InHouse : roomOf'[m] = roomOf[m]
    BY <1>3, <2>1 DEF AssignRoom, InHouse
  <2>4. RoomBoardAgrees'
    <3>1. \A j \in Rooms : (\E m \in InHouse : roomOf'[m] = j) <=> (\E m \in InHouse : roomOf[m] = j)
      BY <2>3
    <3> QED BY <2>2, <3>1 DEF RoomBoardAgrees
  <2>5. RoomToThemselves'
    <3>1. ASSUME NEW m \in InHouse, NEW j \in InHouse, roomOf'[m] = roomOf'[j], roomOf'[m] # NoRoom
          PROVE  ReservationOf[m] = ReservationOf[j]
      BY <2>3, <3>1 DEF RoomToThemselves
    <3> QED BY <2>2, <3>1 DEF RoomToThemselves
  <2> QED BY <2>4, <2>5
<1>4. ASSUME NEW k \in Rooms, NEW to \in BoardStatuses, UpdateRoomStatus(k, to)
      PROVE  RoomBoardAgrees' /\ RoomToThemselves'
  <2>1. to # "OCCUPIED" /\ roomStatus[k] # "OCCUPIED"
    BY <1>4, ScopeAssumption
    DEF UpdateRoomStatus, CanTransitionManually, RoomMoves, SystemOnly
  <2>2. \A j \in Rooms : roomStatus'[j] = "OCCUPIED" <=> roomStatus[j] = "OCCUPIED"
    BY <1>4, <2>1 DEF UpdateRoomStatus
  <2> QED BY <1>4, <2>2, BoardStable DEF UpdateRoomStatus, booking
<1>5. ASSUME NEW s \in Sessions, NEW r \in Reservations, CheckInCommit(s, r)
      PROVE  RoomBoardAgrees' /\ RoomToThemselves'
  <2>1. /\ \A k \in Rooms : roomStatus'[k] = IF k \in RoomsOf(r) THEN "OCCUPIED" ELSE roomStatus[k]
        /\ \A k \in RoomsOf(r) \cap Rooms : roomStatus[k] # "OCCUPIED"
    BY <1>5 DEF CheckInCommit, MoveRooms, RoomsRead
  <2>2. InHouse' = InHouse \cup LinesOf(r) /\ roomOf' = roomOf
    BY <1>5 DEF CheckInCommit, InHouse, LinesOf
  <2>3. \A l \in LinesOf(r), m \in InHouse : roomOf[l] = roomOf[m] => roomOf[l] = NoRoom
    BY <2>1 DEF RoomBoardAgrees, RoomsOf, LinesOf, InHouse
  <2>4. \A l \in LinesOf(r) : ReservationOf[l] = r
    BY DEF LinesOf
  <2>5. RoomBoardAgrees'
    BY <2>1, <2>2 DEF RoomBoardAgrees, RoomsOf
  <2>6. RoomToThemselves'
    BY <2>2, <2>3, <2>4 DEF RoomToThemselves
  <2> QED BY <2>5, <2>6
<1>6. ASSUME NEW s \in Sessions, NEW r \in Reservations, CheckOutCommit(s, r)
      PROVE  RoomBoardAgrees' /\ RoomToThemselves'
  <2>1. \A k \in Rooms : roomStatus'[k] = IF k \in RoomsOf(r) THEN "VACANT_DIRTY" ELSE roomStatus[k]
    <3>1. pending[s].rooms = RoomsOf(r) \ {NoRoom}
      BY <1>6 DEF CheckOutCommit, RoomsRead
    <3> QED BY <1>6, <3>1 DEF CheckOutCommit, MoveRooms
  <2>2. status[r] = "CHECKED_IN"
    BY <1>6 DEF CheckOutCommit, LocksHold
  <2>3. InHouse' = InHouse \ LinesOf(r) /\ LinesOf(r) \subseteq InHouse /\ roomOf' = roomOf
    BY <1>6, <2>2 DEF CheckOutCommit, InHouse, LinesOf
  <2>4. ASSUME NEW l \in LinesOf(r), NEW m \in InHouse \ LinesOf(r), roomOf[l] = roomOf[m]
        PROVE  roomOf[l] = NoRoom
    BY <2>3, <2>4 DEF RoomToThemselves, LinesOf, InHouse
  <2>5. ASSUME NEW k \in Rooms
        PROVE  roomStatus'[k] = "OCCUPIED" <=> \E l \in InHouse \ LinesOf(r) : roomOf[l] = k
    <3>1. CASE k \in RoomsOf(r)
      <4>1. PICK l \in LinesOf(r) : roomOf[l] = k
        BY <3>1 DEF RoomsOf
      <4>2. \A m \in InHouse \ LinesOf(r) : roomOf[m] # k
        BY <2>4, <4>1
      <4> QED BY <2>1, <3>1, <4>2
    <3>2. CASE k \notin RoomsOf(r)
      BY <2>1, <3>2 DEF RoomBoardAgrees, RoomsOf
    <3> QED BY <3>1, <3>2
  <2>6. RoomBoardAgrees'
    BY <2>3, <2>5 DEF RoomBoardAgrees
  <2>7. RoomToThemselves'
    BY <2>3 DEF RoomToThemselves
  <2> QED BY <2>6, <2>7
<1>7. ASSUME NEW s \in Sessions, NoShowCommit(s) PROVE RoomBoardAgrees' /\ RoomToThemselves'
  BY <1>7, BoardStable DEF NoShowCommit, Fresh
<1>8. CASE UNCHANGED <<roomOf, roomStatus, status>>
  BY <1>8, BoardStable
<1> QED
  BY <1>1, <1>2, <1>3, <1>4, <1>5, <1>6, <1>7, <1>8
  DEF Next, vars, ModifyDates, PostCharge, PostPayment, Post, CheckInRead,
      CheckOutRead, NoShowRead, RoomChargesRead, RoomChargesCommit, Rollback,
      AdvanceBusinessDate, booking

\* At a desk that takes turns the two screens agree: the room board shows a room
\* OCCUPIED exactly while the front desk's list has a guest in it, although
\* check-in and check-out read the lines they move unlocked.
THEOREM BoardsAgree ==
  ASSUME DeskTakesTurns
  PROVE  Spec => []RoomBoardAgrees
<1> DEFINE IInv == TypeOK /\ LocksHold /\ Fresh /\ RoomsRead /\ RoomBoardAgrees
                   /\ RoomToThemselves
<1>1. Init => IInv
  <2>1. Init => InHouse = {}
    BY IdsAssumption DEF Init, InHouse
  <2>2. Init => RoomsRead /\ RoomBoardAgrees /\ RoomToThemselves
    BY <2>1 DEF Init, RoomsRead, RoomBoardAgrees, RoomToThemselves, Idle, Saw
  <2> QED BY <2>2, InitType, InitLocks, InitSold
<1>2. IInv /\ [Next]_vars => IInv'
  BY NextType, LocksStep, FreshStep, RoomsReadStep, BoardStep DEF DeskTakesTurns
<1>3. IInv => RoomBoardAgrees
  OBVIOUS
<1> QED BY <1>1, <1>2, <1>3, PTL DEF Spec
=============================================================================
