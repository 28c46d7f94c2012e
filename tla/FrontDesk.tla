----------------------------- MODULE FrontDesk -----------------------------
(***************************************************************************)
(* One property's front desk: reservations, the availability counters that *)
(* sell its nights, its rooms, its guests' bills and its business date,    *)
(* changed by concurrent database transactions at READ COMMITTED.          *)
(*                                                                         *)
(* A handler whose reads are all under row locks is one atomic action.     *)
(* Check-in, check-out and the night audit's steps read rows they have not *)
(* locked and act on them later, so each is a Read that remembers what it  *)
(* saw in pending[s] and a Commit that writes from that memory.            *)
(* Rollback(s) ends one at any point: a refused guard, a deadlock victim,  *)
(* a lost connection or a crash.                                           *)
(*                                                                         *)
(* Every handler that writes a reservation's status or dates writes the    *)
(* same value to all of its room lines, so a line keeps only its room.     *)
(***************************************************************************)
EXTENDS HotelMachines, FiniteSets

CONSTANTS
  Reservations,   \* reservation ids a client may create
  Lines,          \* reservation_rooms ids
  ReservationOf,  \* [Lines -> Reservations]
  LineType,       \* [Lines -> RoomTypes]: the room type each line books
  RoomTypes, Rooms,
  RoomType,       \* [Rooms -> RoomTypes]
  Sessions,       \* concurrent transactions that read before they lock
  LastDate,       \* bound: dates are 1..LastDate
  Amounts,        \* postings a clerk may make, in minor units
  MaxBalance,     \* bound: no posting takes a balance past +-MaxBalance
  BoardStatuses,  \* statuses a person may set on the room board
  Overlaps,       \* <<p, op>>: op may commit while a p has read, not committed
  MoveInHouse,    \* clerks assign rooms to lines already in-house or departed
  JoinOccupied,   \* clerks check in to a room the board shows OCCUPIED
  NoRoom

Dates  == 1 .. LastDate
Nights == 1 .. (LastDate - 1)
Stays  == {s \in [arrival: Dates, departure: Dates] : s.arrival < s.departure}

TwoPhase == {"checkIn", "checkOut", "noShow", "roomCharges"}
Ops == TwoPhase \cup
       {"create", "cancel", "modifyDates", "assignRoom", "roomStatus", "post", "advance"}

ASSUME IdsAssumption ==
  /\ ReservationOf \in [Lines -> Reservations]
  /\ LineType \in [Lines -> RoomTypes]
  /\ RoomType \in [Rooms -> RoomTypes]
  /\ NoRoom \notin Rooms
ASSUME FiniteAssumption ==
  /\ IsFiniteSet(Lines)
  /\ IsFiniteSet(Rooms)
ASSUME BoundsAssumption ==
  /\ LastDate \in Nat \ {0, 1}
  /\ Amounts \subseteq Nat \ {0}
  /\ MaxBalance \in Nat
ASSUME ScopeAssumption ==
  /\ BoardStatuses \subseteq RoomStatus
  /\ Overlaps \subseteq TwoPhase \X Ops
  /\ MoveInHouse \in BOOLEAN
  /\ JoinOccupied \in BOOLEAN

VARIABLES
  status,       \* reservations.status, "NONE" before the row exists
  stay,         \* reservations.(arrival_date, departure_date)
  roomOf,       \* reservation_rooms.room_id, NoRoom for NULL
  roomStatus,   \* rooms.status
  sold,         \* room_type_availability.sold, per type and night
  folio,        \* folios.status of the reservation's GUEST folio
  balance,      \* the sum of that folio's lines
  businessDate, \* properties.business_date
  pending       \* what each open transaction has read

booking == <<status, stay, roomOf, sold>>
bills   == <<folio, balance>>
vars == <<status, stay, roomOf, roomStatus, sold, folio, balance, businessDate, pending>>

\* What a transaction has read: the reservations it acts on, the rooms it will
\* move and the line-nights it will give back.
Saw(op, ids, rooms, cells) == [op |-> op, ids |-> ids, rooms |-> rooms, cells |-> cells]
Idle == Saw("idle", {}, {}, {})

Transactions ==
  [op: TwoPhase \cup {"idle"}, ids: SUBSET Reservations,
   rooms: SUBSET (Rooms \cup {NoRoom}), cells: SUBSET (Lines \X Nights)]

TypeOK ==
  /\ status \in [Reservations -> ReservationStatus \cup {"NONE"}]
  /\ stay \in [Reservations -> Stays]
  /\ roomOf \in [Lines -> Rooms \cup {NoRoom}]
  /\ roomStatus \in [Rooms -> RoomStatus]
  /\ sold \in [RoomTypes -> [Nights -> Nat]]
  /\ folio \in [Reservations -> {"NONE", "OPEN", "SETTLED"}]
  /\ balance \in [Reservations -> Int]
  /\ businessDate \in Dates
  /\ pending \in [Sessions -> Transactions]

-----------------------------------------------------------------------------
LinesOf(r) == {l \in Lines : ReservationOf[l] = r}
RoomsOf(r) == {roomOf[l] : l \in LinesOf(r)}

\* The reservation's lines are in room_type_availability.sold.
Holds(r) == status[r] # "NONE" /\ OccupiesInventory(status[r])

\* Mutant: adjustSold called with no room type filter.
DemandOfAnyType(r, s, t, n) ==
  IF n \in NightsOf(s) THEN Cardinality(LinesOf(r)) ELSE 0

\* Rooms of type t the counters count on a night of stay s for reservation r.
Demand(r, s, t, n) ==
  IF n \in NightsOf(s) THEN Cardinality({l \in LinesOf(r) : LineType[l] = t}) ELSE 0

\* total - blocked, recomputed from the rooms on every adjustSold.
Sellable(t) == Cardinality({k \in Rooms : RoomType[k] = t /\ ~IsBlocked(roomStatus[k])})

\* Mutant: the availability test is off by one.
CanHoldOneMore(c, r, s) ==
  \A t \in RoomTypes, n \in Nights :
    Demand(r, s, t, n) > 0 => Sellable(t) - c[t][n] >= Demand(r, s, t, n) - 1

\* adjustSold(+1) for every line of r over stay s, starting from counters c.
CanHold(c, r, s) ==
  \A t \in RoomTypes, n \in Nights :
    Demand(r, s, t, n) > 0 => Sellable(t) - c[t][n] >= Demand(r, s, t, n)

Hold(c, r, s) ==
  [t \in RoomTypes |-> [n \in Nights |-> c[t][n] + Demand(r, s, t, n)]]
Release(c, r, s) ==
  [t \in RoomTypes |-> [n \in Nights |-> c[t][n] - Demand(r, s, t, n)]]

\* The CHECK (sold >= 0) behind every write of the counters.
NonNegative(c) == \A t \in RoomTypes, n \in Nights : c[t][n] >= 0

\* Mutant: the constraint's predicate drifts from occupiesInventory and lets
\* departed stays go.
ClashesUnlessDeparted(l, k, s) ==
  \E m \in Lines \ {l} :
    /\ roomOf[m] = k
    /\ IsModifiable(status[ReservationOf[m]])
    /\ NightsOf(stay[ReservationOf[m]]) \cap NightsOf(s) # {}

\* The no_double_booking exclusion constraint, asked of line l with room k and
\* stay s: another live line has the room on one of the nights.
Clashes(l, k, s) ==
  \E m \in Lines \ {l} :
    /\ roomOf[m] = k
    /\ Holds(ReservationOf[m])
    /\ ReservationOf[m] # ReservationOf[l] => NightsOf(stay[ReservationOf[m]]) \cap NightsOf(s) # {}

\* The row lock check-in and check-out take on their reservation.
Locked(r) ==
  \E s \in Sessions : pending[s].op \in {"checkIn", "checkOut"} /\ r \in pending[s].ids

\* op may commit now, given what every other transaction has read.
MayCommit(op, self) ==
  \A s \in Sessions \ self :
    pending[s].op # "idle" => <<pending[s].op, op>> \in Overlaps

-----------------------------------------------------------------------------
Init ==
  /\ status = [r \in Reservations |-> "NONE"]
  /\ stay = [r \in Reservations |-> [arrival |-> 1, departure |-> 2]]
  /\ roomOf = [l \in Lines |-> NoRoom]
  /\ roomStatus = [k \in Rooms |-> "VACANT_CLEAN"]
  /\ sold = [t \in RoomTypes |-> [n \in Nights |-> 0]]
  /\ folio = [r \in Reservations |-> "NONE"]
  /\ balance = [r \in Reservations |-> 0]
  /\ businessDate = 1
  /\ pending = [s \in Sessions |-> Idle]

\* ReservationsService.create: take the inventory, then insert the booking.
Create(r, s) ==
  /\ status[r] = "NONE"
  /\ MayCommit("create", {})
  /\ CanHold(sold, r, s)
  /\ sold' = Hold(sold, r, s)
  /\ status' = [status EXCEPT ![r] = "CONFIRMED"]
  /\ stay' = [stay EXCEPT ![r] = s]
  /\ UNCHANGED <<roomOf, roomStatus, bills, businessDate, pending>>

\* ReservationsService.cancel: give every held night back.
Cancel(r) ==
  /\ ~Locked(r)
  /\ CanTransition(status[r], "CANCELLED")
  /\ MayCommit("cancel", {})
  /\ NonNegative(Release(sold, r, stay[r]))
  /\ sold' = Release(sold, r, stay[r])
  /\ status' = [status EXCEPT ![r] = "CANCELLED"]
  /\ UNCHANGED <<stay, roomOf, roomStatus, bills, businessDate, pending>>

\* ReservationsService.modifyDates: release the old range, then hold the new
\* one, in one transaction; the constraint re-checks assigned rooms.
ModifyDates(r, s) ==
  LET released == Release(sold, r, stay[r]) IN
  /\ ~Locked(r)
  /\ IsModifiable(status[r])
  /\ MayCommit("modifyDates", {})
  /\ NonNegative(released)
  /\ CanHold(released, r, s)
  /\ \A l \in LinesOf(r) : roomOf[l] # NoRoom => ~Clashes(l, roomOf[l], s)
  /\ sold' = Hold(released, r, s)
  /\ stay' = [stay EXCEPT ![r] = s]
  /\ UNCHANGED <<status, roomOf, roomStatus, bills, businessDate, pending>>

\* ReservationsService.assignRoom: locks the line, never the reservation.
AssignRoom(l, k) ==
  LET r == ReservationOf[l] IN
  /\ Holds(r)
  /\ MoveInHouse \/ status[r] = "CONFIRMED"
  /\ MayCommit("assignRoom", {})
  /\ RoomType[k] = LineType[l]
  /\ ~IsBlocked(roomStatus[k])
  /\ ~Clashes(l, k, stay[r])
  /\ roomOf' = [roomOf EXCEPT ![l] = k]
  /\ UNCHANGED <<status, stay, sold, roomStatus, bills, businessDate, pending>>

\* InventoryService.updateRoomStatus, by housekeeping, maintenance or a clerk.
UpdateRoomStatus(k, to) ==
  /\ roomStatus[k] # to
  /\ CanTransitionManually(roomStatus[k], to)
  /\ MayCommit("roomStatus", {})
  /\ roomStatus' = [roomStatus EXCEPT ![k] = to]
  /\ UNCHANGED <<booking, bills, businessDate, pending>>

\* FolioService.postCharge and postPayment: only to a locked, OPEN folio. (The
\* night audit posts by RoomChargesCommit below.)
Post(r, amount) ==
  /\ folio[r] = "OPEN"
  /\ balance[r] + amount \in -MaxBalance .. MaxBalance
  /\ MayCommit("post", {})
  /\ balance' = [balance EXCEPT ![r] = @ + amount]
  /\ UNCHANGED <<booking, roomStatus, folio, businessDate, pending>>

PostCharge(r, amount)  == Post(r, amount)
PostPayment(r, amount) == Post(r, -amount)

-----------------------------------------------------------------------------
\* StayService.checkIn up to its unlocked read of the lines.
CheckInRead(s, r) ==
  /\ pending[s] = Idle
  /\ ~Locked(r)
  /\ CanTransition(status[r], "CHECKED_IN")
  /\ NoRoom \notin RoomsOf(r)
  /\ JoinOccupied \/ \A k \in RoomsOf(r) : roomStatus[k] # "OCCUPIED"
  /\ pending' = [pending EXCEPT ![s] = Saw("checkIn", {r}, RoomsOf(r), {})]
  /\ UNCHANGED <<booking, roomStatus, bills, businessDate>>

\* moveRoom: no-op when the room is already there, else the full table.
CanMoveRooms(S, to) ==
  \A k \in S : roomStatus[k] = to \/ CanTransitionRoom(roomStatus[k], to)
MoveRooms(S, to) ==
  roomStatus' = [k \in Rooms |-> IF k \in S THEN to ELSE roomStatus[k]]

\* The rooms move, the reservation moves and the bill opens, together.
CheckInCommit(s, r) ==
  /\ pending[s].op = "checkIn" /\ pending[s].ids = {r}
  /\ MayCommit("checkIn", {s})
  /\ CanMoveRooms(pending[s].rooms, "OCCUPIED")
  /\ MoveRooms(pending[s].rooms, "OCCUPIED")
  /\ status' = [status EXCEPT ![r] = "CHECKED_IN"]
  /\ folio' = [folio EXCEPT ![r] = IF @ = "NONE" THEN "OPEN" ELSE @]
  /\ pending' = [pending EXCEPT ![s] = Idle]
  /\ UNCHANGED <<stay, roomOf, sold, balance, businessDate>>

\* Mutant: assertSettled refuses a debt but not an overpayment.
CheckOutReadOverpaid(s, r) ==
  /\ pending[s] = Idle
  /\ ~Locked(r)
  /\ CanTransition(status[r], "CHECKED_OUT")
  /\ balance[r] <= 0
  /\ pending' = [pending EXCEPT ![s] = Saw("checkOut", {r}, RoomsOf(r) \ {NoRoom}, {})]
  /\ UNCHANGED <<booking, roomStatus, bills, businessDate>>

\* StayService.checkOut up to the unlocked reads of the balance and the lines.
CheckOutRead(s, r) ==
  /\ pending[s] = Idle
  /\ ~Locked(r)
  /\ CanTransition(status[r], "CHECKED_OUT")
  /\ balance[r] = 0
  /\ pending' = [pending EXCEPT ![s] = Saw("checkOut", {r}, RoomsOf(r) \ {NoRoom}, {})]
  /\ UNCHANGED <<booking, roomStatus, bills, businessDate>>

CheckOutCommit(s, r) ==
  /\ pending[s].op = "checkOut" /\ pending[s].ids = {r}
  /\ MayCommit("checkOut", {s})
  /\ CanMoveRooms(pending[s].rooms, "VACANT_DIRTY")
  /\ MoveRooms(pending[s].rooms, "VACANT_DIRTY")
  /\ status' = [status EXCEPT ![r] = "CHECKED_OUT"]
  /\ folio' = [folio EXCEPT ![r] = "SETTLED"]
  /\ pending' = [pending EXCEPT ![s] = Idle]
  /\ UNCHANGED <<stay, roomOf, sold, balance, businessDate>>

\* NightAuditService.postRoomCharges: who stays the night, read with no lock.
StayingTonight ==
  {r \in Reservations : status[r] = "CHECKED_IN" /\ stay[r].departure > businessDate}

RoomChargesRead(s) ==
  /\ pending[s] = Idle
  /\ StayingTonight # {}
  /\ pending' = [pending EXCEPT ![s] = Saw("roomCharges", StayingTonight, {}, {})]
  /\ UNCHANGED <<booking, roomStatus, bills, businessDate>>

\* What the rooms and taxes of each come to, 0 if they were charged already.
Charges == [Reservations -> Amounts \cup {0}]

\* On whatever folio there is: nothing locks it or looks at its status.
RoomChargesCommit(s, charges) ==
  /\ pending[s].op = "roomCharges"
  /\ MayCommit("roomCharges", {s})
  /\ balance' = [r \in Reservations |->
       balance[r] + IF r \in pending[s].ids /\ folio[r] # "NONE" THEN charges[r] ELSE 0]
  /\ \A r \in Reservations : balance'[r] <= MaxBalance
  /\ pending' = [pending EXCEPT ![s] = Idle]
  /\ UNCHANGED <<booking, roomStatus, folio, businessDate>>

\* Mutant: the straggler query forgets the status filter.
StragglersOfAnyStatus == {r \in Reservations : Holds(r) /\ stay[r].arrival <= businessDate}

\* NightAuditService.markNoShows: the stragglers and their lines, read with no
\* lock at all.
Stragglers == {r \in Reservations : status[r] = "CONFIRMED" /\ stay[r].arrival <= businessDate}

\* The nights of every line of those reservations.
LineNights(ids) ==
  {c \in Lines \X Nights :
     ReservationOf[c[1]] \in ids /\ c[2] \in NightsOf(stay[ReservationOf[c[1]]])}

NoShowRead(s) ==
  /\ pending[s] = Idle
  /\ Stragglers # {}
  /\ pending' = [pending EXCEPT ![s] = Saw("noShow", Stragglers, {}, LineNights(Stragglers))]
  /\ UNCHANGED <<booking, roomStatus, bills, businessDate>>

\* Mutant: the UPDATE without its WHERE sold > 0.
ReturnedUnfloored(cells, t, n) ==
  sold[t][n] - Cardinality({l \in Lines : LineType[l] = t /\ <<l, n>> \in cells})

\* sold - 1 WHERE sold > 0, once for each night of each line that was read.
Returned(cells, t, n) ==
  LET count == Cardinality({l \in Lines : LineType[l] = t /\ <<l, n>> \in cells})
  IN IF sold[t][n] >= count THEN sold[t][n] - count ELSE 0

NoShowCommit(s) ==
  /\ pending[s].op = "noShow"
  /\ \A r \in pending[s].ids : ~Locked(r)
  /\ MayCommit("noShow", {s})
  /\ sold' = [t \in RoomTypes |-> [n \in Nights |-> Returned(pending[s].cells, t, n)]]
  /\ status' = [r \in Reservations |-> IF r \in pending[s].ids THEN "NO_SHOW" ELSE status[r]]
  /\ pending' = [pending EXCEPT ![s] = Idle]
  /\ UNCHANGED <<stay, roomOf, roomStatus, bills, businessDate>>

Rollback(s) ==
  /\ pending[s] # Idle
  /\ pending' = [pending EXCEPT ![s] = Idle]
  /\ UNCHANGED <<booking, roomStatus, bills, businessDate>>

\* NightAuditService.advanceBusinessDate, up to the bound.
AdvanceBusinessDate ==
  /\ businessDate < LastDate
  /\ MayCommit("advance", {})
  /\ businessDate' = businessDate + 1
  /\ UNCHANGED <<booking, roomStatus, bills, pending>>

-----------------------------------------------------------------------------
Next ==
  \/ \E r \in Reservations, s \in Stays : Create(r, s)
  \/ \E r \in Reservations : Cancel(r)
  \/ \E r \in Reservations, s \in Stays : ModifyDates(r, s)
  \/ \E l \in Lines, k \in Rooms : AssignRoom(l, k)
  \/ \E k \in Rooms, to \in BoardStatuses : UpdateRoomStatus(k, to)
  \/ \E r \in Reservations, a \in Amounts : PostCharge(r, a)
  \/ \E r \in Reservations, a \in Amounts : PostPayment(r, a)
  \/ \E s \in Sessions, r \in Reservations : CheckInRead(s, r)
  \/ \E s \in Sessions, r \in Reservations : CheckInCommit(s, r)
  \/ \E s \in Sessions, r \in Reservations : CheckOutRead(s, r)
  \/ \E s \in Sessions, r \in Reservations : CheckOutCommit(s, r)
  \/ \E s \in Sessions : NoShowRead(s)
  \/ \E s \in Sessions : NoShowCommit(s)
  \/ \E s \in Sessions : RoomChargesRead(s)
  \/ \E s \in Sessions, c \in Charges : RoomChargesCommit(s, c)
  \/ \E s \in Sessions : Rollback(s)
  \/ AdvanceBusinessDate

Spec == Init /\ [][Next]_vars

-----------------------------------------------------------------------------
(* Properties.                                                             *)

\* One physical room is never promised to two live stays on the same night,
\* whatever interleaving of assignments, date changes, check-ins and audits
\* ran (assignRoom does not hold the reservation's lock; modifyDates does not
\* look at rooms).
NoDoubleBooking ==
  \A l, m \in Lines :
    (/\ l # m
     /\ roomOf[l] = roomOf[m] /\ roomOf[l] # NoRoom
     /\ Holds(ReservationOf[l]) /\ Holds(ReservationOf[m]))
    => NightsOf(stay[ReservationOf[l]]) \cap NightsOf(stay[ReservationOf[m]]) = {}

\* What a check-in or a check-out found under its reservation's row lock still
\* holds when it commits, and no two of them work on one reservation, although
\* the night audit and assignRoom never ask for that lock first.
LocksHold ==
  \A s \in Sessions :
    /\ pending[s].op = "checkIn" => \A r \in pending[s].ids : status[r] = "CONFIRMED"
    /\ pending[s].op = "checkOut" => \A r \in pending[s].ids : status[r] = "CHECKED_IN"
    /\ \A t \in Sessions \ {s} :
         (/\ pending[s].op \in {"checkIn", "checkOut"}
          /\ pending[t].op \in {"checkIn", "checkOut"})
         => pending[s].ids \cap pending[t].ids = {}

HeldLines(t, n) ==
  {l \in Lines : /\ LineType[l] = t
                 /\ Holds(ReservationOf[l])
                 /\ n \in NightsOf(stay[ReservationOf[l]])}

\* The counters that sell nights are exactly the live lines: no leak on
\* cancel, change of dates, no-show or departure, and nothing released twice.
SoldMatchesHeld ==
  \A t \in RoomTypes, n \in Nights : sold[t][n] = Cardinality(HeldLines(t, n))

\* A night of a room type is never sold more often than the hotel has rooms.
NeverOversold ==
  \A t \in RoomTypes, n \in Nights :
    Cardinality(HeldLines(t, n)) <= Cardinality({k \in Rooms : RoomType[k] = t})

\* "The API enforces the transition table before every write": a reservation's
\* status moves along ReservationMoves and no other way.
LegalTransitionsOnly ==
  [][\A r \in Reservations :
       status'[r] # status[r] =>
         \/ status[r] = "NONE" /\ status'[r] = "CONFIRMED"
         \/ CanTransition(status[r], status'[r])]_vars

\* The bill agrees with the stay: open exactly while the guest is in-house,
\* settled exactly when they have left.
FolioFollowsStay ==
  \A r \in Reservations :
    /\ folio[r] = "OPEN" <=> status[r] = "CHECKED_IN"
    /\ folio[r] = "SETTLED" <=> status[r] = "CHECKED_OUT"

\* A folio may only close at zero, and nothing is posted to it afterwards, by
\* the desk or by the night audit, which does not ask whether it is open.
SettledAtZero ==
  \A r \in Reservations : folio[r] = "SETTLED" => balance[r] = 0

\* The front desk board's list of everyone in the building.
InHouse == {l \in Lines : status[ReservationOf[l]] = "CHECKED_IN"}

\* The two screens agree: housekeeping's board shows a room OCCUPIED exactly
\* while the front desk's board has a guest in it. Check-in and check-out write
\* the rooms and the reservation in one transaction, of lines read unlocked.
RoomBoardAgrees ==
  \A k \in Rooms : roomStatus[k] = "OCCUPIED" <=> \E l \in InHouse : roomOf[l] = k

\* The tape chart draws a block for the line: it has a room and still holds it.
OnChart(l) == Holds(ReservationOf[l]) /\ roomOf[l] # NoRoom

\* The room nights each line's block covers, as the promise of RoomNights sees
\* them.
RoomNightsOf ==
  [l \in Lines |-> IF OnChart(l)
                   THEN {roomOf[l]} \X NightsOf(stay[ReservationOf[l]]) ELSE {}]

Promise == INSTANCE RoomNights WITH life <- status, claims <- RoomNightsOf

\* The desk keeps the promise of RoomNights: every handler, whatever it reads
\* before it locks, is a step of one booking over nights nobody else has, or
\* the calling off of bookings whose guests never came, or shows nothing.
KeepsRoomNights == Promise!Spec

=============================================================================
