----------------------------- MODULE RoomNights -----------------------------
(***************************************************************************)
(* What the front desk promises its guests, with nothing of how: each line *)
(* of a booking claims nights of rooms, no night of a room is claimed      *)
(* twice, only the booking's own steps move its claims, and a claim lives  *)
(* until the booking is called off.  Counters, room board, bills, locks    *)
(* and reads do not appear.                                                *)
(***************************************************************************)
EXTENDS HotelMachines

CONSTANTS Reservations, Lines, ReservationOf, Rooms, Nights

VARIABLES
  life,    \* each booking's status, "NONE" before it is made
  claims   \* the room nights each line has

LinesOf(r) == {l \in Lines : ReservationOf[l] = r}
Live(r)    == life[r] # "NONE" /\ OccupiesInventory(life[r])

Init ==
  /\ life = [r \in Reservations |-> "NONE"]
  /\ claims = [l \in Lines |-> {}]

Move(r, from, to) == life[r] = from /\ life' = [life EXCEPT ![r] = to]

Book(r) == Move(r, "NONE", "CONFIRMED") /\ UNCHANGED claims

\* Rooms or dates change, to nights nobody else has.
Rearrange(r) ==
  /\ Live(r) /\ UNCHANGED life
  /\ claims' \in [Lines -> SUBSET (Rooms \X Nights)]
  /\ \A l \in Lines \ LinesOf(r) : claims'[l] = claims[l]
  /\ \A l \in LinesOf(r) : \A m \in Lines \ {l} : claims'[l] \cap claims'[m] = {}

\* A guest arrives only to a room.
Arrive(r) ==
  /\ Move(r, "CONFIRMED", "CHECKED_IN")
  /\ \A l \in LinesOf(r) : claims[l] # {}
  /\ UNCHANGED claims

\* A guest who left keeps the nights that were sold.
Depart(r) == Move(r, "CHECKED_IN", "CHECKED_OUT") /\ UNCHANGED claims

\* Cancelled, or not come: the nights are free again.
CallOff(R, to) ==
  /\ \A r \in R : CanTransition(life[r], to)
  /\ life' = [r \in Reservations |-> IF r \in R THEN to ELSE life[r]]
  /\ claims' = [l \in Lines |-> IF ReservationOf[l] \in R THEN {} ELSE claims[l]]

Next ==
  \/ \E to \in {"CANCELLED", "NO_SHOW"}, R \in SUBSET Reservations : CallOff(R, to)
  \/ \E r \in Reservations : Book(r) \/ Arrive(r) \/ Depart(r) \/ Rearrange(r)

Spec == Init /\ [][Next]_<<life, claims>>
=============================================================================
