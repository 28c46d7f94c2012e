--------------------------- MODULE HotelMachines ---------------------------
(***************************************************************************)
(* The two status machines of packages/domain the front desk is built on:  *)
(* a reservation's life and a physical room's, as the sets of moves their  *)
(* TRANSITIONS tables allow, and the half-open night arithmetic every      *)
(* counter and constraint shares.                                          *)
(***************************************************************************)
EXTENDS Integers

ReservationStatus ==
  {"ENQUIRY", "CONFIRMED", "CHECKED_IN", "CHECKED_OUT", "CANCELLED", "NO_SHOW"}

ReservationMoves ==
  { <<"ENQUIRY", "CONFIRMED">>, <<"ENQUIRY", "CANCELLED">>,
    <<"CONFIRMED", "CHECKED_IN">>, <<"CONFIRMED", "CANCELLED">>,
    <<"CONFIRMED", "NO_SHOW">>,
    <<"CHECKED_IN", "CHECKED_OUT">> }

CanTransition(from, to) == <<from, to>> \in ReservationMoves

\* Cancelled and no-show reservations give their rooms back; a departed one
\* still holds the nights it was sold.
OccupiesInventory(s) == s \notin {"CANCELLED", "NO_SHOW"}

IsModifiable(s) == s \in {"ENQUIRY", "CONFIRMED", "CHECKED_IN"}

RoomStatus == {"VACANT_CLEAN", "VACANT_DIRTY", "OCCUPIED", "OOO", "OOS"}

RoomMoves ==
  ({"VACANT_CLEAN"} \X {"OCCUPIED", "VACANT_DIRTY", "OOO", "OOS"})
    \cup ({"VACANT_DIRTY"} \X {"VACANT_CLEAN", "OOO", "OOS"})
    \cup {<<"OCCUPIED", "VACANT_DIRTY">>}
    \cup ({"OOO", "OOS"} \X {"VACANT_CLEAN", "VACANT_DIRTY"})

CanTransitionRoom(from, to) == <<from, to>> \in RoomMoves

\* The moves only check-in and check-out may make.
SystemOnly == {<<"VACANT_CLEAN", "OCCUPIED">>, <<"OCCUPIED", "VACANT_DIRTY">>}

\* Mutant: the manual path checks the full table.
CanTransitionByAnyone(from, to) == <<from, to>> \in RoomMoves

\* assertManualRoomTransition: what a person may set from the room board.
CanTransitionManually(from, to) ==
  /\ ~(from = "OCCUPIED" /\ to \in {"OOO", "OOS"})
  /\ <<from, to>> \in RoomMoves \ SystemOnly

IsBlocked(s) == s \in {"OOO", "OOS"}

\* daterange(arrival, departure, '[)'): the departure night is not slept.
NightsOf(stay) == stay.arrival .. (stay.departure - 1)
=============================================================================
