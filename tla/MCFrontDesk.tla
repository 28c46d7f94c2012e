---------------------------- MODULE MCFrontDesk ----------------------------
(* Small hotels for TLC: a party of two rooms and a single booking, over    *)
(* one or two room types, with the overlaps each run allows.                *)
EXTENDS FrontDesk, TLC

CONSTANTS r1, r2, l1, l2, l3, k1, k2, k3, std, dlx, s1, s2

\* r1 is a party of two lines, r2 books one room.
PartyOwner == l1 :> r1 @@ l2 :> r1 @@ l3 :> r2
PairOwner  == l1 :> r1 @@ l2 :> r2

OneType == l1 :> std @@ l2 :> std @@ l3 :> std
TwoTypes == l1 :> std @@ l2 :> dlx @@ l3 :> std
PairType == l1 :> std @@ l2 :> std

OneRoomType  == k1 :> std @@ k2 :> std
ThreeRooms   == k1 :> std @@ k2 :> std @@ k3 :> std
TwoRoomTypes == k1 :> std @@ k2 :> dlx

Everything  == TwoPhase \X Ops
\* No handler runs beside the night audit's no-show step, no posting between a
\* check-out's balance check and its commit, and no check-out beside the audit's
\* charging step.
Postings    == {<<"checkOut", "post">>, <<"checkOut", "roomCharges">>, <<"roomCharges", "checkOut">>}
AuditAlone  == {o \in Everything \ Postings : o[1] # "noShow"}
\* ... and nobody assigns a room or checks another guest in beside a check-in.
DeskInTurn  == AuditAlone \ {<<"checkIn", "assignRoom">>, <<"checkIn", "checkIn">>}

SessionSymmetry == Permutations({s1, s2})
\* With one line per booking and one room type, the rooms are alike and so
\* are the two bookings (each swapped together with its line).
RoomSymmetry == SessionSymmetry \cup Permutations({k1, k2, k3})
SwapBookings == r1 :> r2 @@ r2 :> r1 @@ l1 :> l2 @@ l2 :> l1
PairSymmetry ==
  SessionSymmetry \cup Permutations({k1, k2}) \cup {SwapBookings}
=============================================================================
