---------------------------- MODULE MCNightAudit ----------------------------
(* Three dates, two of them to close: one guest for both nights and, where *)
(* the desk is closed, another for the second night only.                  *)
EXTENDS NightAudit, TLC

CONSTANTS l1, l2, o1, o2

Arrivals   == l1 :> 1 @@ l2 :> 2
Departures == l1 :> 3 @@ l2 :> 3
OneArrival   == l1 :> 1
OneDeparture == l1 :> 3

OperatorSymmetry == Permutations({o1, o2})
=============================================================================
