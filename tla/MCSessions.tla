----------------------------- MODULE MCSessions -----------------------------
(* One user, two tabs of one browser, two requests in flight.               *)
EXTENDS Sessions, TLC

CONSTANTS u1, t1, t2, c1, c2

Symmetry == Permutations({t1, t2}) \cup Permutations({c1, c2})
=============================================================================
