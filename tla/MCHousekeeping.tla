--------------------------- MODULE MCHousekeeping ---------------------------
(* One room over a day, two attendants and a supervisor, two transactions   *)
(* open at once.                                                            *)
EXTENDS Housekeeping, TLC

CONSTANTS r1, w1, w2, m1, j1, j2

Symmetry == Permutations({w1, w2}) \cup Permutations({j1, j2})
=============================================================================
