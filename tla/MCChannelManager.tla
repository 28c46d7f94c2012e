-------------------------- MODULE MCChannelManager --------------------------
(* One channel, one room type with one room, two nights: a walk-in and a    *)
(* delivery compete for it, and a third booking may follow.                 *)
EXTENDS ChannelManager, TLC

CONSTANTS t1, c1, x1, x2, b1, b2, d1, q1, q2, s1, s2, p1, p2

OneRoom    == t1 :> 1
OneType    == [b \in Bookings |-> t1]
CallSymmetry == Permutations({p1, p2}) \cup Permutations({q1, q2}) \cup Permutations({s1, s2})
Deliveries == d1 :> [chan |-> c1, code |-> x1, nights |-> {1, 2}]
=============================================================================
