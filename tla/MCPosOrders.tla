---------------------------- MODULE MCPosOrders ----------------------------
(* Two guests in two rooms, one staying both nights; prices and rates whose *)
(* tax does not divide evenly, and another rate to change a night's to.     *)
(* The tax tables: a slab tax that starts above the cheap night with one    *)
(* that always applies, and an inclusive tax.                               *)
EXTENDS PosOrders, TLC

CONSTANTS f1, f2, k1, k2, o1, s1, s2

Bookings   == f1 :> k1 @@ f2 :> k2
Departing  == f1 :> 3 @@ f2 :> 2
Grid       == <<14, 25>>
Gst        == [name |-> "gst",  type |-> "EXCLUSIVE", rateBps |-> 1000, above |-> NoThreshold]
SlabGst    == [name |-> "slab", type |-> "EXCLUSIVE", rateBps |-> 1800, above |-> 20]
Included   == [name |-> "incl", type |-> "INCLUSIVE", rateBps |-> 1200, above |-> NoThreshold]
TwoTables  == {{Gst, SlabGst}, {Gst, Included}}

SessionSymmetry == Permutations({s1, s2})

\* Splitting an amount loses nothing and no part is more than a unit larger
\* than another, negative amounts and more parts than units included.
ASSUME AllocationIsExact ==
  \A amount \in -9 .. 9, parts \in 1 .. 4 :
    LET split == Allocate(amount, parts)
    IN  /\ SumFunction(split) = amount
        /\ \A i, j \in 1 .. parts : split[i] - split[j] \in -1 .. 1
=============================================================================
