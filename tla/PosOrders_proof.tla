--------------------------- MODULE PosOrders_proof ---------------------------
(***************************************************************************)
(* Theorems about bills and orders, for any number of folios, orders,      *)
(* postings, taxes and concurrent requests. Sums over finite sets, which   *)
(* the bills and the tax on them need, have lemmas of their own.           *)
(***************************************************************************)
EXTENDS PosOrders, FiniteSetTheorems, WellFoundedInduction, TLAPS

-----------------------------------------------------------------------------
(* Sums. The library adds up a finite set by taking out one element after  *)
(* another; that the order makes no difference is proved here by a least   *)
(* counterexample.                                                         *)

\* Every nonempty set of naturals has a least element.
LEMMA LeastExists ==
  ASSUME NEW S \in SUBSET Nat, S # {}
  PROVE  \E x \in S : \A y \in S : x <= y
<1> DEFINE R == OpToRel(<, Nat)
<1>1. \A x, y \in Nat : <<y, x>> \in R <=> y < x
  BY DEF OpToRel
<1>2. IsWellFoundedOn(R, Nat)
  BY NatLessThanWellFounded
<1> HIDE DEF R
<1>3. PICK x \in S : \A y \in S : ~(<<y, x>> \in R)
  BY <1>2, WFMin
<1>4. ASSUME NEW y \in S PROVE x <= y
  <2>1. x \in Nat /\ y \in Nat /\ ~(<<y, x>> \in R)
    BY <1>3
  <2>2. ~(y < x)
    BY <1>1, <2>1
  <2> QED BY <2>1, <2>2
<1> QED BY <1>4

\* Induction over a finite set, for a set of subsets instead of a predicate.
LEMMA BySubsets ==
  ASSUME NEW S, IsFiniteSet(S), NEW P \in SUBSET SUBSET S, {} \in P,
         \A T \in P, x \in S : x \notin T => T \cup {x} \in P
  PROVE  P = SUBSET S
<1> DEFINE bad == {Cardinality(T) : T \in (SUBSET S) \ P}
<1> SUFFICES ASSUME (SUBSET S) \ P # {} PROVE FALSE
  OBVIOUS
<1>1. \A T \in SUBSET S : IsFiniteSet(T) /\ Cardinality(T) \in Nat
  BY FS_Subset, FS_CardinalityType
<1>2. bad \in SUBSET Nat /\ bad # {}
  BY <1>1
<1>3. PICK n \in bad : \A k \in bad : n <= k
  BY <1>2, LeastExists
<1>4. PICK T \in (SUBSET S) \ P : n = Cardinality(T)
  BY <1>3
<1>5. PICK x \in T : TRUE
  BY <1>4
<1>6. Cardinality(T \ {x}) = n - 1
  BY <1>1, <1>4, <1>5, FS_RemoveElement
<1>7. T \ {x} \in P
  <2>1. ~(n <= n - 1)
    BY <1>2
  <2> QED BY <1>3, <1>6, <2>1
<1>8. (T \ {x}) \cup {x} = T
  BY <1>5
<1> QED BY <1>4, <1>7, <1>8

LEMMA ByNaturals ==
  ASSUME NEW P \in SUBSET Nat, 0 \in P, \A n \in P : n + 1 \in P
  PROVE  P = Nat
<1> SUFFICES ASSUME Nat \ P # {} PROVE FALSE
  OBVIOUS
<1>1. PICK n \in Nat \ P : \A k \in Nat \ P : n <= k
  BY LeastExists
<1>2. n # 0 /\ n - 1 \in Nat /\ ~(n <= n - 1)
  BY <1>1
<1>3. n - 1 \in P
  BY <1>1, <1>2
<1>4. (n - 1) + 1 = n
  BY <1>1
<1> QED BY <1>3, <1>4

Some(s) == CHOOSE x \in s : TRUE

\* h sums f over the subsets of S by taking some element out at a time.
Sums(h, f, S) ==
  h = [s \in SUBSET S |-> IF s = {} THEN 0 ELSE f[Some(s)] + h[s \ {Some(s)}]]

LEMMA SomeIsIn == ASSUME NEW s, s # {} PROVE Some(s) \in s
BY DEF Some

LEMMA SumsAgree ==
  ASSUME NEW f, NEW S, NEW T, NEW g, NEW h, Sums(g, f, S), Sums(h, f, T),
         NEW U, IsFiniteSet(U), U \subseteq S, U \subseteq T
  PROVE  \A u \in SUBSET U : g[u] = h[u]
<1> DEFINE bad == {n \in Nat : \E u \in SUBSET U : Cardinality(u) = n /\ g[u] # h[u]}
<1>0. \A u \in SUBSET U : IsFiniteSet(u) /\ Cardinality(u) \in Nat
  BY FS_Subset, FS_CardinalityType
<1> SUFFICES ASSUME bad # {} PROVE FALSE
  BY <1>0
<1>1. bad \in SUBSET Nat
  OBVIOUS
<1>2. PICK n \in bad : \A k \in bad : n <= k
  BY <1>1, LeastExists
<1>3. PICK u \in SUBSET U : Cardinality(u) = n /\ g[u] # h[u]
  BY <1>2
<1>4. /\ g[u] = IF u = {} THEN 0 ELSE f[Some(u)] + g[u \ {Some(u)}]
      /\ h[u] = IF u = {} THEN 0 ELSE f[Some(u)] + h[u \ {Some(u)}]
  <2>1. u \in SUBSET S /\ u \in SUBSET T
    BY <1>3
  <2> QED BY <2>1, Zenon DEF Sums
<1>5. u # {}
  BY <1>3, <1>4
<1>6. Some(u) \in u
  BY <1>5, SomeIsIn
<1> DEFINE v == u \ {Some(u)}
<1>7. v \in SUBSET U /\ Cardinality(v) = n - 1 /\ n - 1 \in Nat
  <2>1. Cardinality(v) = n - 1
    BY <1>0, <1>3, <1>6, FS_RemoveElement
  <2>2. v \in SUBSET U
    BY <1>3
  <2> QED BY <1>0, <2>1, <2>2
<1> HIDE DEF v
<1>8. g[v] = h[v]
  <2>1. n \in Nat /\ ~(n <= n - 1)
    BY <1>1, <1>2
  <2>2. n - 1 \notin bad
    BY <1>2, <2>1
  <2> QED BY <1>7, <2>2
<1> QED BY <1>3, <1>4, <1>5, <1>8 DEF v

\* The sums over a finite set exist.
LEMMA SumsExist ==
  ASSUME NEW f, NEW S, IsFiniteSet(S)
  PROVE  \E h : Sums(h, f, S)
<1> DEFINE P == {T \in SUBSET S : \E h : Sums(h, f, T)}
           Of(u) == (CHOOSE h : Sums(h, f, u))[u]
<1>0. \A u \in SUBSET S : IsFiniteSet(u)
  BY FS_Subset
<1>1. {} \in P
  <2> DEFINE h == [s \in SUBSET {} |-> 0]
  <2>1. Sums(h, f, {})
    BY DEF Sums
  <2> QED BY <2>1
<1>2. ASSUME NEW T \in SUBSET S, \A U \in SUBSET T : U # T => U \in P
      PROVE  T \in P
  <2> DEFINE h == [s \in SUBSET T |-> IF s = {} THEN 0 ELSE f[Some(s)] + Of(s \ {Some(s)})]
  <2>1. ASSUME NEW s \in SUBSET T, s # T PROVE h[s] = Of(s)
    <3> DEFINE g == CHOOSE g : Sums(g, f, s)
    <3>1. \E x : Sums(x, f, s)
      BY <1>2, <2>1
    <3>2. Sums(g, f, s)
      BY <3>1, Zenon
    <3>3. Of(s) = g[s]
      OBVIOUS
    <3> HIDE DEF g
    <3>4. g[s] = IF s = {} THEN 0 ELSE f[Some(s)] + g[s \ {Some(s)}]
      BY <3>2, Zenon DEF Sums
    <3>5. CASE s = {}
      BY <3>3, <3>4, <3>5
    <3>6. ASSUME s # {} PROVE g[s \ {Some(s)}] = Of(s \ {Some(s)})
      <4> DEFINE v == s \ {Some(s)}
                 k == CHOOSE k : Sums(k, f, v)
      <4>1. Some(s) \in s
        BY <3>6, SomeIsIn
      <4>2. v \in SUBSET s /\ v \in SUBSET S /\ v \in SUBSET T /\ v # T /\ v \in SUBSET v
        BY <1>2, <2>1, <4>1
      <4>3. \E x : Sums(x, f, v)
        BY <1>2, <4>2
      <4>4. Sums(k, f, v)
        BY <4>3, Zenon
      <4>5. Of(v) = k[v]
        OBVIOUS
      <4> HIDE DEF k, v, Of
      <4>6. \A u \in SUBSET v : g[u] = k[u]
        BY <1>0, <3>2, <4>2, <4>4, SumsAgree
      <4> QED BY <4>2, <4>5, <4>6 DEF v
    <3>7. h[s] = IF s = {} THEN 0 ELSE f[Some(s)] + Of(s \ {Some(s)})
      OBVIOUS
    <3> HIDE DEF h, Of
    <3> QED BY <3>3, <3>4, <3>6, <3>7
  <2>2. ASSUME NEW s \in SUBSET T, s # {} PROVE h[s \ {Some(s)}] = Of(s \ {Some(s)})
    <3>1. Some(s) \in s
      BY <2>2, SomeIsIn
    <3>2. s \ {Some(s)} \in SUBSET T /\ s \ {Some(s)} # T
      BY <3>1
    <3> HIDE DEF h, Of
    <3> QED BY <2>1, <3>2
  <2>3. Sums(h, f, T)
    <3> HIDE DEF Of
    <3>1. h = [s \in SUBSET T |-> IF s = {} THEN 0 ELSE f[Some(s)] + h[s \ {Some(s)}]]
      BY <2>2, Zenon
    <3> QED BY <3>1 DEF Sums
  <2> QED BY <2>3
<1> QED
  <2> DEFINE bad == {Cardinality(T) : T \in (SUBSET S) \ P}
  <2> HIDE DEF P
  <2> SUFFICES ASSUME (SUBSET S) \ P # {} PROVE FALSE
    BY DEF P
  <2>1. \A T \in SUBSET S : IsFiniteSet(T) /\ Cardinality(T) \in Nat
    BY FS_Subset, FS_CardinalityType
  <2>2. bad \in SUBSET Nat /\ bad # {}
    BY <2>1
  <2>3. PICK n \in bad : \A k \in bad : n <= k
    BY <2>2, LeastExists
  <2>4. PICK T \in (SUBSET S) \ P : n = Cardinality(T)
    BY <2>3
  <2>5. ASSUME NEW U \in SUBSET T, U # T PROVE U \in P
    <3>1. Cardinality(U) <= n /\ Cardinality(U) # n
      BY <2>1, <2>4, <2>5, FS_Subset
    <3>2. ~(n <= Cardinality(U))
      BY <2>1, <2>2, <2>4, <3>1
    <3> QED BY <2>3, <2>4, <3>2
  <2> QED BY <1>2, <2>4, <2>5

LEMMA SumUnfolds ==
  ASSUME NEW f, NEW S, IsFiniteSet(S)
  PROVE  \E h : Sums(h, f, S) /\ SumFunctionOnSet(f, S) = h[S]
<1> DEFINE it == CHOOSE iter : iter = [s \in SUBSET S |-> IF s = {} THEN 0 ELSE f[Some(s)] + iter[s \ {Some(s)}]]
<1>0. \E h : Sums(h, f, S)
  BY SumsExist
<1>1. \E h : h = [s \in SUBSET S |-> IF s = {} THEN 0 ELSE f[Some(s)] + h[s \ {Some(s)}]]
  BY <1>0, Zenon DEF Sums
<1>2. it = [s \in SUBSET S |-> IF s = {} THEN 0 ELSE f[Some(s)] + it[s \ {Some(s)}]]
  BY <1>1, Zenon
<1>3. SumFunctionOnSet(f, S) = it[S]
  BY Zenon DEF SumFunctionOnSet, FoldFunctionOnSet, MapThenFoldSet, Some
<1> HIDE DEF it
<1> QED BY <1>2, <1>3 DEF Sums

\* The library's sum, one element at a time: the element CHOOSE picks.
LEMMA SumStep ==
  ASSUME NEW f, NEW S, IsFiniteSet(S)
  PROVE  /\ SumFunctionOnSet(f, {}) = 0
         /\ S # {} => SumFunctionOnSet(f, S) = f[Some(S)] + SumFunctionOnSet(f, S \ {Some(S)})
<1>1. PICK h : Sums(h, f, S) /\ SumFunctionOnSet(f, S) = h[S]
  BY SumUnfolds
<1>2. SumFunctionOnSet(f, {}) = 0
  <2>1. PICK g : Sums(g, f, {}) /\ SumFunctionOnSet(f, {}) = g[{}]
    BY SumUnfolds, FS_EmptySet
  <2>2. g[{}] = 0
    BY <2>1, Zenon DEF Sums
  <2> QED BY <2>1, <2>2
<1>3. ASSUME S # {} PROVE SumFunctionOnSet(f, S) = f[Some(S)] + SumFunctionOnSet(f, S \ {Some(S)})
  <2> DEFINE T == S \ {Some(S)}
  <2>1. T \in SUBSET S /\ IsFiniteSet(T)
    BY FS_Subset
  <2>2. PICK g : Sums(g, f, T) /\ SumFunctionOnSet(f, T) = g[T]
    BY <2>1, SumUnfolds
  <2>3. h[S] = f[Some(S)] + h[T]
    <3>1. S \in SUBSET S
      OBVIOUS
    <3>2. h[S] = IF S = {} THEN 0 ELSE f[Some(S)] + h[S \ {Some(S)}]
      BY <1>1, <3>1, Zenon DEF Sums
    <3> QED BY <1>3, <3>2
  <2> HIDE DEF T
  <2>4. h[T] = g[T]
    BY <1>1, <2>1, <2>2, SumsAgree
  <2> QED BY <1>1, <2>2, <2>3, <2>4 DEF T
<1> QED BY <1>2, <1>3

\* ... and any element, because addition does not mind the order.
LEMMA SumOut ==
  ASSUME NEW S, IsFiniteSet(S), NEW f, \A y \in S : f[y] \in Int
  PROVE  /\ SumFunctionOnSet(f, S) \in Int
         /\ \A x \in S : SumFunctionOnSet(f, S) = f[x] + SumFunctionOnSet(f, S \ {x})
<1> DEFINE Good(T) == /\ SumFunctionOnSet(f, T) \in Int
                      /\ \A x \in T : SumFunctionOnSet(f, T) = f[x] + SumFunctionOnSet(f, T \ {x})
           P == {T \in SUBSET S : Good(T)}
<1>0. \A T \in SUBSET S : IsFiniteSet(T) /\ Cardinality(T) \in Nat
  BY FS_Subset, FS_CardinalityType
<1>1. ASSUME NEW T \in SUBSET S, \A U \in SUBSET T : U # T => U \in P PROVE T \in P
  <2>1. CASE T = {}
    <3>1. SumFunctionOnSet(f, T) = 0
      BY <1>0, <2>1, SumStep
    <3> QED BY <2>1, <3>1
  <2>2. CASE T # {}
    <3> DEFINE c == Some(T)
               rest == T \ {c}
    <3>1. c \in T /\ rest \in SUBSET T /\ rest # T
      BY <2>2, SomeIsIn
    <3>2. SumFunctionOnSet(f, T) = f[c] + SumFunctionOnSet(f, rest)
      BY <1>0, <2>2, SumStep
    <3>3. Good(rest) /\ f[c] \in Int
      BY <1>1, <3>1
    <3> HIDE DEF c
    <3>4. ASSUME NEW x \in T PROVE SumFunctionOnSet(f, T) = f[x] + SumFunctionOnSet(f, T \ {x})
      <4>1. CASE x = c
        BY <3>2, <4>1
      <4>2. CASE x # c
        <5> DEFINE less == rest \ {x}
                   other == T \ {x}
        <5>1. x \in rest /\ c \in other /\ other \in SUBSET T /\ other # T /\ other \ {c} = less
          BY <3>1, <4>2
        <5>2. less \in SUBSET T /\ less # T
          BY <3>1
        <5>3. SumFunctionOnSet(f, rest) = f[x] + SumFunctionOnSet(f, less)
          BY <3>3, <5>1
        <5>4. Good(other) /\ Good(less) /\ f[x] \in Int
          BY <1>1, <5>1, <5>2
        <5>5. SumFunctionOnSet(f, other) = f[c] + SumFunctionOnSet(f, less)
          BY <5>1, <5>4
        <5> HIDE DEF less, other, rest
        <5> QED BY <3>2, <3>3, <5>3, <5>4, <5>5 DEF other
      <4> QED BY <4>1, <4>2
    <3>5. SumFunctionOnSet(f, T) \in Int
      <4> HIDE DEF rest
      <4> QED BY <3>2, <3>3
    <3> QED BY <3>4, <3>5
  <2> QED BY <2>1, <2>2
<1>2. \A T \in SUBSET S : T \in P
  <2> DEFINE bad == {Cardinality(T) : T \in (SUBSET S) \ P}
  <2> HIDE DEF P
  <2> SUFFICES ASSUME (SUBSET S) \ P # {} PROVE FALSE
    OBVIOUS
  <2>2. bad \in SUBSET Nat /\ bad # {}
    BY <1>0
  <2>3. PICK n \in bad : \A k \in bad : n <= k
    BY <2>2, LeastExists
  <2>4. PICK T \in (SUBSET S) \ P : n = Cardinality(T)
    BY <2>3
  <2>5. ASSUME NEW U \in SUBSET T, U # T PROVE U \in P
    <3>1. Cardinality(U) <= n /\ Cardinality(U) # n
      BY <1>0, <2>4, <2>5, FS_Subset
    <3>2. ~(n <= Cardinality(U))
      BY <1>0, <2>2, <2>4, <3>1
    <3> QED BY <2>3, <2>4, <3>2
  <2> QED BY <1>1, <2>4, <2>5
<1> QED BY <1>2

\* The sum of the elements that are the same.
LEMMA SumSame ==
  ASSUME NEW S, IsFiniteSet(S), NEW f, NEW g, \A x \in S : f[x] \in Int /\ f[x] = g[x]
  PROVE  SumFunctionOnSet(f, S) = SumFunctionOnSet(g, S)
<1> DEFINE P == {T \in SUBSET S : SumFunctionOnSet(f, T) = SumFunctionOnSet(g, T)}
<1>1. {} \in P
  BY SumStep, FS_EmptySet
<1>2. ASSUME NEW T \in P, NEW x \in S, x \notin T PROVE T \cup {x} \in P
  <2> DEFINE U == T \cup {x}
  <2>1. U \in SUBSET S /\ x \in U /\ U \ {x} = T
    BY <1>2
  <2>2. IsFiniteSet(U)
    BY <2>1, FS_Subset
  <2>3. \A y \in U : f[y] \in Int /\ g[y] \in Int /\ f[x] = g[x]
    BY <2>1
  <2> HIDE DEF U
  <2>4. SumFunctionOnSet(f, U) = f[x] + SumFunctionOnSet(f, T)
    BY <2>1, <2>2, <2>3, SumOut
  <2>5. SumFunctionOnSet(g, U) = g[x] + SumFunctionOnSet(g, T)
    BY <2>1, <2>2, <2>3, SumOut
  <2> QED BY <2>1, <2>3, <2>4, <2>5 DEF U
<1>0. P \in SUBSET SUBSET S
  OBVIOUS
<1> HIDE DEF P
<1>3. P = SUBSET S
  BY <1>0, <1>1, <1>2, BySubsets
<1> QED BY <1>3 DEF P

LEMMA SumAdd ==
  ASSUME NEW S, IsFiniteSet(S), NEW f, \A y \in S : f[y] \in Int,
         NEW x, x \notin S, f[x] \in Int
  PROVE  SumFunctionOnSet(f, S \cup {x}) = f[x] + SumFunctionOnSet(f, S)
<1> DEFINE U == S \cup {x}
<1>1. IsFiniteSet(U) /\ x \in U /\ U \ {x} = S /\ \A y \in U : f[y] \in Int
  BY FS_AddElement
<1> HIDE DEF U
<1>2. SumFunctionOnSet(f, U) = f[x] + SumFunctionOnSet(f, U \ {x})
  BY <1>1, SumOut
<1> QED BY <1>1, <1>2 DEF U

\* Sums add up.
LEMMA SumLinear ==
  ASSUME NEW S, IsFiniteSet(S), NEW f, NEW g, NEW h,
         \A x \in S : f[x] \in Int /\ g[x] \in Int /\ h[x] = f[x] + g[x]
  PROVE  SumFunctionOnSet(h, S) = SumFunctionOnSet(f, S) + SumFunctionOnSet(g, S)
<1> DEFINE P == {T \in SUBSET S :
                   SumFunctionOnSet(h, T) = SumFunctionOnSet(f, T) + SumFunctionOnSet(g, T)}
<1>1. {} \in P
  <2>1. \A k : SumFunctionOnSet(k, {}) = 0
    BY SumStep, FS_EmptySet
  <2> QED BY <2>1
<1>2. ASSUME NEW T \in P, NEW x \in S, x \notin T PROVE T \cup {x} \in P
  <2>1. IsFiniteSet(T) /\ T \in SUBSET S /\ T \cup {x} \in SUBSET S
    BY FS_Subset
  <2>2. \A y \in S : f[y] \in Int /\ g[y] \in Int /\ h[y] \in Int /\ h[x] = f[x] + g[x]
    OBVIOUS
  <2>3. SumFunctionOnSet(f, T) \in Int /\ SumFunctionOnSet(g, T) \in Int
    BY <2>1, <2>2, SumOut
  <2>4. SumFunctionOnSet(f, T \cup {x}) = f[x] + SumFunctionOnSet(f, T)
    BY <1>2, <2>1, <2>2, SumAdd
  <2>5. SumFunctionOnSet(g, T \cup {x}) = g[x] + SumFunctionOnSet(g, T)
    BY <1>2, <2>1, <2>2, SumAdd
  <2>6. SumFunctionOnSet(h, T \cup {x}) = h[x] + SumFunctionOnSet(h, T)
    BY <1>2, <2>1, <2>2, SumAdd
  <2> QED BY <2>1, <2>2, <2>3, <2>4, <2>5, <2>6
<1>0. P \in SUBSET SUBSET S
  OBVIOUS
<1> HIDE DEF P
<1>3. P = SUBSET S
  BY <1>0, <1>1, <1>2, BySubsets
<1> QED BY <1>3 DEF P

LEMMA DivInt == ASSUME NEW n \in Int, NEW d \in Nat \ {0}
  PROVE /\ n \div d \in Int /\ d * (n \div d) <= n /\ n < d * (n \div d) + d
OBVIOUS
\* The quotient is the nearest integer.
LEMMA RoundedDivIsNearest ==
  ASSUME NEW n \in Int, NEW d \in Nat \ {0}
  PROVE  LET q == RoundedDiv(n, d)
         IN  q \in Int /\ 2 * (d * q) - 2 * n <= d /\ 2 * n - 2 * (d * q) <= d
<1> DEFINE e == 2 * d
           p == (2 * n + d) \div e
           m == (2 * (-n) + d) \div e
<1>1. e \in Nat \ {0} /\ 2 * n + d \in Int /\ 2 * (-n) + d \in Int
  OBVIOUS
<1>2. p \in Int /\ e * p <= 2 * n + d /\ 2 * n + d < e * p + e
  BY <1>1, DivInt
<1>3. m \in Int /\ e * m <= 2 * (-n) + d /\ 2 * (-n) + d < e * m + e
  BY <1>1, DivInt
<1>4. RoundedDiv(n, d) = IF n < 0 THEN -m ELSE p
  BY DEF RoundedDiv
<1> HIDE DEF p, m
<1>5. e * p = 2 * (d * p) /\ e * m = 2 * (d * m) /\ d * (-m) = -(d * m)
  BY <1>2, <1>3
<1>6. d * p \in Int /\ d * m \in Int
  BY <1>2, <1>3
<1> HIDE DEF e
<1>7. e = 2 * d
  BY DEF e
<1>8. CASE n < 0
  <2>1. RoundedDiv(n, d) = -m /\ -m \in Int
    BY <1>3, <1>4, <1>8
  <2> QED BY <1>3, <1>5, <1>6, <1>7, <2>1
<1>9. CASE ~(n < 0)
  <2>1. RoundedDiv(n, d) = p
    BY <1>2, <1>4, <1>9
  <2> QED BY <1>2, <1>5, <1>6, <1>7, <2>1
<1> QED BY <1>8, <1>9

-----------------------------------------------------------------------------
(* Lines and requests.                                                     *)

Ids == Nat \X Folios \X Parts

\* The numbers of the lines: by posting, then folio, then part; a tax line
\* hangs from the charge of its own posting.
Numbered(l) ==
  /\ l.id \in Ids /\ l.id[2] = l.folio
  /\ l.parent = NoRef \/ l.parent = <<l.id[1], l.id[2], "charge">>

LinesNumbered ==
  /\ postings \in Nat
  /\ \A l \in lines : Numbered(l) /\ l.id[1] <= postings
  /\ \A l, k \in lines : l.id = k.id => l = k
  /\ \A r \in lines : r.reverses = NoRef \/ \E w \in lines : r.reverses = w.id

Ops == {"idle", "void", "roomCharges", "checkOut", "toRoom"}
TxOf == [op : Ops, folio : Folios \cup {NoRef}, line : lines \cup {NoRef},
         order : Orders \cup {NoRef}, day : Dates \cup {NoRef}, staying : SUBSET Folios]

Request(r) == [op |-> r.op, folio |-> r.folio, line |-> r.line, order |-> r.order,
               day |-> r.day, staying |-> r.staying]

RequestsTyped ==
  /\ tx \in [Sessions -> TxOf]
  /\ taxes \in TaxTables /\ inHouse \subseteq Folios
  /\ \A s \in Sessions :
       tx[s].op = "void" => tx[s].line \in lines /\ tx[s].line.parent = NoRef
  /\ \A s \in Sessions : tx[s].op = "toRoom" => tx[s].order \in Orders /\ tx[s].folio \in Folios
  /\ \A s \in Sessions : tx[s].op = "roomCharges" => tx[s].day \in Dates

LedgerInv == LinesNumbered /\ RequestsTyped /\ VoidsAreWhole

-----------------------------------------------------------------------------
(* What a posting may add.                                                 *)

\* New lines of posting n: numbered apart, reversing only lines there are.
Postable(new, n) ==
  /\ \A l \in new : Numbered(l) /\ l.id[1] = n + 1
  /\ \A l, k \in new : l.id = k.id => l = k
  /\ \A r \in new : r.reverses = NoRef \/ \E w \in lines : r.reverses = w.id

LEMMA PostKeepsNumbers ==
  ASSUME LinesNumbered, NEW new, Postable(new, postings), Post(new)
  PROVE  LinesNumbered' /\ \A l \in lines, k \in new : l.id # k.id
<1>1. lines' = lines \cup new /\ postings' = postings + 1 /\ postings \in Nat
  BY DEF Post, LinesNumbered
<1>2. \A l \in lines : Numbered(l) /\ l.id[1] <= postings /\ l.id[1] \in Nat
  BY DEF LinesNumbered, Numbered, Ids
<1>3. \A l \in new : Numbered(l) /\ l.id[1] = postings + 1
  BY DEF Postable
<1>4. \A l \in lines, k \in new : l.id # k.id
  BY <1>1, <1>2, <1>3
<1>5. \A l \in lines' : Numbered(l) /\ l.id[1] <= postings'
  BY <1>1, <1>2, <1>3
<1>6. \A l, k \in lines' : l.id = k.id => l = k
  BY <1>1, <1>4 DEF LinesNumbered, Postable
<1>7. \A r \in lines' : r.reverses = NoRef \/ \E w \in lines' : r.reverses = w.id
  BY <1>1 DEF LinesNumbered, Postable
<1> QED BY <1>1, <1>4, <1>5, <1>6, <1>7 DEF LinesNumbered, Numbered

\* A charge and its tax, or a payment, reverses nothing and hangs from nothing
\* that was there.
LEMMA PostKeepsVoids ==
  ASSUME LinesNumbered, VoidsAreWhole, NEW new, Postable(new, postings), Post(new),
         \A l \in new : l.reverses = NoRef
  PROVE  VoidsAreWhole'
<1>1. lines' = lines \cup new
  BY DEF Post
<1>2. \A l \in lines, k \in new : l.id # k.id
  BY PostKeepsNumbers
<1>3. \A l \in lines' : l.id \in Ids /\ l.id # NoRef
  BY <1>1, FoliosAssumption DEF LinesNumbered, Postable, Numbered, Ids
<1>4. ASSUME NEW w \in lines' PROVE {x \in lines' : x.reverses = w.id} = {x \in lines : x.reverses = w.id}
  BY <1>1, <1>3
<1>5. ASSUME NEW l \in lines', l.parent = NoRef, NEW r \in lines', r.reverses = l.id
      PROVE  l \in lines /\ r \in lines
  <2>1. r \in lines
    BY <1>4, <1>5
  <2>2. \E w \in lines : r.reverses = w.id
    BY <1>3, <1>5, <2>1 DEF LinesNumbered
  <2> QED BY <1>1, <1>2, <1>5, <2>1, <2>2
<1>6. ASSUME NEW l \in lines, NEW c \in new PROVE c.parent # l.id
  <2>1. /\ l.id \in Ids /\ l.id[1] <= postings /\ c.id[1] = postings + 1
        /\ c.parent = NoRef \/ c.parent = <<c.id[1], c.id[2], "charge">>
    BY DEF LinesNumbered, Postable, Numbered
  <2>2. postings \in Nat /\ l.id[1] \in Nat
    BY <2>1 DEF Ids, LinesNumbered
  <2>3. c.parent # NoRef => c.parent[1] = postings + 1
    BY <2>1
  <2> QED BY <1>1, <1>3, <2>1, <2>2, <2>3
<1>7. ASSUME NEW l \in lines', l.parent = NoRef, \E r \in lines' : r.reverses = l.id,
             NEW w \in {l} \cup {c \in lines' : c.parent = l.id}
      PROVE  \E r \in lines' : /\ {x \in lines' : x.reverses = w.id} = {r}
                               /\ r.folio = w.folio /\ r.amount = -w.amount
  <2>1. l \in lines /\ \E r \in lines : r.reverses = l.id
    BY <1>5, <1>7
  <2>2. w \in {l} \cup {c \in lines : c.parent = l.id} /\ w \in lines'
    BY <1>1, <1>6, <1>7, <2>1
  <2>3. \E r \in lines : /\ {x \in lines : x.reverses = w.id} = {r}
                         /\ r.folio = w.folio /\ r.amount = -w.amount
    BY <1>7, <2>1, <2>2 DEF VoidsAreWhole, WithChildren, Reversed
  <2> QED BY <1>1, <1>4, <2>2, <2>3
<1> QED BY <1>7 DEF VoidsAreWhole, WithChildren, Reversed

\* A charge with any taxes of one table: one CHARGE line, the price without the
\* tax inside it, and a TAX line for each.
LEMMA TaxedChargeLines ==
  ASSUME NEW day, NEW f \in Folios, NEW gross, NEW table \in TaxTables,
         NEW applied \in SUBSET table, NEW source
  PROVE  LET new == TaxedCharge(day, f, gross, applied, source)
         IN  /\ \A l \in new : /\ Numbered(l) \/ postings \notin Nat
                               /\ l.id[1] = postings + 1
                               /\ l.reverses = NoRef /\ l.folio = f /\ l.source = source
             /\ \A l, k \in new : l.id = k.id => l = k
             /\ \E l \in new : /\ l.type = "CHARGE" /\ l.amount = gross - CarvedOut(applied, gross)
                               /\ \A k \in new : k.type = "CHARGE" => k = l
<1> DEFINE new == TaxedCharge(day, f, gross, applied, source)
           amount(t) == TaxFromBps(gross, t)
           taxLine(t) == Line(day, f, t.name, "TAX", amount(t), amount(t), <<postings + 1, f, "charge">>,
                              NoRef, source)
           first == Line(day, f, "charge", "CHARGE", gross - CarvedOut(applied, gross), 0, NoRef, NoRef, source)
<1>1. new = {first} \cup {taxLine(t) : t \in applied}
  BY DEF TaxedCharge
<1>2. \A t \in applied : t.name \in Parts /\ t.name # "charge"
  BY TaxesAssumption DEF Parts
<1>3. \A t, u \in applied : t.name = u.name => t = u
  BY TaxesAssumption
<1>4. /\ first.id = <<postings + 1, f, "charge">> /\ first.folio = f /\ first.type = "CHARGE"
      /\ first.parent = NoRef /\ first.reverses = NoRef /\ first.source = source
      /\ first.amount = gross - CarvedOut(applied, gross)
  BY DEF Line
<1>5. ASSUME NEW t
      PROVE  /\ taxLine(t).id = <<postings + 1, f, t.name>> /\ taxLine(t).folio = f
             /\ taxLine(t).type = "TAX" /\ taxLine(t).parent = <<postings + 1, f, "charge">>
             /\ taxLine(t).reverses = NoRef /\ taxLine(t).source = source
  BY DEF Line
<1> HIDE DEF new, taxLine, first
<1>6. "charge" \in Parts
  BY DEF Parts
<1>7. postings \in Nat => \A l \in new : Numbered(l)
  <2> SUFFICES ASSUME postings \in Nat PROVE \A l \in new : Numbered(l)
    OBVIOUS
  <2>1. postings + 1 \in Nat
    OBVIOUS
  <2>2. Numbered(first)
    <3>1. first.id \in Ids
      BY <1>4, <1>6, <2>1 DEF Ids
    <3>2. first.id[2] = f
      BY <1>4
    <3> QED BY <1>4, <3>1, <3>2 DEF Numbered
  <2>3. ASSUME NEW t \in applied PROVE Numbered(taxLine(t))
    <3> DEFINE id == <<postings + 1, f, t.name>>
    <3>0. taxLine(t).id = id
      BY <1>5
    <3>1. taxLine(t).id \in Ids
      <4>1. t.name \in Parts
        BY <1>2
      <4>2. id \in Ids
        BY <2>1, <4>1 DEF Ids
      <4> QED BY <3>0, <4>2
    <3>2. taxLine(t).id[1] = postings + 1 /\ taxLine(t).id[2] = f
      BY <1>5
    <3> QED BY <1>5, <3>1, <3>2 DEF Numbered
  <2> QED BY <1>1, <2>2, <2>3
<1>8. \A l \in new : l.id[1] = postings + 1 /\ l.reverses = NoRef /\ l.folio = f /\ l.source = source
  BY <1>1, <1>4, <1>5
<1>9. \A l, k \in new : l.id = k.id => l = k
  <2>1. \A t \in applied : taxLine(t).id # first.id
    BY <1>2, <1>4, <1>5
  <2>2. \A t, u \in applied : taxLine(t).id = taxLine(u).id => t = u
    BY <1>3, <1>5
  <2> QED BY <1>1, <2>1, <2>2
<1>10. first \in new /\ \A k \in new : k.type = "CHARGE" => k = first
  BY <1>1, <1>4, <1>5
<1> QED BY <1>4, <1>7, <1>8, <1>9, <1>10 DEF new

\* The opposites of a line and of what hangs from it.
LEMMA ReversalLines ==
  ASSUME LinesNumbered, NEW l \in lines,
         NEW new, new = {Reversal(w) : w \in WithChildren(l)}
  PROVE  /\ Postable(new, postings)
         /\ \A w \in WithChildren(l) : w \in lines /\ w.folio = l.folio
<1>1. \A w \in lines : w.id \in Ids /\ w.id[2] = w.folio /\ w.folio \in Folios /\ w.id[3] \in Parts
  BY DEF LinesNumbered, Numbered, Ids
<1>2. \A w \in WithChildren(l) : w \in lines /\ w.folio = l.folio /\ w.id[1] = l.id[1] /\ w.id[2] = l.id[2]
  <2>1. ASSUME NEW c \in lines, c.parent = l.id
        PROVE  c.folio = l.folio /\ c.id[1] = l.id[1] /\ c.id[2] = l.id[2]
    <3>1. l.id # NoRef
      BY <1>1, FoliosAssumption DEF Ids
    <3>2. c.parent = <<c.id[1], c.id[2], "charge">>
      BY <2>1, <3>1 DEF LinesNumbered, Numbered
    <3>3. l.id[1] = c.id[1] /\ l.id[2] = c.id[2]
      BY <2>1, <3>2
    <3> QED BY <1>1, <3>3
  <2>2. l.folio = l.folio /\ l.id[1] = l.id[1]
    OBVIOUS
  <2> QED BY <2>1, <2>2 DEF WithChildren
<1>3. ASSUME NEW w
      PROVE  /\ Reversal(w).id = <<postings + 1, w.folio, w.id[3]>> /\ Reversal(w).folio = w.folio
             /\ Reversal(w).parent = NoRef /\ Reversal(w).reverses = w.id
  BY DEF Reversal, Line
<1>4. \A r \in new : \E w \in WithChildren(l) : r = Reversal(w)
  OBVIOUS
<1>5. \A r \in new : Numbered(r) /\ r.id[1] = postings + 1
  <2>1. postings + 1 \in Nat
    BY DEF LinesNumbered
  <2>2. ASSUME NEW w \in WithChildren(l) PROVE Numbered(Reversal(w)) /\ Reversal(w).id[1] = postings + 1
    BY <1>1, <1>2, <1>3, <2>1 DEF Numbered, Ids
  <2> QED BY <1>4, <2>2
<1>6. \A r, k \in new : r.id = k.id => r = k
  <2>1. ASSUME NEW w \in WithChildren(l), NEW v \in WithChildren(l), Reversal(w).id = Reversal(v).id
        PROVE  w = v
    <3>1. w.id[3] = v.id[3]
      BY <1>3, <2>1
    <3>2. w.id = v.id
      BY <1>1, <1>2, <3>1 DEF Ids
    <3> QED BY <1>2, <3>2 DEF LinesNumbered
  <2> QED BY <1>4, <2>1
<1>7. \A r \in new : \E w \in lines : r.reverses = w.id
  BY <1>2, <1>3, <1>4
<1> QED BY <1>2, <1>5, <1>6, <1>7 DEF Postable

\* A void that commits reverses every line of the posting, and nobody had.
LEMMA VoidKeepsVoids ==
  ASSUME LinesNumbered, VoidsAreWhole, NEW l \in lines, l.parent = NoRef,
         NEW new, new = {Reversal(w) : w \in WithChildren(l)},
         OneReversalPerLine(new), Post(new)
  PROVE  VoidsAreWhole'
<1>1. lines' = lines \cup new
  BY DEF Post
<1>2. Postable(new, postings) /\ \A w \in WithChildren(l) : w \in lines
  BY ReversalLines
<1>3. \A m \in lines, k \in new : m.id # k.id
  BY <1>2, PostKeepsNumbers
<1>4. ASSUME NEW w
      PROVE  /\ Reversal(w).folio = w.folio /\ Reversal(w).parent = NoRef
             /\ Reversal(w).reverses = w.id /\ Reversal(w).amount = -w.amount
  BY DEF Reversal, Line
<1>5. \A r \in new : r.parent = NoRef /\ r.reverses # NoRef /\ \E w \in lines : r.reverses = w.id
  <2>1. \A w \in lines : w.id # NoRef
    BY FoliosAssumption DEF LinesNumbered, Numbered, Ids
  <2> QED BY <1>2, <1>4, <2>1
<1>6. \A w \in WithChildren(l) : ~\E x \in lines : x.reverses = w.id
  BY <1>4 DEF OneReversalPerLine
<1>7. ASSUME NEW w \in WithChildren(l)
      PROVE  /\ Reversal(w) \in new
             /\ {x \in lines' : x.reverses = w.id} = {Reversal(w)}
  <2>1. \A v \in WithChildren(l) : v.id = w.id => v = w
    BY <1>2 DEF LinesNumbered
  <2> QED BY <1>1, <1>4, <1>6, <2>1
<1>8. ASSUME NEW m \in lines', m.parent = NoRef, \E r \in lines' : r.reverses = m.id
      PROVE  m \in lines /\ (m = l \/ \E r \in lines : r.reverses = m.id)
  <2>1. PICK r \in lines' : r.reverses = m.id
    BY <1>8
  <2>2. m.id # NoRef
    <3>1. m.id \in Ids
      BY <1>1, <1>2 DEF LinesNumbered, Postable, Numbered
    <3> QED BY <3>1, FoliosAssumption DEF Ids
  <2>3. \E w \in lines : r.reverses = w.id
    BY <1>1, <1>5, <2>1, <2>2 DEF LinesNumbered
  <2>4. m \in lines
    BY <1>1, <1>3, <2>1, <2>3
  <2>5. CASE r \in new
    <3>1. PICK w \in WithChildren(l) : r = Reversal(w)
      BY <2>5
    <3>2. w = m
      BY <1>2, <1>4, <2>1, <2>4, <3>1 DEF LinesNumbered
    <3>3. l.id # NoRef
      BY FoliosAssumption DEF LinesNumbered, Numbered, Ids
    <3> QED BY <1>8, <2>4, <3>2, <3>3 DEF WithChildren
  <2> QED BY <1>1, <2>1, <2>4, <2>5
<1>9. ASSUME NEW m \in lines, NEW c \in lines', c.parent = m.id PROVE c \in lines
  <2>1. m.id # NoRef
    BY FoliosAssumption DEF LinesNumbered, Numbered, Ids
  <2> QED BY <1>1, <1>5, <1>9, <2>1
<1>10. ASSUME NEW m \in lines', m.parent = NoRef, \E r \in lines' : r.reverses = m.id,
              NEW w \in {m} \cup {c \in lines' : c.parent = m.id}
       PROVE  \E r \in lines' : /\ {x \in lines' : x.reverses = w.id} = {r}
                                /\ r.folio = w.folio /\ r.amount = -w.amount
  <2>1. m \in lines /\ w \in WithChildren(m)
    BY <1>8, <1>9, <1>10 DEF WithChildren
  <2>2. CASE m = l
    BY <1>1, <1>4, <1>7, <2>1, <2>2
  <2>3. CASE m # l
    <3>1. PICK r \in lines : /\ {x \in lines : x.reverses = w.id} = {r}
                             /\ r.folio = w.folio /\ r.amount = -w.amount
      BY <1>8, <1>10, <2>1, <2>3 DEF VoidsAreWhole, Reversed
    <3>2. w \in lines
      BY <2>1 DEF WithChildren
    <3>3. w \notin WithChildren(l)
      BY <1>6, <3>1
    <3>4. \A x \in new : x.reverses # w.id
      BY <1>2, <1>4, <3>2, <3>3 DEF LinesNumbered
    <3> QED BY <1>1, <3>1, <3>4
  <2> QED BY <2>2, <2>3
<1> QED BY <1>10 DEF VoidsAreWhole, WithChildren, Reversed

-----------------------------------------------------------------------------
(* Requests.                                                               *)

LEMMA RequestsKept ==
  ASSUME RequestsTyped, lines \subseteq lines', UNCHANGED <<taxes, tx>>, inHouse' \subseteq Folios
  PROVE  RequestsTyped'
<1>1. TxOf \subseteq TxOf'
  BY DEF TxOf
<1> QED BY <1>1 DEF RequestsTyped

LEMMA RequestMoves ==
  ASSUME RequestsTyped, lines \subseteq lines', UNCHANGED taxes, inHouse' \subseteq Folios,
         NEW s \in Sessions, NEW new, tx' = [tx EXCEPT ![s] = new],
         new.op \in Ops, new.folio \in Folios \cup {NoRef},
         new.line \in lines \cup {NoRef}, new.order \in Orders \cup {NoRef},
         new.day \in Dates \cup {NoRef}, new.staying \in SUBSET Folios, new = Request(new),
         new.op = "roomCharges" => new.day \in Dates,
         new.op = "void" => new.line \in lines /\ new.line.parent = NoRef,
         new.op = "toRoom" => new.order \in Orders /\ new.folio \in Folios
  PROVE  RequestsTyped'
<1>1. new \in TxOf'
  BY DEF TxOf, Request
<1>2. TxOf \subseteq TxOf'
  BY DEF TxOf
<1>3. \A r \in Sessions : tx'[r] = IF r = s THEN new ELSE tx[r]
  BY DEF RequestsTyped
<1>4. tx' \in [Sessions -> TxOf']
  BY <1>1, <1>2 DEF RequestsTyped
<1> QED BY <1>3, <1>4 DEF RequestsTyped

LEMMA RequestEnds ==
  ASSUME RequestsTyped, lines \subseteq lines', UNCHANGED taxes, inHouse' \subseteq Folios,
         NEW s \in Sessions, tx' = [tx EXCEPT ![s] = Idle]
  PROVE  RequestsTyped'
<1>1. /\ Idle.op = "idle" /\ Idle.folio = NoRef /\ Idle.line = NoRef /\ Idle.order = NoRef
      /\ Idle.day = NoRef /\ Idle.staying = {} /\ Idle = Request(Idle)
  BY DEF Idle, Request
<1> HIDE DEF Idle
<1>2. Idle.op \in Ops
  BY <1>1 DEF Ops
<1> QED BY <1>1, <1>2, RequestMoves

\* A step that posts nothing.
LEMMA LedgerRests ==
  ASSUME LedgerInv, UNCHANGED <<lines, postings>>, RequestsTyped' PROVE LedgerInv'
<1>1. LinesNumbered'
  BY DEF LedgerInv, LinesNumbered, Numbered
<1>2. VoidsAreWhole'
  BY DEF LedgerInv, VoidsAreWhole, WithChildren, Reversed
<1> QED BY <1>1, <1>2 DEF LedgerInv

\* A step that posts charges, taxes or payments.
LEMMA LedgerGrows ==
  ASSUME LedgerInv, NEW new, Postable(new, postings), Post(new), \A l \in new : l.reverses = NoRef,
         RequestsTyped'
  PROVE  LedgerInv'
BY PostKeepsNumbers, PostKeepsVoids DEF LedgerInv

\* What postCharge adds to one folio.
LEMMA ChargeIsPostable ==
  ASSUME LedgerInv, NEW f \in Folios, NEW gross, NEW source
  PROVE  LET new == ChargeLines(f, gross, source)
         IN  /\ Postable(new, postings)
             /\ \A l \in new : l.reverses = NoRef /\ l.source = source /\ l.folio = f
             /\ \E l \in new :
                  /\ l.type = "CHARGE" /\ l.amount = gross - CarvedOut(Relevant(taxes, gross), gross)
                  /\ \A k \in new : k.type = "CHARGE" => k = l
<1> DEFINE new == ChargeLines(f, gross, source)
           applied == Relevant(taxes, gross)
<1>1. taxes \in TaxTables /\ postings \in Nat
  BY DEF LedgerInv, RequestsTyped, LinesNumbered
<1>2. applied \in SUBSET taxes
  BY DEF Relevant
<1>3. new = TaxedCharge(date, f, gross, applied, source)
  BY DEF ChargeLines
<1> HIDE DEF new, applied
<1>4. /\ \A l \in new : /\ Numbered(l) /\ l.id[1] = postings + 1
                        /\ l.reverses = NoRef /\ l.folio = f /\ l.source = source
      /\ \A l, k \in new : l.id = k.id => l = k
      /\ \E l \in new : /\ l.type = "CHARGE" /\ l.amount = gross - CarvedOut(applied, gross)
                        /\ \A k \in new : k.type = "CHARGE" => k = l
  BY <1>1, <1>2, <1>3, TaxedChargeLines
<1> QED BY <1>4 DEF Postable, applied, new

LEMMA PaymentIsPostable ==
  ASSUME LedgerInv, NEW f \in Folios, NEW amount, NEW new, new = {Payment(f, amount)}
  PROVE  Postable(new, postings) /\ \A l \in new : l.reverses = NoRef /\ l.type = "PAYMENT"
<1> DEFINE l == Payment(f, amount)
<1>1. /\ l.id = <<postings + 1, f, "charge">> /\ l.folio = f /\ l.parent = NoRef
      /\ l.reverses = NoRef /\ l.type = "PAYMENT"
  BY DEF Payment, Line
<1>2. new = {l}
  OBVIOUS
<1> HIDE DEF l
<1>3. l.id \in Ids
  BY <1>1 DEF Ids, Parts, LedgerInv, LinesNumbered
<1>4. l.id[1] = postings + 1 /\ l.id[2] = f
  BY <1>1
<1> QED BY <1>1, <1>2, <1>3, <1>4 DEF Postable, Numbered

\* The night's charges, one folio each.
LEMMA NightIsPostable ==
  ASSUME LedgerInv, NEW d, NEW due \in SUBSET Folios,
         NEW new, \A l \in new : \E f \in due : l \in NightLines(f, d)
  PROVE  Postable(new, postings) /\ \A l \in new : l.reverses = NoRef /\ l.source = "night"
<1>1. taxes \in TaxTables /\ postings \in Nat
  BY DEF LedgerInv, RequestsTyped, LinesNumbered
<1>2. ASSUME NEW f \in due
      PROVE  /\ \A l \in NightLines(f, d) : /\ Numbered(l) /\ l.id[1] = postings + 1
                                         /\ l.reverses = NoRef /\ l.folio = f /\ l.source = "night"
             /\ \A l, k \in NightLines(f, d) : l.id = k.id => l = k
  <2> DEFINE gross == ratePrices[d]
  <2>1. NightLines(f, d) = TaxedCharge(d, f, gross, taxes, "night")
    BY DEF NightLines
  <2> HIDE DEF gross
  <2>2. f \in Folios /\ taxes \in SUBSET taxes
    OBVIOUS
  <2> QED BY <1>1, <2>1, <2>2, TaxedChargeLines
<1>4. \A l, k \in new : l.id = k.id => l = k
  <2>1. ASSUME NEW l \in new, NEW k \in new, l.id = k.id PROVE l = k
    <3>1. PICK f \in due : l \in NightLines(f, d)
      OBVIOUS
    <3>2. PICK g \in due : k \in NightLines(g, d)
      OBVIOUS
    <3>3. l.id[2] = f /\ k.id[2] = g
      BY <1>2, <3>1, <3>2 DEF Numbered
    <3> QED BY <1>2, <2>1, <3>1, <3>2, <3>3
  <2> QED BY <2>1
<1>5. \A l \in new : Numbered(l) /\ l.id[1] = postings + 1 /\ l.reverses = NoRef /\ l.source = "night"
  BY <1>2
<1> QED BY <1>4, <1>5 DEF Postable

-----------------------------------------------------------------------------
(* Orders.                                                                 *)

IsBill(l, o) == l.type = "CHARGE" /\ l.source = o

OrdersTyped ==
  /\ order = [o \in Orders |-> order[o]]
  /\ \A o \in Orders : order[o] = [status |-> order[o].status, lines |-> order[o].lines,
                                   folio |-> order[o].folio, charged |-> order[o].charged]

\* A request about to charge an order holds its row: it is open until then, and
\* no other request is at it.
ChargesExclude ==
  /\ \A s \in Sessions : tx[s].op = "toRoom" => order[tx[s].order].status = "OPEN"
  /\ \A s, r \in Sessions : s # r /\ tx[s].op = "toRoom" /\ tx[r].op = "toRoom"
                              => tx[s].order # tx[r].order

\* The two books agree.
Billed ==
  /\ \A o \in Orders, l \in lines : IsBill(l, o) =>
       /\ order[o].status = "CHARGED" /\ l.folio = order[o].folio
       /\ l.amount = order[o].charged
            - CarvedOut(Relevant(taxes, order[o].charged), order[o].charged)
  /\ \A o \in Orders, l, k \in lines : IsBill(l, o) /\ IsBill(k, o) => l = k
  /\ \A o \in Orders : order[o].status = "CHARGED" =>
       /\ order[o].charged = SubtotalOf(order[o].lines)
       /\ \E l \in lines : IsBill(l, o)

OrdersInv == OrdersTyped /\ ChargesExclude /\ Billed
PosInv == LedgerInv /\ OrdersInv

\* Steps that leave the orders and the charging requests alone, and add no bill
\* of an order.
LEMMA OrdersRest ==
  ASSUME OrdersInv, UNCHANGED <<order, taxes>>, lines \subseteq lines',
         \A l \in lines' \ lines : l.type = "CHARGE" => l.source \notin Orders,
         \A s \in Sessions : tx'[s].op = "toRoom" => tx[s].op = "toRoom" /\ tx'[s].order = tx[s].order
  PROVE  OrdersInv'
<1>1. OrdersTyped'
  BY DEF OrdersInv, OrdersTyped
<1>2. ChargesExclude'
  BY DEF OrdersInv, ChargesExclude
<1>3. \A o \in Orders, l \in lines' : IsBill(l, o) => l \in lines
  BY DEF IsBill
<1>4. Billed'
  BY <1>3 DEF OrdersInv, Billed, IsBill
<1> QED BY <1>1, <1>2, <1>4 DEF OrdersInv

\* Edits of an order before it is charged.
LEMMA OrderStep ==
  ASSUME PosInv, NEW o \in Orders, NEW new, order' = [order EXCEPT ![o] = new],
         UNCHANGED ledgerVars, order[o].status # "CHARGED", new.status # "CHARGED",
         new = [status |-> new.status, lines |-> new.lines, folio |-> new.folio,
                charged |-> new.charged],
         order[o].status = "OPEN" => new.status = "OPEN" \/ LockOrder(o)
  PROVE  PosInv'
<1>1. UNCHANGED <<date, taxes, lines, postings, status, inHouse, tx>>
  BY DEF ledgerVars, ledger
<1>2. RequestsTyped'
  BY <1>1, RequestsKept DEF PosInv, LedgerInv, RequestsTyped
<1>3. LedgerInv'
  BY <1>1, <1>2, LedgerRests DEF PosInv
<1>4. OrdersTyped /\ ChargesExclude /\ Billed /\ RequestsTyped
  BY DEF PosInv, OrdersInv, LedgerInv
<1>5. \A q \in Orders : order'[q] = IF q = o THEN new ELSE order[q]
  BY <1>4 DEF OrdersTyped
<1>6. OrdersTyped'
  <2>1. order' = [q \in Orders |-> order'[q]]
    BY <1>4 DEF OrdersTyped
  <2> QED BY <1>4, <1>5, <2>1 DEF OrdersTyped
<1>7. ChargesExclude'
  <2>1. ASSUME NEW s \in Sessions, tx[s].op = "toRoom" PROVE order'[tx[s].order].status = "OPEN"
    <3>1. tx[s].order \in Orders /\ order[tx[s].order].status = "OPEN"
      BY <1>4, <2>1 DEF RequestsTyped, ChargesExclude
    <3>2. CASE tx[s].order = o
      BY <1>5, <2>1, <3>1, <3>2 DEF LockOrder
    <3> QED BY <1>5, <3>1, <3>2
  <2> QED BY <1>1, <1>4, <2>1 DEF ChargesExclude
<1>8. Billed'
  <2>1. \A q \in Orders : order'[q].status = "CHARGED" => q # o
    BY <1>5
  <2>2. \A l \in lines : ~IsBill(l, o)
    BY <1>4 DEF Billed
  <2> QED BY <1>1, <1>4, <1>5, <2>1, <2>2 DEF Billed, IsBill
<1> QED BY <1>3, <1>6, <1>7, <1>8 DEF PosInv, OrdersInv

WhenCharged(r, f, amount) ==
  [[[r EXCEPT !.status = "CHARGED"] EXCEPT !.folio = f] EXCEPT !.charged = amount]

LEMMA ChargedRecord ==
  ASSUME NEW r, NEW a, NEW ls, NEW b, NEW c, NEW f, NEW amount,
         r = [status |-> a, lines |-> ls, folio |-> b, charged |-> c]
  PROVE  WhenCharged(r, f, amount)
           = [status |-> "CHARGED", lines |-> ls, folio |-> f, charged |-> amount]
<1> DEFINE x == [r EXCEPT !.status = "CHARGED"]
           y == [x EXCEPT !.folio = f]
<1>1. x = [status |-> "CHARGED", lines |-> ls, folio |-> b, charged |-> c]
  OBVIOUS
<1> HIDE DEF x
<1>2. y = [status |-> "CHARGED", lines |-> ls, folio |-> f, charged |-> c]
  BY <1>1
<1> HIDE DEF y
<1>3. [y EXCEPT !.charged = amount] = [status |-> "CHARGED", lines |-> ls, folio |-> f, charged |-> amount]
  BY <1>2
<1> QED BY <1>3 DEF x, y, WhenCharged

\* An order is put on a bill.
LEMMA ChargeStep ==
  ASSUME PosInv, NEW s \in Sessions, ChargeToRoomCommit(s) PROVE PosInv'
<1> DEFINE o == tx[s].order
           f == tx[s].folio
           subtotal == SubtotalOf(order[o].lines)
           bill == ChargeLines(f, subtotal, o)
           new == WhenCharged(order[o], f, subtotal)
<1>1. /\ tx[s].op = "toRoom" /\ Post(bill) /\ tx' = [tx EXCEPT ![s] = Idle]
      /\ order' = [order EXCEPT ![o].status = "CHARGED", ![o].folio = f, ![o].charged = subtotal]
      /\ UNCHANGED <<date, taxes, status, inHouse>>
  BY DEF ChargeToRoomCommit
<1>2. LedgerInv /\ RequestsTyped /\ OrdersTyped /\ ChargesExclude /\ Billed
  BY DEF PosInv, OrdersInv, LedgerInv
<1>3. o \in Orders /\ f \in Folios /\ order[o].status = "OPEN"
  BY <1>1, <1>2 DEF RequestsTyped, ChargesExclude
<1>4. /\ new = [status |-> new.status, lines |-> new.lines, folio |-> new.folio, charged |-> new.charged]
      /\ new.status = "CHARGED" /\ new.folio = f /\ new.charged = subtotal /\ new.lines = order[o].lines
  <2> HIDE DEF subtotal, f
  <2>1. order[o] = [status |-> order[o].status, lines |-> order[o].lines,
                    folio |-> order[o].folio, charged |-> order[o].charged]
    BY <1>2, <1>3 DEF OrdersTyped
  <2>2. new = [status |-> "CHARGED", lines |-> order[o].lines, folio |-> f, charged |-> subtotal]
    <3>1. PICK a, b, c, d : order[o] = [status |-> a, lines |-> b, folio |-> c, charged |-> d]
      BY <2>1
    <3>2. b = order[o].lines
      BY <3>1
    <3>3. new = [status |-> "CHARGED", lines |-> b, folio |-> f, charged |-> subtotal]
      BY <3>1, ChargedRecord
    <3> QED BY <3>2, <3>3
  <2> HIDE DEF new
  <2>3. /\ new.status = "CHARGED" /\ new.folio = f /\ new.charged = subtotal
        /\ new.lines = order[o].lines
    BY <2>2
  <2> QED BY <2>2, <2>3
<1>5. order' = [order EXCEPT ![o] = new]
  <2> HIDE DEF subtotal, f
  <2>1. DOMAIN order = Orders
    BY <1>2 DEF OrdersTyped
  <2>2. order' = [q \in Orders |-> IF q = o THEN new ELSE order[q]]
    BY <1>1, <1>3, <2>1 DEF WhenCharged
  <2> HIDE DEF new
  <2> QED BY <2>1, <2>2
<1> HIDE DEF new
<1>6. SubtotalOf(new.lines) = subtotal
  BY <1>4
<1>7. /\ Postable(bill, postings)
      /\ \A l \in bill : l.reverses = NoRef /\ l.source = o /\ l.folio = f
      /\ \E l \in bill : /\ l.type = "CHARGE"
                         /\ l.amount = subtotal - CarvedOut(Relevant(taxes, subtotal), subtotal)
                         /\ \A k \in bill : k.type = "CHARGE" => k = l
  <2> HIDE DEF subtotal
  <2> QED BY <1>2, <1>3, ChargeIsPostable
<1> HIDE DEF bill, subtotal
<1>8. lines' = lines \cup bill
  BY <1>1 DEF Post
<1>9. RequestsTyped'
  BY <1>1, <1>2, <1>8, RequestEnds DEF RequestsTyped
<1>10. LedgerInv'
  BY <1>1, <1>2, <1>7, <1>9, LedgerGrows
<1>11. \A q \in Orders : order'[q] = IF q = o THEN new ELSE order[q]
  BY <1>2, <1>5 DEF OrdersTyped
<1>12. OrdersTyped'
  <2>1. order' = [q \in Orders |-> order'[q]]
    BY <1>2, <1>5 DEF OrdersTyped
  <2> QED BY <1>2, <1>4, <1>11, <2>1 DEF OrdersTyped
<1>13. ChargesExclude'
  <2>1. \A r \in Sessions : tx'[r] = IF r = s THEN Idle ELSE tx[r]
    BY <1>1, <1>2 DEF RequestsTyped
  <2>2. Idle.op = "idle"
    BY DEF Idle
  <2>3. \A r \in Sessions : tx'[r].op = "toRoom" =>
          r # s /\ tx[r].op = "toRoom" /\ tx'[r].order = tx[r].order /\ tx[r].order \in Orders
    BY <1>2, <2>1, <2>2 DEF RequestsTyped
  <2>4. \A r \in Sessions : tx'[r].op = "toRoom" => tx[r].order # o
    BY <1>1, <1>2, <2>3 DEF ChargesExclude
  <2> QED BY <1>2, <1>11, <2>3, <2>4 DEF ChargesExclude
<1>14. Billed'
  <2>1. \A l \in lines : ~IsBill(l, o)
    BY <1>2, <1>3 DEF Billed
  <2>2. \A l \in bill, q \in Orders : IsBill(l, q) => q = o
    BY <1>7 DEF IsBill
  <2>3. PICK b \in bill : /\ IsBill(b, o) /\ b.folio = f
                          /\ b.amount = subtotal - CarvedOut(Relevant(taxes, subtotal), subtotal)
                          /\ \A k \in bill : IsBill(k, o) => k = b
    BY <1>7 DEF IsBill
  <2>4. ASSUME NEW q \in Orders, NEW l \in lines', IsBill(l, q)
        PROVE  IF q = o THEN l = b ELSE l \in lines
    BY <1>8, <2>1, <2>2, <2>3, <2>4
  <2>5. ASSUME NEW q \in Orders, NEW l \in lines', IsBill(l, q)
        PROVE  /\ order'[q].status = "CHARGED" /\ l.folio = order'[q].folio
               /\ l.amount = order'[q].charged
                    - CarvedOut(Relevant(taxes', order'[q].charged), order'[q].charged)
    <3>1. CASE q = o
      BY <1>1, <1>4, <1>11, <2>3, <2>4, <2>5, <3>1
    <3>2. CASE q # o
      <4>1. order'[q] = order[q] /\ l \in lines /\ taxes' = taxes
        BY <1>1, <1>11, <2>4, <2>5, <3>2
      <4>2. /\ order[q].status = "CHARGED" /\ l.folio = order[q].folio
            /\ l.amount = order[q].charged
                 - CarvedOut(Relevant(taxes, order[q].charged), order[q].charged)
        BY <1>2, <2>5, <4>1 DEF Billed
      <4> QED BY <4>1, <4>2
    <3> QED BY <3>1, <3>2
  <2>6. ASSUME NEW q \in Orders, NEW l \in lines', NEW k \in lines', IsBill(l, q), IsBill(k, q)
        PROVE  l = k
    BY <1>2, <2>4, <2>6 DEF Billed
  <2>7. ASSUME NEW q \in Orders, order'[q].status = "CHARGED"
        PROVE  order'[q].charged = SubtotalOf(order'[q].lines) /\ \E l \in lines' : IsBill(l, q)
    <3>1. CASE q = o
      BY <1>4, <1>6, <1>8, <1>11, <2>3, <3>1
    <3>2. CASE q # o
      BY <1>2, <1>8, <1>11, <2>7, <3>2 DEF Billed
    <3> QED BY <3>1, <3>2
  <2> QED BY <2>5, <2>6, <2>7 DEF Billed, IsBill
<1> QED BY <1>10, <1>12, <1>13, <1>14 DEF PosInv, OrdersInv

-----------------------------------------------------------------------------
(* Every step.                                                             *)

LEMMA OrderEdits ==
  ASSUME PosInv, NEW o \in Orders,
         \/ OpenOrder(o) \/ VoidOrder(o)
         \/ \E price \in Prices, quantity \in Quantities : AddLine(o, price, quantity)
         \/ \E i \in DOMAIN order[o].lines : RemoveLine(o, i)
  PROVE  PosInv'
<1> DEFINE r == order[o]
<1>1. /\ r = [status |-> r.status, lines |-> r.lines, folio |-> r.folio, charged |-> r.charged]
      /\ order = [q \in Orders |-> order[q]]
  BY DEF PosInv, OrdersInv, OrdersTyped
<1>2. UNCHANGED ledgerVars
  BY DEF OpenOrder, VoidOrder, AddLine, RemoveLine
<1>3. r.status # "CHARGED"
  BY DEF OpenOrder, VoidOrder, AddLine, RemoveLine, CanTransitionOrder, OrderMoves, IsEditable
<1>4. ASSUME NEW x, order' = [order EXCEPT ![o].status = x], x \in {"OPEN", "VOID"},
             r.status = "OPEN" => x = "OPEN" \/ LockOrder(o)
      PROVE  PosInv'
  <2> DEFINE new == [r EXCEPT !.status = x]
  <2>1. new = [status |-> x, lines |-> r.lines, folio |-> r.folio, charged |-> r.charged]
    BY <1>1
  <2>2. order' = [order EXCEPT ![o] = new]
    BY <1>4
  <2> HIDE DEF new
  <2>3. new.status = x /\ new.lines = r.lines /\ new.folio = r.folio /\ new.charged = r.charged
    BY <2>1
  <2>4. new = [status |-> new.status, lines |-> new.lines, folio |-> new.folio, charged |-> new.charged]
    BY <2>1, <2>3
  <2> QED BY <1>2, <1>3, <1>4, <2>2, <2>3, <2>4, OrderStep
<1>5. ASSUME NEW ls, order' = [order EXCEPT ![o].lines = ls] PROVE PosInv'
  <2> DEFINE new == [r EXCEPT !.lines = ls]
  <2>1. new = [status |-> r.status, lines |-> ls, folio |-> r.folio, charged |-> r.charged]
    BY <1>1
  <2>2. order' = [order EXCEPT ![o] = new]
    BY <1>5
  <2> HIDE DEF new
  <2>3. new.status = r.status /\ new.lines = ls /\ new.folio = r.folio /\ new.charged = r.charged
    BY <2>1
  <2>4. new = [status |-> new.status, lines |-> new.lines, folio |-> new.folio, charged |-> new.charged]
    BY <2>1, <2>3
  <2> QED BY <1>2, <1>3, <2>2, <2>3, <2>4, OrderStep
<1>6. CASE OpenOrder(o)
  BY <1>4, <1>6 DEF OpenOrder
<1>7. CASE VoidOrder(o)
  BY <1>4, <1>7 DEF VoidOrder
<1>8. ASSUME NEW price, NEW quantity, AddLine(o, price, quantity) PROVE PosInv'
  BY <1>5, <1>8 DEF AddLine
<1>9. ASSUME NEW i, RemoveLine(o, i) PROVE PosInv'
  BY <1>5, <1>9 DEF RemoveLine
<1> QED BY <1>6, <1>7, <1>8, <1>9

LEMMA ChargeReads ==
  ASSUME PosInv, NEW s \in Sessions, NEW o \in Orders, NEW k \in Rooms, ChargeToRoomRead(s, o, k)
  PROVE  PosInv'
<1>1. LedgerInv /\ RequestsTyped /\ OrdersTyped /\ ChargesExclude /\ Billed
  BY DEF PosInv, OrdersInv, LedgerInv
<1>2. PICK f \in Folios :
        tx' = [tx EXCEPT ![s] = [Idle EXCEPT !.op = "toRoom", !.folio = f, !.order = o]]
  BY <1>1 DEF ChargeToRoomRead, OpenFoliosForRoom, RequestsTyped
<1>3. /\ UNCHANGED <<taxes, lines, postings, inHouse, order>>
      /\ LockOrder(o) /\ order[o].status = "OPEN"
  BY DEF ChargeToRoomRead, ledger, CanTransitionOrder, OrderMoves
<1> DEFINE new == [Idle EXCEPT !.op = "toRoom", !.folio = f, !.order = o]
<1>4. new = [op |-> "toRoom", folio |-> f, line |-> NoRef, order |-> o, day |-> NoRef, staying |-> {}]
  <2> DEFINE x == [Idle EXCEPT !.op = "toRoom"]
             y == [x EXCEPT !.folio = f]
  <2>1. x = [op |-> "toRoom", folio |-> NoRef, line |-> NoRef, order |-> NoRef,
             day |-> NoRef, staying |-> {}]
    BY DEF Idle
  <2> HIDE DEF x
  <2>2. y = [op |-> "toRoom", folio |-> f, line |-> NoRef, order |-> NoRef,
             day |-> NoRef, staying |-> {}]
    BY <2>1
  <2> HIDE DEF y
  <2>3. [y EXCEPT !.order = o] = [op |-> "toRoom", folio |-> f, line |-> NoRef, order |-> o,
                                  day |-> NoRef, staying |-> {}]
    BY <2>2
  <2> QED BY <2>3 DEF x, y
<1>5. tx' = [tx EXCEPT ![s] = new]
  BY <1>2
<1> HIDE DEF new
<1>6. /\ new.op = "toRoom" /\ new.folio = f /\ new.line = NoRef /\ new.order = o
      /\ new.day = NoRef /\ new.staying = {} /\ new = Request(new)
  BY <1>4 DEF Request
<1>7. RequestsTyped'
  BY <1>1, <1>3, <1>5, <1>6, RequestMoves DEF RequestsTyped, Ops
<1>8. LedgerInv'
  BY <1>1, <1>3, <1>7, LedgerRests
<1>9. OrdersTyped'
  BY <1>1, <1>3 DEF OrdersTyped
<1>10. Billed'
  BY <1>1, <1>3 DEF Billed, IsBill
<1>11. ChargesExclude'
  <2>1. \A r \in Sessions : tx'[r] = IF r = s THEN new ELSE tx[r]
    BY <1>1, <1>5 DEF RequestsTyped
  <2> QED BY <1>1, <1>3, <1>6, <2>1 DEF ChargesExclude, LockOrder
<1> QED BY <1>8, <1>9, <1>10, <1>11 DEF PosInv, OrdersInv

\* A step of the ledger, seen from the orders: it adds no bill of an order and
\* starts no charge of one.
LEMMA LedgerStep ==
  ASSUME PosInv, LedgerNext, UNCHANGED order PROVE PosInv'
<1>1. LedgerInv /\ RequestsTyped /\ LinesNumbered /\ VoidsAreWhole /\ OrdersInv
  BY DEF PosInv, LedgerInv
<1>2. ASSUME lines \subseteq lines', UNCHANGED <<taxes, tx>>,
             \A l \in lines' \ lines : l.type = "CHARGE" => l.source \notin Orders
      PROVE  OrdersInv'
  BY <1>1, <1>2, OrdersRest
<1>3. ASSUME NEW s \in Sessions, NEW new, tx' = [tx EXCEPT ![s] = new], new.op # "toRoom",
             lines \subseteq lines', UNCHANGED taxes,
             \A l \in lines' \ lines : l.type = "CHARGE" => l.source \notin Orders
      PROVE  OrdersInv'
  <2>1. \A r \in Sessions : tx'[r] = IF r = s THEN new ELSE tx[r]
    BY <1>1, <1>3 DEF RequestsTyped
  <2> QED BY <1>1, <1>3, <2>1, OrdersRest
<1>4. "folio" \notin Orders /\ "night" \notin Orders
  BY OrdersAssumption
<1>5. inHouse \subseteq Folios
  BY <1>1 DEF RequestsTyped
<1>6. ASSUME NEW f \in Folios, NEW a, PostCharge(f, a) PROVE PosInv'
  <2> DEFINE new == ChargeLines(f, a, "folio")
  <2>1. Post(new) /\ UNCHANGED <<date, taxes, status, inHouse, tx>>
    BY <1>6 DEF PostCharge
  <2>2. Postable(new, postings) /\ \A l \in new : l.reverses = NoRef /\ l.source = "folio"
    BY <1>1, ChargeIsPostable
  <2> HIDE DEF new
  <2>3. lines' = lines \cup new
    BY <2>1 DEF Post
  <2>4. RequestsTyped'
    BY <1>1, <1>5, <2>1, <2>3, RequestsKept
  <2>5. LedgerInv'
    BY <1>1, <2>1, <2>2, <2>4, LedgerGrows
  <2>6. OrdersInv'
    BY <1>2, <1>4, <2>1, <2>2, <2>3
  <2> QED BY <2>5, <2>6 DEF PosInv
<1>7. ASSUME NEW f \in Folios, PostPayment(f) PROVE PosInv'
  <2> DEFINE new == {Payment(f, Balance(f))}
  <2>1. Post(new) /\ UNCHANGED <<date, taxes, status, inHouse, tx>>
    BY <1>7 DEF PostPayment
  <2>2. Postable(new, postings) /\ \A l \in new : l.reverses = NoRef /\ l.type = "PAYMENT"
    BY <1>1, PaymentIsPostable
  <2> HIDE DEF new
  <2>3. lines' = lines \cup new
    BY <2>1 DEF Post
  <2>4. RequestsTyped'
    BY <1>1, <1>5, <2>1, <2>3, RequestsKept
  <2>5. LedgerInv'
    BY <1>1, <2>1, <2>2, <2>4, LedgerGrows
  <2>6. OrdersInv'
    BY <1>2, <2>1, <2>2, <2>3
  <2> QED BY <2>5, <2>6 DEF PosInv
<1>8. ASSUME NEW s \in Sessions, NEW l \in lines, VoidLineRead(s, l) PROVE PosInv'
  <2> DEFINE new == [Idle EXCEPT !.op = "void", !.folio = l.folio, !.line = l]
  <2>1. /\ tx' = [tx EXCEPT ![s] = new] /\ UNCHANGED <<date, taxes, lines, postings, status, inHouse>>
        /\ l.parent = NoRef
    BY <1>8 DEF VoidLineRead, ledger
  <2>2. new = [op |-> "void", folio |-> l.folio, line |-> l, order |-> NoRef,
               day |-> NoRef, staying |-> {}]
    <3> DEFINE x == [Idle EXCEPT !.op = "void"]
               y == [x EXCEPT !.folio = l.folio]
    <3>1. x = [op |-> "void", folio |-> NoRef, line |-> NoRef, order |-> NoRef,
               day |-> NoRef, staying |-> {}]
      BY DEF Idle
    <3> HIDE DEF x
    <3>2. y = [op |-> "void", folio |-> l.folio, line |-> NoRef, order |-> NoRef,
               day |-> NoRef, staying |-> {}]
      BY <3>1
    <3> HIDE DEF y
    <3>3. [y EXCEPT !.line = l] = [op |-> "void", folio |-> l.folio, line |-> l, order |-> NoRef,
                                   day |-> NoRef, staying |-> {}]
      BY <3>2
    <3> QED BY <3>3 DEF x, y
  <2> HIDE DEF new
  <2>3. /\ new.op = "void" /\ new.folio = l.folio /\ new.line = l /\ new.order = NoRef
        /\ new.day = NoRef /\ new.staying = {} /\ new = Request(new)
    BY <2>2 DEF Request
  <2>4. l.folio \in Folios
    BY <1>1 DEF LinesNumbered, Numbered, Ids
  <2>5. RequestsTyped'
    BY <1>1, <1>5, <2>1, <2>3, <2>4, RequestMoves DEF Ops
  <2>6. LedgerInv'
    BY <1>1, <2>1, <2>5, LedgerRests
  <2>7. OrdersInv'
    BY <1>3, <2>1, <2>3
  <2> QED BY <2>6, <2>7 DEF PosInv
<1>9. Idle.op # "toRoom"
  BY DEF Idle
<1>10. ASSUME NEW s \in Sessions, VoidLineCommit(s) PROVE PosInv'
  <2> DEFINE l == tx[s].line
             new == {Reversal(w) : w \in WithChildren(l)}
  <2>1. /\ OneReversalPerLine(new) /\ Post(new) /\ tx[s].op = "void"
        /\ tx' = [tx EXCEPT ![s] = Idle] /\ UNCHANGED <<date, taxes, status, inHouse>>
    BY <1>10 DEF VoidLineCommit
  <2>2. l \in lines /\ l.parent = NoRef
    BY <1>1, <2>1 DEF RequestsTyped
  <2>3. \A r \in new : r.type = "ADJUSTMENT"
    BY DEF Reversal, Line
  <2>4. lines' = lines \cup new
    BY <2>1 DEF Post
  <2>5. Postable(new, postings)
    BY <1>1, <2>2, ReversalLines
  <2>6. VoidsAreWhole'
    BY <1>1, <2>1, <2>2, VoidKeepsVoids
  <2>7. LinesNumbered'
    BY <1>1, <2>1, <2>5, PostKeepsNumbers
  <2> HIDE DEF new, l
  <2>8. RequestsTyped'
    BY <1>1, <1>5, <2>1, <2>4, RequestEnds
  <2>9. OrdersInv'
    BY <1>3, <1>9, <2>1, <2>3, <2>4
  <2> QED BY <2>6, <2>7, <2>8, <2>9 DEF PosInv, LedgerInv
<1>11. ASSUME NEW s \in Sessions, RoomChargesCommit(s) PROVE PosInv'
  <2> DEFINE d == tx[s].day
             due == {f \in tx[s].staying : RoomChargeFor(f, d) = {}}
             new == UNION {NightLines(f, d) : f \in due}
  <2>1. Post(new) /\ tx' = [tx EXCEPT ![s] = Idle] /\ UNCHANGED <<taxes, inHouse>>
    BY <1>11 DEF RoomChargesCommit
  <2>2. due \in SUBSET Folios
    BY <1>1 DEF RequestsTyped, TxOf
  <2> HIDE DEF due, d
  <2>8. \A l \in new : \E f \in due : l \in NightLines(f, d)
    OBVIOUS
  <2> HIDE DEF new
  <2>3. Postable(new, postings) /\ \A l \in new : l.reverses = NoRef /\ l.source = "night"
    BY <1>1, <2>2, <2>8, NightIsPostable
  <2>4. lines' = lines \cup new
    BY <2>1 DEF Post
  <2>5. RequestsTyped'
    BY <1>1, <1>5, <2>1, <2>4, RequestEnds
  <2>6. LedgerInv'
    BY <1>1, <2>1, <2>3, <2>5, LedgerGrows
  <2>7. OrdersInv'
    BY <1>3, <1>4, <1>9, <2>1, <2>3, <2>4
  <2> QED BY <2>6, <2>7 DEF PosInv
<1>12. ASSUME \/ AdvanceBusinessDate
              \/ \E d \in Dates, rate \in Rates : SetRatePrices(d, rate)
              \/ \E f \in Folios, d \in Departures : ModifyDates(f, d)
       PROVE  PosInv'
  <2>1. UNCHANGED <<taxes, lines, postings, status, inHouse, tx>>
    BY <1>12 DEF AdvanceBusinessDate, SetRatePrices, ModifyDates, ledger
  <2>2. RequestsTyped'
    BY <1>1, <1>5, <2>1, RequestsKept
  <2>3. LedgerInv'
    BY <1>1, <2>1, <2>2, LedgerRests
  <2>4. OrdersInv'
    BY <1>2, <2>1
  <2> QED BY <2>3, <2>4 DEF PosInv
<1>13. ASSUME NEW s \in Sessions, NEW f \in Folios, CheckOutRead(s, f) PROVE PosInv'
  <2> DEFINE new == [Idle EXCEPT !.op = "checkOut", !.folio = f]
  <2>1. tx' = [tx EXCEPT ![s] = new] /\ UNCHANGED <<date, taxes, lines, postings, status, inHouse>>
    BY <1>13 DEF CheckOutRead, ledger
  <2>2. new = [op |-> "checkOut", folio |-> f, line |-> NoRef, order |-> NoRef,
               day |-> NoRef, staying |-> {}]
    <3> DEFINE x == [Idle EXCEPT !.op = "checkOut"]
    <3>1. x = [op |-> "checkOut", folio |-> NoRef, line |-> NoRef, order |-> NoRef,
               day |-> NoRef, staying |-> {}]
      BY DEF Idle
    <3> HIDE DEF x
    <3>2. [x EXCEPT !.folio = f] = [op |-> "checkOut", folio |-> f, line |-> NoRef,
                                    order |-> NoRef, day |-> NoRef, staying |-> {}]
      BY <3>1
    <3> QED BY <3>2 DEF x
  <2> HIDE DEF new
  <2>3. /\ new.op = "checkOut" /\ new.folio = f /\ new.line = NoRef /\ new.order = NoRef
        /\ new.day = NoRef /\ new.staying = {} /\ new = Request(new)
    BY <2>2 DEF Request
  <2>4. RequestsTyped'
    BY <1>1, <1>5, <2>1, <2>3, RequestMoves DEF Ops
  <2>5. LedgerInv'
    BY <1>1, <2>1, <2>4, LedgerRests
  <2>6. OrdersInv'
    BY <1>3, <2>1, <2>3
  <2> QED BY <2>5, <2>6 DEF PosInv
<1>14. ASSUME NEW s \in Sessions, CheckOutCommit(s) \/ Rollback(s) PROVE PosInv'
  <2>1. /\ tx' = [tx EXCEPT ![s] = Idle] /\ UNCHANGED <<taxes, lines, postings>>
        /\ inHouse' \subseteq inHouse
    BY <1>14 DEF CheckOutCommit, Rollback, ledger
  <2>2. RequestsTyped'
    BY <1>1, <1>5, <2>1, RequestEnds
  <2>3. LedgerInv'
    BY <1>1, <2>1, <2>2, LedgerRests
  <2>4. OrdersInv'
    BY <1>3, <1>9, <2>1
  <2> QED BY <2>3, <2>4 DEF PosInv
<1>15. ASSUME NEW s \in Sessions, NEW d \in Dates, RoomChargesRead(s, d) PROVE PosInv'
  <2> DEFINE list == Staying(d)
             new == [Idle EXCEPT !.op = "roomCharges", !.day = d, !.staying = list]
  <2>1. tx' = [tx EXCEPT ![s] = new] /\ UNCHANGED <<date, taxes, lines, postings, status, inHouse>>
    BY <1>15 DEF RoomChargesRead, ledger
  <2>2. list \in SUBSET Folios
    BY <1>5 DEF Staying
  <2> HIDE DEF list
  <2>3. new = [op |-> "roomCharges", folio |-> NoRef, line |-> NoRef, order |-> NoRef,
               day |-> d, staying |-> list]
    <3> DEFINE x == [Idle EXCEPT !.op = "roomCharges"]
               y == [x EXCEPT !.day = d]
    <3>1. x = [op |-> "roomCharges", folio |-> NoRef, line |-> NoRef, order |-> NoRef,
               day |-> NoRef, staying |-> {}]
      BY DEF Idle
    <3> HIDE DEF x
    <3>2. y = [op |-> "roomCharges", folio |-> NoRef, line |-> NoRef, order |-> NoRef,
               day |-> d, staying |-> {}]
      BY <3>1
    <3> HIDE DEF y
    <3>3. [y EXCEPT !.staying = list]
            = [op |-> "roomCharges", folio |-> NoRef, line |-> NoRef, order |-> NoRef,
               day |-> d, staying |-> list]
      BY <3>2
    <3> QED BY <3>3 DEF x, y
  <2> HIDE DEF new
  <2>4. /\ new.op = "roomCharges" /\ new.folio = NoRef /\ new.line = NoRef /\ new.order = NoRef
        /\ new.day = d /\ new.staying = list /\ new = Request(new)
    BY <2>3 DEF Request
  <2>5. RequestsTyped'
    BY <1>1, <1>5, <2>1, <2>2, <2>4, RequestMoves DEF Ops
  <2>6. LedgerInv'
    BY <1>1, <2>1, <2>5, LedgerRests
  <2>7. OrdersInv'
    BY <1>3, <2>1, <2>4
  <2> QED BY <2>6, <2>7 DEF PosInv
<1> QED BY <1>6, <1>7, <1>8, <1>10, <1>11, <1>12, <1>13, <1>14, <1>15 DEF LedgerNext

LEMMA PosNextStep == PosInv /\ [Next]_vars => PosInv'
<1> SUFFICES ASSUME PosInv, [Next]_vars PROVE PosInv'
  OBVIOUS
<1>1. CASE PosNext
  BY <1>1, OrderEdits, ChargeReads, ChargeStep DEF PosNext
<1>2. CASE LedgerNext /\ UNCHANGED order
  BY <1>2, LedgerStep
<1>3. CASE UNCHANGED vars
  <2>1. UNCHANGED <<date, taxes, lines, postings, status, inHouse, tx, order>>
    BY <1>3 DEF vars, ledgerVars, ledger, grid
  <2>2. RequestsTyped'
    BY <2>1, RequestsKept DEF PosInv, LedgerInv, RequestsTyped
  <2>3. LedgerInv'
    BY <2>1, <2>2, LedgerRests DEF PosInv
  <2>4. OrdersInv'
    BY <2>1, OrdersRest DEF PosInv
  <2> QED BY <2>3, <2>4 DEF PosInv
<1> QED BY <1>1, <1>2, <1>3 DEF Next

LEMMA PosInitial == Init => PosInv
<1> SUFFICES ASSUME Init PROVE PosInv
  OBVIOUS
<1>1. LinesNumbered /\ VoidsAreWhole
  BY DEF Init, LedgerInit, LinesNumbered, VoidsAreWhole
<1>2. RequestsTyped
  BY DEF Init, LedgerInit, RequestsTyped, TxOf, Ops, Idle
<1>3. OrdersTyped
  BY DEF Init, OrdersTyped, NoOrder
<1>4. ChargesExclude /\ Billed
  BY DEF Init, LedgerInit, ChargesExclude, Billed, NoOrder, Idle
<1> QED BY <1>1, <1>2, <1>3, <1>4 DEF PosInv, LedgerInv, OrdersInv

LEMMA PosAlways == Spec => []PosInv
BY PosInitial, PosNextStep, PTL DEF Spec

\* However many requests void at once, a line and the tax that hangs from it are
\* reversed together, each once and by its opposite (voidLine and the unique
\* index behind it).
THEOREM CorrectionsAreWhole == Spec => []VoidsAreWhole
BY PosAlways, PTL DEF PosInv, LedgerInv

\* A charged order is on one bill, once, with the amount its lines come to, and
\* no other order is on any (chargeToRoom under the order's row lock).
THEOREM OrdersAreBilledOnce == Spec => []OrderBilledOnce
<1>1. PosInv => OrderBilledOnce
  <2> SUFFICES ASSUME PosInv, NEW o \in Orders,
                      NEW bills, bills = {l \in lines : l.type = "CHARGE" /\ l.source = o}
               PROVE  /\ Cardinality(bills) = IF order[o].status = "CHARGED" THEN 1 ELSE 0
                      /\ order[o].status = "CHARGED" =>
                           /\ order[o].charged = SubtotalOf(order[o].lines)
                           /\ \A b \in bills :
                                /\ b.folio = order[o].folio
                                /\ b.amount = order[o].charged
                                     - CarvedOut(Relevant(taxes, order[o].charged), order[o].charged)
    BY DEF OrderBilledOnce
  <2>1. Billed
    BY DEF PosInv, OrdersInv
  <2>2. CASE order[o].status = "CHARGED"
    <3>1. PICK l \in lines : IsBill(l, o)
      BY <2>1, <2>2 DEF Billed
    <3>2. bills = {l}
      BY <2>1, <3>1 DEF Billed, IsBill
    <3>3. Cardinality({l}) = 1
      BY FS_Singleton
    <3> QED BY <2>1, <2>2, <3>2, <3>3 DEF Billed, IsBill
  <2>3. CASE order[o].status # "CHARGED"
    <3>1. bills = {}
      BY <2>1, <2>3 DEF Billed, IsBill
    <3> QED BY <2>3, <3>1, FS_EmptySet
  <2> QED BY <2>2, <2>3
<1> QED BY <1>1, PosAlways, PTL

-----------------------------------------------------------------------------
(* Types.                                                                  *)

\* Tax is a whole number of units.
LEMMA TaxIsInt ==
  ASSUME NEW amount \in Int, NEW t \in Tax
  PROVE  TaxFromBps(amount, t) \in Int
<1> DEFINE d == IF t.type = "EXCLUSIVE" THEN 10000 ELSE 10000 + t.rateBps
           n == amount * t.rateBps
<1>1. t.rateBps \in Nat
  BY DEF Tax
<1>2. n \in Int /\ d \in Nat \ {0}
  BY <1>1
<1>3. TaxFromBps(amount, t) = RoundedDiv(n, d)
  BY DEF TaxFromBps
<1> HIDE DEF n, d
<1> QED BY <1>2, <1>3, RoundedDivIsNearest

LEMMA TablesAreFinite ==
  ASSUME NEW table \in TaxTables, NEW applied \in SUBSET table
  PROVE  applied \subseteq Tax /\ IsFiniteSet(applied)
BY TaxesAssumption, FS_Subset

LEMMA SumIsInt ==
  ASSUME NEW S, IsFiniteSet(S), NEW f \in [S -> Int]
  PROVE  SumFunction(f) \in Int
<1>1. SumFunction(f) = SumFunctionOnSet(f, S)
  BY DEF SumFunction
<1>2. \A x \in S : f[x] \in Int
  OBVIOUS
<1> QED BY <1>1, <1>2, SumOut

LEMMA CarvedOutIsInt ==
  ASSUME NEW gross \in Int, NEW S \in SUBSET Tax, IsFiniteSet(S)
  PROVE  CarvedOut(S, gross) \in Int /\ OnTop(S, gross) \in Int
<1> DEFINE A == {t \in S : t.type = "INCLUSIVE"}
           B == {t \in S : t.type = "EXCLUSIVE"}
           a == [t \in A |-> TaxFromBps(gross, t)]
           b == [t \in B |-> TaxFromBps(gross, t)]
<1>1. IsFiniteSet(A) /\ IsFiniteSet(B)
  BY FS_Subset
<1>2. a \in [A -> Int] /\ b \in [B -> Int]
  BY TaxIsInt
<1>3. CarvedOut(S, gross) = SumFunction(a) /\ OnTop(S, gross) = SumFunction(b)
  BY DEF CarvedOut, OnTop
<1> HIDE DEF a, b, A, B
<1> QED BY <1>1, <1>2, <1>3, SumIsInt

LineTyped(l) ==
  /\ l.folio \in Folios /\ l.type \in TypeOfLine
  /\ l.amount \in Int /\ l.tax \in Int /\ l.date \in Dates
  /\ l.type = "PAYMENT" => l.amount <= 0

LinesTyped ==
  /\ date \in Dates
  /\ IsFiniteSet(lines) /\ \A l \in lines : LineTyped(l)
  /\ postings \in 0 .. MaxPostings

OrderLinesTyped ==
  \A o \in Orders : /\ order[o].status \in {"NONE", "OPEN", "CHARGED", "VOID"}
                    /\ order[o].lines \in Seq([price : Prices, quantity : Quantities])

\* The grid, and the history of what each date's rate has been.
GridTyped ==
  /\ ratePrices \in [Dates -> Nat]
  /\ departure \in [Folios -> Departures]
  /\ edits \in 0 .. MaxPostings
  /\ loaded \in [Dates -> SUBSET Nat]
  /\ \A d \in Dates : ratePrices[d] \in loaded[d]

Typed == LinesTyped /\ OrderLinesTyped /\ GridTyped /\ status \in [Folios -> {"OPEN", "SETTLED"}]

LEMMA ChargeTyped ==
  ASSUME NEW day \in Dates, NEW f \in Folios, NEW gross \in Int, NEW table \in TaxTables,
         NEW applied \in SUBSET table, NEW source
  PROVE  /\ IsFiniteSet(TaxedCharge(day, f, gross, applied, source))
         /\ \A l \in TaxedCharge(day, f, gross, applied, source) : LineTyped(l)
<1> DEFINE new == TaxedCharge(day, f, gross, applied, source)
           amount(t) == TaxFromBps(gross, t)
           taxLine(t) == Line(day, f, t.name, "TAX", amount(t), amount(t), <<postings + 1, f, "charge">>,
                              NoRef, source)
           first == Line(day, f, "charge", "CHARGE", gross - CarvedOut(applied, gross), 0, NoRef, NoRef, source)
           taxLines == {taxLine(t) : t \in applied}
           g == [t \in applied |-> taxLine(t)]
<1>1. applied \subseteq Tax /\ IsFiniteSet(applied)
  BY TablesAreFinite
<1>2. new = {first} \cup taxLines
  BY DEF TaxedCharge
<1>3. IsFiniteSet(taxLines)
  <2>1. g \in Surjection(applied, taxLines)
    <3> HIDE DEF taxLine
    <3> QED BY DEF Surjection
  <2> HIDE DEF g, taxLines
  <2> QED BY <1>1, <2>1, FS_Surjection
<1>4. IsFiniteSet({first})
  BY FS_Singleton
<1>5. LineTyped(first)
  <2>1. CarvedOut(applied, gross) \in Int
    BY <1>1, CarvedOutIsInt
  <2>2. /\ first.folio = f /\ first.type = "CHARGE" /\ first.date = day /\ first.tax = 0
        /\ first.amount = gross - CarvedOut(applied, gross)
    BY DEF Line
  <2> HIDE DEF first
  <2> QED BY <2>1, <2>2 DEF LineTyped, TypeOfLine
<1>6. ASSUME NEW t \in applied PROVE LineTyped(taxLine(t))
  <2>1. amount(t) \in Int
    BY <1>1, TaxIsInt
  <2>2. /\ taxLine(t).folio = f /\ taxLine(t).type = "TAX" /\ taxLine(t).date = day
        /\ taxLine(t).tax = amount(t) /\ taxLine(t).amount = amount(t)
    BY DEF Line
  <2> HIDE DEF taxLine, amount
  <2> QED BY <2>1, <2>2 DEF LineTyped, TypeOfLine
<1> HIDE DEF new, first, taxLine
<1>7. IsFiniteSet(new)
  <2> HIDE DEF taxLines
  <2> QED BY <1>2, <1>3, <1>4, FS_Union
<1>8. \A l \in new : LineTyped(l)
  BY <1>2, <1>5, <1>6
<1> QED BY <1>7, <1>8 DEF new

LEMMA PostTyped ==
  ASSUME LinesTyped, GridTyped, NEW new, IsFiniteSet(new), \A l \in new : LineTyped(l), Post(new),
         UNCHANGED date
  PROVE  LinesTyped'
<1>1. lines' = lines \cup new /\ postings' = postings + 1 /\ postings < MaxPostings
  BY FoliosAssumption DEF Post, WithinBound, LinesTyped, GridTyped
<1>2. IsFiniteSet(lines')
  BY <1>1, FS_Union DEF LinesTyped
<1>3. postings' \in 0 .. MaxPostings
  BY <1>1, FoliosAssumption DEF LinesTyped
<1>4. \A l : LineTyped(l)' <=> LineTyped(l)
  BY DEF LineTyped
<1> QED BY <1>1, <1>2, <1>3, <1>4 DEF LinesTyped

\* What a bill comes to.
LEMMA BalanceIsInt ==
  ASSUME LinesTyped, NEW f
  PROVE  Balance(f) \in Int
<1> DEFINE S == On(f)
           g == [l \in S |-> l.amount]
<1>1. IsFiniteSet(S)
  BY FS_Subset DEF On, LinesTyped
<1>2. g \in [S -> Int]
  BY DEF On, LinesTyped, LineTyped
<1>3. Balance(f) = SumFunction(g)
  BY DEF Balance, SumOf
<1> HIDE DEF g, S
<1> QED BY <1>1, <1>2, <1>3, SumIsInt

LEMMA SubtotalIsInt ==
  ASSUME NEW ls \in Seq([price : Prices, quantity : Quantities])
  PROVE  SubtotalOf(ls) \in Int
<1> DEFINE S == DOMAIN ls
           g == [i \in S |-> ls[i].price * ls[i].quantity]
<1>1. S = 1 .. Len(ls) /\ Len(ls) \in Nat
  OBVIOUS
<1>2. IsFiniteSet(S)
  BY <1>1, FS_Interval
<1>3. g \in [S -> Int]
  <2> SUFFICES ASSUME NEW i \in S PROVE ls[i].price * ls[i].quantity \in Int
    OBVIOUS
  <2> DEFINE R == [price : Prices, quantity : Quantities]
  <2>0. ls \in Seq(R) /\ i \in 1 .. Len(ls)
    BY <1>1
  <2>1. ls[i] \in R
    <3> HIDE DEF R, S
    <3> QED BY <2>0
  <2>2. ls[i].price \in Nat /\ ls[i].quantity \in Nat
    BY <2>1, OrdersAssumption
  <2> QED BY <2>2
<1>4. SubtotalOf(ls) = SumFunction(g)
  BY DEF SubtotalOf
<1> HIDE DEF g, S
<1> QED BY <1>2, <1>3, <1>4, SumIsInt

LEMMA SameGrid ==
  ASSUME GridTyped, UNCHANGED grid PROVE GridTyped'
BY DEF GridTyped, grid

\* A step that posts nothing and touches no order.
LEMMA TypesRest ==
  ASSUME Typed, UNCHANGED <<lines, postings, order>>, date' \in Dates, GridTyped',
         status' \in [Folios -> {"OPEN", "SETTLED"}]
  PROVE  Typed'
<1>1. \A l : LineTyped(l)' <=> LineTyped(l)
  BY DEF LineTyped
<1> QED BY <1>1 DEF Typed, LinesTyped, OrderLinesTyped

\* A posting.
LEMMA TypesGrow ==
  ASSUME Typed, UNCHANGED <<date, status, grid>>, NEW new, IsFiniteSet(new),
         \A l \in new : LineTyped(l), Post(new), OrderLinesTyped'
  PROVE  Typed'
BY PostTyped, SameGrid DEF Typed

LEMMA SameOrders ==
  ASSUME Typed, UNCHANGED order PROVE OrderLinesTyped'
BY DEF Typed, OrderLinesTyped

LEMMA ReversalTyped ==
  ASSUME LinesTyped, NEW l \in lines, NEW new, new = {Reversal(w) : w \in WithChildren(l)}
  PROVE  IsFiniteSet(new) /\ \A r \in new : LineTyped(r)
<1> DEFINE W == WithChildren(l)
           g == [w \in W |-> Reversal(w)]
<1>1. W \in SUBSET lines
  BY DEF WithChildren
<1>2. IsFiniteSet(W)
  BY <1>1, FS_Subset DEF LinesTyped
<1>3. g \in Surjection(W, new)
  BY DEF Surjection
<1>4. IsFiniteSet(new)
  <2> HIDE DEF W, g
  <2> QED BY <1>2, <1>3, FS_Surjection
<1>5. ASSUME NEW w \in W PROVE LineTyped(Reversal(w))
  <2>1. w.folio \in Folios /\ w.amount \in Int /\ w.tax \in Int /\ date \in Dates
    BY <1>1 DEF LinesTyped, LineTyped
  <2>2. /\ Reversal(w).folio = w.folio /\ Reversal(w).type = "ADJUSTMENT"
        /\ Reversal(w).amount = -w.amount /\ Reversal(w).tax = -w.tax /\ Reversal(w).date = date
    BY DEF Reversal, Line
  <2> QED BY <2>1, <2>2 DEF LineTyped, TypeOfLine
<1> QED BY <1>4, <1>5

LEMMA PaymentTyped ==
  ASSUME LinesTyped, NEW f \in Folios, Balance(f) > 0
  PROVE  LineTyped(Payment(f, Balance(f)))
<1> DEFINE amount == Balance(f)
           l == Payment(f, amount)
<1>1. amount \in Int /\ amount > 0
  BY BalanceIsInt
<1>2. l.folio = f /\ l.type = "PAYMENT" /\ l.amount = -amount /\ l.tax = 0 /\ l.date = date
  BY DEF Payment, Line
<1> HIDE DEF amount, l
<1>3. LineTyped(l)
  BY <1>1, <1>2 DEF LineTyped, TypeOfLine, LinesTyped
<1> QED BY <1>3 DEF l, amount

LEMMA NightTyped ==
  ASSUME GridTyped, taxes \in TaxTables, NEW f \in Folios, NEW d \in Dates
  PROVE  IsFiniteSet(NightLines(f, d)) /\ \A l \in NightLines(f, d) : LineTyped(l)
<1> DEFINE gross == ratePrices[d]
<1>1. gross \in Int
  BY DEF GridTyped
<1>2. NightLines(f, d) = TaxedCharge(d, f, gross, taxes, "night")
  BY DEF NightLines
<1> HIDE DEF gross
<1>3. taxes \in SUBSET taxes
  OBVIOUS
<1> QED BY <1>1, <1>2, <1>3, ChargeTyped

LEMMA ChargeLinesTyped ==
  ASSUME LinesTyped, taxes \in TaxTables, NEW f \in Folios, NEW gross \in Int, NEW source
  PROVE  IsFiniteSet(ChargeLines(f, gross, source)) /\ \A l \in ChargeLines(f, gross, source) : LineTyped(l)
<1>1. Relevant(taxes, gross) \in SUBSET taxes /\ date \in Dates
  BY DEF Relevant, LinesTyped
<1> QED BY <1>1, ChargeTyped DEF ChargeLines

LEMMA LedgerTypes ==
  ASSUME Typed, PosInv, LedgerNext, UNCHANGED order PROVE Typed'
<1>1. LinesTyped /\ taxes \in TaxTables /\ inHouse \subseteq Folios /\ OrderLinesTyped'
      /\ date \in Dates /\ status \in [Folios -> {"OPEN", "SETTLED"}] /\ GridTyped
      /\ (UNCHANGED grid => GridTyped')
  BY SameOrders, SameGrid DEF Typed, LinesTyped, PosInv, LedgerInv, RequestsTyped
<1>2. ASSUME NEW f \in Folios, NEW a \in Amounts, PostCharge(f, a) PROVE Typed'
  <2>1. a \in Int
    BY FoliosAssumption
  <2>2. Post(ChargeLines(f, a, "folio")) /\ UNCHANGED <<date, status, grid>>
    BY <1>2 DEF PostCharge
  <2>3. /\ IsFiniteSet(ChargeLines(f, a, "folio"))
        /\ \A l \in ChargeLines(f, a, "folio") : LineTyped(l)
    BY <1>1, <2>1, ChargeLinesTyped
  <2> QED BY <1>1, <2>2, <2>3, TypesGrow
<1>3. ASSUME NEW f \in Folios, PostPayment(f) PROVE Typed'
  <2> DEFINE new == {Payment(f, Balance(f))}
  <2>1. Post(new) /\ UNCHANGED <<date, status, grid>> /\ Balance(f) > 0
    BY <1>3 DEF PostPayment
  <2>2. IsFiniteSet(new) /\ \A l \in new : LineTyped(l)
    BY <1>1, <2>1, PaymentTyped, FS_Singleton
  <2> HIDE DEF new
  <2> QED BY <1>1, <2>1, <2>2, TypesGrow
<1>4. ASSUME NEW s \in Sessions, NEW l \in lines, VoidLineRead(s, l) PROVE Typed'
  BY <1>1, <1>4, TypesRest DEF VoidLineRead, ledger
<1>5. ASSUME NEW s \in Sessions, VoidLineCommit(s) PROVE Typed'
  <2> DEFINE l == tx[s].line
             new == {Reversal(w) : w \in WithChildren(l)}
  <2>1. Post(new) /\ tx[s].op = "void" /\ UNCHANGED <<date, status, grid>>
    BY <1>5 DEF VoidLineCommit
  <2>2. l \in lines
    BY <2>1 DEF PosInv, LedgerInv, RequestsTyped
  <2>3. IsFiniteSet(new) /\ \A r \in new : LineTyped(r)
    <3> HIDE DEF l
    <3> QED BY <1>1, <2>2, ReversalTyped
  <2> HIDE DEF new
  <2> QED BY <1>1, <2>1, <2>3, TypesGrow
<1>6. ASSUME NEW s \in Sessions, RoomChargesCommit(s) PROVE Typed'
  <2> DEFINE d == tx[s].day
             due == {f \in tx[s].staying : RoomChargeFor(f, d) = {}}
             sets == {NightLines(f, d) : f \in due}
             new == UNION {NightLines(f, d) : f \in due}
  <2>1. Post(new) /\ UNCHANGED <<date, status, grid>>
    BY <1>6 DEF RoomChargesCommit
  <2>2. due \in SUBSET Folios /\ d \in Dates
    BY <1>6 DEF PosInv, LedgerInv, RequestsTyped, TxOf, RoomChargesCommit
  <2> HIDE DEF d
  <2>3. \A f \in due : IsFiniteSet(NightLines(f, d)) /\ \A l \in NightLines(f, d) : LineTyped(l)
    <3> HIDE DEF due
    <3> QED BY <1>1, <2>2, NightTyped
  <2>4. IsFiniteSet(sets)
    <3> DEFINE g == [f \in due |-> NightLines(f, d)]
    <3>1. g \in Surjection(due, sets)
      <4> HIDE DEF due
      <4> QED BY DEF Surjection
    <3>2. IsFiniteSet(due)
      BY <2>2, FoliosAssumption, FS_Subset
    <3> HIDE DEF g, sets, due
    <3> QED BY <3>1, <3>2, FS_Surjection
  <2>5. IsFiniteSet(new)
    <3>1. \A S \in sets : IsFiniteSet(S)
      <4> HIDE DEF due
      <4> QED BY <2>3
    <3>2. new = UNION sets
      OBVIOUS
    <3> HIDE DEF sets, new
    <3> QED BY <2>4, <3>1, <3>2, FS_UNION
  <2>6. \A l \in new : LineTyped(l)
    <3> HIDE DEF due
    <3> QED BY <2>3
  <2> HIDE DEF new
  <2> QED BY <1>1, <2>1, <2>5, <2>6, TypesGrow
<1>7. ASSUME AdvanceBusinessDate PROVE Typed'
  <2>1. date' \in Dates
    BY <1>1, <1>7, FoliosAssumption DEF AdvanceBusinessDate, Dates
  <2>2. UNCHANGED <<lines, postings, order, status, grid>>
    BY <1>1, <1>7 DEF AdvanceBusinessDate, ledger
  <2>3. GridTyped'
    BY <1>1, <2>2, SameGrid
  <2> QED BY <1>1, <2>1, <2>2, <2>3, TypesRest DEF Typed
<1>8. ASSUME NEW s \in Sessions, NEW f \in Folios, CheckOutRead(s, f) PROVE Typed'
  BY <1>1, <1>8, TypesRest DEF CheckOutRead, ledger
<1>9. ASSUME NEW s \in Sessions, CheckOutCommit(s) PROVE Typed'
  <2>1. status' \in [Folios -> {"OPEN", "SETTLED"}] /\ UNCHANGED <<date, lines, postings, grid>>
    BY <1>1, <1>9 DEF CheckOutCommit, ledger
  <2> QED BY <1>1, <2>1, TypesRest
<1>10. ASSUME NEW s \in Sessions, Rollback(s) PROVE Typed'
  BY <1>1, <1>10, TypesRest DEF Rollback, ledger
<1>11. ASSUME NEW s \in Sessions, NEW d \in Dates, RoomChargesRead(s, d) PROVE Typed'
  BY <1>1, <1>11, TypesRest DEF RoomChargesRead, ledger
<1>12. ASSUME NEW d \in Dates, NEW rate \in Rates, SetRatePrices(d, rate) PROVE Typed'
  <2>1. UNCHANGED <<date, lines, postings, status, departure>> /\ edits' = edits + 1
        /\ postings + edits < MaxPostings
        /\ ratePrices' = [ratePrices EXCEPT ![d] = rate]
        /\ loaded' = [loaded EXCEPT ![d] = loaded[d] \cup {rate}]
    BY <1>12 DEF SetRatePrices, WithinBound, ledger
  <2>2. rate \in Nat /\ edits' \in 0 .. MaxPostings
    BY <1>1, <2>1, FoliosAssumption DEF GridTyped, LinesTyped
  <2>3. /\ \A e \in Dates : ratePrices'[e] = IF e = d THEN rate ELSE ratePrices[e]
        /\ \A e \in Dates : loaded'[e] = IF e = d THEN loaded[e] \cup {rate} ELSE loaded[e]
        /\ ratePrices' \in [Dates -> Nat] /\ loaded' \in [Dates -> SUBSET Nat]
    BY <1>1, <2>1, <2>2 DEF GridTyped
  <2>4. GridTyped'
    BY <1>1, <2>1, <2>2, <2>3 DEF GridTyped
  <2> QED BY <1>1, <2>1, <2>4, TypesRest
<1>13. ASSUME NEW f \in Folios, NEW d \in Departures, ModifyDates(f, d) PROVE Typed'
  <2>1. UNCHANGED <<date, lines, postings, status, ratePrices, loaded>> /\ edits' = edits + 1
        /\ postings + edits < MaxPostings /\ departure' = [departure EXCEPT ![f] = d]
    BY <1>13 DEF ModifyDates, WithinBound, ledger
  <2>2. edits' \in 0 .. MaxPostings
    BY <1>1, <2>1, FoliosAssumption DEF GridTyped, LinesTyped
  <2>3. GridTyped'
    BY <1>1, <2>1, <2>2 DEF GridTyped
  <2> QED BY <1>1, <2>1, <2>3, TypesRest
<1> QED BY <1>2, <1>3, <1>4, <1>5, <1>6, <1>7, <1>8, <1>9, <1>10, <1>11, <1>12, <1>13 DEF LedgerNext

\* An order's step: its lines stay lines of the menu.
LEMMA OrderTypes ==
  ASSUME Typed, PosInv, NEW o \in Orders,
         \/ OpenOrder(o) \/ VoidOrder(o)
         \/ \E price \in Prices, quantity \in Quantities : AddLine(o, price, quantity)
         \/ \E i \in DOMAIN order[o].lines : RemoveLine(o, i)
  PROVE  Typed'
<1> DEFINE R == [price : Prices, quantity : Quantities]
           ls == order[o].lines
<1>1. /\ DOMAIN order = Orders
      /\ order[o] = [status |-> order[o].status, lines |-> order[o].lines,
                     folio |-> order[o].folio, charged |-> order[o].charged]
  BY DEF PosInv, OrdersInv, OrdersTyped
<1>2. UNCHANGED <<date, lines, postings, status, grid>>
  BY DEF OpenOrder, VoidOrder, AddLine, RemoveLine, ledgerVars, ledger, grid
<1>3. ls \in Seq(R) /\ order[o].status \in {"NONE", "OPEN", "CHARGED", "VOID"}
  BY DEF Typed, OrderLinesTyped
<1>4. ASSUME OrderLinesTyped' PROVE Typed'
  <2>1. date' \in Dates /\ status' \in [Folios -> {"OPEN", "SETTLED"}]
    BY <1>2 DEF Typed, LinesTyped
  <2>2. \A l : LineTyped(l)' <=> LineTyped(l)
    BY DEF LineTyped
  <2>3. GridTyped'
    BY <1>2, SameGrid DEF Typed
  <2> QED BY <1>2, <1>4, <2>1, <2>2, <2>3 DEF Typed, LinesTyped
<1>5. ASSUME NEW new, NEW a, order' = [order EXCEPT ![o].status = a], a \in {"OPEN", "VOID"}
      PROVE  OrderLinesTyped'
  <2>1. \A q \in Orders : /\ order'[q].lines = order[q].lines
                          /\ order'[q].status = IF q = o THEN a ELSE order[q].status
    BY <1>1, <1>5
  <2> QED BY <1>5, <2>1 DEF Typed, OrderLinesTyped
<1>6. ASSUME NEW new \in Seq(R), order' = [order EXCEPT ![o].lines = new]
      PROVE  OrderLinesTyped'
  <2>1. \A q \in Orders : /\ order'[q].lines = IF q = o THEN new ELSE order[q].lines
                          /\ order'[q].status = order[q].status
    <3> HIDE DEF R
    <3> QED BY <1>1, <1>6
  <2> QED BY <1>6, <2>1 DEF Typed, OrderLinesTyped
<1>7. CASE OpenOrder(o)
  BY <1>4, <1>5, <1>7 DEF OpenOrder
<1>8. CASE VoidOrder(o)
  BY <1>4, <1>5, <1>8 DEF VoidOrder
<1>9. ASSUME NEW price \in Prices, NEW quantity \in Quantities, AddLine(o, price, quantity)
      PROVE  Typed'
  <2> DEFINE item == [price |-> price, quantity |-> quantity]
             new == Append(ls, item)
  <2>1. item \in R
    OBVIOUS
  <2>2. new \in Seq(R)
    <3> HIDE DEF R, item, ls
    <3> QED BY <1>3, <2>1
  <2>3. order' = [order EXCEPT ![o].lines = new]
    BY <1>9 DEF AddLine
  <2> HIDE DEF new, R
  <2> QED BY <1>4, <1>6, <2>2, <2>3
<1>10. ASSUME NEW i \in DOMAIN ls, RemoveLine(o, i) PROVE Typed'
  <2> DEFINE new == [j \in 1 .. (Len(ls) - 1) |-> IF j < i THEN ls[j] ELSE ls[j + 1]]
  <2>1. new \in Seq(R)
    <3> HIDE DEF R, ls
    <3>1. Len(ls) \in Nat /\ DOMAIN ls = 1 .. Len(ls) /\ i \in 1 .. Len(ls)
      BY <1>3, <1>10
    <3>2. Len(ls) - 1 \in Nat
      BY <3>1
    <3>3. \A j \in 1 .. (Len(ls) - 1) : j \in 1 .. Len(ls) /\ j + 1 \in 1 .. Len(ls)
      BY <3>1
    <3>4. \A j \in 1 .. Len(ls) : ls[j] \in R
      BY <1>3
    <3>5. new \in [1 .. (Len(ls) - 1) -> R]
      BY <3>3, <3>4
    <3> HIDE DEF new
    <3> QED BY <3>2, <3>5
  <2>2. order' = [order EXCEPT ![o].lines = new]
    BY <1>10 DEF RemoveLine
  <2> HIDE DEF new, R
  <2> QED BY <1>4, <1>6, <2>1, <2>2
<1> QED BY <1>7, <1>8, <1>9, <1>10

LEMMA ChargeTypes ==
  ASSUME Typed, PosInv, NEW s \in Sessions, ChargeToRoomCommit(s) PROVE Typed'
<1> DEFINE o == tx[s].order
           f == tx[s].folio
           subtotal == SubtotalOf(order[o].lines)
           bill == ChargeLines(f, subtotal, o)
<1>1. /\ tx[s].op = "toRoom" /\ Post(bill) /\ UNCHANGED <<date, status, grid>>
      /\ order' = [order EXCEPT ![o].status = "CHARGED", ![o].folio = f, ![o].charged = subtotal]
  BY DEF ChargeToRoomCommit
<1>2. o \in Orders /\ f \in Folios /\ taxes \in TaxTables
  BY <1>1 DEF PosInv, LedgerInv, RequestsTyped
<1>3. /\ DOMAIN order = Orders
      /\ \A q \in Orders : order[q] = [status |-> order[q].status, lines |-> order[q].lines,
                                       folio |-> order[q].folio, charged |-> order[q].charged]
  BY DEF PosInv, OrdersInv, OrdersTyped
<1>4. subtotal \in Int
  BY <1>2, SubtotalIsInt DEF Typed, OrderLinesTyped
<1> HIDE DEF subtotal, o, f
<1>5. IsFiniteSet(bill) /\ \A l \in bill : LineTyped(l)
  BY <1>2, <1>4, ChargeLinesTyped DEF Typed
<1>6. OrderLinesTyped'
  <2> DEFINE new == WhenCharged(order[o], f, subtotal)
  <2>1. order' = [q \in Orders |-> IF q = o THEN new ELSE order[q]]
    BY <1>1, <1>2, <1>3 DEF WhenCharged
  <2>2. new.status = "CHARGED" /\ new.lines = order[o].lines
    <3>1. PICK a, b, c, d : order[o] = [status |-> a, lines |-> b, folio |-> c, charged |-> d]
      BY <1>2, <1>3
    <3>2. new = [status |-> "CHARGED", lines |-> b, folio |-> f, charged |-> subtotal]
      BY <3>1, ChargedRecord
    <3> HIDE DEF new
    <3> QED BY <3>1, <3>2
  <2> HIDE DEF new
  <2>3. \A q \in Orders : /\ order'[q].lines = order[q].lines
                          /\ order'[q].status = IF q = o THEN "CHARGED" ELSE order[q].status
    BY <2>1, <2>2
  <2> QED BY <2>3 DEF Typed, OrderLinesTyped
<1> HIDE DEF bill
<1> QED BY <1>1, <1>5, <1>6, TypesGrow

LEMMA TypesNext == PosInv /\ Typed /\ [Next]_vars => Typed'
<1> SUFFICES ASSUME PosInv, Typed, [Next]_vars PROVE Typed'
  OBVIOUS
<1>1. CASE PosNext
  <2>1. ASSUME NEW s \in Sessions, NEW o \in Orders, NEW k \in Rooms, ChargeToRoomRead(s, o, k)
        PROVE  Typed'
    <3>1. date' \in Dates /\ status' \in [Folios -> {"OPEN", "SETTLED"}] /\ GridTyped'
      BY <2>1, SameGrid DEF ChargeToRoomRead, Typed, LinesTyped
    <3> QED BY <2>1, <3>1, TypesRest DEF ChargeToRoomRead, ledger
  <2> QED BY <1>1, <2>1, OrderTypes, ChargeTypes DEF PosNext
<1>2. CASE LedgerNext /\ UNCHANGED order
  BY <1>2, LedgerTypes
<1>3. CASE UNCHANGED vars
  <2>1. UNCHANGED <<date, lines, postings, status, grid, order>>
    BY <1>3 DEF vars, ledgerVars, ledger, grid
  <2>2. date' \in Dates /\ status' \in [Folios -> {"OPEN", "SETTLED"}] /\ GridTyped'
    BY <2>1, SameGrid DEF Typed, LinesTyped
  <2> QED BY <2>1, <2>2, TypesRest
<1> QED BY <1>1, <1>2, <1>3 DEF Next

LEMMA TypesInitial == Init => Typed
<1> SUFFICES ASSUME Init PROVE Typed
  OBVIOUS
<1>1. LinesTyped
  BY FS_EmptySet, FoliosAssumption DEF Init, LedgerInit, LinesTyped, Dates
<1>2. OrderLinesTyped
  <2>1. \A o \in Orders : order[o].status = "NONE" /\ order[o].lines = <<>>
    BY DEF Init, NoOrder
  <2> DEFINE R == [price : Prices, quantity : Quantities]
  <2>2. <<>> \in Seq(R)
    <3> HIDE DEF R
    <3> QED OBVIOUS
  <2>3. \A o \in Orders : order[o].lines \in Seq(R)
    <3> HIDE DEF R
    <3> QED BY <2>1, <2>2
  <2> QED BY <2>1, <2>3 DEF OrderLinesTyped
<1>3. GridTyped
  BY FoliosAssumption DEF Init, LedgerInit, GridTyped
<1> QED BY <1>1, <1>2, <1>3 DEF Init, LedgerInit, Typed

\* Every amount on a bill is a whole number of units and a payment is never
\* positive: tax is rounded to a unit, a charge drops to its net, a void is the
\* opposite, and what a payment settles is a sum of such amounts, for any tax
\* table, prices and number of lines.
THEOREM BillsTypeCorrect == Spec => []TypeOK
<1>1. Init => PosInv /\ Typed
  BY PosInitial, TypesInitial
<1>2. PosInv /\ Typed /\ [Next]_vars => (PosInv /\ Typed)'
  BY PosNextStep, TypesNext
<1>3. PosInv /\ Typed => TypeOK
  <2> SUFFICES ASSUME PosInv, Typed PROVE TypeOK
    OBVIOUS
  <2>1. \A s \in Sessions : tx[s].op \in Ops
    BY DEF PosInv, LedgerInv, RequestsTyped, TxOf
  <2>2. LedgerTypeOK
    BY <2>1 DEF LedgerTypeOK, Ops, Typed, GridTyped, LinesTyped, LineTyped, PosInv, LedgerInv, RequestsTyped
  <2> QED BY <2>2 DEF TypeOK, Typed, OrderLinesTyped
<1> QED BY <1>1, <1>2, <1>3, PTL DEF Spec

-----------------------------------------------------------------------------
(* Bills and quotes.                                                       *)

LEMMA SumUnion ==
  ASSUME NEW A, IsFiniteSet(A), NEW B, IsFiniteSet(B), A \cap B = {},
         NEW f, \A x \in A \cup B : f[x] \in Int
  PROVE  SumFunctionOnSet(f, A \cup B) = SumFunctionOnSet(f, A) + SumFunctionOnSet(f, B)
<1> DEFINE P == {T \in SUBSET B :
                   SumFunctionOnSet(f, A \cup T) = SumFunctionOnSet(f, A) + SumFunctionOnSet(f, T)}
<1>0. P \in SUBSET SUBSET B
  OBVIOUS
<1>1. {} \in P
  <2>1. SumFunctionOnSet(f, {}) = 0
    BY SumStep, FS_EmptySet
  <2>2. SumFunctionOnSet(f, A) \in Int
    BY SumOut
  <2>3. A \cup {} = A
    OBVIOUS
  <2> QED BY <2>1, <2>2, <2>3
<1>2. ASSUME NEW T \in P, NEW x \in B, x \notin T PROVE T \cup {x} \in P
  <2> DEFINE U == A \cup T
  <2>1. IsFiniteSet(T) /\ T \in SUBSET B /\ T \cup {x} \in SUBSET B
    BY FS_Subset
  <2>2. IsFiniteSet(U)
    BY <2>1, FS_Union
  <2>3. /\ x \notin U /\ f[x] \in Int /\ (\A y \in U : f[y] \in Int)
        /\ (\A y \in T : f[y] \in Int) /\ (\A y \in A : f[y] \in Int)
    BY <1>2, <2>1
  <2>4. /\ SumFunctionOnSet(f, T) \in Int /\ SumFunctionOnSet(f, A) \in Int
        /\ SumFunctionOnSet(f, U) = SumFunctionOnSet(f, A) + SumFunctionOnSet(f, T)
    BY <2>1, <2>3, SumOut
  <2>5. SumFunctionOnSet(f, T \cup {x}) = f[x] + SumFunctionOnSet(f, T)
    BY <1>2, <2>1, <2>3, SumAdd
  <2>6. A \cup (T \cup {x}) = U \cup {x}
    OBVIOUS
  <2> HIDE DEF U
  <2>7. SumFunctionOnSet(f, U \cup {x}) = f[x] + SumFunctionOnSet(f, U)
    BY <2>2, <2>3, SumAdd
  <2>8. SumFunctionOnSet(f, A \cup (T \cup {x})) = SumFunctionOnSet(f, A) + SumFunctionOnSet(f, T \cup {x})
    <3>1. SumFunctionOnSet(f, A \cup (T \cup {x})) = SumFunctionOnSet(f, U \cup {x})
      BY <2>6
    <3> QED BY <2>3, <2>4, <2>5, <2>7, <3>1
  <2> QED BY <2>1, <2>8
<1> HIDE DEF P
<1>3. P = SUBSET B
  BY <1>0, <1>1, <1>2, BySubsets
<1> QED BY <1>3 DEF P

\* Summing the images of different elements.
LEMMA SumImage ==
  ASSUME NEW S, IsFiniteSet(S), NEW g, NEW f, NEW h,
         \A x \in S : f[x] \in Int /\ f[x] = h[g[x]],
         \A x, y \in S : g[x] = g[y] => x = y,
         NEW R, R = {g[x] : x \in S}
  PROVE  SumFunctionOnSet(h, R) = SumFunctionOnSet(f, S) /\ IsFiniteSet(R)
<1> DEFINE Img(T) == {g[x] : x \in T}
           P == {T \in SUBSET S : /\ IsFiniteSet(Img(T))
                                  /\ SumFunctionOnSet(h, Img(T)) = SumFunctionOnSet(f, T)}
<1>0. P \in SUBSET SUBSET S
  OBVIOUS
<1>1. {} \in P
  <2>1. \A k : SumFunctionOnSet(k, {}) = 0
    BY SumStep, FS_EmptySet
  <2>2. Img({}) = {}
    OBVIOUS
  <2> QED BY <2>1, <2>2, FS_EmptySet
<1>2. ASSUME NEW T \in P, NEW x \in S, x \notin T PROVE T \cup {x} \in P
  <2> DEFINE I == Img(T)
             y == g[x]
  <2>1. IsFiniteSet(T) /\ T \in SUBSET S /\ T \cup {x} \in SUBSET S
    BY FS_Subset
  <2>2. Img(T \cup {x}) = I \cup {y}
    OBVIOUS
  <2>3. IsFiniteSet(I) /\ SumFunctionOnSet(h, I) = SumFunctionOnSet(f, T)
    OBVIOUS
  <2>4. y \notin I /\ h[y] = f[x] /\ f[x] \in Int /\ (\A z \in I : h[z] \in Int)
        /\ (\A z \in T : f[z] \in Int)
    BY <1>2, <2>1
  <2> HIDE DEF I, y
  <2>5. SumFunctionOnSet(h, I \cup {y}) = h[y] + SumFunctionOnSet(h, I)
    BY <2>3, <2>4, SumAdd
  <2>6. SumFunctionOnSet(f, T \cup {x}) = f[x] + SumFunctionOnSet(f, T)
    BY <1>2, <2>1, <2>4, SumAdd
  <2>7. IsFiniteSet(I \cup {y})
    BY <2>3, FS_AddElement
  <2> QED BY <2>1, <2>2, <2>3, <2>4, <2>5, <2>6, <2>7
<1> HIDE DEF P
<1>3. P = SUBSET S
  BY <1>0, <1>1, <1>2, BySubsets
<1> QED BY <1>3 DEF P

-----------------------------------------------------------------------------
(* Rounding.                                                               *)

LEMMA Cancel ==
  ASSUME NEW a \in Int, NEW b \in Int, NEW d \in Nat \ {0}, d * a <= d * b
  PROVE  a <= b
<1> SUFFICES ASSUME b + 1 <= a PROVE FALSE
  OBVIOUS
<1>1. d * (b + 1) <= d * a
  OBVIOUS
<1>2. d * (b + 1) = d * b + d
  OBVIOUS
<1>3. d * a \in Int /\ d * b \in Int
  OBVIOUS
<1> QED BY <1>1, <1>2, <1>3

\* A tax on each of some amounts or on all of them at once: every rounding is
\* off by half a unit at most.
LEMMA OneTax ==
  ASSUME NEW D, IsFiniteSet(D), NEW p \in [D -> Int], NEW t \in Tax
  PROVE  LET each == SumFunctionOnSet([d \in D |-> TaxFromBps(p[d], t)], D)
             once == TaxFromBps(SumFunctionOnSet(p, D), t)
         IN  /\ each \in Int /\ once \in Int
             /\ 2 * (each - once) <= Cardinality(D) + 1
             /\ 2 * (once - each) <= Cardinality(D) + 1
<1> DEFINE q == [d \in D |-> TaxFromBps(p[d], t)]
           den == IF t.type = "EXCLUSIVE" THEN 10000 ELSE 10000 + t.rateBps
           r == t.rateBps
           Close(T) == LET Q == SumFunctionOnSet(q, T)
                           A == SumFunctionOnSet(p, T)
                           k == Cardinality(T)
                       IN  /\ 2 * (den * Q) - 2 * (A * r) <= den * k
                           /\ 2 * (A * r) - 2 * (den * Q) <= den * k
           P == {T \in SUBSET D : Close(T)}
<1>1. r \in Nat /\ den \in Nat \ {0}
  BY DEF Tax
<1>2. ASSUME NEW a \in Int
      PROVE  /\ TaxFromBps(a, t) \in Int
             /\ 2 * (den * TaxFromBps(a, t)) - 2 * (a * r) <= den
             /\ 2 * (a * r) - 2 * (den * TaxFromBps(a, t)) <= den
  <2> DEFINE n == a * r
  <2>1. n \in Int
    BY <1>1
  <2>2. TaxFromBps(a, t) = RoundedDiv(n, den)
    BY DEF TaxFromBps
  <2> HIDE DEF den, n
  <2>3. /\ RoundedDiv(n, den) \in Int
        /\ 2 * (den * RoundedDiv(n, den)) - 2 * n <= den /\ 2 * n - 2 * (den * RoundedDiv(n, den)) <= den
    BY <1>1, <2>1, RoundedDivIsNearest
  <2> QED BY <2>2, <2>3 DEF n
<1>3. \A d \in D : q[d] \in Int /\ p[d] \in Int
  BY <1>2
<1>4. \A d \in D : /\ 2 * (den * q[d]) - 2 * (p[d] * r) <= den
                   /\ 2 * (p[d] * r) - 2 * (den * q[d]) <= den
  <2> SUFFICES ASSUME NEW d \in D
               PROVE  /\ 2 * (den * q[d]) - 2 * (p[d] * r) <= den
                      /\ 2 * (p[d] * r) - 2 * (den * q[d]) <= den
    OBVIOUS
  <2>1. q[d] = TaxFromBps(p[d], t)
    OBVIOUS
  <2> HIDE DEF q, den, r
  <2> QED BY <1>2, <1>3, <2>1
<1>0. P \in SUBSET SUBSET D
  OBVIOUS
<1> HIDE DEF q, den, r
<1>5. {} \in P
  <2>1. SumFunctionOnSet(q, {}) = 0 /\ SumFunctionOnSet(p, {}) = 0
    BY SumStep, FS_EmptySet
  <2>2. Cardinality({}) = 0
    BY FS_EmptySet
  <2>3. den * 0 = 0 /\ 0 * r = 0
    BY <1>1
  <2> QED BY <2>1, <2>2, <2>3
<1>6. ASSUME NEW T \in P, NEW x \in D, x \notin T PROVE T \cup {x} \in P
  <2> DEFINE Q == SumFunctionOnSet(q, T)
             A == SumFunctionOnSet(p, T)
             k == Cardinality(T)
  <2>1. IsFiniteSet(T) /\ T \in SUBSET D /\ T \cup {x} \in SUBSET D
    BY FS_Subset
  <2>2. k \in Nat /\ Cardinality(T \cup {x}) = k + 1
    BY <1>6, <2>1, FS_CardinalityType, FS_AddElement
  <2>3. Q \in Int /\ A \in Int
    BY <1>3, <2>1, SumOut
  <2>4. /\ SumFunctionOnSet(q, T \cup {x}) = q[x] + Q
        /\ SumFunctionOnSet(p, T \cup {x}) = p[x] + A
    BY <1>3, <1>6, <2>1, SumAdd
  <2>5. 2 * (den * Q) - 2 * (A * r) <= den * k /\ 2 * (A * r) - 2 * (den * Q) <= den * k
    OBVIOUS
  <2> HIDE DEF Q, A, k
  <2>6. den * (q[x] + Q) = den * q[x] + den * Q /\ (p[x] + A) * r = p[x] * r + A * r
        /\ den * (k + 1) = den * k + den
    BY <1>1, <1>3, <2>2, <2>3
  <2>7. /\ den * q[x] \in Int /\ den * Q \in Int /\ p[x] * r \in Int /\ A * r \in Int
        /\ den * k \in Int /\ den \in Int
    BY <1>1, <1>3, <2>2, <2>3
  <2>8. /\ 2 * (den * q[x]) - 2 * (p[x] * r) <= den
        /\ 2 * (p[x] * r) - 2 * (den * q[x]) <= den
    BY <1>4
  <2>9. /\ 2 * (den * (q[x] + Q)) - 2 * ((p[x] + A) * r) <= den * (k + 1)
        /\ 2 * ((p[x] + A) * r) - 2 * (den * (q[x] + Q)) <= den * (k + 1)
    BY <2>5, <2>6, <2>7, <2>8
  <2> QED BY <2>1, <2>2, <2>4, <2>9
<1>7. P = SUBSET D
  <2> HIDE DEF P
  <2> QED BY <1>0, <1>5, <1>6, BySubsets
<1>8. Close(D)
  BY <1>7
<1> DEFINE each == SumFunctionOnSet(q, D)
           all == SumFunctionOnSet(p, D)
           once == TaxFromBps(all, t)
           k == Cardinality(D)
<1>9. each \in Int /\ all \in Int /\ k \in Nat
  BY <1>3, SumOut, FS_CardinalityType
<1>10. 2 * (den * each) - 2 * (all * r) <= den * k /\ 2 * (all * r) - 2 * (den * each) <= den * k
  BY <1>8
<1> HIDE DEF P, each, all, k
<1>11. /\ once \in Int
       /\ 2 * (den * once) - 2 * (all * r) <= den /\ 2 * (all * r) - 2 * (den * once) <= den
  BY <1>2, <1>9
<1> HIDE DEF once
<1>12. /\ den * (2 * (each - once)) = 2 * (den * each) - 2 * (den * once)
       /\ den * (2 * (once - each)) = 2 * (den * once) - 2 * (den * each)
       /\ den * (k + 1) = den * k + den
  BY <1>1, <1>9, <1>11
<1>13. den * each \in Int /\ den * once \in Int /\ all * r \in Int /\ den * k \in Int /\ den \in Int
  BY <1>1, <1>9, <1>11
<1>14. den * (2 * (each - once)) <= den * (k + 1) /\ den * (2 * (once - each)) <= den * (k + 1)
  BY <1>10, <1>11, <1>12, <1>13
<1>15. 2 * (each - once) \in Int /\ 2 * (once - each) \in Int /\ k + 1 \in Int
  BY <1>9, <1>11
<1>16. 2 * (each - once) <= k + 1 /\ 2 * (once - each) <= k + 1
  BY <1>1, <1>14, <1>15, Cancel
<1> QED BY <1>9, <1>11, <1>16 DEF each, once, all, k, q

\* The taxes of a set on top of an amount, one tax at a time.
LEMMA OnTopAdds ==
  ASSUME NEW S \in SUBSET Tax, IsFiniteSet(S), \A u \in S : u.type = "EXCLUSIVE", NEW x \in Int
  PROVE  /\ OnTop(S, x) = SumFunctionOnSet([u \in S |-> TaxFromBps(x, u)], S)
         /\ OnTop({}, x) = 0
         /\ \A t \in Tax : t \notin S /\ t.type = "EXCLUSIVE" =>
              OnTop(S \cup {t}, x) = TaxFromBps(x, t) + OnTop(S, x)
<1> DEFINE g(T) == [u \in T |-> TaxFromBps(x, u)]
<1>1. ASSUME NEW T \in SUBSET Tax, \A u \in T : u.type = "EXCLUSIVE"
      PROVE  OnTop(T, x) = SumFunctionOnSet(g(T), T)
  <2>1. {u \in T : u.type = "EXCLUSIVE"} = T
    BY <1>1
  <2>2. OnTop(T, x) = SumFunction(g(T))
    BY <2>1 DEF OnTop
  <2>3. DOMAIN g(T) = T
    OBVIOUS
  <2> HIDE DEF g
  <2> QED BY <2>2, <2>3 DEF SumFunction
<1>2. OnTop({}, x) = 0
  <2>1. OnTop({}, x) = SumFunctionOnSet(g({}), {})
    BY <1>1
  <2> HIDE DEF g
  <2> QED BY <2>1, SumStep, FS_EmptySet
<1>3. ASSUME NEW t \in Tax, t \notin S, t.type = "EXCLUSIVE"
      PROVE  OnTop(S \cup {t}, x) = TaxFromBps(x, t) + OnTop(S, x)
  <2> DEFINE U == S \cup {t}
  <2>1. OnTop(S, x) = SumFunctionOnSet(g(S), S)
    BY <1>1
  <2>2. OnTop(U, x) = SumFunctionOnSet(g(U), U)
    BY <1>1, <1>3
  <2>3. (\A u \in S : g(U)[u] \in Int /\ g(U)[u] = g(S)[u]) /\ g(U)[t] = TaxFromBps(x, t)
        /\ TaxFromBps(x, t) \in Int
    BY <1>3, TaxIsInt
  <2> HIDE DEF g
  <2>4. SumFunctionOnSet(g(U), S) = SumFunctionOnSet(g(S), S)
    BY <2>3, SumSame
  <2>5. SumFunctionOnSet(g(U), U) = g(U)[t] + SumFunctionOnSet(g(U), S)
    BY <1>3, <2>3, SumAdd
  <2> QED BY <2>1, <2>2, <2>3, <2>4, <2>5
<1> QED BY <1>1, <1>2, <1>3

\* The audit taxes each night and the quote taxes the whole: they differ by half
\* a unit at most per tax for every night and once for the quote.
LEMMA QuoteIsClose ==
  ASSUME NEW table \in SUBSET Tax, IsFiniteSet(table), \A t \in table : t.type = "EXCLUSIVE",
         NEW D, IsFiniteSet(D), NEW p \in [D -> Int]
  PROVE  LET each == SumFunctionOnSet([d \in D |-> OnTop(table, p[d])], D)
             once == OnTop(table, SumFunctionOnSet(p, D))
             slack == (Cardinality(D) + 1) * Cardinality(table)
         IN  /\ each \in Int /\ once \in Int /\ slack \in Int
             /\ 2 * (each - once) <= slack /\ 2 * (once - each) <= slack
<1> DEFINE all == SumFunctionOnSet(p, D)
           k == Cardinality(D) + 1
           O(T) == [d \in D |-> OnTop(T, p[d])]
           E(T) == SumFunctionOnSet(O(T), D)
           Close(T) == LET c == Cardinality(T)
                       IN  /\ 2 * (E(T) - OnTop(T, all)) <= k * c
                           /\ 2 * (OnTop(T, all) - E(T)) <= k * c
           P == {T \in SUBSET table : Close(T)}
<1>1. all \in Int /\ k \in Nat /\ \A d \in D : p[d] \in Int
  BY SumOut, FS_CardinalityType
<1> HIDE DEF all, k
<1>2. ASSUME NEW T \in SUBSET table
      PROVE  /\ IsFiniteSet(T) /\ T \in SUBSET Tax /\ Cardinality(T) \in Nat
             /\ \A x \in Int : OnTop(T, x) \in Int
             /\ E(T) \in Int
  <2>1. IsFiniteSet(T) /\ T \in SUBSET Tax /\ Cardinality(T) \in Nat
    BY FS_Subset, FS_CardinalityType
  <2>2. \A x \in Int : OnTop(T, x) \in Int
    BY <2>1, CarvedOutIsInt
  <2>3. \A d \in D : O(T)[d] \in Int
    BY <1>1, <2>2
  <2> HIDE DEF O
  <2>4. E(T) \in Int
    BY <2>3, SumOut
  <2> QED BY <2>1, <2>2, <2>4
<1>3. P \in SUBSET SUBSET table
  OBVIOUS
<1>4. {} \in P
  <2>1. \A x \in Int : OnTop({}, x) = 0
    <3>1. {} \in SUBSET Tax /\ IsFiniteSet({})
      BY FS_EmptySet
    <3> QED BY <3>1, OnTopAdds
  <2>2. E({}) = 0
    <3> DEFINE Z == {T \in SUBSET D : SumFunctionOnSet(O({}), T) = 0}
    <3>1. Z \in SUBSET SUBSET D
      OBVIOUS
    <3>2. {} \in Z
      <4> HIDE DEF O
      <4> QED BY SumStep, FS_EmptySet
    <3>3. \A d \in D : O({})[d] = 0
      BY <1>1, <2>1
    <3>4. ASSUME NEW T \in Z, NEW d \in D, d \notin T PROVE T \cup {d} \in Z
      <4> HIDE DEF O
      <4>1. IsFiniteSet(T) /\ \A y \in T : O({})[y] \in Int
        BY <3>3, FS_Subset
      <4>2. SumFunctionOnSet(O({}), T \cup {d}) = O({})[d] + SumFunctionOnSet(O({}), T)
        BY <3>3, <3>4, <4>1, SumAdd
      <4> QED BY <3>3, <4>2
    <3> HIDE DEF O, Z
    <3>5. Z = SUBSET D
      BY <3>1, <3>2, <3>4, BySubsets
    <3> QED BY <3>5 DEF Z
  <2>3. Cardinality({}) = 0 /\ k * 0 = 0
    BY <1>1, FS_EmptySet
  <2>4. OnTop({}, all) = 0
    BY <1>1, <2>1
  <2> HIDE DEF E
  <2> QED BY <2>2, <2>3, <2>4
<1>5. ASSUME NEW T \in P, NEW t \in table, t \notin T PROVE T \cup {t} \in P
  <2> DEFINE U == T \cup {t}
             q == [d \in D |-> TaxFromBps(p[d], t)]
             each == SumFunctionOnSet(q, D)
             once == TaxFromBps(all, t)
             c == Cardinality(T)
  <2>1. T \in SUBSET table /\ U \in SUBSET table /\ t \in Tax /\ t.type = "EXCLUSIVE"
    OBVIOUS
  <2>2. Cardinality(U) = c + 1 /\ c \in Nat /\ k * (c + 1) = k * c + k /\ k * c \in Int
    <3>1. Cardinality(U) = c + 1 /\ c \in Nat
      BY <1>2, <1>5, FS_AddElement
    <3> HIDE DEF c
    <3> QED BY <1>1, <3>1
  <2>3. each \in Int /\ once \in Int /\ 2 * (each - once) <= k /\ 2 * (once - each) <= k
    BY <2>1, OneTax DEF all, k
  <2>4. \A x \in Int : OnTop(U, x) = TaxFromBps(x, t) + OnTop(T, x)
    <3>1. IsFiniteSet(T) /\ T \in SUBSET Tax /\ \A u \in T : u.type = "EXCLUSIVE"
      BY <1>2
    <3> QED BY <1>5, <2>1, <3>1, OnTopAdds
  <2>5. \A d \in D : O(U)[d] = q[d] + O(T)[d] /\ q[d] \in Int /\ O(T)[d] \in Int
    BY <1>1, <1>2, <2>1, <2>4, TaxIsInt
  <2>6. E(U) = each + E(T)
    <3> DEFINE oU == O(U)
               oT == O(T)
    <3>1. \A d \in D : q[d] \in Int /\ oT[d] \in Int /\ oU[d] = q[d] + oT[d]
      BY <2>5
    <3>2. E(U) = SumFunctionOnSet(oU, D) /\ E(T) = SumFunctionOnSet(oT, D)
      OBVIOUS
    <3> HIDE DEF oU, oT, q, E
    <3>3. SumFunctionOnSet(oU, D) = SumFunctionOnSet(q, D) + SumFunctionOnSet(oT, D)
      BY <3>1, SumLinear
    <3> QED BY <3>2, <3>3
  <2>7. OnTop(U, all) = once + OnTop(T, all) /\ OnTop(T, all) \in Int /\ E(T) \in Int
    BY <1>1, <1>2, <2>4
  <2>8. 2 * (E(T) - OnTop(T, all)) <= k * c /\ 2 * (OnTop(T, all) - E(T)) <= k * c
    OBVIOUS
  <2> HIDE DEF each, once, c, E
  <2>9. /\ 2 * (E(U) - OnTop(U, all)) <= k * (c + 1)
        /\ 2 * (OnTop(U, all) - E(U)) <= k * (c + 1)
    BY <1>1, <2>2, <2>3, <2>6, <2>7, <2>8
  <2> HIDE DEF U
  <2>10. Close(U)
    BY <2>2, <2>9
  <2> QED BY <2>1, <2>10 DEF U
<1>6. P = SUBSET table
  <2> HIDE DEF P
  <2> QED BY <1>3, <1>4, <1>5, BySubsets
<1>7. Close(table)
  BY <1>6
<1>8. E(table) \in Int /\ OnTop(table, all) \in Int /\ Cardinality(table) \in Nat
  BY <1>1, <1>2
<1> DEFINE c == Cardinality(table)
<1> HIDE DEF E, P
<1>9. k * c \in Int
  BY <1>1, <1>8
<1> QED BY <1>7, <1>8, <1>9 DEF E, all, k

-----------------------------------------------------------------------------
(* The invariant behind BillFollowsQuote: the night's lines of a bill on a *)
(* date are one posting, whole and unchanged.                              *)

NightLine(n, f, d, part, type, amount, tax, parent) ==
  [id |-> <<n, f, part>>, folio |-> f, type |-> type, amount |-> amount, tax |-> tax,
   parent |-> parent, reverses |-> NoRef, date |-> d, source |-> "night"]
RoomLine(n, f, d, r) == NightLine(n, f, d, "charge", "CHARGE", r, 0, NoRef)
RoomTax(n, f, d, r, t) ==
  NightLine(n, f, d, t.name, "TAX", TaxFromBps(r, t), TaxFromBps(r, t), <<n, f, "charge">>)
NightPosting(n, f, d, r) == {RoomLine(n, f, d, r)} \cup {RoomTax(n, f, d, r, t) : t \in taxes}

NightOf(f, d) == {l \in lines : l.folio = f /\ l.source = "night" /\ l.date = d}

\* One posting, at a rate the date has had.
ChargedAt(f, d, r) == r \in loaded[d] /\ \E n \in Nat : NightOf(f, d) = NightPosting(n, f, d, r)

Nightly ==
  \A f \in Folios, d \in Dates :
    NightOf(f, d) # {} => (\E r \in Nat : ChargedAt(f, d, r)) /\ MayRewriteLines

\* A step that posts nothing of the night's.
LEMMA NightsRest ==
  ASSUME Nightly, UNCHANGED taxes, lines \subseteq lines', \A d \in Dates : loaded[d] \subseteq loaded'[d],
         \A l \in lines' \ lines : l.source # "night"
  PROVE  Nightly'
<1>1. ASSUME NEW f, NEW d PROVE NightOf(f, d)' = NightOf(f, d)
  BY DEF NightOf
<1>2. ASSUME NEW n, NEW f, NEW d, NEW r PROVE NightPosting(n, f, d, r)' = NightPosting(n, f, d, r)
  BY DEF NightPosting, RoomLine, RoomTax, NightLine
<1>3. MayRewriteLines' <=> MayRewriteLines
  BY DEF MayRewriteLines
<1>4. ASSUME NEW f, NEW d \in Dates, NEW r, ChargedAt(f, d, r) PROVE ChargedAt(f, d, r)'
  BY <1>1, <1>2, <1>4 DEF ChargedAt
<1> QED BY <1>1, <1>3, <1>4 DEF Nightly

\* What the audit posts on one folio.
LEMMA NightLinesArePosting ==
  ASSUME MayRewriteLines, taxes \in TaxTables, GridTyped, NEW d \in Dates, NEW f \in Folios
  PROVE  NightLines(f, d) = NightPosting(postings + 1, f, d, ratePrices[d])
<1> DEFINE g == ratePrices[d]
           n == postings + 1
<1>1. g \in Int
  BY DEF GridTyped
<1>2. CarvedOut(taxes, g) = 0
  <2> DEFINE A == {t \in taxes : t.type = "INCLUSIVE"}
             a == [t \in A |-> TaxFromBps(g, t)]
  <2>1. A = {}
    BY DEF MayRewriteLines
  <2>2. CarvedOut(taxes, g) = SumFunction(a) /\ DOMAIN a = A
    BY DEF CarvedOut
  <2> HIDE DEF a, A
  <2>3. SumFunction(a) = SumFunctionOnSet(a, {})
    BY <2>1, <2>2 DEF SumFunction
  <2> QED BY <2>2, <2>3, SumStep, FS_EmptySet
<1> HIDE DEF g
<1>3. Line(d, f, "charge", "CHARGE", g - CarvedOut(taxes, g), 0, NoRef, NoRef, "night") = RoomLine(n, f, d, g)
  <2>1. g - CarvedOut(taxes, g) = g
    BY <1>1, <1>2
  <2> QED BY <2>1 DEF Line, RoomLine, NightLine
<1>4. ASSUME NEW t
      PROVE  LET amount == TaxFromBps(g, t)
             IN  Line(d, f, t.name, "TAX", amount, amount, <<postings + 1, f, "charge">>, NoRef, "night")
                   = RoomTax(n, f, d, g, t)
  BY DEF Line, RoomTax, NightLine
<1>5. NightLines(f, d) = TaxedCharge(d, f, g, taxes, "night")
  BY DEF NightLines, g
<1> HIDE DEF n
<1>6. NightLines(f, d) = NightPosting(n, f, d, g)
  BY <1>3, <1>4, <1>5 DEF TaxedCharge, NightPosting
<1> QED BY <1>6 DEF n, g

LEMMA NightsPosted ==
  ASSUME Nightly, GridTyped, LinesNumbered, RequestsTyped, NEW s \in Sessions, RoomChargesCommit(s)
  PROVE  Nightly'
<1> DEFINE day == tx[s].day
           due == {f \in tx[s].staying : RoomChargeFor(f, day) = {}}
           new == UNION {NightLines(f, day) : f \in due}
           n == postings + 1
           rate == ratePrices[day]
<1>1. lines' = lines \cup new /\ UNCHANGED <<taxes, loaded>> /\ MayRewriteLines
  BY DEF RoomChargesCommit, Post, grid
<1>2. day \in Dates /\ due \subseteq Folios /\ taxes \in TaxTables
  BY DEF RoomChargesCommit, RequestsTyped, TxOf
<1>3. n \in Nat /\ rate \in Nat /\ rate \in loaded[day]
  BY <1>2 DEF LinesNumbered, GridTyped
<1>4. \A f \in due : NightLines(f, day) = NightPosting(n, f, day, rate)
  <2> HIDE DEF due, day
  <2> QED BY <1>1, <1>2, NightLinesArePosting
<1> HIDE DEF rate
<1>5. \A f \in Folios : \A l \in NightPosting(n, f, day, rate) :
        l.folio = f /\ l.source = "night" /\ l.date = day
  BY DEF NightPosting, RoomLine, RoomTax, NightLine
<1>6. \A f \in due : NightOf(f, day) = {}
  <2> SUFFICES ASSUME NEW f \in due, NightOf(f, day) # {} PROVE FALSE
    OBVIOUS
  <2>1. f \in Folios /\ RoomChargeFor(f, day) = {}
    BY <1>2
  <2>2. PICK m \in Nat, r \in Nat : NightOf(f, day) = NightPosting(m, f, day, r)
    BY <1>2, <2>1 DEF Nightly, ChargedAt
  <2>3. RoomLine(m, f, day, r) \in NightOf(f, day)
    BY <2>2 DEF NightPosting
  <2>4. RoomLine(m, f, day, r).type = "CHARGE"
    BY DEF RoomLine, NightLine
  <2>5. RoomLine(m, f, day, r) \in RoomChargeFor(f, day)
    BY <2>3, <2>4 DEF NightOf, RoomChargeFor, On
  <2> QED BY <2>1, <2>5
<1>7. \A l \in new : \E f \in due : l \in NightPosting(n, f, day, rate)
  <2> HIDE DEF due, n, day
  <2> QED BY <1>4
<1>8. \A f \in due : NightPosting(n, f, day, rate) \subseteq new
  <2> HIDE DEF due, n, day
  <2> QED BY <1>4
<1> HIDE DEF due, new, n, day
<1>9. ASSUME NEW f \in Folios, NEW d \in Dates
      PROVE  NightOf(f, d)' = IF f \in due /\ d = day THEN NightPosting(n, f, d, rate) ELSE NightOf(f, d)
  <2>1. \A l \in new : l.folio = f /\ l.date = d =>
          f \in due /\ d = day /\ l \in NightPosting(n, f, d, rate)
    BY <1>2, <1>5, <1>7
  <2>2. CASE f \in due /\ d = day
    <3>1. NightOf(f, d) = {} /\ NightPosting(n, f, d, rate) \subseteq new
          /\ \A l \in NightPosting(n, f, d, rate) : l.folio = f /\ l.source = "night" /\ l.date = d
      BY <1>5, <1>6, <1>8, <2>2
    <3>2. NightOf(f, d)' = NightPosting(n, f, d, rate)
      BY <1>1, <2>1, <3>1 DEF NightOf
    <3> QED BY <2>2, <3>2
  <2>3. CASE ~(f \in due /\ d = day)
    <3>1. NightOf(f, d)' = NightOf(f, d)
      BY <1>1, <2>1, <2>3 DEF NightOf
    <3> QED BY <2>3, <3>1
  <2> QED BY <2>2, <2>3
<1>10. \A m, f, d, r : NightPosting(m, f, d, r)' = NightPosting(m, f, d, r)
  BY <1>1 DEF NightPosting, RoomLine, RoomTax, NightLine
<1>11. MayRewriteLines'
  BY <1>1 DEF MayRewriteLines
<1>13. PICK m \in Nat, k \in Nat, e \in Dates : m = n /\ k = rate /\ e = day
  BY <1>2, <1>3
<1>12. ASSUME NEW f \in Folios, NEW d \in Dates, NightOf(f, d)' # {}
       PROVE  \E r \in Nat : ChargedAt(f, d, r)'
  <2>1. CASE f \in due /\ d = day
    <3>1. NightOf(f, d)' = NightPosting(m, f, d, k) /\ k \in loaded[d]
      BY <1>3, <1>9, <1>13, <2>1
    <3>2. NightOf(f, d)' = NightPosting(m, f, d, k)' /\ k \in loaded'[d]
      BY <1>1, <1>10, <3>1
    <3>3. ChargedAt(f, d, k)'
      BY <3>2 DEF ChargedAt
    <3> QED BY <3>3
  <2>2. CASE ~(f \in due /\ d = day)
    <3>1. NightOf(f, d)' = NightOf(f, d) /\ NightOf(f, d) # {}
      BY <1>9, <1>12, <2>2
    <3>2. PICK r \in Nat : ChargedAt(f, d, r)
      BY <3>1 DEF Nightly
    <3>3. ChargedAt(f, d, r)'
      BY <1>1, <1>10, <3>1, <3>2 DEF ChargedAt
    <3> QED BY <3>3
  <2> QED BY <2>1, <2>2
<1> QED BY <1>11, <1>12 DEF Nightly

LEMMA NightlyNext == PosInv /\ Typed /\ Nightly /\ [Next]_vars => Nightly'
<1> SUFFICES ASSUME PosInv, Typed, Nightly, [Next]_vars PROVE Nightly'
  OBVIOUS
<1>1. LedgerInv /\ RequestsTyped /\ LinesNumbered /\ LinesTyped /\ GridTyped
  BY DEF PosInv, LedgerInv, Typed
<1>2. taxes \in TaxTables /\ inHouse \subseteq Folios /\ "night" \notin Orders
  BY <1>1, OrdersAssumption DEF RequestsTyped
<1>3. ASSUME UNCHANGED <<taxes, lines, loaded>> PROVE Nightly'
  BY <1>3, NightsRest
<1>4. ASSUME NEW new, Post(new), UNCHANGED <<taxes, loaded>>, \A l \in new : l.source # "night" PROVE Nightly'
  BY <1>4, NightsRest DEF Post
<1>5. ASSUME NEW f \in Folios, NEW gross, NEW source, source # "night", UNCHANGED <<taxes, loaded>>,
             Post(ChargeLines(f, gross, source))
      PROVE  Nightly'
  <2> DEFINE new == ChargeLines(f, gross, source)
  <2>1. \A l \in new : l.source = source
    BY <1>1, ChargeIsPostable
  <2>2. Post(new)
    BY <1>5
  <2> HIDE DEF new
  <2> QED BY <1>4, <1>5, <2>1, <2>2
<1>6. CASE PosNext
  <2>1. ASSUME NEW o \in Orders, OpenOrder(o) \/ VoidOrder(o) PROVE Nightly'
    BY <1>3, <2>1 DEF OpenOrder, VoidOrder, ledgerVars, ledger, grid
  <2>2. ASSUME NEW o \in Orders, NEW price, NEW quantity, AddLine(o, price, quantity) PROVE Nightly'
    BY <1>3, <2>2 DEF AddLine, ledgerVars, ledger, grid
  <2>3. ASSUME NEW o \in Orders, NEW i, RemoveLine(o, i) PROVE Nightly'
    BY <1>3, <2>3 DEF RemoveLine, ledgerVars, ledger, grid
  <2>4. ASSUME NEW s \in Sessions, NEW o \in Orders, NEW k \in Rooms, ChargeToRoomRead(s, o, k)
        PROVE  Nightly'
    BY <1>3, <2>4 DEF ChargeToRoomRead, ledger, grid
  <2>5. ASSUME NEW s \in Sessions, ChargeToRoomCommit(s) PROVE Nightly'
    <3> DEFINE o == tx[s].order
               f == tx[s].folio
               subtotal == SubtotalOf(order[o].lines)
    <3>1. Post(ChargeLines(f, subtotal, o)) /\ UNCHANGED <<taxes, loaded>> /\ tx[s].op = "toRoom"
      BY <2>5 DEF ChargeToRoomCommit, grid
    <3>2. o \in Orders /\ f \in Folios
      BY <1>1, <3>1 DEF RequestsTyped
    <3> HIDE DEF o, f, subtotal
    <3> QED BY <1>2, <1>5, <3>1, <3>2
  <2> QED BY <1>6, <2>1, <2>2, <2>3, <2>4, <2>5 DEF PosNext
<1>7. CASE LedgerNext
  <2>1. ASSUME NEW f \in Folios, NEW a \in Amounts, PostCharge(f, a) PROVE Nightly'
    BY <1>5, <2>1 DEF PostCharge, grid
  <2>2. ASSUME NEW f \in Folios, PostPayment(f) PROVE Nightly'
    <3> DEFINE new == {Payment(f, Balance(f))}
    <3>1. Post(new) /\ UNCHANGED <<taxes, loaded>>
      BY <2>2 DEF PostPayment, grid
    <3>2. \A l \in new : l.source = "folio"
      BY DEF Payment, Line
    <3> HIDE DEF new
    <3> QED BY <1>4, <3>1, <3>2
  <2>3. ASSUME NEW s \in Sessions, VoidLineCommit(s) PROVE Nightly'
    <3> DEFINE new == {Reversal(l) : l \in WithChildren(tx[s].line)}
    <3>1. Post(new) /\ UNCHANGED <<taxes, loaded>>
      BY <2>3 DEF VoidLineCommit, grid
    <3>2. \A l \in new : l.source = "folio"
      BY DEF Reversal, Line
    <3> HIDE DEF new
    <3> QED BY <1>4, <3>1, <3>2
  <2>4. ASSUME NEW s \in Sessions, RoomChargesCommit(s) PROVE Nightly'
    BY <1>1, <2>4, NightsPosted
  <2>5. ASSUME NEW s \in Sessions, NEW l \in lines, VoidLineRead(s, l) PROVE Nightly'
    BY <1>3, <2>5 DEF VoidLineRead, ledger, grid
  <2>6. ASSUME AdvanceBusinessDate PROVE Nightly'
    BY <1>3, <2>6 DEF AdvanceBusinessDate, ledger, grid
  <2>7. ASSUME NEW s \in Sessions, NEW f \in Folios, CheckOutRead(s, f) PROVE Nightly'
    BY <1>3, <2>7 DEF CheckOutRead, ledger, grid
  <2>8. ASSUME NEW s \in Sessions, CheckOutCommit(s) \/ Rollback(s) PROVE Nightly'
    BY <1>3, <2>8 DEF CheckOutCommit, Rollback, ledger, grid
  <2>9. ASSUME NEW s \in Sessions, NEW d, RoomChargesRead(s, d) PROVE Nightly'
    BY <1>3, <2>9 DEF RoomChargesRead, ledger, grid
  <2>10. ASSUME NEW f, NEW d, ModifyDates(f, d) PROVE Nightly'
    BY <1>3, <2>10 DEF ModifyDates, ledger
  <2>11. ASSUME NEW d \in Dates, NEW rate, SetRatePrices(d, rate) PROVE Nightly'
    <3>1. UNCHANGED <<taxes, lines>> /\ loaded' = [loaded EXCEPT ![d] = loaded[d] \cup {rate}]
      BY <2>11 DEF SetRatePrices, ledger
    <3>2. \A e \in Dates : loaded[e] \subseteq loaded'[e]
      BY <1>1, <3>1 DEF GridTyped
    <3> QED BY <3>1, <3>2, NightsRest
  <2> QED BY <1>7, <2>1, <2>2, <2>3, <2>4, <2>5, <2>6, <2>7, <2>8, <2>9, <2>10, <2>11 DEF LedgerNext
<1>8. CASE UNCHANGED vars
  BY <1>3, <1>8 DEF vars, ledgerVars, ledger, grid
<1> QED BY <1>6, <1>7, <1>8 DEF Next

LEMMA BillsAlways == Spec => [](PosInv /\ Typed /\ Nightly)
<1>1. Init => PosInv /\ Typed /\ Nightly
  <2>1. Init => Nightly
    BY DEF Init, LedgerInit, Nightly, NightOf
  <2> QED BY <2>1, PosInitial, TypesInitial
<1>2. (PosInv /\ Typed /\ Nightly) /\ [Next]_vars => (PosInv /\ Typed /\ Nightly)'
  BY PosNextStep, TypesNext, NightlyNext
<1> QED BY <1>1, <1>2, PTL DEF Spec

\* What a night comes to.
LEMMA NightComesTo ==
  ASSUME taxes \in TaxTables, MayRewriteLines, NEW f \in Folios, NEW d \in Dates, NEW n \in Nat,
         NEW p \in Nat, NightOf(f, d) = NightPosting(n, f, d, p),
         NEW amt, amt = [l \in lines |-> l.amount]
  PROVE  /\ IsFiniteSet(NightOf(f, d))
         /\ SumFunctionOnSet(amt, NightOf(f, d)) = p + OnTop(taxes, p)
<1> DEFINE room == RoomLine(n, f, d, p)
           g == [t \in taxes |-> RoomTax(n, f, d, p, t)]
           a == [t \in taxes |-> TaxFromBps(p, t)]
           T == {g[t] : t \in taxes}
<1>1. /\ taxes \in SUBSET Tax /\ IsFiniteSet(taxes) /\ (\A t \in taxes : t.type = "EXCLUSIVE")
      /\ \A t, u \in taxes : t.name # "charge" /\ (t.name = u.name => t = u)
  BY TablesAreFinite, TaxesAssumption DEF MayRewriteLines
<1>2. p \in Int
  OBVIOUS
<1>3. NightOf(f, d) = {room} \cup T /\ NightOf(f, d) \subseteq lines
  <2>1. NightPosting(n, f, d, p) = {room} \cup T
    BY DEF NightPosting
  <2> QED BY <2>1 DEF NightOf
<1>4. room.id = <<n, f, "charge">> /\ room.amount = p
  BY DEF RoomLine, NightLine
<1>5. \A t \in taxes : g[t].id = <<n, f, t.name>> /\ g[t].amount = TaxFromBps(p, t)
  BY DEF RoomTax, NightLine
<1> HIDE DEF room, g
<1>6. amt[room] = p /\ \A t \in taxes : a[t] \in Int /\ a[t] = amt[g[t]]
  <2>1. room \in lines /\ \A t \in taxes : g[t] \in lines
    BY <1>3
  <2>2. \A t \in taxes : a[t] = TaxFromBps(p, t) /\ a[t] \in Int
    BY <1>1, <1>2, TaxIsInt
  <2> HIDE DEF a
  <2> QED BY <1>4, <1>5, <2>1, <2>2
<1>7. \A t, u \in taxes : g[t] = g[u] => t = u
  BY <1>1, <1>5
<1>8. room \notin T
  <2>1. \A t \in taxes : room # g[t]
    <3> SUFFICES ASSUME NEW t \in taxes, room = g[t] PROVE FALSE
      OBVIOUS
    <3>1. room.id[3] = "charge" /\ g[t].id[3] = t.name
      BY <1>4, <1>5
    <3> QED BY <1>1, <3>1
  <2> QED BY <2>1
<1>9. SumFunctionOnSet(a, taxes) = OnTop(taxes, p)
  BY <1>1, <1>2, OnTopAdds
<1> HIDE DEF a
<1>10. SumFunctionOnSet(amt, T) = SumFunctionOnSet(a, taxes) /\ IsFiniteSet(T)
  <2>1. IsFiniteSet(taxes) /\ \A t \in taxes : a[t] \in Int /\ a[t] = amt[g[t]]
    BY <1>1, <1>6
  <2>2. T = {g[t] : t \in taxes}
    OBVIOUS
  <2> HIDE DEF T
  <2> QED BY <1>7, <2>1, <2>2, SumImage
<1>11. \A l \in T : amt[l] \in Int
  BY <1>6
<1> HIDE DEF T
<1>12. SumFunctionOnSet(amt, T \cup {room}) = amt[room] + SumFunctionOnSet(amt, T)
  BY <1>2, <1>6, <1>8, <1>10, <1>11, SumAdd
<1>13. NightOf(f, d) = T \cup {room} /\ IsFiniteSet(T \cup {room})
  BY <1>3, <1>10, FS_AddElement
<1> QED BY <1>6, <1>9, <1>10, <1>12, <1>13

\* What the charged nights come to.
LEMMA NightsComeTo ==
  ASSUME Typed, taxes \in TaxTables, MayRewriteLines, NEW f \in Folios,
         NEW D \in SUBSET Dates, IsFiniteSet(D), NEW rate \in [D -> Nat],
         \A d \in D : ChargedAt(f, d, rate[d]),
         NEW amt, amt = [l \in lines |-> l.amount]
  PROVE  SumFunctionOnSet(amt, {l \in lines : l.folio = f /\ l.source = "night" /\ l.date \in D})
           = SumFunctionOnSet([d \in D |-> rate[d] + OnTop(taxes, rate[d])], D)
<1> DEFINE On_(E) == {l \in lines : l.folio = f /\ l.source = "night" /\ l.date \in E}
           h == [d \in D |-> rate[d] + OnTop(taxes, rate[d])]
           P == {E \in SUBSET D : SumFunctionOnSet(amt, On_(E)) = SumFunctionOnSet(h, E)}
<1>1. \A d \in D : h[d] \in Int
  <2>1. taxes \in SUBSET Tax /\ IsFiniteSet(taxes)
    BY TablesAreFinite
  <2>2. ASSUME NEW d \in D PROVE rate[d] \in Int /\ OnTop(taxes, rate[d]) \in Int
    <3>1. rate[d] \in Int
      OBVIOUS
    <3> QED BY <2>1, <3>1, CarvedOutIsInt
  <2> QED BY <2>2
<1>2. \A l \in lines : amt[l] \in Int
  BY DEF Typed, LinesTyped, LineTyped
<1>3. IsFiniteSet(lines)
  BY DEF Typed, LinesTyped
<1>4. P \in SUBSET SUBSET D
  OBVIOUS
<1>5. {} \in P
  <2>1. On_({}) = {}
    OBVIOUS
  <2>2. \A k : SumFunctionOnSet(k, {}) = 0
    BY SumStep, FS_EmptySet
  <2> HIDE DEF h, On_
  <2> QED BY <2>1, <2>2
<1>6. ASSUME NEW E \in P, NEW d \in D, d \notin E PROVE E \cup {d} \in P
  <2> DEFINE A == On_(E)
             B == NightOf(f, d)
  <2>1. On_(E \cup {d}) = A \cup B /\ A \cap B = {} /\ A \subseteq lines /\ B \subseteq lines
    BY <1>6 DEF NightOf
  <2>2. IsFiniteSet(A) /\ IsFiniteSet(B)
    BY <1>3, <2>1, FS_Subset
  <2>3. SumFunctionOnSet(amt, B) = h[d]
    <3>1. PICK n \in Nat : NightOf(f, d) = NightPosting(n, f, d, rate[d])
      BY DEF ChargedAt
    <3>2. SumFunctionOnSet(amt, NightOf(f, d)) = rate[d] + OnTop(taxes, rate[d])
      BY <3>1, NightComesTo
    <3> QED BY <3>2
  <2>4. SumFunctionOnSet(amt, A) = SumFunctionOnSet(h, E) /\ E \in SUBSET D /\ E \cup {d} \in SUBSET D
    OBVIOUS
  <2>5. IsFiniteSet(E)
    BY <2>4, FS_Subset
  <2> HIDE DEF A, B, h
  <2>6. SumFunctionOnSet(amt, A \cup B) = SumFunctionOnSet(amt, A) + SumFunctionOnSet(amt, B)
    <3>1. \A x \in A \cup B : amt[x] \in Int
      BY <1>2, <2>1
    <3> QED BY <2>1, <2>2, <3>1, SumUnion
  <2>7. SumFunctionOnSet(h, E \cup {d}) = h[d] + SumFunctionOnSet(h, E)
    BY <1>1, <1>6, <2>4, <2>5, SumAdd
  <2>8. SumFunctionOnSet(h, E) \in Int /\ h[d] \in Int
    BY <1>1, <2>4, <2>5, SumOut
  <2> HIDE DEF On_
  <2>9. SumFunctionOnSet(amt, On_(E \cup {d})) = SumFunctionOnSet(amt, A \cup B)
    BY <2>1
  <2>10. SumFunctionOnSet(amt, On_(E \cup {d})) = SumFunctionOnSet(h, E \cup {d})
    BY <2>3, <2>4, <2>6, <2>7, <2>8, <2>9
  <2> QED BY <2>4, <2>10
<1>7. P = SUBSET D
  <2> HIDE DEF P
  <2> QED BY <1>4, <1>5, <1>6, BySubsets
<1> QED BY <1>7

LEMMA BillIsClose ==
  ASSUME PosInv, Typed, Nightly, NEW f \in Folios,
         NEW D, D = NightsCharged(f), NEW p \in [D -> Nat], \A d \in D : ChargedAt(f, d, p[d]),
         NEW subtotal, subtotal = SumFunctionOnSet(p, D),
         NEW gap, gap = SumOf(NightLinesOf(f)) - QuoteTotal(taxes, subtotal),
         NEW slack, slack = (Cardinality(D) + 1) * Cardinality(taxes)
  PROVE  2 * gap <= slack /\ -2 * gap <= slack
<1> DEFINE L == NightLinesOf(f)
           amt == [l \in lines |-> l.amount]
           O == [d \in D |-> OnTop(taxes, p[d])]
           h == [d \in D |-> p[d] + OnTop(taxes, p[d])]
<1>1. taxes \in TaxTables /\ taxes \in SUBSET Tax /\ IsFiniteSet(taxes)
  BY TablesAreFinite DEF PosInv, LedgerInv, RequestsTyped
<1>2. D \in SUBSET Dates
  BY DEF NightsCharged, NightLinesOf, On, Typed, LinesTyped, LineTyped
<1>3. IsFiniteSet(D)
  <2>1. IsFiniteSet(Dates)
    BY FoliosAssumption, FS_Interval DEF Dates
  <2> QED BY <1>2, <2>1, FS_Subset
<1>4. \A d \in D : NightOf(f, d) # {} /\ p[d] \in Int
  BY DEF NightOf, NightsCharged, NightLinesOf, On
<1>5. L = {l \in lines : l.folio = f /\ l.source = "night" /\ l.date \in D} /\ L \subseteq lines
  <2>1. ASSUME NEW l \in lines, l.folio = f, l.source = "night" PROVE l.date \in D
    <3> DEFINE d == l.date
    <3>1. l \in NightOf(f, d) /\ d \in Dates
      BY <2>1 DEF NightOf, Typed, LinesTyped, LineTyped
    <3> HIDE DEF d
    <3>2. PICK n \in Nat, r \in Nat : NightOf(f, d) = NightPosting(n, f, d, r)
      BY <3>1 DEF Nightly, ChargedAt
    <3>3. RoomLine(n, f, d, r) \in NightOf(f, d)
      BY <3>2 DEF NightPosting
    <3>4. RoomLine(n, f, d, r).type = "CHARGE" /\ RoomLine(n, f, d, r).date = d
      BY DEF RoomLine, NightLine
    <3>5. RoomLine(n, f, d, r) \in {k \in NightLinesOf(f) : k.type = "CHARGE"}
      BY <3>3, <3>4 DEF NightOf, NightLinesOf, On
    <3>6. d \in D
      BY <3>4, <3>5 DEF NightsCharged
    <3> QED BY <3>6 DEF d
  <2> QED BY <2>1 DEF NightLinesOf, On
<1>6. SumOf(L) = SumFunctionOnSet(amt, L)
  <2> DEFINE g == [l \in L |-> l.amount]
  <2>1. SumOf(L) = SumFunctionOnSet(g, L)
    BY DEF SumOf, SumFunction
  <2>2. \A l \in L : g[l] \in Int /\ g[l] = amt[l]
    BY <1>5 DEF Typed, LinesTyped, LineTyped
  <2>3. IsFiniteSet(L)
    BY <1>5, FS_Subset DEF Typed, LinesTyped
  <2> HIDE DEF g, L, amt
  <2> QED BY <2>1, <2>2, <2>3, SumSame
<1>7. subtotal = SumFunctionOnSet(p, D)
  OBVIOUS
<1>8. CASE D = {}
  <2>1. SumOf(L) = 0
    <3>1. L = {}
      BY <1>5, <1>8
    <3> HIDE DEF amt, L
    <3> QED BY <1>6, <3>1, SumStep, FS_EmptySet
  <2>2. subtotal = 0
    <3> QED BY <1>7, <1>8, SumStep, FS_EmptySet
  <2>3. OnTop(taxes, 0) = 0
    <3> DEFINE T == {t \in taxes : t.type = "EXCLUSIVE"}
               z == [t \in T |-> TaxFromBps(0, t)]
    <3>1. OnTop(taxes, 0) = SumFunctionOnSet(z, T)
      BY DEF OnTop, SumFunction
    <3>2. \A t \in T : z[t] = 0
      <4> SUFFICES ASSUME NEW t \in T PROVE TaxFromBps(0, t) = 0
        OBVIOUS
      <4>1. t.rateBps \in Nat /\ 0 * t.rateBps = 0 /\ t.type = "EXCLUSIVE"
        BY <1>1 DEF Tax
      <4>2. RoundedDiv(0, 10000) = 0
        BY DEF RoundedDiv
      <4> QED BY <4>1, <4>2 DEF TaxFromBps
    <3>3. IsFiniteSet(T)
      BY <1>1, FS_Subset
    <3> HIDE DEF z, T
    <3> DEFINE P == {S \in SUBSET T : SumFunctionOnSet(z, S) = 0}
    <3>4. P \in SUBSET SUBSET T
      OBVIOUS
    <3>5. {} \in P
      BY SumStep, FS_EmptySet
    <3>6. ASSUME NEW S \in P, NEW t \in T, t \notin S PROVE S \cup {t} \in P
      <4>1. IsFiniteSet(S) /\ \A u \in S : z[u] \in Int
        BY <3>2, <3>3, FS_Subset
      <4>2. SumFunctionOnSet(z, S \cup {t}) = z[t] + SumFunctionOnSet(z, S)
        BY <3>2, <3>6, <4>1, SumAdd
      <4> QED BY <3>2, <4>2
    <3> HIDE DEF P
    <3>7. P = SUBSET T
      BY <3>3, <3>4, <3>5, <3>6, BySubsets
    <3> QED BY <3>1, <3>7 DEF P
  <2>4. gap = 0
    BY <2>1, <2>2, <2>3 DEF QuoteTotal
  <2>5. slack \in Nat
    <3>1. Cardinality(D) \in Nat /\ Cardinality(taxes) \in Nat
      BY <1>1, <1>3, FS_CardinalityType
    <3>2. \A m, n \in Nat : (m + 1) * n \in Nat
      OBVIOUS
    <3> QED BY <3>1, <3>2
  <2> QED BY <2>4, <2>5
<1>9. CASE D # {}
  <2>1. MayRewriteLines /\ \A t \in taxes : t.type = "EXCLUSIVE"
    <3>1. PICK d \in D : TRUE
      BY <1>9
    <3> QED BY <1>2, <1>4, <3>1 DEF Nightly, MayRewriteLines
  <2>2. SumFunctionOnSet(amt, {l \in lines : l.folio = f /\ l.source = "night" /\ l.date \in D})
          = SumFunctionOnSet(h, D)
    BY <1>1, <1>2, <1>3, <2>1, NightsComeTo
  <2>3. SumOf(L) = SumFunctionOnSet(h, D)
    BY <1>5, <1>6, <2>2
  <2>4. \A d \in D : p[d] \in Int /\ O[d] \in Int /\ h[d] = p[d] + O[d]
    BY <1>1, <1>4, CarvedOutIsInt
  <2>5. p \in [D -> Int]
    BY <1>4
  <2>6. LET each == SumFunctionOnSet(O, D)
            once == OnTop(taxes, SumFunctionOnSet(p, D))
            room == (Cardinality(D) + 1) * Cardinality(taxes)
        IN  /\ each \in Int /\ once \in Int /\ room \in Int
            /\ 2 * (each - once) <= room /\ 2 * (once - each) <= room
    BY <1>1, <1>3, <2>1, <2>5, QuoteIsClose
  <2> HIDE DEF h, O, amt, L
  <2>7. SumFunctionOnSet(h, D) = SumFunctionOnSet(p, D) + SumFunctionOnSet(O, D)
    BY <1>3, <2>4, SumLinear
  <2>8. subtotal \in Int
    BY <1>3, <1>7, <2>4, SumOut
  <2>9. gap = (subtotal + SumFunctionOnSet(O, D)) - (subtotal + OnTop(taxes, subtotal))
    BY <1>7, <2>3, <2>7 DEF QuoteTotal, L
  <2>10. slack = (Cardinality(D) + 1) * Cardinality(taxes)
    OBVIOUS
  <2> DEFINE each == SumFunctionOnSet(O, D)
             once == OnTop(taxes, subtotal)
  <2>11. /\ each \in Int /\ once \in Int /\ slack \in Int
         /\ 2 * (each - once) <= slack /\ 2 * (once - each) <= slack
    BY <1>7, <2>6, <2>10
  <2> HIDE DEF each, once
  <2>12. gap = each - once
    BY <2>8, <2>9, <2>11 DEF each, once
  <2> QED BY <2>11, <2>12
<1> QED BY <1>8, <1>9

\* The audit charges a night once, whole and at a rate its date has had, and
\* nothing touches those lines afterwards; each rounding of a tax is off by half a
\* unit at most: the nights on a bill and a quote of them differ by at most half a
\* unit per tax for every night and once for the quote, for any rates and changes
\* of them, any tax table and number of concurrent charging calls.
THEOREM BillsFollowQuotes == Spec => []BillFollowsQuote
<1>1. ASSUME PosInv, Typed, Nightly PROVE BillFollowsQuote
  <2> SUFFICES ASSUME NEW f \in Folios, NEW D, D = NightsCharged(f)
               PROVE  \E rate \in [D -> UNION {loaded[d] : d \in D}] :
                        LET gap == SumOf(NightLinesOf(f)) - QuoteTotal(taxes, SumFunction(rate))
                            slack == (Cardinality(D) + 1) * Cardinality(taxes)
                        IN  /\ \A d \in D : rate[d] \in loaded[d]
                            /\ 2 * gap <= slack /\ -2 * gap <= slack
    BY DEF BillFollowsQuote
  <2>0. D = NightsCharged(f)
    OBVIOUS
  <2>1. ASSUME NEW d \in D PROVE \E r \in Nat : ChargedAt(f, d, r)
    <3>1. NightOf(f, d) # {} /\ d \in Dates
      BY <1>1, <2>0 DEF NightsCharged, NightLinesOf, On, NightOf, Typed, LinesTyped, LineTyped
    <3> QED BY <1>1, <3>1 DEF Nightly
  <2> DEFINE rate == [d \in D |-> CHOOSE r \in Nat : ChargedAt(f, d, r)]
             total == SumFunctionOnSet(rate, D)
  <2>2. rate \in [D -> Nat] /\ \A d \in D : ChargedAt(f, d, rate[d])
    BY <2>1
  <2>3. SumFunction(rate) = total
    BY DEF SumFunction
  <2> HIDE DEF rate
  <2>4. /\ rate \in [D -> UNION {loaded[d] : d \in D}]
        /\ \A d \in D : rate[d] \in loaded[d]
    BY <2>2 DEF ChargedAt
  <2> DEFINE gap == SumOf(NightLinesOf(f)) - QuoteTotal(taxes, total)
             slack == (Cardinality(D) + 1) * Cardinality(taxes)
  <2>5. 2 * gap <= slack /\ -2 * gap <= slack
    <3> HIDE DEF total
    <3> QED BY <1>1, <2>2, BillIsClose DEF total
  <2> QED BY <2>3, <2>4, <2>5
<1> QED BY <1>1, BillsAlways, PTL

-----------------------------------------------------------------------------
(* Splitting an amount.                                                    *)

\* The first k parts: the larger ones come first.
LEMMA FirstParts ==
  ASSUME NEW parts \in Nat \ {0}, NEW base \in Int, NEW left \in 0 .. parts,
         NEW f \in [1 .. parts -> Int],
         \A i \in 1 .. parts : f[i] = IF i <= left THEN base + 1 ELSE base
  PROVE  \A k \in 0 .. parts :
           SumFunctionOnSet(f, 1 .. k) = k * base + IF k <= left THEN k ELSE left
<1> DEFINE Part(k) == SumFunctionOnSet(f, 1 .. k) = k * base + IF k <= left THEN k ELSE left
           P == {k \in Nat : k <= parts => Part(k)}
<1>1. 0 \in P
  <2>1. 1 .. 0 = {}
    OBVIOUS
  <2>2. SumFunctionOnSet(f, 1 .. 0) = 0
    BY <2>1, SumStep, FS_EmptySet
  <2> QED BY <2>2
<1>2. ASSUME NEW k \in P PROVE k + 1 \in P
  <2> SUFFICES ASSUME k + 1 <= parts PROVE Part(k + 1)
    OBVIOUS
  <2> DEFINE sum == SumFunctionOnSet(f, 1 .. k)
             kb == k * base
  <2>1. /\ k \in Nat /\ k <= parts /\ 1 .. (k + 1) = (1 .. k) \cup {k + 1}
        /\ k + 1 \notin 1 .. k /\ k + 1 \in 1 .. parts
    OBVIOUS
  <2>2. IsFiniteSet(1 .. k)
    BY FS_Interval
  <2>3. \A i \in 1 .. k : f[i] \in Int
    <3>1. \A i \in 1 .. k : i \in 1 .. parts
      BY <2>1
    <3> QED BY <3>1
  <2>4. f[k + 1] = (IF k + 1 <= left THEN base + 1 ELSE base) /\ f[k + 1] \in Int
    BY <2>1
  <2>5. SumFunctionOnSet(f, 1 .. (k + 1)) = f[k + 1] + sum
    BY <2>1, <2>2, <2>3, <2>4, SumAdd
  <2>6. sum = kb + IF k <= left THEN k ELSE left
    BY <2>1
  <2>7. kb \in Int /\ (k + 1) * base = kb + base
    BY <2>1
  <2> HIDE DEF sum, kb
  <2> QED BY <2>1, <2>4, <2>5, <2>6, <2>7
<1>3. P \in SUBSET Nat
  OBVIOUS
<1> HIDE DEF P
<1>4. P = Nat
  BY <1>1, <1>2, <1>3, ByNaturals
<1> SUFFICES ASSUME NEW k \in 0 .. parts PROVE Part(k)
  OBVIOUS
<1>5. k \in Nat /\ k <= parts /\ k \in P
  BY <1>4
<1> HIDE DEF Part
<1> QED BY <1>5 DEF P

\* Negating every part negates the sum.
LEMMA SumNegates ==
  ASSUME NEW S, IsFiniteSet(S), NEW f, NEW g, \A x \in S : f[x] \in Int /\ g[x] = -f[x]
  PROVE  SumFunctionOnSet(g, S) = -SumFunctionOnSet(f, S)
<1> DEFINE zero == [x \in S |-> 0]
           P == {T \in SUBSET S : SumFunctionOnSet(zero, T) = 0}
<1>1. {} \in P
  BY SumStep, FS_EmptySet
<1>2. ASSUME NEW T \in P, NEW x \in S, x \notin T PROVE T \cup {x} \in P
  <2>1. IsFiniteSet(T) /\ T \in SUBSET S /\ T \cup {x} \in SUBSET S
    BY FS_Subset
  <2>2. zero[x] = 0 /\ SumFunctionOnSet(zero, T) = 0 /\ \A y \in T : zero[y] \in Int
    BY <2>1
  <2> HIDE DEF zero
  <2>3. SumFunctionOnSet(zero, T \cup {x}) = zero[x] + SumFunctionOnSet(zero, T)
    <3>1. zero[x] \in Int /\ x \notin T
      BY <1>2, <2>2
    <3> HIDE DEF P
    <3> QED BY <2>1, <2>2, <3>1, SumAdd
  <2> QED BY <2>1, <2>2, <2>3
<1>0. P \in SUBSET SUBSET S
  OBVIOUS
<1> HIDE DEF P
<1>3. P = SUBSET S
  BY <1>0, <1>1, <1>2, BySubsets
<1>4. SumFunctionOnSet(zero, S) = 0
  BY <1>3 DEF P
<1>5. \A x \in S : f[x] \in Int /\ g[x] \in Int /\ zero[x] = f[x] + g[x]
  OBVIOUS
<1> HIDE DEF zero
<1>6. SumFunctionOnSet(zero, S) = SumFunctionOnSet(f, S) + SumFunctionOnSet(g, S)
  BY <1>5, SumLinear
<1>7. SumFunctionOnSet(f, S) \in Int /\ SumFunctionOnSet(g, S) \in Int
  BY <1>5, SumOut
<1> QED BY <1>4, <1>6, <1>7

\* allocate(): splitting an amount among any number of parts loses no minor unit,
\* and no part is more than one unit larger than another, whatever the sign.
THEOREM SplitsAreExact ==
  ASSUME NEW amount \in Int, NEW parts \in Nat \ {0}
  PROVE  /\ SumFunction(Allocate(amount, parts)) = amount
         /\ \A i, j \in 1 .. parts :
              Allocate(amount, parts)[i] - Allocate(amount, parts)[j] \in -1 .. 1
<1> DEFINE n == IF amount < 0 THEN -amount ELSE amount
           base == n \div parts
           left == n % parts
           split == Allocate(amount, parts)
           plain == [i \in 1 .. parts |-> base + IF i <= left THEN 1 ELSE 0]
<1>1. n \in Nat /\ base \in Int /\ left \in 0 .. parts /\ n = parts * base + left /\ left < parts
  OBVIOUS
<1>2. /\ DOMAIN split = 1 .. parts
      /\ amount >= 0 => \A i \in 1 .. parts : split[i] = plain[i]
      /\ amount < 0 => \A i \in 1 .. parts : split[i] = -plain[i]
  <2>1. CASE amount >= 0
    <3>1. 1 * amount = n /\ ~(amount < 0)
      BY <2>1
    <3>2. split = [i \in 1 .. parts |-> 1 * (base + IF i <= left THEN 1 ELSE 0)]
      BY <3>1 DEF Allocate
    <3> HIDE DEF base, left, n
    <3> QED BY <1>1, <3>1, <3>2
  <2>2. CASE amount < 0
    <3>1. (-1) * amount = n
      BY <2>2
    <3>2. split = [i \in 1 .. parts |-> (-1) * (base + IF i <= left THEN 1 ELSE 0)]
      BY <2>2, <3>1 DEF Allocate
    <3> HIDE DEF base, left, n
    <3> QED BY <1>1, <2>2, <3>2
  <2> QED BY <2>1, <2>2
<1>3. \A i \in 1 .. parts : /\ plain[i] \in Int
                            /\ plain[i] = IF i <= left THEN base + 1 ELSE base
  <2> HIDE DEF base, left
  <2> QED BY <1>1
<1> HIDE DEF plain, split
<1>4. SumFunctionOnSet(plain, 1 .. parts) = n
  <2>1. SumFunctionOnSet(plain, 1 .. parts) = parts * base + left
    <3> HIDE DEF base, left, n
    <3>1. \A k \in 0 .. parts :
            SumFunctionOnSet(plain, 1 .. k) = k * base + IF k <= left THEN k ELSE left
      <4>1. \A i \in 1 .. parts : plain[i] = IF i <= left THEN base + 1 ELSE base
        BY <1>3
      <4>2. base \in Int /\ left \in 0 .. parts
        BY <1>1
      <4>3. plain \in [1 .. parts -> Int]
        BY <1>1 DEF plain
      <4> QED BY <4>1, <4>2, <4>3, FirstParts
    <3>2. parts \in 0 .. parts /\ ~(parts <= left)
      BY <1>1
    <3>3. SumFunctionOnSet(plain, 1 .. parts) = parts * base + IF parts <= left THEN parts ELSE left
      BY ONLY <3>1, <3>2, Zenon
    <3> QED BY <3>2, <3>3
  <2> QED BY <1>1, <2>1
<1>5. IsFiniteSet(1 .. parts)
  BY FS_Interval
<1>6. SumFunctionOnSet(split, 1 .. parts) = amount
  <2>1. CASE amount >= 0
    <3>1. SumFunctionOnSet(split, 1 .. parts) = SumFunctionOnSet(plain, 1 .. parts)
      BY <1>2, <1>3, <1>5, <2>1, SumSame
    <3> QED BY <1>4, <2>1, <3>1
  <2>2. CASE amount < 0
    <3>1. SumFunctionOnSet(split, 1 .. parts) = -SumFunctionOnSet(plain, 1 .. parts)
      BY <1>2, <1>3, <1>5, <2>2, SumNegates
    <3> QED BY <1>4, <2>2, <3>1
  <2> QED BY <2>1, <2>2
<1>7. SumFunction(split) = SumFunctionOnSet(split, 1 .. parts)
  BY <1>2 DEF SumFunction, FoldFunction, SumFunctionOnSet
<1>8. ASSUME NEW i \in 1 .. parts, NEW j \in 1 .. parts PROVE split[i] - split[j] \in -1 .. 1
  <2> HIDE DEF base, left, n
  <2>1. plain[i] - plain[j] \in -1 .. 1 /\ plain[i] \in Int /\ plain[j] \in Int
    BY <1>1, <1>3
  <2>2. CASE amount >= 0
    <3>1. split[i] = plain[i] /\ split[j] = plain[j]
      BY <1>2, <2>2
    <3> QED BY <2>1, <3>1
  <2>3. CASE amount < 0
    <3>1. split[i] = -plain[i] /\ split[j] = -plain[j]
      BY <1>2, <2>3
    <3> QED BY <2>1, <3>1
  <2> QED BY <2>2, <2>3
<1> QED BY <1>6, <1>7, <1>8 DEF split
=============================================================================
