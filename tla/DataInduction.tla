--------------------------- MODULE DataInduction ---------------------------
(***************************************************************************)
(* Induction over the naturals in a form that names a set in place of a    *)
(* predicate, and the extremes of sets of numbers: what the proofs about   *)
(* recursive functions, searches and sorted lists rest on.                 *)
(***************************************************************************)
EXTENDS Integers, Sequences, FiniteSets, FiniteSetsExt, TLAPS, WellFoundedInduction

\* A set of naturals that is not empty has a least member.
LEMMA LeastNat ==
    ASSUME NEW T, T \subseteq Nat, T # {}
    PROVE  \E n \in T : \A m \in T : n <= m
  <1> DEFINE R == OpToRel(<, Nat)
  <1>1. \E x \in T : \A y \in T : ~(<<y, x>> \in R)
    BY WFMin, NatLessThanWellFounded
  <1>2. ASSUME NEW x \in Nat, NEW y \in Nat, y < x
        PROVE  <<y, x>> \in R
    <2>1. <<y, x>> \in Nat \X Nat /\ <<y, x>>[1] < <<y, x>>[2]
      BY <1>2
    <2> QED
      BY <2>1, Zenon DEF OpToRel
  <1> HIDE DEF R
  <1>3. PICK x \in T : \A y \in T : ~(<<y, x>> \in R)
    BY <1>1
  <1>4. ASSUME NEW y \in T PROVE x <= y
    <2>1. x \in Nat /\ y \in Nat
      OBVIOUS
    <2>2. ~(y < x)
      BY <1>2, <1>3, <2>1, Zenon
    <2> QED
      BY <2>1, <2>2
  <1> QED
    BY <1>4

\* Induction: the set of the numbers that have the property holds 0 and, with
\* each number below a bound, the next one.
LEMMA InductionTo ==
    ASSUME NEW S, NEW b \in Nat, 0 \in S,
           \A n \in 0..(b - 1) : n \in S => n + 1 \in S
    PROVE  0..b \subseteq S
  <1> DEFINE T == {n \in 0..b : n \notin S}
  <1>1. SUFFICES ASSUME T # {} PROVE FALSE
    OBVIOUS
  <1>2. PICK n \in T : \A m \in T : n <= m
    <2>1. T \subseteq Nat
      OBVIOUS
    <2> QED
      BY <1>1, <2>1, LeastNat
  <1>3. n \in 0..b /\ n \notin S /\ n # 0
    OBVIOUS
  <1>4. n - 1 \in 0..(b - 1) /\ ~(n <= n - 1)
    BY <1>3
  <1>5. n - 1 \in S
    BY <1>2, <1>4
  <1>6. (n - 1) + 1 \in S
    BY <1>4, <1>5
  <1> QED
    BY <1>3, <1>6

LEMMA MinIsLeast ==
    ASSUME NEW T, T \subseteq Nat, T # {}
    PROVE  Min(T) \in T /\ \A m \in T : Min(T) <= m
  BY LeastNat DEF Min

\* A bounded set of naturals that is not empty has a greatest member.
LEMMA GreatestNat ==
    ASSUME NEW T, NEW b \in Nat, T \subseteq 0..b, T # {}
    PROVE  \E n \in T : \A m \in T : m <= n
  <1> DEFINE U == {b - m : m \in T}
  <1>1. U \subseteq Nat /\ U # {}
    <2>1. \A m \in T : b - m \in Nat
      OBVIOUS
    <2>2. PICK m \in T : TRUE
      OBVIOUS
    <2>3. b - m \in U
      OBVIOUS
    <2> QED
      BY <2>1, <2>3
  <1>2. PICK u \in U : \A w \in U : u <= w
    BY <1>1, LeastNat
  <1>3. PICK n \in T : u = b - n
    OBVIOUS
  <1>4. ASSUME NEW m \in T PROVE m <= n
    <2>1. b - m \in U
      OBVIOUS
    <2> HIDE DEF U
    <2>2. b - n <= b - m
      BY <1>2, <1>3, <2>1
    <2>3. m \in 0..b /\ n \in 0..b
      OBVIOUS
    <2> QED
      BY <2>2, <2>3
  <1> QED
    BY <1>4

LEMMA MaxIsGreatest ==
    ASSUME NEW T, NEW b \in Nat, T \subseteq 0..b, T # {}
    PROVE  Max(T) \in T /\ \A m \in T : m <= Max(T)
  BY GreatestNat DEF Max

LEMMA SeqFacts ==
    ASSUME NEW S, NEW q \in Seq(S)
    PROVE  DOMAIN q = 1..Len(q) /\ Len(q) \in Nat /\ \A i \in DOMAIN q : q[i] \in S
  OBVIOUS

\* g holds what is computed from a in n steps, each value from the one before it.
Iterates(g, F, X, a, n) ==
    /\ g \in [0..n -> X]
    /\ g[0] = a
    /\ \A i \in 1..n : g[i] = F[<<i, g[i - 1]>>]

\* There is such a g; this is what a recursive function over 0..n amounts to.
LEMMA Iteration ==
    ASSUME NEW X, NEW a \in X, NEW n \in Nat, NEW F \in [(1..n) \X X -> X]
    PROVE  \E g : Iterates(g, F, X, a, n)
  <1> DEFINE Upto(g, k) == g \in [0..k -> X] /\ g[0] = a
                           /\ \A i \in 1..k : g[i] = F[<<i, g[i - 1]>>]
             S == {k \in 0..n : \E g : Upto(g, k)}
  <1>1. 0 \in S
    <2> DEFINE f == [i \in 0..0 |-> a]
    <2>1. f \in [0..0 -> X] /\ f[0] = a /\ 1..0 = {}
      OBVIOUS
    <2>2. Upto(f, 0)
      <3> HIDE DEF f
      <3> QED
        BY <2>1
    <2> HIDE DEF f, Upto
    <2> QED
      BY <2>2
  <1>2. ASSUME NEW k \in 0..(n - 1), k \in S
        PROVE  k + 1 \in S
    <2>1. PICK g : Upto(g, k)
      BY <1>2
    <2> DEFINE h == [i \in 0..(k + 1) |-> IF i = k + 1 THEN F[<<k + 1, g[k]>>] ELSE g[i]]
    <2>2. F[<<k + 1, g[k]>>] \in X
      <3>1. <<k + 1, g[k]>> \in (1..n) \X X
        BY <2>1
      <3> QED
        BY <3>1
    <2>3. h \in [0..(k + 1) -> X] /\ h[0] = a
      BY <2>1, <2>2
    <2>4. ASSUME NEW i \in 1..(k + 1)
          PROVE  h[i] = F[<<i, h[i - 1]>>]
      <3>1. i - 1 \in 0..k /\ i - 1 # k + 1 /\ h[i - 1] = g[i - 1]
        OBVIOUS
      <3>2. CASE i = k + 1
        <4>1. h[i] = F[<<k + 1, g[k]>>] /\ i - 1 = k
          BY <3>2
        <4> HIDE DEF h
        <4> QED
          BY <3>1, <3>2, <4>1
      <3>3. CASE i # k + 1
        <4>1. i \in 1..k /\ h[i] = g[i]
          BY <3>3
        <4> HIDE DEF h
        <4> QED
          BY <2>1, <3>1, <4>1
      <3> QED
        BY <3>2, <3>3
    <2>5. Upto(h, k + 1)
      <3> HIDE DEF h
      <3> QED
        BY <2>3, <2>4
    <2> HIDE DEF h, Upto
    <2> QED
      BY <2>5
  <1>3. n \in S
    <2> HIDE DEF S
    <2> QED
      BY <1>1, <1>2, InductionTo
  <1> QED
    BY <1>3 DEF Iterates

=============================================================================
