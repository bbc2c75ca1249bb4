--------------------------- MODULE RecursionLemmas ---------------------------
(***************************************************************************)
(* Induction over the natural numbers stated with sets, so that it can be  *)
(* cited without an operator as a parameter: the set of the numbers that   *)
(* have a property takes its place.                                        *)
(***************************************************************************)
EXTENDS Integers, WellFoundedInduction, TLAPS

(* A non-empty set of numbers has a least element.                         *)
LEMMA FirstExists ==
    ASSUME NEW at \in SUBSET Nat, at # {}
    PROVE  (CHOOSE k \in at : \A j \in at : k <= j) \in at
  <1> DEFINE less == {ss \in Nat \X Nat : ss[1] < ss[2]}
  <1>0. IsWellFoundedOn(less, Nat)
    BY NatLessThanWellFounded DEF OpToRel
  <1> HIDE DEF less
  <1>1. PICK k \in at : \A j \in at : ~(<<j, k>> \in less)
    BY <1>0, WFMin, Zenon
  <1>2. \A j \in at : ~(j < k)
    BY <1>1 DEF less
  <1>3. \A j \in at : k <= j
    BY <1>2
  <1> QED BY <1>3

LEMMA LeastExists ==
    ASSUME NEW at \in SUBSET Nat, at # {}
    PROVE  \E k \in at : \A j \in at : k <= j
  <1> DEFINE less == {ss \in Nat \X Nat : ss[1] < ss[2]}
  <1>0. IsWellFoundedOn(less, Nat)
    BY NatLessThanWellFounded DEF OpToRel
  <1> HIDE DEF less
  <1>1. PICK k \in at : \A j \in at : ~(<<j, k>> \in less)
    BY <1>0, WFMin, Zenon
  <1>2. \A j \in at : ~(j < k)
    BY <1>1 DEF less
  <1>3. \A j \in at : k <= j
    BY <1>2
  <1> QED BY <1>3

(* A non-empty set of numbers up to n has a greatest element.              *)
LEMMA GreatestExists ==
    ASSUME NEW n \in Nat, NEW at \in SUBSET (0..n), at # {}
    PROVE  \E k \in at : \A j \in at : j <= k
  <1> DEFINE below == {i \in 0..n : n - i \in at}
  <1>1. PICK j \in at : TRUE
    OBVIOUS
  <1>2. n - j \in below
    BY <1>1
  <1>3. PICK k \in below : \A i \in below : k <= i
    <2>1. below \in SUBSET Nat
      OBVIOUS
    <2> HIDE DEF below
    <2> QED BY <1>2, <2>1, LeastExists
  <1>4. n - k \in at /\ \A i \in at : n - i \in below
    BY <1>3
  <1> QED BY <1>3, <1>4

(* What holds of 0 and is inherited by the next number holds up to n.      *)
LEMMA UpTo ==
    ASSUME NEW n \in Nat, NEW P, 0 \in P, \A i \in 0..(n - 1) : i \in P => i + 1 \in P
    PROVE  \A i \in 0..n : i \in P
  <1> DEFINE bad == {i \in 0..n : i \notin P}
  <1>1. SUFFICES ASSUME bad # {} PROVE FALSE
    OBVIOUS
  <1>2. PICK k \in bad : \A j \in bad : k <= j
    <2>1. bad \in SUBSET Nat /\ bad # {}
      BY <1>1
    <2> HIDE DEF bad
    <2> QED BY <2>1, LeastExists
  <1>3. k \in 1..n /\ k - 1 \in 0..(n - 1) /\ k - 1 \in P
    BY <1>2
  <1> QED BY <1>2, <1>3

(* g is defined over 0..n by the first value v0 and the step F.            *)
Solves(g, V, n, v0, F) ==
    /\ g \in [0..n -> V] /\ g[0] = v0
    /\ \A i \in 1..n : g[i] = F[<<i, g[i - 1]>>]

(* A recursive definition over 0..n, by a step that stays in V, has a      *)
(* solution in V.                                                          *)
LEMMA Recursion ==
    ASSUME NEW V, NEW n \in Nat, NEW v0 \in V, NEW F \in [(1..n) \X V -> V]
    PROVE  \E g : Solves(g, V, n, v0, F)
  <1> DEFINE Solvable(m) == \E g \in [0..m -> V] : Solves(g, V, m, v0, F)
             P == {m \in 0..n : Solvable(m)}
  <1>1. 0 \in P
    <2>1. Solves([i \in 0..0 |-> v0], V, 0, v0, F)
      BY DEF Solves
    <2>2. Solvable(0)
      BY <2>1
    <2> HIDE DEF Solvable
    <2> QED BY <2>2
  <1>2. ASSUME NEW m \in 0..(n - 1), m \in P PROVE m + 1 \in P
    <2>0. Solvable(m)
      <3> HIDE DEF Solvable
      <3> QED BY <1>2
    <2>1. PICK g \in [0..m -> V] : Solves(g, V, m, v0, F)
      BY <2>0
    <2> DEFINE h == [i \in 0..(m + 1) |-> IF i <= m THEN g[i] ELSE F[<<i, g[i - 1]>>]]
    <2>2. g[m] \in V /\ m + 1 \in 1..n
      BY <2>1
    <2>3. F[<<m + 1, g[m]>>] \in V
      BY <2>2
    <2>4. h \in [0..(m + 1) -> V]
      BY <2>1, <2>3
    <2>5. h[0] = v0
      BY <2>1 DEF Solves
    <2>6. ASSUME NEW i \in 1..(m + 1) PROVE h[i] = F[<<i, h[i - 1]>>]
      <3>1. h[i - 1] = g[i - 1]
        BY <2>1
      <3>2. h[i] = F[<<i, g[i - 1]>>]
        BY <2>1 DEF Solves
      <3> QED BY <3>1, <3>2
    <2>7. Solvable(m + 1)
      <3>1. Solves(h, V, m + 1, v0, F)
        <4> HIDE DEF h
        <4> QED BY <2>4, <2>5, <2>6 DEF Solves
      <3> HIDE DEF h, Solves
      <3> QED BY <2>4, <3>1
    <2> HIDE DEF Solvable
    <2> QED BY <2>7
  <1> HIDE DEF P
  <1>3. \A m \in 0..n : m \in P
    BY <1>1, <1>2, UpTo
  <1>4. PICK g \in [0..n -> V] : Solves(g, V, n, v0, F)
    <2>1. n \in P
      BY <1>3
    <2>2. Solvable(n)
      <3> HIDE DEF Solvable
      <3> QED BY <2>1 DEF P
    <2> QED BY <2>2
  <1> QED BY <1>4

=============================================================================
