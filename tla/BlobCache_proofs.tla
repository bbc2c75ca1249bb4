-------------------------- MODULE BlobCache_proofs ---------------------------
(***************************************************************************)
(* The Dawn blob cache for any keys, values, sizes, hash and limits: the   *)
(* read cache is exact, the three layers implement one map, a shutdown     *)
(* saves, and a torn database is recovered.                                *)
(***************************************************************************)
EXTENDS BlobCache, RecursionLemmas

(* What an entry counts for in bytes_.                                     *)
Cost(e) == KeySize + Size[e.val]

(* f[i] is what the first i entries of s count for.                        *)
IsSum(f, s) ==
    /\ f \in [0..Len(s) -> Nat] /\ f[0] = 0
    /\ \A i \in 1..Len(s) : f[i] = f[i - 1] + Cost(s[i])

LEMMA CostNat == \A e \in Entry : Cost(e) \in Nat
  BY BlobAssumption DEF Cost, Entry

-----------------------------------------------------------------------------
(* Filter goes through s one by one.                                       *)
LEMMA FilterSteps ==
    ASSUME NEW S, NEW s \in Seq(S), NEW G
    PROVE  \E f : /\ f[0] = <<>>
                  /\ \A i \in 1..Len(s) :
                        f[i] = IF s[i] \in G THEN Append(f[i - 1], s[i]) ELSE f[i - 1]
                  /\ Filter(s, G) = f[Len(s)]
  <1> DEFINE n == Len(s)
             Solution(g) == g = [i \in 0..n |->
                                    IF i = 0 THEN <<>>
                                    ELSE IF s[i] \in G THEN Append(g[i - 1], s[i]) ELSE g[i - 1]]
             F == [p \in (1..n) \X Seq(S) |->
                      IF s[p[1]] \in G THEN Append(p[2], s[p[1]]) ELSE p[2]]
             f == CHOOSE g : Solution(g)
  <1>1. n \in Nat /\ <<>> \in Seq(S)
    OBVIOUS
  <1>2. F \in [(1..n) \X Seq(S) -> Seq(S)]
    <2> SUFFICES ASSUME NEW i \in 1..n, NEW t \in Seq(S)
                 PROVE  (IF s[i] \in G THEN Append(t, s[i]) ELSE t) \in Seq(S)
      OBVIOUS
    <2>1. s[i] \in S
      OBVIOUS
    <2> QED BY <2>1
  <1>0. PICK g : Solves(g, Seq(S), n, <<>>, F)
    <2> HIDE DEF F, n
    <2> QED BY <1>1, <1>2, Recursion
  <1>3. /\ g \in [0..n -> Seq(S)]
        /\ g[0] = <<>> /\ \A i \in 1..n : g[i] = F[<<i, g[i - 1]>>]
    <2> HIDE DEF F, n
    <2> QED BY <1>0 DEF Solves
  <1>4. Solution(g)
    <2>1. ASSUME NEW i \in 1..n
          PROVE  g[i] = IF s[i] \in G THEN Append(g[i - 1], s[i]) ELSE g[i - 1]
      <3>1. <<i, g[i - 1]>> \in (1..n) \X Seq(S)
        <4>1. g[i - 1] \in Seq(S)
          <5> HIDE DEF F, n
          <5> QED BY <1>1, <1>3
        <4> QED BY <4>1
      <3>2. F[<<i, g[i - 1]>>] = IF s[i] \in G THEN Append(g[i - 1], s[i]) ELSE g[i - 1]
        BY <3>1
      <3> HIDE DEF F
      <3> QED BY <1>3, <3>2
    <2>2. g[0] = <<>>
      BY <1>3
    <2> HIDE DEF F
    <2>3. ASSUME NEW i \in 0..n
          PROVE  g[i] = IF i = 0 THEN <<>>
                        ELSE IF s[i] \in G THEN Append(g[i - 1], s[i]) ELSE g[i - 1]
      <3>1. i # 0 => i \in 1..n
        OBVIOUS
      <3> QED BY <2>1, <2>2, <3>1, Zenon
    <2>4. g = [i \in 0..n |-> g[i]]
      BY <1>3
    <2> QED BY <2>3, <2>4, Zenon
  <1>5. Solution(f)
    <2> HIDE DEF Solution
    <2> QED BY <1>4, Zenon
  <1>6. Filter(s, G) = f[n]
    BY Zenon DEF Filter
  <1>7. f[0] = <<>>
    <2> HIDE DEF f
    <2> QED BY <1>1, <1>5
  <1> HIDE DEF f
  <1>8. \A i \in 1..n : f[i] = IF s[i] \in G THEN Append(f[i - 1], s[i]) ELSE f[i - 1]
    <2> SUFFICES ASSUME NEW i \in 1..n
                 PROVE  f[i] = IF s[i] \in G THEN Append(f[i - 1], s[i]) ELSE f[i - 1]
      OBVIOUS
    <2>1. i \in 0..n /\ i # 0
      OBVIOUS
    <2> QED BY <1>5, <2>1, Zenon
  <1> QED BY <1>6, <1>7, <1>8

(* Filter keeps elements of s, each from a place of its own.               *)
LEMMA FilterProperties ==
    ASSUME NEW S, NEW s \in Seq(S), NEW G
    PROVE  /\ Filter(s, G) \in Seq(S)
           /\ Len(Filter(s, G)) <= Len(s)
           /\ \A a \in 1..Len(Filter(s, G)) :
                 \E p \in 1..Len(s) : s[p] = Filter(s, G)[a] /\ s[p] \in G
           /\ \A a, b \in 1..Len(Filter(s, G)) : a # b =>
                 \E p, q \in 1..Len(s) : p # q /\ s[p] = Filter(s, G)[a] /\ s[q] = Filter(s, G)[b]
  <1>1. PICK f : /\ f[0] = <<>>
                 /\ \A i \in 1..Len(s) :
                       f[i] = IF s[i] \in G THEN Append(f[i - 1], s[i]) ELSE f[i - 1]
                 /\ Filter(s, G) = f[Len(s)]
    BY FilterSteps
  <1> DEFINE Kept1(i) == /\ f[i] \in Seq(S) /\ Len(f[i]) <= i
                         /\ \A a \in 1..Len(f[i]) : \E p \in 1..i : s[p] = f[i][a] /\ s[p] \in G
             Apart(i) == \A a, b \in 1..Len(f[i]) : a # b =>
                            \E p, q \in 1..i : p # q /\ s[p] = f[i][a] /\ s[q] = f[i][b]
             P == {i \in 0..Len(s) : Kept1(i) /\ Apart(i)}
  <1>2. 0 \in P
    <2>1. f[0] \in Seq(S) /\ Len(f[0]) = 0 /\ 0 \in 0..Len(s)
      BY <1>1
    <2>2. Kept1(0) /\ Apart(0)
      BY <2>1
    <2> QED BY <2>1, <2>2
  <1>3. ASSUME NEW i \in 0..(Len(s) - 1), i \in P PROVE i + 1 \in P
    <2>0. Kept1(i) /\ Apart(i) /\ i \in Nat
      BY <1>3
    <2>1. i + 1 \in 1..Len(s) /\ s[i + 1] \in S
      OBVIOUS
    <2>2. CASE s[i + 1] \notin G
      <3>1. f[i + 1] = f[i]
        BY <1>1, <2>1, <2>2
      <3>2. Kept1(i + 1)
        BY <2>0, <3>1
      <3>3. Apart(i + 1)
        BY <2>0, <3>1
      <3> QED BY <2>1, <3>2, <3>3
    <2>3. CASE s[i + 1] \in G
      <3>1. f[i + 1] = Append(f[i], s[i + 1])
        <4>1. f[i + 1] = IF s[i + 1] \in G THEN Append(f[(i + 1) - 1], s[i + 1]) ELSE f[(i + 1) - 1]
          BY <1>1, <2>1, Zenon
        <4>2. (i + 1) - 1 = i
          OBVIOUS
        <4> QED BY <2>3, <4>1, <4>2, Zenon
      <3>2. /\ f[i + 1] \in Seq(S) /\ Len(f[i + 1]) = Len(f[i]) + 1
            /\ f[i + 1][Len(f[i]) + 1] = s[i + 1]
            /\ \A a \in 1..Len(f[i]) : f[i + 1][a] = f[i][a]
        BY <2>0, <2>1, <3>1
      <3>3. Kept1(i + 1)
        <4>1. ASSUME NEW a \in 1..Len(f[i + 1])
              PROVE  \E p \in 1..(i + 1) : s[p] = f[i + 1][a] /\ s[p] \in G
          <5>1. CASE a = Len(f[i]) + 1
            <6>1. f[i + 1][a] = s[i + 1] /\ s[i + 1] \in G
              BY <2>3, <3>2, <5>1
            <6>2. i + 1 \in 1..(i + 1)
              BY <2>0
            <6> QED BY <6>1, <6>2
          <5>2. CASE a # Len(f[i]) + 1
            <6>1. a \in 1..Len(f[i])
              BY <2>0, <3>2, <5>2
            <6>2. PICK p \in 1..i : s[p] = f[i][a] /\ s[p] \in G
              BY <2>0, <6>1
            <6> QED BY <3>2, <6>1, <6>2
          <5> QED BY <5>1, <5>2
        <4> QED BY <2>0, <3>2, <4>1
      <3>4. Apart(i + 1)
        <4> SUFFICES ASSUME NEW a \in 1..Len(f[i + 1]), NEW b \in 1..Len(f[i + 1]), a # b
                     PROVE  \E p, q \in 1..(i + 1) :
                               p # q /\ s[p] = f[i + 1][a] /\ s[q] = f[i + 1][b]
          OBVIOUS
        <4>1. CASE a \in 1..Len(f[i]) /\ b \in 1..Len(f[i])
          <5>1. PICK p, q \in 1..i : p # q /\ s[p] = f[i][a] /\ s[q] = f[i][b]
            BY <2>0, <4>1
          <5>2. f[i + 1][a] = f[i][a] /\ f[i + 1][b] = f[i][b]
            BY <3>2, <4>1
          <5>3. p \in 1..(i + 1) /\ q \in 1..(i + 1)
            BY <2>0
          <5> QED BY <5>1, <5>2, <5>3, Zenon
        <4>2. CASE a = Len(f[i]) + 1
          <5>1. b \in 1..Len(f[i])
            BY <2>0, <3>2, <4>2
          <5>2. PICK q \in 1..i : s[q] = f[i][b]
            BY <2>0, <5>1
          <5>3. f[i + 1][a] = s[i + 1] /\ f[i + 1][b] = f[i][b]
            BY <3>2, <4>2, <5>1
          <5>4. i + 1 \in 1..(i + 1) /\ q \in 1..(i + 1) /\ i + 1 # q
            BY <2>0
          <5> QED BY <5>2, <5>3, <5>4, Zenon
        <4>3. CASE b = Len(f[i]) + 1
          <5>1. a \in 1..Len(f[i])
            BY <2>0, <3>2, <4>3
          <5>2. PICK p \in 1..i : s[p] = f[i][a]
            BY <2>0, <5>1
          <5>3. f[i + 1][b] = s[i + 1] /\ f[i + 1][a] = f[i][a]
            BY <3>2, <4>3, <5>1
          <5>4. i + 1 \in 1..(i + 1) /\ p \in 1..(i + 1) /\ i + 1 # p
            BY <2>0
          <5> QED BY <5>2, <5>3, <5>4, Zenon
        <4> QED BY <2>0, <3>2, <4>1, <4>2, <4>3
      <3> QED BY <2>1, <3>3, <3>4
    <2> QED BY <2>2, <2>3
  <1>4. Len(s) \in P
    <2>1. Len(s) \in Nat /\ Len(s) \in 0..Len(s)
      OBVIOUS
    <2> HIDE DEF P
    <2>2. \A i \in 0..Len(s) : i \in P
      BY <1>2, <1>3, <2>1, UpTo
    <2> QED BY <2>1, <2>2
  <1> QED BY <1>1, <1>4

-----------------------------------------------------------------------------
(* Weight adds the costs one by one.                                       *)
LEMMA SumExists ==
    ASSUME NEW s \in Seq(Entry)
    PROVE  \E f : IsSum(f, s) /\ Weight(s) = f[Len(s)]
  <1> DEFINE n == Len(s)
             Solution(g) == g = [i \in 0..n |->
                                    IF i = 0 THEN 0 ELSE g[i - 1] + KeySize + Size[s[i].val]]
             F == [p \in (1..n) \X Nat |-> p[2] + KeySize + Size[s[p[1]].val]]
             f == CHOOSE g : Solution(g)
  <1>1. n \in Nat /\ 0 \in Nat
    OBVIOUS
  <1>2. \A i \in 1..n : Size[s[i].val] \in Nat /\ KeySize \in Nat
    <2>1. \A i \in 1..n : s[i] \in Entry
      OBVIOUS
    <2> QED BY <2>1, BlobAssumption DEF Entry
  <1>3. F \in [(1..n) \X Nat -> Nat]
    BY <1>2
  <1>0. PICK g : Solves(g, Nat, n, 0, F)
    <2> HIDE DEF F, n
    <2> QED BY <1>1, <1>3, Recursion
  <1>4. /\ g \in [0..n -> Nat]
        /\ g[0] = 0 /\ \A i \in 1..n : g[i] = F[<<i, g[i - 1]>>]
    <2> HIDE DEF F, n
    <2> QED BY <1>0 DEF Solves
  <1>5. Solution(g)
    <2>1. ASSUME NEW i \in 1..n
          PROVE  g[i] = g[i - 1] + KeySize + Size[s[i].val]
      <3>1. g[i - 1] \in Nat
        <4> HIDE DEF F, n
        <4> QED BY <1>1, <1>4
      <3>2. F[<<i, g[i - 1]>>] = g[i - 1] + KeySize + Size[s[i].val]
        BY <3>1
      <3> HIDE DEF F
      <3> QED BY <1>4, <3>2
    <2>2. g[0] = 0
      BY <1>4
    <2> HIDE DEF F
    <2>3. ASSUME NEW i \in 0..n
          PROVE  g[i] = IF i = 0 THEN 0 ELSE g[i - 1] + KeySize + Size[s[i].val]
      <3>1. i # 0 => i \in 1..n
        OBVIOUS
      <3> QED BY <2>1, <2>2, <3>1, Zenon
    <2>4. g = [i \in 0..n |-> g[i]]
      BY <1>4
    <2> QED BY <2>3, <2>4, Zenon
  <1>6. Solution(f)
    <2> HIDE DEF Solution
    <2> QED BY <1>5, Zenon
  <1>7. Weight(s) = f[n]
    BY Zenon DEF Weight
  <1> HIDE DEF f
  <1>8. f[0] = 0 /\ \A i \in 1..n : f[i] = f[i - 1] + KeySize + Size[s[i].val]
    BY <1>1, <1>6
  <1>9. \A i \in 0..n : f[i] \in Nat
    <2> DEFINE P == {i \in 0..n : f[i] \in Nat}
    <2>1. 0 \in P
      BY <1>8
    <2>2. ASSUME NEW i \in 0..(n - 1), i \in P PROVE i + 1 \in P
      <3>1. f[i + 1] = f[i] + KeySize + Size[s[i + 1].val]
        BY <1>8
      <3> QED BY <1>2, <2>2, <3>1
    <2>3. \A i \in 0..n : i \in P
      <3> HIDE DEF P, n
      <3> QED BY <1>1, <2>1, <2>2, UpTo
    <2> QED BY <2>3
  <1>10. IsSum(f, s)
    <2>1. f \in [0..n -> Nat]
      BY <1>6, <1>9
    <2>2. ASSUME NEW i \in 1..n PROVE f[i] = f[i - 1] + Cost(s[i])
      <3>1. f[i - 1] \in Nat
        BY <1>9
      <3> QED BY <1>2, <1>8, <3>1 DEF Cost
    <2> QED BY <1>8, <2>1, <2>2 DEF IsSum
  <1> QED BY <1>7, <1>10

(* Sums agree as long as the entries do.                                   *)
LEMMA SumsAgree ==
    ASSUME NEW s \in Seq(Entry), NEW t \in Seq(Entry), NEW f, NEW g, IsSum(f, s), IsSum(g, t),
           NEW n \in 0..Len(s), n <= Len(t), \A i \in 1..n : s[i] = t[i]
    PROVE  f[n] = g[n]
  <1> DEFINE P == {i \in 0..n : f[i] = g[i]}
  <1>1. 0 \in P
    BY DEF IsSum
  <1>2. ASSUME NEW i \in 0..(n - 1), i \in P PROVE i + 1 \in P
    <2>1. f[i + 1] = f[i] + Cost(s[i + 1]) /\ g[i + 1] = g[i] + Cost(t[i + 1])
      BY DEF IsSum
    <2> QED BY <1>2, <2>1
  <1>3. n \in Nat
    OBVIOUS
  <1>4. \A i \in 0..n : i \in P
    <2> HIDE DEF P
    <2> QED BY <1>1, <1>2, <1>3, UpTo
  <1> QED BY <1>4

LEMMA WeightIsSum ==
    ASSUME NEW s \in Seq(Entry), NEW f, IsSum(f, s)
    PROVE  Weight(s) = f[Len(s)] /\ Weight(s) \in Nat
  <1>1. PICK g : IsSum(g, s) /\ Weight(s) = g[Len(s)]
    BY SumExists
  <1>2. Len(s) \in 0..Len(s)
    OBVIOUS
  <1>3. g[Len(s)] = f[Len(s)]
    BY <1>1, <1>2, SumsAgree
  <1>4. f[Len(s)] \in Nat
    BY <1>2 DEF IsSum
  <1> QED BY <1>1, <1>3, <1>4

(* What the first m entries weigh.                                         *)
LEMMA WeightOfPrefix ==
    ASSUME NEW s \in Seq(Entry), NEW f, IsSum(f, s), NEW m \in 0..Len(s)
    PROVE  /\ SubSeq(s, 1, m) \in Seq(Entry) /\ Len(SubSeq(s, 1, m)) = m
           /\ Weight(SubSeq(s, 1, m)) = f[m]
           /\ f[m] <= Weight(s)
  <1> DEFINE t == SubSeq(s, 1, m)
  <1>1. t \in Seq(Entry) /\ Len(t) = m /\ \A i \in 1..m : t[i] = s[i]
    OBVIOUS
  <1>2. PICK g : IsSum(g, t) /\ Weight(t) = g[Len(t)]
    BY <1>1, SumExists
  <1>3. f[m] = g[m]
    <2> HIDE DEF t
    <2> QED BY <1>1, <1>2, SumsAgree
  <1>4. f[m] <= f[Len(s)]
    <2> DEFINE n == Len(s) - m
               P == {i \in 0..n : f[m] <= f[m + i]}
    <2>1. n \in Nat /\ f[m] \in Nat
      BY DEF IsSum
    <2>2. 0 \in P
      BY <2>1
    <2>3. ASSUME NEW i \in 0..(n - 1), i \in P PROVE i + 1 \in P
      <3>1. f[m + i + 1] = f[m + i] + Cost(s[m + i + 1]) /\ f[m + i] \in Nat
        BY DEF IsSum
      <3>2. Cost(s[m + i + 1]) \in Nat
        BY CostNat
      <3> QED BY <2>1, <2>3, <3>1, <3>2
    <2>4. \A i \in 0..n : i \in P
      <3> HIDE DEF P, n
      <3> QED BY <2>1, <2>2, <2>3, UpTo
    <2>5. n \in P
      <3> HIDE DEF P
      <3> QED BY <2>1, <2>4
    <2> QED BY <2>5
  <1> QED BY <1>1, <1>2, <1>3, <1>4, WeightIsSum

LEMMA WeightOfAppend ==
    ASSUME NEW s \in Seq(Entry), NEW e \in Entry
    PROVE  Weight(Append(s, e)) = Weight(s) + Cost(e) /\ Weight(s) \in Nat
  <1> DEFINE t == Append(s, e)
  <1>1. t \in Seq(Entry) /\ Len(t) = Len(s) + 1 /\ t[Len(s) + 1] = e
        /\ \A i \in 1..Len(s) : t[i] = s[i]
    OBVIOUS
  <1>2. PICK f : IsSum(f, s) /\ Weight(s) = f[Len(s)]
    BY SumExists
  <1>3. PICK g : IsSum(g, t) /\ Weight(t) = g[Len(t)]
    BY <1>1, SumExists
  <1> HIDE DEF t
  <1>4. Len(s) \in 0..Len(s) /\ Len(s) <= Len(t) /\ Len(s) + 1 \in 1..Len(t)
    BY <1>1
  <1>5. f[Len(s)] = g[Len(s)]
    BY <1>1, <1>2, <1>3, <1>4, SumsAgree
  <1>6. g[Len(s) + 1] = g[Len(s)] + Cost(e)
    BY <1>1, <1>3, <1>4 DEF IsSum
  <1>7. Weight(s) \in Nat
    BY <1>2, <1>4 DEF IsSum
  <1> QED BY <1>1, <1>2, <1>3, <1>5, <1>6, <1>7 DEF t

LEMMA WeightOfFront ==
    ASSUME NEW s \in Seq(Entry), NEW e \in Entry
    PROVE  Weight(<<e>> \o s) = Cost(e) + Weight(s) /\ Weight(s) \in Nat
  <1> DEFINE t == <<e>> \o s
  <1>1. t \in Seq(Entry) /\ Len(t) = Len(s) + 1 /\ t[1] = e
        /\ \A i \in 1..Len(s) : t[i + 1] = s[i]
    OBVIOUS
  <1>2. PICK f : IsSum(f, s) /\ Weight(s) = f[Len(s)]
    BY SumExists
  <1>3. PICK g : IsSum(g, t) /\ Weight(t) = g[Len(t)]
    BY <1>1, SumExists
  <1> HIDE DEF t
  <1> DEFINE n == Len(s)
             P == {i \in 0..n : g[i + 1] = Cost(e) + f[i]}
  <1>4. n \in Nat /\ Cost(e) \in Nat
    BY CostNat
  <1>5. 0 \in P
    <2>1. g[1] = g[0] + Cost(t[1])
      BY <1>1, <1>3 DEF IsSum
    <2> QED BY <1>1, <1>2, <1>3, <1>4, <2>1 DEF IsSum
  <1>6. ASSUME NEW i \in 0..(n - 1), i \in P PROVE i + 1 \in P
    <2>1. i + 1 \in 1..n /\ i + 2 \in 1..Len(t) /\ t[i + 2] = s[i + 1]
      BY <1>1
    <2>2. g[i + 2] = g[i + 1] + Cost(s[i + 1]) /\ f[i + 1] = f[i] + Cost(s[i + 1])
      <3>1. f[i + 1] = f[(i + 1) - 1] + Cost(s[i + 1])
        BY <1>2, <2>1, Zenon DEF IsSum
      <3>2. g[i + 2] = g[(i + 2) - 1] + Cost(t[i + 2])
        BY <1>3, <2>1, Zenon DEF IsSum
      <3>3. (i + 1) - 1 = i /\ (i + 2) - 1 = i + 1
        OBVIOUS
      <3> QED BY <2>1, <3>1, <3>2, <3>3
    <2>3. f[i] \in Nat /\ Cost(s[i + 1]) \in Nat
      <3>1. f \in [0..n -> Nat] /\ i \in 0..n
        BY <1>2, <1>4 DEF IsSum
      <3>2. s[i + 1] \in Entry
        BY <2>1
      <3> HIDE DEF n
      <3> QED BY <3>1, <3>2, CostNat
    <2>4. g[(i + 1) + 1] = Cost(e) + f[i + 1]
      BY <1>4, <1>6, <2>2, <2>3
    <2> QED BY <2>1, <2>4
  <1>7. n \in P
    <2> HIDE DEF P, n
    <2>1. \A i \in 0..n : i \in P
      BY <1>4, <1>5, <1>6, UpTo
    <2> QED BY <1>4, <2>1
  <1>8. Weight(s) \in Nat
    BY <1>2, <1>4 DEF IsSum
  <1> QED BY <1>1, <1>2, <1>3, <1>7, <1>8 DEF t

LEMMA WeightOfEmpty == <<>> \in Seq(Entry) /\ Weight(<<>>) = 0
  <1>1. <<>> \in Seq(Entry) /\ Len(<<>>) = 0
    OBVIOUS
  <1>2. PICK f : IsSum(f, <<>>) /\ Weight(<<>>) = f[Len(<<>>)]
    BY <1>1, SumExists
  <1> QED BY <1>1, <1>2 DEF IsSum

(* Dropping entries drops their costs.                                     *)
LEMMA FilterWeight ==
    ASSUME NEW s \in Seq(Entry), NEW G
    PROVE  Weight(Filter(s, G)) <= Weight(s) /\ Weight(s) \in Nat /\ Weight(Filter(s, G)) \in Nat
  <1>1. PICK f : /\ f[0] = <<>>
                 /\ \A i \in 1..Len(s) :
                       f[i] = IF s[i] \in G THEN Append(f[i - 1], s[i]) ELSE f[i - 1]
                 /\ Filter(s, G) = f[Len(s)]
    BY FilterSteps
  <1>2. PICK w : IsSum(w, s) /\ Weight(s) = w[Len(s)]
    BY SumExists
  <1> DEFINE n == Len(s)
             Holds(i) == f[i] \in Seq(Entry) /\ Weight(f[i]) \in Nat /\ Weight(f[i]) <= w[i]
             P == {i \in 0..n : Holds(i)}
  <1>3. n \in Nat
    OBVIOUS
  <1>4. Holds(0)
    BY <1>1, <1>2, WeightOfEmpty DEF IsSum
  <1>5. ASSUME NEW i \in 0..(n - 1), Holds(i) PROVE Holds(i + 1)
    <2>1. i + 1 \in 1..n /\ (i + 1) - 1 = i /\ s[i + 1] \in Entry
      BY <1>3
    <2>2. f[i + 1] = IF s[i + 1] \in G THEN Append(f[i], s[i + 1]) ELSE f[i]
      BY <1>1, <2>1
    <2>3. w[i + 1] = w[i] + Cost(s[i + 1]) /\ w[i] \in Nat /\ Cost(s[i + 1]) \in Nat
      <3>1. w[i + 1] = w[i] + Cost(s[i + 1])
        BY <1>2, <2>1 DEF IsSum
      <3>2. w[i] \in Nat
        BY <1>2 DEF IsSum
      <3> QED BY <2>1, <3>1, <3>2, CostNat
    <2>4. CASE s[i + 1] \in G
      <3>1. f[i + 1] = Append(f[i], s[i + 1])
        BY <2>2, <2>4
      <3>2. Weight(f[i + 1]) = Weight(f[i]) + Cost(s[i + 1])
        BY <1>5, <2>1, <3>1, WeightOfAppend
      <3> QED BY <1>5, <2>1, <2>3, <3>1, <3>2
    <2>5. CASE s[i + 1] \notin G
      BY <1>5, <2>2, <2>3, <2>5
    <2> QED BY <2>4, <2>5
  <1>6. Holds(n)
    <2> HIDE DEF Holds
    <2>1. 0 \in P /\ \A i \in 0..(n - 1) : i \in P => i + 1 \in P
      BY <1>3, <1>4, <1>5
    <2>2. n \in 0..n
      BY <1>3
    <2> HIDE DEF P, n
    <2>3. \A i \in 0..n : i \in P
      BY <1>3, <2>1, UpTo
    <2> QED BY <2>2, <2>3 DEF P
  <1> QED BY <1>1, <1>2, <1>6, WeightIsSum

(* Dropping one entry drops exactly its cost.                              *)
LEMMA FilterOne ==
    ASSUME NEW s \in Seq(Entry), NEW G, NEW c \in 1..Len(s),
           s[c] \notin G, \A i \in 1..Len(s) : i # c => s[i] \in G
    PROVE  /\ Len(Filter(s, G)) = Len(s) - 1
           /\ Weight(Filter(s, G)) = Weight(s) - Cost(s[c])
  <1>1. PICK f : /\ f[0] = <<>>
                 /\ \A i \in 1..Len(s) :
                       f[i] = IF s[i] \in G THEN Append(f[i - 1], s[i]) ELSE f[i - 1]
                 /\ Filter(s, G) = f[Len(s)]
    BY FilterSteps
  <1>2. PICK w : IsSum(w, s) /\ Weight(s) = w[Len(s)]
    BY SumExists
  <1> DEFINE n == Len(s)
             Holds(i) == /\ f[i] \in Seq(Entry)
                         /\ Len(f[i]) = IF i < c THEN i ELSE i - 1
                         /\ Weight(f[i]) = IF i < c THEN w[i] ELSE w[i] - Cost(s[c])
             P == {i \in 0..n : Holds(i)}
  <1>3. n \in Nat /\ c \in Nat /\ s[c] \in Entry /\ Cost(s[c]) \in Nat
    <2>1. s[c] \in Entry
      OBVIOUS
    <2> QED BY <2>1, CostNat
  <1>4. Holds(0)
    BY <1>1, <1>2, WeightOfEmpty DEF IsSum
  <1>5. ASSUME NEW i \in 0..(n - 1), Holds(i) PROVE Holds(i + 1)
    <2>1. i + 1 \in 1..n /\ (i + 1) - 1 = i /\ s[i + 1] \in Entry
      BY <1>3
    <2>2. f[i + 1] = IF s[i + 1] \in G THEN Append(f[i], s[i + 1]) ELSE f[i]
      BY <1>1, <2>1
    <2>3. w[i + 1] = w[i] + Cost(s[i + 1]) /\ w[i] \in Nat /\ Cost(s[i + 1]) \in Nat
      <3>1. w[i + 1] = w[i] + Cost(s[i + 1])
        BY <1>2, <2>1 DEF IsSum
      <3>2. w[i] \in Nat
        BY <1>2 DEF IsSum
      <3> QED BY <2>1, <3>1, <3>2, CostNat
    <2>4. CASE i + 1 # c
      <3>1. f[i + 1] = Append(f[i], s[i + 1])
        BY <2>1, <2>2, <2>4
      <3>2. Weight(f[i + 1]) = Weight(f[i]) + Cost(s[i + 1])
        BY <1>5, <2>1, <3>1, WeightOfAppend
      <3>3. f[i + 1] \in Seq(Entry) /\ Len(f[i + 1]) = Len(f[i]) + 1
        BY <1>5, <2>1, <3>1
      <3> QED BY <1>3, <1>5, <2>1, <2>3, <2>4, <3>2, <3>3
    <2>5. CASE i + 1 = c
      <3>1. f[i + 1] = f[i]
        BY <2>2, <2>5
      <3> QED BY <1>3, <1>5, <2>3, <2>5, <3>1
    <2> QED BY <2>4, <2>5
  <1>6. Holds(n)
    <2> HIDE DEF Holds
    <2>1. 0 \in P /\ \A i \in 0..(n - 1) : i \in P => i + 1 \in P
      BY <1>3, <1>4, <1>5
    <2>2. n \in 0..n
      BY <1>3
    <2> HIDE DEF P, n
    <2>3. \A i \in 0..n : i \in P
      BY <1>3, <2>1, UpTo
    <2> QED BY <2>2, <2>3 DEF P
  <1> QED BY <1>1, <1>2, <1>3, <1>6

-----------------------------------------------------------------------------
(* The eviction loop of fill ends before the list is empty of what it      *)
(* would read, with room for n bytes and one more entry.                   *)
LEMMA RoomIsEnough ==
    ASSUME NEW s \in Seq(Entry), NEW n \in Nat, n <= Budget, Limit # 0
    PROVE  /\ Room(s, Weight(s), n) \in 0..Len(s)
           /\ Room(s, Weight(s), n) < Limit
           /\ Weight(SubSeq(s, 1, Room(s, Weight(s), n))) <= Budget - n
  <1> DEFINE b == Weight(s)
             fits(m) == m < Limit /\ b - (Weight(s) - Weight(SubSeq(s, 1, m))) <= Budget - n
             Fitting == {m \in 0..Len(s) : fits(m)}
             Last(m) == fits(m) /\ \A j \in (m + 1)..Len(s) : ~fits(j)
  <1>1. PICK f : IsSum(f, s) /\ Weight(s) = f[Len(s)]
    BY SumExists
  <1>2. \A m \in 0..Len(s) : Weight(SubSeq(s, 1, m)) = f[m] /\ f[m] \in Nat
    BY <1>1, WeightOfPrefix DEF IsSum
  <1>3. f[0] = 0 /\ Weight(s) \in Nat /\ Len(s) \in Nat
    BY <1>1, WeightIsSum DEF IsSum
  <1>4. {Budget, Limit} \subseteq Nat
    BY BlobAssumption
  <1>5. fits(0)
    BY <1>2, <1>3, <1>4
  <1>6. PICK m \in Fitting : \A j \in Fitting : j <= m
    <2>1. 0 \in Fitting /\ Fitting \subseteq 0..Len(s)
      <3> HIDE DEF fits
      <3> QED BY <1>3, <1>5
    <2> HIDE DEF Fitting
    <2> QED BY <1>3, <2>1, GreatestExists
  <1>7. m \in 0..Len(s) /\ Last(m)
    <2> HIDE DEF fits
    <2> QED BY <1>3, <1>6
  <1> DEFINE r == CHOOSE x \in 0..Len(s) : Last(x)
  <1>8. r \in 0..Len(s) /\ Last(r)
    <2> HIDE DEF Last
    <2> QED BY <1>7, Zenon
  <1>9. Room(s, b, n) = r
    BY Zenon DEF Room
  <1> HIDE DEF r
  <1>10. r < Limit /\ Weight(SubSeq(s, 1, r)) <= Budget - n
    BY <1>2, <1>3, <1>4, <1>8
  <1> QED BY <1>8, <1>9, <1>10

-----------------------------------------------------------------------------
(* One hash has at most one entry of s.                                    *)
UniqueHash(s) == \A i, j \in 1..Len(s) : Hash[s[i].key] = Hash[s[j].key] => i = j

(* The entries t come from the entries s.                                  *)
ComesFrom(t, s) == \A a \in 1..Len(t) : \E p \in 1..Len(s) : t[a] = s[p]

LEMMA FilterUnique ==
    ASSUME NEW s \in Seq(Entry), NEW G, UniqueHash(s)
    PROVE  UniqueHash(Filter(s, G)) /\ ComesFrom(Filter(s, G), s)
  <1>1. UniqueHash(Filter(s, G))
    <2> SUFFICES ASSUME NEW a \in 1..Len(Filter(s, G)), NEW b \in 1..Len(Filter(s, G)), a # b,
                        Hash[Filter(s, G)[a].key] = Hash[Filter(s, G)[b].key]
                 PROVE  FALSE
      BY DEF UniqueHash
    <2>1. PICK p, q \in 1..Len(s) : p # q /\ s[p] = Filter(s, G)[a] /\ s[q] = Filter(s, G)[b]
      BY FilterProperties
    <2> QED BY <2>1 DEF UniqueHash
  <1>2. ComesFrom(Filter(s, G), s)
    <2> SUFFICES ASSUME NEW a \in 1..Len(Filter(s, G))
                 PROVE  \E p \in 1..Len(s) : Filter(s, G)[a] = s[p]
      BY DEF ComesFrom
    <2>1. PICK p \in 1..Len(s) : s[p] = Filter(s, G)[a]
      BY FilterProperties
    <2> QED BY <2>1
  <1> QED BY <1>1, <1>2

(* invalidate                                                              *)
LEMMA KeptExact ==
    ASSUME ram \in Seq(Entry), RamExact, NEW k \in Keys
    PROVE  /\ Kept(k) \in Seq(Entry) /\ Len(Kept(k)) <= Limit
           /\ UniqueHash(Kept(k)) /\ ComesFrom(Kept(k), ram)
           /\ \A a \in 1..Len(Kept(k)) : Hash[Kept(k)[a].key] # Hash[k]
           /\ Remaining(Kept(k)) = Weight(Kept(k))
           /\ Weight(Kept(k)) \in Nat /\ Weight(Kept(k)) <= Budget
  <1> DEFINE G == {e \in Entry : Hash[e.key] # Hash[k]}
  <1>1. Kept(k) = Filter(ram, G)
    BY DEF Kept
  <1>2. UniqueHash(ram)
    BY DEF RamExact, UniqueHash
  <1>3. \A a \in 1..Len(Filter(ram, G)) : Filter(ram, G)[a] \in G
    <2> HIDE DEF G
    <2> QED BY FilterProperties
  <1>4. /\ Filter(ram, G) \in Seq(Entry) /\ Len(Filter(ram, G)) <= Len(ram)
        /\ UniqueHash(Filter(ram, G)) /\ ComesFrom(Filter(ram, G), ram)
        /\ Weight(Filter(ram, G)) <= Weight(ram)
        /\ Weight(ram) \in Nat /\ Weight(Filter(ram, G)) \in Nat
    <2> HIDE DEF G
    <2> QED BY <1>2, FilterProperties, FilterUnique, FilterWeight
  <1>5. Limit \in Nat /\ Budget \in Nat
    BY BlobAssumption
  <1>6. Len(Filter(ram, G)) \in Nat /\ Len(ram) \in Nat
    BY <1>4
  <1>7. Len(Filter(ram, G)) <= Limit /\ Weight(Filter(ram, G)) <= Budget
    <2> HIDE DEF G
    <2> QED BY <1>4, <1>5, <1>6 DEF RamExact
  <1>8. Remaining(Kept(k)) = Weight(Kept(k))
    BY <1>1, <1>4 DEF Remaining, RamExact
  <1>9. \A a \in 1..Len(Filter(ram, G)) : Hash[Filter(ram, G)[a].key] # Hash[k]
    BY <1>3
  <1> HIDE DEF G
  <1> QED BY <1>1, <1>4, <1>7, <1>8, <1>9

(* find, on a hit                                                          *)
LEMMA TouchExact ==
    ASSUME ram \in Seq(Entry), RamExact, NEW k \in Keys, Hits(k) # {}, Touch(k)
    PROVE  /\ ram' \in Seq(Entry) /\ RamExact' /\ ComesFrom(ram', ram)
           /\ (CHOOSE i \in Hits(k) : TRUE) \in Hits(k)
  <1> DEFINE c == CHOOSE i \in Hits(k) : TRUE
             G == {e \in Entry : e.key # k}
             rest == Filter(ram, G)
  <1>1. c \in Hits(k)
    OBVIOUS
  <1> HIDE DEF c
  <1>2. c \in 1..Len(ram) /\ ram[c].key = k /\ ram[c] \in Entry
    BY <1>1 DEF Hits
  <1>3. \A i \in 1..Len(ram) : ram[i] \in Entry /\ (i # c => ram[i].key # k)
    BY <1>2 DEF RamExact
  <1>4. ram[c] \notin G /\ \A i \in 1..Len(ram) : i # c => ram[i] \in G
    BY <1>2, <1>3
  <1>5. ram' = <<ram[c]>> \o rest /\ bytes' = bytes
    BY Zenon DEF Touch, Others, c
  <1>6. UniqueHash(ram)
    BY DEF RamExact, UniqueHash
  <1>7. \A a \in 1..Len(rest) : rest[a] \in G
    <2> HIDE DEF G
    <2> QED BY FilterProperties
  <1>8. /\ rest \in Seq(Entry) /\ UniqueHash(rest) /\ ComesFrom(rest, ram)
        /\ Len(rest) = Len(ram) - 1
        /\ Weight(rest) = Weight(ram) - Cost(ram[c])
    <2> HIDE DEF G
    <2> QED BY <1>2, <1>4, <1>6, FilterProperties, FilterUnique, FilterOne
  <1>9. \A a \in 1..Len(rest) : Hash[rest[a].key] # Hash[k]
    <2> SUFFICES ASSUME NEW a \in 1..Len(rest), Hash[rest[a].key] = Hash[k] PROVE FALSE
      OBVIOUS
    <2>1. rest[a].key # k
      BY <1>7
    <2> HIDE DEF rest
    <2>2. PICK p \in 1..Len(ram) : rest[a] = ram[p]
      BY <1>8 DEF ComesFrom
    <2> QED BY <1>2, <2>1, <2>2, <1>6 DEF UniqueHash
  <1> HIDE DEF G, rest
  <1>10. /\ ram' \in Seq(Entry) /\ Len(ram') = Len(rest) + 1 /\ ram'[1] = ram[c]
         /\ \A a \in 1..Len(rest) : ram'[a + 1] = rest[a]
    BY <1>2, <1>5, <1>8
  <1>11. Weight(ram') = Weight(ram)
    <2>1. Weight(ram') = Cost(ram[c]) + Weight(rest) /\ Weight(rest) \in Nat
      BY <1>2, <1>5, <1>8, WeightOfFront
    <2>2. Cost(ram[c]) \in Nat /\ Weight(ram) \in Nat
      BY <1>2, CostNat, FilterWeight
    <2> QED BY <1>8, <2>1, <2>2
  <1>12. ASSUME NEW a \in 1..Len(ram') PROVE a = 1 \/ (a - 1 \in 1..Len(rest) /\ ram'[a] = rest[a - 1])
    <2>1. a # 1 => a - 1 \in 1..Len(rest) /\ (a - 1) + 1 = a
      BY <1>8, <1>10
    <2> QED BY <1>10, <2>1
  <1>13. ASSUME NEW a \in 1..Len(ram'), NEW b \in 1..Len(ram'),
                Hash[ram'[a].key] = Hash[ram'[b].key]
         PROVE  a = b
    <2>0. Hash[ram'[1].key] = Hash[k]
      BY <1>2, <1>10
    <2>1. CASE a = 1 /\ b # 1
      <3>1. b - 1 \in 1..Len(rest) /\ ram'[b] = rest[b - 1]
        BY <1>12, <2>1
      <3>2. Hash[rest[b - 1].key] # Hash[k]
        BY <1>9, <3>1
      <3> QED BY <1>13, <2>0, <2>1, <3>1, <3>2
    <2>2. CASE a # 1 /\ b = 1
      <3>1. a - 1 \in 1..Len(rest) /\ ram'[a] = rest[a - 1]
        BY <1>12, <2>2
      <3>2. Hash[rest[a - 1].key] # Hash[k]
        BY <1>9, <3>1
      <3> QED BY <1>13, <2>0, <2>2, <3>1, <3>2
    <2>3. CASE a # 1 /\ b # 1
      <3>1. /\ a - 1 \in 1..Len(rest) /\ ram'[a] = rest[a - 1]
            /\ b - 1 \in 1..Len(rest) /\ ram'[b] = rest[b - 1]
        BY <1>12, <2>3
      <3>2. Hash[rest[a - 1].key] = Hash[rest[b - 1].key]
        BY <1>13, <3>1
      <3>3. a - 1 = b - 1
        BY <1>8, <3>1, <3>2 DEF UniqueHash
      <3> QED BY <3>3
    <2> QED BY <2>1, <2>2, <2>3
  <1>14. ComesFrom(ram', ram)
    BY <1>2, <1>8, <1>10, <1>12 DEF ComesFrom
  <1>15. Len(ram') = Len(ram)
    BY <1>8, <1>10
  <1>16. RamExact'
    BY <1>5, <1>11, <1>13, <1>15 DEF RamExact
  <1> QED BY <1>1, <1>10, <1>14, <1>16 DEF c

(* fill                                                                    *)
LEMMA FillExact ==
    ASSUME ram \in Seq(Entry), RamExact, NEW k \in Keys, NEW v \in Values \cup {Absent},
           Accepts(v), NEW decoded \in BOOLEAN, Fill(k, v, decoded)
    PROVE  /\ ram' \in Seq(Entry) /\ RamExact'
           /\ \A a \in 1..Len(ram') :
                 \/ \E p \in 1..Len(ram) : ram'[a] = ram[p]
                 \/ decoded /\ ram'[a] = [key |-> k, val |-> v]
  <1> DEFINE kept == Kept(k)
             needed == KeySize + Size[v]
             m == Room(kept, Remaining(kept), needed)
             stay == SubSeq(kept, 1, m)
             rest == Remaining(kept) - (Weight(kept) - Weight(stay))
             e == [key |-> k, val |-> v]
  <1>1. /\ ram' = IF decoded THEN <<e>> \o stay ELSE stay
        /\ bytes' = IF decoded THEN rest + needed ELSE rest
    BY Zenon DEF Fill
  <1>2. v \in Values /\ Limit # 0 /\ needed \in Nat /\ needed <= Budget /\ e \in Entry
        /\ Limit \in Nat /\ Budget \in Nat
    <2>1. v \in Values
      BY DEF Accepts, SizeOf
    <2>2. Size[v] \in Nat /\ KeySize \in Nat /\ Budget \in Nat /\ Limit \in Nat
      BY <2>1, BlobAssumption
    <2>3. SizeOf(v) = Size[v]
      BY <2>1, BlobAssumption DEF SizeOf
    <2> QED BY <2>1, <2>2, <2>3 DEF Accepts, Entry
  <1>3. /\ kept \in Seq(Entry) /\ UniqueHash(kept) /\ ComesFrom(kept, ram)
        /\ \A a \in 1..Len(kept) : Hash[kept[a].key] # Hash[k]
        /\ Remaining(kept) = Weight(kept) /\ Weight(kept) \in Nat
    BY KeptExact
  <1> HIDE DEF kept
  <1>4. m \in 0..Len(kept) /\ m < Limit /\ Weight(stay) <= Budget - needed
    <2> HIDE DEF needed
    <2> QED BY <1>2, <1>3, RoomIsEnough
  <1> HIDE DEF needed, m
  <1>5. /\ stay \in Seq(Entry) /\ Len(stay) = m
        /\ \A a \in 1..m : a \in 1..Len(kept) /\ stay[a] = kept[a]
    BY <1>3, <1>4
  <1> HIDE DEF stay
  <1>6. Weight(stay) \in Nat /\ rest = Weight(stay)
    <2>1. Weight(stay) \in Nat
      BY <1>5, FilterWeight
    <2> QED BY <1>3, <2>1
  <1> HIDE DEF rest
  <1>7. UniqueHash(stay) /\ \A a \in 1..Len(stay) : Hash[stay[a].key] # Hash[k]
    BY <1>3, <1>5 DEF UniqueHash
  <1>8. \A a \in 1..Len(stay) : \E p \in 1..Len(ram) : stay[a] = ram[p]
    BY <1>3, <1>5 DEF ComesFrom
  <1>9. CASE ~decoded
    <2>1. ram' = stay /\ bytes' = rest
      BY <1>1, <1>9
    <2>2. bytes' <= Budget /\ Len(ram') <= Limit
      BY <1>2, <1>4, <1>5, <1>6, <2>1
    <2>3. RamExact'
      BY <1>6, <1>7, <2>1, <2>2 DEF RamExact, UniqueHash
    <2> QED BY <1>5, <1>8, <2>1, <2>3
  <1>10. CASE decoded
    <2>1. ram' = <<e>> \o stay /\ bytes' = rest + needed
      BY <1>1, <1>10
    <2> HIDE DEF e
    <2>2. /\ ram' \in Seq(Entry) /\ Len(ram') = Len(stay) + 1 /\ ram'[1] = e
          /\ \A a \in 1..Len(stay) : ram'[a + 1] = stay[a]
      BY <1>2, <1>5, <2>1
    <2>3. Weight(ram') = bytes' /\ bytes' <= Budget
      <3>1. Weight(ram') = Cost(e) + Weight(stay)
        BY <1>2, <1>5, <2>1, WeightOfFront
      <3>2. Cost(e) = needed
        BY DEF Cost, e, needed
      <3> QED BY <1>2, <1>4, <1>6, <2>1, <3>1, <3>2
    <2>4. ASSUME NEW a \in 1..Len(ram')
          PROVE  a = 1 \/ (a - 1 \in 1..Len(stay) /\ ram'[a] = stay[a - 1])
      <3>1. a # 1 => a - 1 \in 1..Len(stay) /\ (a - 1) + 1 = a
        BY <1>4, <1>5, <2>2
      <3> QED BY <2>2, <3>1
    <2>5. Hash[e.key] = Hash[k]
      BY DEF e
    <2>6. ASSUME NEW a \in 1..Len(ram'), NEW b \in 1..Len(ram'),
                 Hash[ram'[a].key] = Hash[ram'[b].key]
          PROVE  a = b
      <3>1. CASE a = 1 /\ b # 1
        BY <1>7, <2>2, <2>4, <2>5, <2>6, <3>1
      <3>2. CASE a # 1 /\ b = 1
        BY <1>7, <2>2, <2>4, <2>5, <2>6, <3>2
      <3>3. CASE a # 1 /\ b # 1
        BY <1>7, <2>4, <2>6, <3>3 DEF UniqueHash
      <3> QED BY <3>1, <3>2, <3>3
    <2>7. Len(ram') <= Limit
      BY <1>2, <1>4, <1>5, <2>2
    <2>8. RamExact'
      BY <2>3, <2>6, <2>7 DEF RamExact
    <2>9. ASSUME NEW a \in 1..Len(ram')
          PROVE  (\E p \in 1..Len(ram) : ram'[a] = ram[p]) \/ ram'[a] = e
      BY <1>8, <2>2, <2>4
    <2> QED BY <1>10, <2>2, <2>8, <2>9 DEF e
  <1> QED BY <1>9, <1>10

-----------------------------------------------------------------------------
Blobs == Values \cup {Absent}

(* i is the last write of its hash in s; every such one writes what m has. *)
IsLast(s, i) == \A j \in 1..Len(s) : s[j].hash = s[i].hash => j <= i
BatchIs(s, m) == \A i \in 1..Len(s) : IsLast(s, i) => s[i].val = m[s[i].hash]

(* An entry of the read cache s is the blob last stored, or the committed  *)
(* one where the batch with the last was dropped.                          *)
RamIs(s, m, dropped, table) ==
    \A i \in 1..Len(s) :
        \/ s[i].val = m[Hash[s[i].key]]
        \/ Hash[s[i].key] \in dropped /\ s[i].val = table[Hash[s[i].key]]

(* The three layers agree.                                                 *)
LayersAgree ==
    /\ RamIs(ram, last, lossy, rows)
    /\ BatchIs(pend, last) /\ HashesOf(pend) \cap lossy = {}
    /\ \A h \in Hashes : h \notin HashesOf(pend) \cup lossy => rows[h] = last[h]

(* A process pends only while it has the database, loses only when a call  *)
(* failed, and asks for no empty blob.                                     *)
ProcessOK ==
    /\ HashesOf(pend) \subseteq used
    /\ db # "open" => pend = <<>> /\ ram = <<>>
    /\ db = "closed" => lossy = {}
    /\ db = "broken" => hurt
    /\ ~hurt => lossy = {}
    /\ torn => faults > 0
    /\ \A c \in Clients : ask[c] # NoAsk => ask[c][2] # 0

(* The inductive invariant.                                                *)
IInv == TypeOK /\ RamExact /\ LayersAgree /\ ProcessOK

(* Each hash of a batch has a last write.                                  *)
LEMMA LastWrite ==
    ASSUME NEW s \in Seq(Write), NEW h \in HashesOf(s)
    PROVE  \E i \in 1..Len(s) : s[i].hash = h /\ IsLast(s, i)
  <1> DEFINE at == {i \in 0..Len(s) : i \in 1..Len(s) /\ s[i].hash = h}
  <1>1. Len(s) \in Nat
    OBVIOUS
  <1>2. at \in SUBSET (0..Len(s)) /\ at # {}
    BY DEF HashesOf
  <1>3. PICK i \in at : \A j \in at : j <= i
    <2> HIDE DEF at
    <2> QED BY <1>1, <1>2, GreatestExists
  <1> QED BY <1>3 DEF IsLast

LEMMA InsertedIs ==
    ASSUME NEW s \in Seq(Write), NEW m, BatchIs(s, m)
    PROVE  Inserted(s) = [h \in Hashes |-> IF h \in HashesOf(s) THEN m[h] ELSE rows[h]]
  <1> SUFFICES ASSUME NEW h \in Hashes, h \in HashesOf(s)
               PROVE  s[CHOOSE i \in 1..Len(s) :
                           s[i].hash = h /\ \A j \in 1..Len(s) : s[j].hash = h => j <= i].val = m[h]
    BY Zenon DEF Inserted
  <1> DEFINE L(i) == s[i].hash = h /\ \A j \in 1..Len(s) : s[j].hash = h => j <= i
             c == CHOOSE i \in 1..Len(s) : L(i)
  <1>1. \E i \in 1..Len(s) : L(i)
    BY LastWrite DEF IsLast
  <1>2. c \in 1..Len(s) /\ L(c)
    <2> HIDE DEF L
    <2> QED BY <1>1, Zenon
  <1> HIDE DEF c
  <1>3. s[c].val = m[h]
    BY <1>2 DEF BatchIs, IsLast
  <1> QED BY <1>3 DEF c

LEMMA BelowIs ==
    ASSUME IInv, NEW h \in Hashes
    PROVE  /\ Below(h) = last[h] \/ (h \in lossy /\ Below(h) = rows[h])
           /\ Below(h) \in Blobs
  <1>1. pend \in Seq(Write)
    BY DEF IInv, TypeOK
  <1>2. CASE Pending(h) = {}
    <2>1. h \notin HashesOf(pend)
      BY <1>2 DEF Pending, HashesOf
    <2>2. Below(h) = rows[h]
      BY <1>2 DEF Below
    <2> QED BY <2>1, <2>2 DEF IInv, LayersAgree, TypeOK, Blobs
  <1>3. CASE Pending(h) # {}
    <2> DEFINE L(i) == \A j \in Pending(h) : j <= i
               c == CHOOSE i \in Pending(h) : L(i)
    <2>1. h \in HashesOf(pend)
      BY <1>3 DEF Pending, HashesOf
    <2>2. \E i \in Pending(h) : L(i)
      <3>1. PICK i \in 1..Len(pend) : pend[i].hash = h /\ IsLast(pend, i)
        BY <1>1, <2>1, LastWrite
      <3> QED BY <3>1 DEF Pending, IsLast
    <2>3. c \in Pending(h) /\ L(c)
      <3> HIDE DEF L
      <3> QED BY <2>2, Zenon
    <2> HIDE DEF c
    <2>4. Newest(h) = c
      BY Zenon DEF Newest, c
    <2>5. pend[c].val = last[h]
      BY <2>3 DEF Pending, IsLast, BatchIs, IInv, LayersAgree
    <2>6. Below(h) = last[h]
      BY <1>3, <2>4, <2>5 DEF Below
    <2> QED BY <2>6 DEF IInv, TypeOK, Blobs
  <1> QED BY <1>2, <1>3

(* A batch ends: committed, or dropped by a failing call.                  *)
LEMMA BatchEnds ==
    ASSUME NEW s \in Seq(Write), NEW m, BatchIs(s, m), FlushPending(s)
    PROVE  /\ pend' = <<>> /\ pbytes' = 0
           /\ \/ /\ rows' = [h \in Hashes |-> IF h \in HashesOf(s) THEN m[h] ELSE rows[h]]
                 /\ lossy' = lossy \ HashesOf(s) /\ Works
              \/ /\ s # <<>> /\ rows' = rows
                 /\ lossy' = lossy \cup HashesOf(s) /\ Fails
  <1>1. Inserted(s) = [h \in Hashes |-> IF h \in HashesOf(s) THEN m[h] ELSE rows[h]]
    BY InsertedIs
  <1> QED BY <1>1 DEF FlushPending

LEMMA NoHashes == HashesOf(<<>>) = {} /\ <<>> \in Seq(Write)
  BY DEF HashesOf

(* What a failing or a working call does to the counters.                  *)
LEMMA Counters ==
    ASSUME TypeOK, Works \/ Fails
    PROVE  /\ faults' \in Nat /\ faults' >= faults /\ hurt' \in BOOLEAN
           /\ Works => faults' = faults /\ hurt' = hurt
           /\ Fails => faults' > faults /\ hurt'
           /\ hurt => hurt'
  <1>1. faults \in Nat /\ hurt \in BOOLEAN
    BY DEF TypeOK
  <1>2. Works => faults' = faults /\ hurt' = hurt
    BY DEF Works
  <1>3. Fails => faults' = faults + 1 /\ hurt' = TRUE
    BY DEF Fails
  <1>4. Fails => faults' > faults
    BY <1>1, <1>3
  <1>5. faults' \in Nat /\ faults' >= faults
    BY <1>1, <1>2, <1>3
  <1>6. Fails => hurt'
    BY <1>3, Zenon
  <1>7. hurt' \in BOOLEAN /\ (hurt => hurt')
    BY <1>1, <1>2, <1>3, Zenon
  <1> QED BY <1>2, <1>4, <1>5, <1>6, <1>7

-----------------------------------------------------------------------------
LEMMA InitIInv == Init => IInv
  <1> SUFFICES ASSUME Init PROVE IInv
    OBVIOUS
  <1>1. TypeOK
    BY WeightOfEmpty, NoHashes DEF Init, TypeOK, Nothing
  <1>2. RamExact
    BY BlobAssumption, WeightOfEmpty DEF Init, RamExact
  <1>3. LayersAgree
    BY NoHashes DEF Init, LayersAgree, RamIs, BatchIs
  <1>4. ProcessOK
    BY NoHashes DEF Init, ProcessOK
  <1> QED BY <1>1, <1>2, <1>3, <1>4 DEF IInv

(* A lookup leaves the read cache exact and right, and finds the last      *)
(* blob, the committed one after a dropped batch, or nothing if it fails.  *)
LEMMA LoadIs ==
    ASSUME IInv, NEW k \in Keys, NEW n, NEW v \in Blobs, Load(k, n, v)
    PROVE  /\ ram' \in Seq(Entry) /\ RamExact'
           /\ RamIs(ram', last, lossy, rows)
           /\ Works \/ Fails
           /\ \/ v = last[Hash[k]]
              \/ Hash[k] \in lossy /\ v = rows[Hash[k]]
              \/ Fails /\ v = Absent
  <1> DEFINE h == Hash[k]
             Right(b) == b = last[h] \/ (h \in lossy /\ b = rows[h])
  <1>1. h \in Hashes /\ ram \in Seq(Entry) /\ RamExact /\ RamIs(ram, last, lossy, rows)
    BY BlobAssumption DEF IInv, TypeOK, LayersAgree
  <1>2. CASE /\ Hits(k) # {}
             /\ v = ram[CHOOSE i \in Hits(k) : TRUE].val
             /\ Touch(k) /\ Works
    <2> DEFINE c == CHOOSE i \in Hits(k) : TRUE
    <2>1. /\ ram' \in Seq(Entry) /\ RamExact' /\ ComesFrom(ram', ram)
          /\ c \in Hits(k) /\ v = ram[c].val
      BY <1>1, <1>2, TouchExact
    <2> HIDE DEF c
    <2>2. RamIs(ram', last, lossy, rows)
      BY <1>1, <2>1 DEF RamIs, ComesFrom
    <2>3. Right(v)
      BY <1>1, <2>1 DEF Hits, RamIs
    <2> QED BY <1>2, <2>1, <2>2, <2>3
  <1>3. ASSUME Accepts(v), v = Below(h), NEW decoded \in BOOLEAN, Fill(k, v, decoded)
        PROVE  /\ ram' \in Seq(Entry) /\ RamExact' /\ RamIs(ram', last, lossy, rows)
    <2>1. /\ ram' \in Seq(Entry) /\ RamExact'
          /\ \A a \in 1..Len(ram') :
                \/ \E p \in 1..Len(ram) : ram'[a] = ram[p]
                \/ decoded /\ ram'[a] = [key |-> k, val |-> v]
      BY <1>1, <1>3, FillExact DEF Blobs
    <2>2. Right(v)
      BY <1>1, <1>3, BelowIs
    <2>3. ASSUME NEW a \in 1..Len(ram')
          PROVE  \/ ram'[a].val = last[Hash[ram'[a].key]]
                 \/ /\ Hash[ram'[a].key] \in lossy
                    /\ ram'[a].val = rows[Hash[ram'[a].key]]
      <3>1. CASE \E p \in 1..Len(ram) : ram'[a] = ram[p]
        <4>1. PICK p \in 1..Len(ram) : ram'[a] = ram[p]
          BY <3>1
        <4>2. \/ ram[p].val = last[Hash[ram[p].key]]
              \/ Hash[ram[p].key] \in lossy /\ ram[p].val = rows[Hash[ram[p].key]]
          BY <1>1 DEF RamIs
        <4> QED BY <4>1, <4>2
      <3>2. CASE ram'[a] = [key |-> k, val |-> v]
        <4>1. ram'[a].key = k /\ ram'[a].val = v
          BY <3>2
        <4> QED BY <2>2, <4>1
      <3> QED BY <2>1, <3>1, <3>2
    <2>4. RamIs(ram', last, lossy, rows)
      BY <2>3 DEF RamIs
    <2> QED BY <2>1, <2>4
  <1>4. CASE /\ v = Below(h) /\ Works
             /\ IF Accepts(v) /\ n \in {0, SizeOf(v)} THEN Fill(k, v, TRUE) ELSE UNCHANGED ramVars
    <2>1. Right(v)
      BY <1>1, <1>4, BelowIs
    <2>2. CASE UNCHANGED ramVars
      BY <1>1, <1>4, <2>1, <2>2 DEF ramVars, RamExact
    <2>3. CASE Accepts(v) /\ Fill(k, v, TRUE)
      BY <1>3, <1>4, <2>1, <2>3
    <2> QED BY <1>4, <2>2, <2>3
  <1>5. ASSUME NEW w, w = Below(h), Accepts(w), Fill(k, w, FALSE)
        PROVE  /\ ram' \in Seq(Entry) /\ RamExact' /\ RamIs(ram', last, lossy, rows)
    <2>1. w \in Values \cup {Absent}
      BY <1>1, <1>5, BelowIs DEF Blobs
    <2>2. /\ ram' \in Seq(Entry) /\ RamExact'
          /\ \A a \in 1..Len(ram') : \E p \in 1..Len(ram) : ram'[a] = ram[p]
      BY <1>1, <1>5, <2>1, FillExact
    <2>3. RamIs(ram', last, lossy, rows)
      BY <1>1, <2>2 DEF RamIs
    <2> QED BY <2>2, <2>3
  <1>6. CASE /\ v = Absent /\ Fails
             /\ UNCHANGED ramVars \/ (Accepts(Below(h)) /\ Fill(k, Below(h), FALSE))
    <2>1. CASE UNCHANGED ramVars
      BY <1>1, <1>6, <2>1 DEF ramVars, RamExact
    <2>2. CASE Accepts(Below(h)) /\ Fill(k, Below(h), FALSE)
      BY <1>5, <1>6, <2>2
    <2> QED BY <1>6, <2>1, <2>2
  <1> QED BY <1>2, <1>4, <1>6 DEF Load

-----------------------------------------------------------------------------
(* Every call keeps the invariant.                                         *)
LEMMA LookupIInv ==
    ASSUME IInv, NEW c \in Clients, LoadCopy(c) \/ \E k \in Keys : LoadSize(c, k)
    PROVE  IInv'
  <1>1. PICK k \in Keys, n \in Nat, v \in Blobs :
           /\ Load(k, n, v)
           /\ \/ /\ reply' = <<k, Absent>> /\ ask' = ask /\ used' = used
              \/ /\ SizeOf(v) # 0 /\ reply' = reply /\ used' = used
                 /\ ask' = [ask EXCEPT ![c] = <<k, SizeOf(v)>>]
              \/ /\ ask' = [ask EXCEPT ![c] = NoAsk]
                 /\ \E b \in Blobs \cup {Changed} : reply' = <<k, b>>
                 /\ used' = used \/ used' = used \cup {Hash[k]}
    <2>1. CASE LoadCopy(c)
      <3>1. /\ ask[c] # NoAsk /\ ask[c] \in Keys \X Nat
        BY <2>1 DEF LoadCopy, IInv, TypeOK
      <3>2. PICK v \in Values \cup {Absent} :
               /\ Load(ask[c][1], ask[c][2], v)
               /\ reply' = <<ask[c][1], IF SizeOf(v) = 0 THEN Absent
                                     ELSE IF SizeOf(v) = ask[c][2] THEN v ELSE Changed>>
               /\ used' = IF SizeOf(v) = ask[c][2] THEN used \cup {Hash[ask[c][1]]} ELSE used
        BY <2>1 DEF LoadCopy
      <3>3. ask' = [ask EXCEPT ![c] = NoAsk]
        BY <2>1 DEF LoadCopy
      <3>4. \E b \in Blobs \cup {Changed} : reply' = <<ask[c][1], b>>
        BY <3>2 DEF Blobs
      <3>5. ask[c][1] \in Keys /\ ask[c][2] \in Nat /\ v \in Blobs
        BY <3>1 DEF Blobs
      <3> QED BY <3>2, <3>3, <3>4, <3>5
    <2>2. ASSUME NEW k \in Keys, LoadSize(c, k)
          PROVE  \E n \in Nat, v \in Blobs :
                    /\ Load(k, n, v)
                    /\ \/ /\ reply' = <<k, Absent>> /\ ask' = ask /\ used' = used
                       \/ /\ SizeOf(v) # 0 /\ reply' = reply /\ used' = used
                          /\ ask' = [ask EXCEPT ![c] = <<k, SizeOf(v)>>]
      BY <2>2 DEF LoadSize, Blobs
    <2> QED BY <2>1, <2>2
  <1>2. UNCHANGED <<pend, pbytes, rows, torn, db, last, lossy, stores>>
    BY DEF LoadCopy, LoadSize, pendVars, diskVars, obsVars
  <1>3. /\ ram' \in Seq(Entry) /\ RamExact' /\ RamIs(ram', last, lossy, rows)
        /\ Works \/ Fails
    BY <1>1, LoadIs
  <1>4. /\ faults' \in Nat /\ faults' >= faults /\ hurt' \in BOOLEAN /\ (hurt => hurt')
    BY <1>3, Counters DEF IInv
  <1>5. /\ Hash[k] \in Hashes /\ SizeOf(v) \in Nat
        /\ k \in Keys
    BY <1>1, BlobAssumption DEF SizeOf, Blobs
  <1>6. used' \in SUBSET Hashes /\ used \subseteq used'
    BY <1>1, <1>5 DEF IInv, TypeOK
  <1>7. reply' \in {<<>>} \cup (Keys \X (Values \cup {Absent, Changed}))
    BY <1>1, <1>5 DEF IInv, TypeOK, Blobs
  <1>8. /\ ask' \in [Clients -> (Keys \X Nat) \cup {NoAsk}]
        /\ \A d \in Clients : ask'[d] # NoAsk => ask'[d][2] # 0
    <2>1. /\ ask \in [Clients -> (Keys \X Nat) \cup {NoAsk}]
          /\ \A d \in Clients : ask[d] # NoAsk => ask[d][2] # 0
      BY DEF IInv, TypeOK, ProcessOK
    <2>2. \/ ask' = ask
          \/ ask' = [ask EXCEPT ![c] = NoAsk]
          \/ SizeOf(v) # 0 /\ ask' = [ask EXCEPT ![c] = <<k, SizeOf(v)>>]
      BY <1>1
    <2> QED BY <1>5, <2>1, <2>2
  <1>9. bytes' \in Nat
    BY <1>3, FilterWeight DEF RamExact
  <1>10. TypeOK'
    BY <1>2, <1>3, <1>4, <1>6, <1>7, <1>8, <1>9 DEF IInv, TypeOK
  <1>11. LayersAgree'
    BY <1>2, <1>3 DEF IInv, LayersAgree, RamIs, BatchIs, IsLast, HashesOf
  <1>12. ProcessOK'
    <2>1. HashesOf(pend') = HashesOf(pend)
      BY <1>2
    <2>2. torn => faults' > 0
      BY <1>4 DEF IInv, ProcessOK, TypeOK
    <2>3. db = "open"
      BY <1>1 DEF Load
    <2> QED BY <1>2, <1>4, <1>6, <1>8, <2>1, <2>2, <2>3 DEF IInv, ProcessOK
  <1> QED BY <1>3, <1>10, <1>11, <1>12 DEF IInv

(* A batch s that is as last stored leaves the layers in agreement, both   *)
(* when it is committed and when it is dropped.                            *)
LEMMA BatchAgrees ==
    ASSUME IInv, NEW s \in Seq(Write), NEW m \in [Hashes -> Blobs], BatchIs(s, m),
           HashesOf(pend) \subseteq HashesOf(s),
           \A h \in Hashes : h \notin HashesOf(s) => m[h] = last[h],
           last' = m, FlushPending(s),
           \A a \in 1..Len(ram') :
               /\ \E p \in 1..Len(ram) : ram'[a] = ram[p]
               /\ Hash[ram'[a].key] \in HashesOf(s) => Hash[ram'[a].key] \in HashesOf(pend)
                                                          /\ m[Hash[ram'[a].key]] = last[Hash[ram'[a].key]]
    PROVE  /\ LayersAgree'
           /\ pend' = <<>> /\ pbytes' = 0 /\ HashesOf(pend') = {}
           /\ rows' \in [Hashes -> Blobs] /\ lossy' \in SUBSET Hashes
           /\ Works \/ Fails
           /\ lossy' \subseteq lossy \/ Fails
  <1>1. /\ pend' = <<>> /\ pbytes' = 0
        /\ \/ /\ rows' = [h \in Hashes |-> IF h \in HashesOf(s) THEN m[h] ELSE rows[h]]
              /\ lossy' = lossy \ HashesOf(s) /\ Works
           \/ /\ s # <<>> /\ rows' = rows
              /\ lossy' = lossy \cup HashesOf(s) /\ Fails
    BY BatchEnds
  <1>2. HashesOf(pend') = {} /\ HashesOf(s) \subseteq Hashes
    <2>1. \A i \in 1..Len(s) : s[i] \in Write
      OBVIOUS
    <2> QED BY <1>1, <2>1, NoHashes DEF HashesOf, Write
  <1>3. /\ ram \in Seq(Entry) /\ RamIs(ram, last, lossy, rows)
        /\ HashesOf(pend) \cap lossy = {}
        /\ rows \in [Hashes -> Blobs] /\ lossy \in SUBSET Hashes
        /\ \A h \in Hashes : h \notin HashesOf(pend) \cup lossy => rows[h] = last[h]
    BY DEF IInv, TypeOK, LayersAgree, Blobs
  <1>4. rows' \in [Hashes -> Blobs] /\ lossy' \in SUBSET Hashes
    BY <1>1, <1>2, <1>3
  <1>5. \A h \in Hashes : h \notin lossy' => rows'[h] = last'[h]
    BY <1>1, <1>3
  <1>6. RamIs(ram', last', lossy', rows')
    <2> SUFFICES ASSUME NEW a \in 1..Len(ram')
                 PROVE  \/ ram'[a].val = m[Hash[ram'[a].key]]
                        \/ /\ Hash[ram'[a].key] \in lossy'
                           /\ ram'[a].val = rows'[Hash[ram'[a].key]]
      BY DEF RamIs
    <2>1. PICK p \in 1..Len(ram) : ram'[a] = ram[p]
      OBVIOUS
    <2>2. PICK h \in Hashes : h = Hash[ram'[a].key]
      <3>1. ram[p] \in Entry
        BY <1>3
      <3> QED BY <2>1, <3>1, BlobAssumption DEF Entry
    <2>3. ram'[a].val = last[h] \/ (h \in lossy /\ ram'[a].val = rows[h])
      BY <1>3, <2>1, <2>2 DEF RamIs
    <2>4. CASE h \in HashesOf(s)
      BY <1>3, <2>2, <2>3, <2>4
    <2>5. CASE h \notin HashesOf(s)
      BY <1>1, <2>2, <2>3, <2>5
    <2> QED BY <2>4, <2>5
  <1>7. BatchIs(pend', last')
    BY <1>1 DEF BatchIs
  <1>8. LayersAgree'
    BY <1>2, <1>5, <1>6, <1>7 DEF LayersAgree
  <1> QED BY <1>1, <1>2, <1>4, <1>8

LEMMA AppendBatch ==
    ASSUME NEW s \in Seq(Write), NEW m \in [Hashes -> Blobs], BatchIs(s, m),
           NEW h \in Hashes, NEW v \in Values
    PROVE  LET batch == Append(s, [hash |-> h, val |-> v])
           IN  /\ batch \in Seq(Write)
               /\ BatchIs(batch, [m EXCEPT ![h] = v])
               /\ HashesOf(batch) = HashesOf(s) \cup {h}
  <1> DEFINE w == [hash |-> h, val |-> v]
             batch == Append(s, w)
  <1>1. w \in Write /\ w.hash = h /\ w.val = v
    BY DEF Write
  <1> HIDE DEF w
  <1>2. /\ batch \in Seq(Write) /\ Len(batch) = Len(s) + 1 /\ batch[Len(s) + 1] = w
        /\ \A i \in 1..Len(s) : batch[i] = s[i]
        /\ Len(s) \in Nat
    BY <1>1
  <1> HIDE DEF batch
  <1>3. ASSUME NEW i \in 1..Len(batch), IsLast(batch, i)
        PROVE  batch[i].val = [m EXCEPT ![h] = v][batch[i].hash]
    <2>1. CASE i = Len(s) + 1
      BY <1>1, <1>2, <2>1
    <2>2. CASE i # Len(s) + 1
      <3>1. i \in 1..Len(s) /\ batch[i] = s[i] /\ s[i] \in Write
        BY <1>2, <2>2
      <3>2. s[i].hash # h
        <4>1. Len(s) + 1 \in 1..Len(batch) /\ ~(Len(s) + 1 <= i)
          BY <1>2, <3>1
        <4> QED BY <1>1, <1>2, <1>3, <3>1, <4>1 DEF IsLast
      <3>3. IsLast(s, i)
        <4> SUFFICES ASSUME NEW j \in 1..Len(s), s[j].hash = s[i].hash PROVE j <= i
          BY DEF IsLast
        <4>1. j \in 1..Len(batch) /\ batch[j] = s[j]
          BY <1>2
        <4> QED BY <1>3, <3>1, <4>1 DEF IsLast
      <3>4. s[i].val = m[s[i].hash] /\ s[i].hash \in Hashes
        BY <3>1, <3>3 DEF BatchIs, Write
      <3> QED BY <3>1, <3>2, <3>4
    <2> QED BY <2>1, <2>2
  <1>4. BatchIs(batch, [m EXCEPT ![h] = v])
    BY <1>3 DEF BatchIs
  <1>5. HashesOf(batch) = HashesOf(s) \cup {h}
    <2>1. ASSUME NEW i \in 1..Len(batch) PROVE batch[i].hash \in HashesOf(s) \cup {h}
      <3>1. i = Len(s) + 1 \/ i \in 1..Len(s)
        BY <1>2
      <3> QED BY <1>1, <1>2, <3>1 DEF HashesOf
    <2>2. ASSUME NEW i \in 1..Len(s) PROVE s[i].hash \in HashesOf(batch)
      <3>1. i \in 1..Len(batch)
        BY <1>2
      <3> QED BY <1>2, <3>1 DEF HashesOf
    <2>3. h \in HashesOf(batch)
      <3>1. Len(s) + 1 \in 1..Len(batch)
        BY <1>2
      <3> QED BY <1>1, <1>2, <3>1 DEF HashesOf
    <2> QED BY <2>1, <2>2, <2>3 DEF HashesOf
  <1> QED BY <1>2, <1>4, <1>5 DEF batch, w

LEMMA StoreIInv ==
    ASSUME IInv, NEW k \in Keys, NEW v \in Values, StoreToCache(k, v)
    PROVE  IInv'
  <1> DEFINE h == Hash[k]
             m == [last EXCEPT ![h] = v]
             batch == Append(pend, [hash |-> h, val |-> v])
  <1>1. /\ h \in Hashes /\ Size[v] \in Nat
        /\ pend \in Seq(Write) /\ ram \in Seq(Entry) /\ last \in [Hashes -> Blobs]
        /\ BatchIs(pend, last) /\ RamIs(ram, last, lossy, rows) /\ RamExact
        /\ HashesOf(pend) \subseteq used /\ HashesOf(pend) \cap lossy = {}
        /\ \A g \in Hashes : g \notin HashesOf(pend) \cup lossy => rows[g] = last[g]
    BY BlobAssumption DEF IInv, TypeOK, LayersAgree, ProcessOK, Blobs
  <1>2. /\ batch \in Seq(Write) /\ BatchIs(batch, m)
        /\ HashesOf(batch) = HashesOf(pend) \cup {h}
    BY <1>1, AppendBatch
  <1>3. /\ ram' = Kept(k) /\ bytes' = Remaining(Kept(k))
        /\ used' = used \cup {h} /\ last' = m /\ db = "open" /\ db' = db
        /\ stores' = stores + 1
        /\ UNCHANGED <<torn, ask, reply>>
    BY DEF StoreToCache, Invalidate, clientVars
  <1>4. \/ FlushPending(batch)
        \/ /\ pend' = batch /\ pbytes' = pbytes + Size[v] /\ lossy' = lossy \ {h}
           /\ rows' = rows /\ Works
    BY DEF StoreToCache
  <1> HIDE DEF h, batch
  <1>5. m \in [Hashes -> Blobs] /\ m[h] = v /\ \A g \in Hashes : g # h => m[g] = last[g]
    BY <1>1 DEF Blobs
  <1> HIDE DEF m
  <1>6. /\ ram' \in Seq(Entry) /\ RamExact' /\ bytes' \in Nat
        /\ \A a \in 1..Len(ram') : (\E p \in 1..Len(ram) : ram'[a] = ram[p])
                                      /\ Hash[ram'[a].key] # h
    <2>1. /\ Kept(k) \in Seq(Entry) /\ Len(Kept(k)) <= Limit
          /\ UniqueHash(Kept(k)) /\ ComesFrom(Kept(k), ram)
          /\ \A a \in 1..Len(Kept(k)) : Hash[Kept(k)[a].key] # Hash[k]
          /\ Remaining(Kept(k)) = Weight(Kept(k))
          /\ Weight(Kept(k)) \in Nat /\ Weight(Kept(k)) <= Budget
      BY <1>1, KeptExact
    <2> QED BY <1>3, <2>1 DEF RamExact, UniqueHash, ComesFrom, h
  <1>7. /\ LayersAgree'
        /\ HashesOf(pend') \subseteq used'
        /\ pend' \in Seq(Write) /\ pbytes' \in Nat
        /\ rows' \in [Hashes -> Blobs] /\ lossy' \in SUBSET Hashes
        /\ Works \/ Fails
        /\ lossy' \subseteq lossy \/ Fails
    <2>1. CASE FlushPending(batch)
      <3>1. \A g \in Hashes : g \notin HashesOf(batch) => m[g] = last[g]
        BY <1>2, <1>5
      <3>2. ASSUME NEW a \in 1..Len(ram')
            PROVE  /\ \E p \in 1..Len(ram) : ram'[a] = ram[p]
                   /\ Hash[ram'[a].key] \in HashesOf(batch) =>
                          Hash[ram'[a].key] \in HashesOf(pend)
                          /\ m[Hash[ram'[a].key]] = last[Hash[ram'[a].key]]
        <4>1. ram'[a] \in Entry
          BY <1>6
        <4>2. Hash[ram'[a].key] \in Hashes
          BY <4>1, BlobAssumption DEF Entry
        <4> QED BY <1>2, <1>5, <1>6, <4>2
      <3>3. HashesOf(pend) \subseteq HashesOf(batch)
        BY <1>2
      <3>4. /\ LayersAgree'
            /\ pend' = <<>> /\ pbytes' = 0 /\ HashesOf(pend') = {}
            /\ rows' \in [Hashes -> Blobs] /\ lossy' \in SUBSET Hashes
            /\ Works \/ Fails
            /\ lossy' \subseteq lossy \/ Fails
        BY <1>2, <1>3, <1>5, <2>1, <3>1, <3>2, <3>3, BatchAgrees
      <3> QED BY <3>4, NoHashes
    <2>2. CASE /\ pend' = batch /\ pbytes' = pbytes + Size[v] /\ lossy' = lossy \ {h}
               /\ rows' = rows /\ Works
      <3>1. RamIs(ram', last', lossy', rows')
        <4> SUFFICES ASSUME NEW a \in 1..Len(ram')
                     PROVE  \/ ram'[a].val = m[Hash[ram'[a].key]]
                            \/ /\ Hash[ram'[a].key] \in lossy'
                               /\ ram'[a].val = rows'[Hash[ram'[a].key]]
          BY <1>3 DEF RamIs
        <4>1. PICK p \in 1..Len(ram) : ram'[a] = ram[p]
          BY <1>6
        <4>2. PICK g \in Hashes : g = Hash[ram'[a].key] /\ g # h
          <5>1. ram'[a] \in Entry
            BY <1>6
          <5> QED BY <1>6, <5>1, BlobAssumption DEF Entry
        <4>3. ram'[a].val = last[g] \/ (g \in lossy /\ ram'[a].val = rows[g])
          BY <1>1, <4>1, <4>2 DEF RamIs
        <4> QED BY <1>5, <2>2, <4>2, <4>3
      <3>2. BatchIs(pend', last') /\ HashesOf(pend') = HashesOf(pend) \cup {h}
        BY <1>2, <1>3, <2>2
      <3>3. \A g \in Hashes : g \notin HashesOf(pend') \cup lossy' => rows'[g] = last'[g]
        BY <1>1, <1>3, <1>5, <2>2, <3>2
      <3>4. LayersAgree'
        BY <1>1, <2>2, <3>1, <3>2, <3>3 DEF LayersAgree
      <3>5. rows' \in [Hashes -> Blobs] /\ lossy' \in SUBSET Hashes /\ pbytes' \in Nat
        BY <1>1, <2>2 DEF IInv, TypeOK, Blobs
      <3> QED BY <1>1, <1>2, <1>3, <2>2, <3>2, <3>4, <3>5
    <2> QED BY <1>4, <2>1, <2>2
  <1>8. /\ faults' \in Nat /\ faults' >= faults /\ hurt' \in BOOLEAN /\ (hurt => hurt')
        /\ Fails => hurt'
    BY <1>7, Counters DEF IInv
  <1>9. TypeOK'
    <2>1. used' \in SUBSET Hashes /\ stores' \in Nat /\ last' \in [Hashes -> Values \cup {Absent}]
      BY <1>1, <1>3, <1>5 DEF IInv, TypeOK, Blobs
    <2> QED BY <1>3, <1>6, <1>7, <1>8, <2>1 DEF IInv, TypeOK, Blobs
  <1>10. ProcessOK'
    <2>1. torn => faults' > 0
      BY <1>8 DEF IInv, ProcessOK, TypeOK
    <2>2. ~hurt' => lossy' = {}
      BY <1>7, <1>8 DEF IInv, ProcessOK
    <2> QED BY <1>3, <1>7, <2>1, <2>2 DEF IInv, ProcessOK
  <1> QED BY <1>6, <1>7, <1>9, <1>10 DEF IInv

(* cache_flush, and the batch of cache_shutdown.                           *)
LEMMA FlushIInv ==
    ASSUME IInv, CacheFlush \/ CacheShutdown
    PROVE  IInv'
  <1>1. /\ pend \in Seq(Write) /\ ram \in Seq(Entry) /\ last \in [Hashes -> Blobs]
        /\ BatchIs(pend, last) /\ RamExact
    BY DEF IInv, TypeOK, LayersAgree, Blobs
  <1>2. /\ db = "open" /\ FlushPending(pend) /\ db' \in {"open", "down"}
        /\ (ram' = ram /\ bytes' = bytes) \/ (ram' = <<>> /\ bytes' = 0)
        /\ db' # "open" => ram' = <<>>
        /\ UNCHANGED <<torn, used, ask, reply, last, stores>>
    BY DEF CacheFlush, CacheShutdown, ClearRam, ramVars, clientVars
  <1>3. \A a \in 1..Len(ram') :
           /\ \E p \in 1..Len(ram) : ram'[a] = ram[p]
           /\ Hash[ram'[a].key] \in HashesOf(pend) => Hash[ram'[a].key] \in HashesOf(pend)
                                                      /\ last[Hash[ram'[a].key]] = last[Hash[ram'[a].key]]
    BY <1>1, <1>2
  <1>4. /\ LayersAgree'
        /\ pend' = <<>> /\ pbytes' = 0 /\ HashesOf(pend') = {}
        /\ rows' \in [Hashes -> Blobs] /\ lossy' \in SUBSET Hashes
        /\ Works \/ Fails
        /\ lossy' \subseteq lossy \/ Fails
    BY <1>1, <1>2, <1>3, BatchAgrees
  <1>5. /\ faults' \in Nat /\ faults' >= faults /\ hurt' \in BOOLEAN /\ (hurt => hurt')
        /\ Fails => hurt'
    BY <1>4, Counters DEF IInv
  <1>6. RamExact' /\ ram' \in Seq(Entry) /\ bytes' \in Nat
    <2>1. CASE ram' = ram /\ bytes' = bytes
      BY <1>1, <2>1 DEF RamExact, IInv, TypeOK
    <2>2. CASE ram' = <<>> /\ bytes' = 0
      BY <2>2, BlobAssumption, WeightOfEmpty DEF RamExact
    <2> QED BY <1>2, <2>1, <2>2
  <1>7. TypeOK'
    BY <1>2, <1>4, <1>5, <1>6, NoHashes DEF IInv, TypeOK, Blobs
  <1>8. ProcessOK'
    <2>1. torn => faults' > 0
      BY <1>5 DEF IInv, ProcessOK, TypeOK
    <2>2. ~hurt' => lossy' = {}
      BY <1>4, <1>5 DEF IInv, ProcessOK
    <2> QED BY <1>2, <1>4, <2>1, <2>2 DEF IInv, ProcessOK
  <1> QED BY <1>4, <1>6, <1>7, <1>8 DEF IInv

(* What cache_prune leaves in the table and as the map.                    *)
LEMMA PruneIs ==
    ASSUME IInv, CachePrune
    PROVE  \E saved, pruned \in BOOLEAN :
              /\ saved \/ pend # <<>>
              /\ pruned \/ used # {}
              /\ IF saved /\ pruned THEN Works ELSE Fails
              /\ rows' = [h \in Hashes |->
                             IF used = {} \/ h \in used \/ ~pruned
                             THEN IF saved /\ h \in HashesOf(pend) THEN last[h] ELSE rows[h]
                             ELSE Absent]
              /\ last' = [h \in Hashes |->
                             IF used = {} \/ h \in used \/ ~pruned THEN last[h] ELSE Absent]
              /\ lossy' = IF saved THEN lossy \ HashesOf(pend) ELSE lossy \cup HashesOf(pend)
  <1>1. pend \in Seq(Write) /\ BatchIs(pend, last)
    BY DEF IInv, TypeOK, LayersAgree
  <1>2. Inserted(pend) = [h \in Hashes |-> IF h \in HashesOf(pend) THEN last[h] ELSE rows[h]]
    BY <1>1, InsertedIs
  <1>3. PICK saved \in BOOLEAN, pruned \in BOOLEAN :
           LET table == IF saved THEN Inserted(pend) ELSE rows
               kept  == IF pruned THEN used ELSE Hashes
           IN  /\ saved \/ pend # <<>>
               /\ pruned \/ used # {}
               /\ IF saved /\ pruned THEN Works ELSE Fails
               /\ rows' = [h \in Hashes |-> IF used = {} \/ h \in kept THEN table[h] ELSE Absent]
               /\ last' = [h \in Hashes |-> IF used = {} \/ h \in kept THEN last[h] ELSE Absent]
               /\ lossy' = IF saved THEN lossy \ HashesOf(pend) ELSE lossy \cup HashesOf(pend)
    BY Zenon DEF CachePrune, PruneBatch
  <1>4. rows' = [h \in Hashes |->
                   IF used = {} \/ h \in used \/ ~pruned
                   THEN IF saved /\ h \in HashesOf(pend) THEN last[h] ELSE rows[h]
                   ELSE Absent]
    BY <1>2, <1>3
  <1>5. last' = [h \in Hashes |-> IF used = {} \/ h \in used \/ ~pruned THEN last[h] ELSE Absent]
    BY <1>3
  <1>6. /\ saved \/ pend # <<>>
        /\ pruned \/ used # {}
        /\ IF saved /\ pruned THEN Works ELSE Fails
        /\ lossy' = IF saved THEN lossy \ HashesOf(pend) ELSE lossy \cup HashesOf(pend)
    BY <1>3, Zenon
  <1> QED BY <1>4, <1>5, <1>6, Zenon

LEMMA PruneIInv ==
    ASSUME IInv, CachePrune
    PROVE  IInv'
  <1>1. PICK saved, pruned \in BOOLEAN :
           /\ IF saved /\ pruned THEN Works ELSE Fails
           /\ rows' = [h \in Hashes |->
                          IF used = {} \/ h \in used \/ ~pruned
                          THEN IF saved /\ h \in HashesOf(pend) THEN last[h] ELSE rows[h]
                          ELSE Absent]
           /\ last' = [h \in Hashes |->
                          IF used = {} \/ h \in used \/ ~pruned THEN last[h] ELSE Absent]
           /\ lossy' = IF saved THEN lossy \ HashesOf(pend) ELSE lossy \cup HashesOf(pend)
    BY PruneIs
  <1>2. /\ ram' = <<>> /\ bytes' = 0 /\ pend' = <<>> /\ pbytes' = 0 /\ db = "open"
        /\ UNCHANGED <<torn, db, used, ask, reply, stores>>
    BY DEF CachePrune, ClearRam, clientVars
  <1>3. /\ pend \in Seq(Write) /\ HashesOf(pend) \subseteq Hashes
        /\ rows \in [Hashes -> Blobs] /\ last \in [Hashes -> Blobs] /\ lossy \in SUBSET Hashes
        /\ HashesOf(pend) \cap lossy = {}
        /\ \A h \in Hashes : h \notin HashesOf(pend) \cup lossy => rows[h] = last[h]
    <2>1. HashesOf(pend) \subseteq Hashes
      BY DEF IInv, ProcessOK, TypeOK
    <2> QED BY <2>1 DEF IInv, TypeOK, LayersAgree, Blobs
  <1>4. HashesOf(pend') = {}
    BY <1>2, NoHashes
  <1>5. rows' \in [Hashes -> Blobs] /\ last' \in [Hashes -> Blobs] /\ lossy' \in SUBSET Hashes
    BY <1>1, <1>3 DEF Blobs
  <1>6. \A h \in Hashes : h \notin lossy' => rows'[h] = last'[h]
    BY <1>1, <1>3
  <1>7. LayersAgree'
    BY <1>2, <1>4, <1>6 DEF LayersAgree, RamIs, BatchIs
  <1>8. RamExact' /\ ram' \in Seq(Entry) /\ bytes' \in Nat
    BY <1>2, BlobAssumption, WeightOfEmpty DEF RamExact
  <1>9. /\ faults' \in Nat /\ faults' >= faults /\ hurt' \in BOOLEAN /\ (hurt => hurt')
        /\ Fails => hurt'
    BY <1>1, Counters DEF IInv
  <1>10. TypeOK'
    BY <1>2, <1>5, <1>8, <1>9, NoHashes DEF IInv, TypeOK, Blobs
  <1>11. ProcessOK'
    <2>1. torn => faults' > 0
      BY <1>9 DEF IInv, ProcessOK, TypeOK
    <2>2. ~hurt' => lossy' = {}
      BY <1>1, <1>9 DEF IInv, ProcessOK
    <2> QED BY <1>2, <1>4, <2>1, <2>2 DEF IInv, ProcessOK
  <1> QED BY <1>7, <1>8, <1>10, <1>11 DEF IInv

(* The first call of a process, and its end.                               *)
LEMMA OpenIInv ==
    ASSUME IInv, CacheInit
    PROVE  IInv'
  <1>1. /\ db = "closed" /\ pend = <<>> /\ lossy = {}
        /\ UNCHANGED <<ram, bytes, pend, pbytes, used, ask, reply, lossy, stores>>
    BY DEF CacheInit, IInv, ProcessOK, ramVars, pendVars, clientVars
  <1>2. /\ Works \/ Fails
        /\ db' = "open" \/ (db' = "broken" /\ Fails)
        /\ \/ UNCHANGED <<rows, torn, last>>
           \/ rows' = Nothing /\ last' = Nothing /\ torn' = FALSE
    BY DEF CacheInit, Quarantine, OpenFresh, diskVars
  <1>3. /\ faults' \in Nat /\ faults' >= faults /\ hurt' \in BOOLEAN /\ (hurt => hurt')
        /\ Fails => hurt'
    BY <1>2, Counters DEF IInv
  <1>4. HashesOf(pend) = {} /\ HashesOf(pend') = {}
    BY <1>1, NoHashes
  <1>5. RamExact' /\ ram' \in Seq(Entry) /\ bytes' \in Nat
    BY <1>1 DEF IInv, TypeOK, RamExact
  <1>6. /\ rows' \in [Hashes -> Blobs] /\ last' \in [Hashes -> Blobs]
        /\ torn' \in BOOLEAN /\ (torn' => torn)
    <2>1. rows' \in [Hashes -> Blobs] /\ last' \in [Hashes -> Blobs]
      BY <1>2 DEF IInv, TypeOK, Nothing, Blobs
    <2>2. torn \in BOOLEAN /\ (torn' = torn \/ torn' = FALSE)
      BY <1>2 DEF IInv, TypeOK
    <2>3. CASE torn' = torn
      BY <2>1, <2>2, <2>3
    <2>4. CASE torn' = FALSE
      <3>1. torn' \in BOOLEAN
        BY <2>4, Zenon
      <3>2. ~torn'
        BY <2>4, Zenon
      <3> QED BY <2>1, <3>1, <3>2
    <2> QED BY <2>2, <2>3, <2>4
  <1>7. TypeOK'
    <2>1. db' \in {"closed", "open", "broken", "down"}
      BY <1>2
    <2> QED BY <1>1, <1>3, <1>5, <1>6, <2>1 DEF IInv, TypeOK, Blobs
  <1>8. LayersAgree'
    <2>1. \A h \in Hashes : rows'[h] = last'[h]
      BY <1>1, <1>2, <1>4 DEF IInv, LayersAgree
    <2>2. RamIs(ram', last', lossy', rows')
      <3>1. ram = <<>>
        BY <1>1 DEF IInv, ProcessOK
      <3> QED BY <1>1, <3>1 DEF RamIs
    <2> QED BY <1>1, <1>4, <2>1, <2>2 DEF LayersAgree, BatchIs
  <1>9. ProcessOK'
    <2>1. torn' => faults' > 0
      BY <1>3, <1>6 DEF IInv, ProcessOK, TypeOK
    <2> QED BY <1>1, <1>2, <1>3, <1>4, <2>1 DEF IInv, ProcessOK
  <1> QED BY <1>5, <1>7, <1>8, <1>9 DEF IInv

LEMMA RestartIInv ==
    ASSUME IInv, Restart
    PROVE  IInv'
  <1>1. /\ ram' = <<>> /\ bytes' = 0 /\ pend' = <<>> /\ pbytes' = 0
        /\ db' = "closed" /\ used' = {} /\ hurt' = FALSE
        /\ ask' = [c \in Clients |-> NoAsk] /\ reply' = reply
        /\ last' = rows /\ lossy' = {} /\ rows' = rows /\ stores' = stores
        /\ \/ torn' = torn /\ faults' = faults
           \/ torn' = TRUE /\ faults' = faults + 1
    BY DEF Restart, ClearRam
  <1>2. HashesOf(pend') = {}
    BY <1>1, NoHashes
  <1>3. RamExact' /\ ram' \in Seq(Entry) /\ bytes' \in Nat
    BY <1>1, BlobAssumption, WeightOfEmpty DEF RamExact
  <1>4. /\ faults' \in Nat /\ torn' \in BOOLEAN /\ (torn' => faults' > 0)
    <2>1. faults \in Nat /\ torn \in BOOLEAN /\ (torn => faults > 0)
      BY DEF IInv, TypeOK, ProcessOK
    <2>2. CASE torn' = torn /\ faults' = faults
      BY <2>1, <2>2
    <2>3. CASE torn' = TRUE /\ faults' = faults + 1
      <3>1. faults' \in Nat /\ faults' > 0
        BY <2>1, <2>3
      <3>2. torn' \in BOOLEAN
        BY <2>3, Zenon
      <3> QED BY <3>1, <3>2
    <2> QED BY <1>1, <2>2, <2>3
  <1>5. TypeOK'
    BY <1>1, <1>3, <1>4, NoHashes DEF IInv, TypeOK
  <1>6. LayersAgree'
    BY <1>1, <1>2 DEF LayersAgree, RamIs, BatchIs
  <1>7. ProcessOK'
    BY <1>1, <1>2, <1>4 DEF ProcessOK
  <1> QED BY <1>3, <1>5, <1>6, <1>7 DEF IInv

LEMMA NextIInv == IInv /\ [Next]_vars => IInv'
  <1> SUFFICES ASSUME IInv, [Next]_vars PROVE IInv'
    OBVIOUS
  <1>1. CASE UNCHANGED vars
    <2>1. /\ ram' = ram /\ bytes' = bytes /\ pend' = pend /\ pbytes' = pbytes
          /\ rows' = rows /\ torn' = torn /\ db' = db /\ used' = used
          /\ ask' = ask /\ reply' = reply /\ last' = last /\ lossy' = lossy
          /\ faults' = faults /\ hurt' = hurt /\ stores' = stores
      BY <1>1 DEF vars, ramVars, pendVars, diskVars, clientVars, obsVars
    <2>2. TypeOK'
      BY <2>1 DEF IInv, TypeOK
    <2>3. RamExact'
      BY <2>1 DEF IInv, RamExact
    <2>4. LayersAgree'
      BY <2>1 DEF IInv, LayersAgree, RamIs, BatchIs, IsLast, HashesOf
    <2>5. ProcessOK'
      BY <2>1 DEF IInv, ProcessOK, HashesOf
    <2> QED BY <2>2, <2>3, <2>4, <2>5 DEF IInv
  <1>2. \A v \in Values : Owner[v] \in Keys
    BY BlobAssumption
  <1> QED BY <1>1, <1>2, LookupIInv, StoreIInv, FlushIInv, PruneIInv, OpenIInv, RestartIInv DEF Next

-----------------------------------------------------------------------------
(* The inductive invariant holds in every reachable state.                 *)
THEOREM Invariant == Spec => []IInv
  <1> QED BY InitIInv, NextIInv, PTL DEF Spec

(* The type invariant, for any keys, values, sizes, hash and limits.       *)
THEOREM TypeCorrect == Spec => []TypeOK
  <1>1. IInv => TypeOK
    BY DEF IInv
  <1> QED BY Invariant, <1>1, PTL

(* bytes_ is exactly what the entries of the read cache occupy, within     *)
(* budget and cap, and a hash has one entry at most, for every sequence of *)
(* fills, hits, invalidations and evictions.                               *)
THEOREM ReadCacheExact == Spec => []RamExact
  <1>1. IInv => RamExact
    BY DEF IInv
  <1> QED BY Invariant, <1>1, PTL

(* A shutdown with no failing call leaves in the table all that the        *)
(* process stored.                                                         *)
THEOREM ShutdownComplete == Spec => []ShutdownSaves
  <1>1. IInv => ShutdownSaves
    <2> SUFFICES ASSUME IInv, db = "down", ~hurt, NEW h \in used PROVE rows[h] = last[h]
      BY DEF ShutdownSaves
    <2>1. HashesOf(pend) = {} /\ lossy = {} /\ h \in Hashes
      BY NoHashes DEF IInv, ProcessOK, TypeOK
    <2> QED BY <2>1 DEF IInv, LayersAgree
  <1> QED BY Invariant, <1>1, PTL

(* Only a call that fails in this launch disables the cache.               *)
THEOREM TornRecovered == Spec => []TornIsRecovered
  <1>1. IInv => TornIsRecovered
    BY DEF IInv, ProcessOK, TornIsRecovered
  <1> QED BY Invariant, <1>1, PTL

-----------------------------------------------------------------------------
(* Refinement of BlobMap, action by action.                                *)
LEMMA InitMap == Init => Map!MapInit
  BY NoHashes DEF Init, Map!MapInit, Nothing, Map!Nothing

LEMMA SizesAgree == \A v \in Blobs : Map!SizeOf(v) = SizeOf(v)
  BY DEF Map!SizeOf, SizeOf

LEMMA QueryMap ==
    ASSUME IInv, NEW c \in Clients, NEW k \in Keys, LoadSize(c, k)
    PROVE  Map!Query(c, k)
  <1>1. PICK v \in Blobs :
           /\ Load(k, 0, v)
           /\ IF SizeOf(v) = 0
              THEN reply' = <<k, Absent>> /\ ask' = ask
              ELSE ask' = [ask EXCEPT ![c] = <<k, SizeOf(v)>>] /\ reply' = reply
    BY DEF LoadSize, Blobs
  <1>2. /\ ask[c] = NoAsk
        /\ UNCHANGED <<last, rows, HashesOf(pend), lossy, used>>
    BY DEF LoadSize, pendVars, diskVars, obsVars, HashesOf
  <1>3. /\ Works \/ Fails
        /\ \/ v = last[Hash[k]]
           \/ Hash[k] \in lossy /\ v = rows[Hash[k]]
           \/ Fails /\ v = Absent
    BY <1>1, LoadIs
  <1>4. faults' >= faults /\ (Fails => faults' > faults)
    BY <1>3, Counters DEF IInv
  <1>5. v \in Map!Seen(Hash[k])
    BY <1>3, <1>4 DEF Map!Seen
  <1>6. Map!SizeOf(v) = SizeOf(v)
    BY <1>1, SizesAgree
  <1> QED BY <1>1, <1>2, <1>4, <1>5, <1>6 DEF Map!Query

LEMMA CopyMap ==
    ASSUME IInv, NEW c \in Clients, LoadCopy(c)
    PROVE  Map!Copy(c)
  <1>1. PICK k \in Keys, n \in Nat : ask[c] = <<k, n>> /\ n # 0 /\ ask[c] # NoAsk
    BY DEF LoadCopy, IInv, TypeOK, ProcessOK
  <1>2. PICK v \in Blobs :
           /\ Load(k, n, v)
           /\ reply' = <<k, IF SizeOf(v) = 0 THEN Absent
                           ELSE IF SizeOf(v) = n THEN v ELSE Changed>>
           /\ used' = IF SizeOf(v) = n THEN used \cup {Hash[k]} ELSE used
    BY <1>1 DEF LoadCopy, Blobs
  <1>3. /\ ask' = [ask EXCEPT ![c] = NoAsk]
        /\ UNCHANGED <<last, rows, HashesOf(pend), lossy>>
    BY DEF LoadCopy, pendVars, diskVars, obsVars, HashesOf
  <1>4. /\ Works \/ Fails
        /\ \/ v = last[Hash[k]]
           \/ Hash[k] \in lossy /\ v = rows[Hash[k]]
           \/ Fails /\ v = Absent
    BY <1>2, LoadIs
  <1>5. faults' >= faults /\ (Fails => faults' > faults)
    BY <1>4, Counters DEF IInv
  <1>6. v \in Map!Seen(Hash[k])
    BY <1>4, <1>5 DEF Map!Seen
  <1>7. Map!Outcome(v, n) = IF SizeOf(v) = 0 THEN Absent ELSE IF SizeOf(v) = n THEN v ELSE Changed
    BY <1>2, SizesAgree DEF Map!Outcome
  <1>8. Map!Outcome(v, n) \in Values <=> SizeOf(v) = n
    <2>1. v = Absent => SizeOf(v) = 0
      BY DEF SizeOf
    <2> QED BY <1>1, <1>7, <2>1, BlobAssumption DEF Blobs
  <1>9. ask[c][1] = k /\ ask[c][2] = n
    BY <1>1
  <1> QED BY <1>1, <1>2, <1>3, <1>5, <1>6, <1>7, <1>8, <1>9 DEF Map!Copy

(* A batch of the model is a batch of the map.                             *)
LEMMA BatchMap ==
    ASSUME TypeOK, NEW s \in Seq(Write), NEW m, BatchIs(s, m), FlushPending(s)
    PROVE  /\ faults' >= faults
           /\ HashesOf(pend') = {}
           /\ \/ /\ rows' = [h \in Hashes |-> IF h \in HashesOf(s) THEN m[h] ELSE rows[h]]
                 /\ lossy' = lossy \ HashesOf(s)
              \/ /\ rows' = rows /\ lossy' = lossy \cup HashesOf(s) /\ faults' > faults
  <1>1. /\ pend' = <<>> /\ pbytes' = 0
        /\ \/ /\ rows' = [h \in Hashes |-> IF h \in HashesOf(s) THEN m[h] ELSE rows[h]]
              /\ lossy' = lossy \ HashesOf(s) /\ Works
           \/ /\ s # <<>> /\ rows' = rows
              /\ lossy' = lossy \cup HashesOf(s) /\ Fails
    BY BatchEnds
  <1>2. faults' >= faults /\ (Fails => faults' > faults)
    BY <1>1, Counters
  <1> QED BY <1>1, <1>2, NoHashes

LEMMA StoreMap ==
    ASSUME IInv, NEW k \in Keys, NEW v \in Values, StoreToCache(k, v)
    PROVE  Map!Store(k, v)
  <1> DEFINE h == Hash[k]
             batch == Append(pend, [hash |-> h, val |-> v])
  <1>1. /\ h \in Hashes /\ pend \in Seq(Write) /\ last \in [Hashes -> Blobs]
        /\ BatchIs(pend, last)
    BY BlobAssumption DEF IInv, TypeOK, LayersAgree, Blobs
  <1>2. /\ batch \in Seq(Write) /\ BatchIs(batch, [last EXCEPT ![h] = v])
        /\ HashesOf(batch) = HashesOf(pend) \cup {h}
    BY <1>1, AppendBatch
  <1>3. /\ used' = used \cup {h} /\ last' = [last EXCEPT ![h] = v]
        /\ UNCHANGED <<ask, reply>>
    BY DEF StoreToCache, clientVars
  <1>4. \/ FlushPending(batch)
        \/ pend' = batch /\ lossy' = lossy \ {h} /\ rows' = rows /\ Works
    BY DEF StoreToCache
  <1> HIDE DEF batch
  <1>5. CASE FlushPending(batch)
    <2>1. BatchIs(batch, last')
      BY <1>2, <1>3
    <2>2. /\ faults' >= faults
          /\ HashesOf(pend') = {}
          /\ \/ /\ rows' = [g \in Hashes |-> IF g \in HashesOf(batch) THEN last'[g] ELSE rows[g]]
                /\ lossy' = lossy \ HashesOf(batch)
             \/ /\ rows' = rows /\ lossy' = lossy \cup HashesOf(batch) /\ faults' > faults
      BY <1>2, <1>5, <2>1, BatchMap DEF IInv
    <2>3. Map!Batch(last', HashesOf(pend) \cup {h})
      BY <1>2, <2>2 DEF Map!Batch, Map!Commits, Map!Drops
    <2> QED BY <1>3, <2>3 DEF Map!Store
  <1>6. CASE pend' = batch /\ lossy' = lossy \ {h} /\ rows' = rows /\ Works
    <2>1. HashesOf(pend') = HashesOf(pend) \cup {h} /\ faults' = faults
      BY <1>2, <1>6 DEF Works
    <2> QED BY <1>3, <1>6, <2>1 DEF Map!Store, HashesOf
  <1> QED BY <1>4, <1>5, <1>6

LEMMA FlushMap ==
    ASSUME IInv, CacheFlush \/ CacheShutdown
    PROVE  Map!Flush \/ UNCHANGED Map!mapVars
  <1>1. /\ pend \in Seq(Write) /\ BatchIs(pend, last) /\ rows \in [Hashes -> Blobs]
        /\ lossy \in SUBSET Hashes
    BY DEF IInv, TypeOK, LayersAgree, Blobs
  <1>2. FlushPending(pend) /\ UNCHANGED <<last, used, ask, reply>>
    BY DEF CacheFlush, CacheShutdown, clientVars
  <1>3. CASE HashesOf(pend) # {}
    <2>1. /\ faults' >= faults
          /\ HashesOf(pend') = {}
          /\ \/ /\ rows' = [h \in Hashes |-> IF h \in HashesOf(pend) THEN last[h] ELSE rows[h]]
                /\ lossy' = lossy \ HashesOf(pend)
             \/ /\ rows' = rows /\ lossy' = lossy \cup HashesOf(pend) /\ faults' > faults
      BY <1>1, <1>2, BatchMap DEF IInv
    <2>2. Map!Batch(last, HashesOf(pend))
      BY <2>1 DEF Map!Batch, Map!Commits, Map!Drops
    <2> QED BY <1>2, <1>3, <2>2 DEF Map!Flush
  <1>4. CASE HashesOf(pend) = {}
    <2>1. pend = <<>>
      <3>1. ASSUME 1 \in 1..Len(pend) PROVE FALSE
        <4>1. pend[1].hash \in HashesOf(pend)
          BY <3>1 DEF HashesOf
        <4> QED BY <1>4, <4>1
      <3>2. Len(pend) \in Nat
        BY <1>1
      <3> QED BY <1>1, <3>1, <3>2
    <2>2. /\ pend' = <<>> /\ Works
          /\ rows' = [h \in Hashes |-> IF h \in HashesOf(pend) THEN last[h] ELSE rows[h]]
          /\ lossy' = lossy \ HashesOf(pend)
      BY <1>1, <1>2, <2>1, BatchEnds
    <2>3. rows' = rows /\ lossy' = lossy /\ pend' = pend /\ faults' = faults
      BY <1>1, <1>4, <2>1, <2>2 DEF Works
    <2> QED BY <1>2, <2>3 DEF Map!mapVars, HashesOf
  <1> QED BY <1>3, <1>4

LEMMA PruneMap ==
    ASSUME IInv, CachePrune
    PROVE  Map!Prune \/ Map!Flush \/ Map!Fault \/ UNCHANGED Map!mapVars
  <1>1. PICK saved, pruned \in BOOLEAN :
           /\ saved \/ pend # <<>>
           /\ pruned \/ used # {}
           /\ IF saved /\ pruned THEN Works ELSE Fails
           /\ rows' = [h \in Hashes |->
                          IF used = {} \/ h \in used \/ ~pruned
                          THEN IF saved /\ h \in HashesOf(pend) THEN last[h] ELSE rows[h]
                          ELSE Absent]
           /\ last' = [h \in Hashes |->
                          IF used = {} \/ h \in used \/ ~pruned THEN last[h] ELSE Absent]
           /\ lossy' = IF saved THEN lossy \ HashesOf(pend) ELSE lossy \cup HashesOf(pend)
    BY PruneIs
  <1>2. /\ pend' = <<>> /\ HashesOf(pend') = {} /\ UNCHANGED <<used, ask, reply>>
    BY NoHashes DEF CachePrune, clientVars
  <1>3. /\ pend \in Seq(Write) /\ HashesOf(pend) \subseteq used
        /\ rows \in [Hashes -> Blobs] /\ last \in [Hashes -> Blobs] /\ lossy \in SUBSET Hashes
    BY DEF IInv, TypeOK, ProcessOK, Blobs
  <1>4. /\ faults' >= faults /\ (Fails => faults' > faults) /\ (Works => faults' = faults)
    BY <1>1, Counters DEF IInv
  <1>5. ~saved \/ ~pruned => faults' > faults
    BY <1>1, <1>4
  <1>6. pend # <<>> <=> HashesOf(pend) # {}
    <2>1. ASSUME pend # <<>> PROVE HashesOf(pend) # {}
      <3>1. 1 \in 1..Len(pend)
        BY <1>3, <2>1
      <3> QED BY <3>1 DEF HashesOf
    <2> QED BY <2>1, NoHashes
  <1>7. CASE used # {} /\ pruned
    <2>1. rows' = [h \in Hashes |-> IF h \notin used THEN Absent
                                    ELSE IF saved /\ h \in HashesOf(pend) THEN last[h] ELSE rows[h]]
      BY <1>1, <1>7
    <2>2. last' = [h \in Hashes |-> IF h \in used THEN last[h] ELSE Absent]
      BY <1>1, <1>7
    <2>3. ~saved => faults' > faults
      BY <1>5
    <2>4. lossy' = IF saved THEN lossy \ HashesOf(pend) ELSE lossy \cup HashesOf(pend)
      BY <1>1
    <2> QED BY <1>2, <1>4, <1>7, <2>1, <2>2, <2>3, <2>4, Zenon DEF Map!Prune
  <1>8. CASE used = {} \/ ~pruned
    <2>1. last' = last
      BY <1>1, <1>3, <1>8
    <2>2. rows' = [h \in Hashes |-> IF saved /\ h \in HashesOf(pend) THEN last[h] ELSE rows[h]]
      BY <1>1, <1>8
    <2>3. CASE HashesOf(pend) # {}
      <3>1. Map!Batch(last, HashesOf(pend))
        <4>1. CASE saved
          <5>1. /\ rows' = [h \in Hashes |-> IF h \in HashesOf(pend) THEN last[h] ELSE rows[h]]
                /\ lossy' = lossy \ HashesOf(pend)
            BY <1>1, <2>2, <4>1
          <5> QED BY <1>2, <1>4, <5>1 DEF Map!Batch, Map!Commits
        <4>2. CASE ~saved
          <5>1. rows' = rows /\ lossy' = lossy \cup HashesOf(pend)
            BY <1>1, <1>3, <2>2, <4>2
          <5> QED BY <1>2, <1>5, <4>2, <5>1 DEF Map!Batch, Map!Drops
        <4> QED BY <4>1, <4>2
      <3> QED BY <1>2, <2>1, <2>3, <3>1 DEF Map!Flush
    <2>4. CASE HashesOf(pend) = {}
      <3>1. rows' = rows /\ lossy' = lossy /\ HashesOf(pend') = HashesOf(pend)
        BY <1>1, <1>2, <1>3, <1>6, <2>2, <2>4
      <3>2. CASE faults' > faults
        BY <1>2, <2>1, <3>1, <3>2 DEF Map!Fault
      <3>3. CASE ~(faults' > faults)
        <4>1. faults' = faults
          BY <1>1, <1>4, <3>3
        <4> QED BY <1>2, <2>1, <3>1, <4>1 DEF Map!mapVars
      <3> QED BY <3>2, <3>3
    <2> QED BY <2>3, <2>4
  <1> QED BY <1>7, <1>8

LEMMA OpenMap ==
    ASSUME IInv, CacheInit
    PROVE  Map!Reset \/ Map!Fault \/ UNCHANGED Map!mapVars
  <1>1. /\ db = "closed" /\ pend = <<>> /\ lossy = {} /\ (torn => faults > 0)
        /\ faults \in Nat
        /\ UNCHANGED <<pend, used, ask, reply, lossy>>
    BY DEF CacheInit, IInv, TypeOK, ProcessOK, ramVars, pendVars, clientVars
  <1>2. HashesOf(pend) = {} /\ HashesOf(pend') = {}
    BY <1>1, NoHashes
  <1>3. \/ UNCHANGED <<rows, last>> /\ (Works \/ Fails)
        \/ /\ rows' = Nothing /\ last' = Nothing
           /\ (torn /\ Works) \/ Fails
    BY DEF CacheInit, Quarantine, OpenFresh, diskVars
  <1>4. /\ faults' >= faults /\ (Fails => faults' > faults) /\ (Works => faults' = faults)
        /\ faults' \in Nat
    BY <1>3, Counters DEF IInv
  <1>5. CASE rows' = Nothing /\ last' = Nothing /\ ((torn /\ Works) \/ Fails)
    <2>1. faults' > 0
      <3>1. CASE torn
        BY <1>1, <1>4, <3>1
      <3>2. CASE ~torn
        BY <1>1, <1>4, <1>5, <3>2
      <3> QED BY <3>1, <3>2
    <2>2. rows' = Map!Nothing /\ last' = Map!Nothing
      BY <1>5 DEF Nothing, Map!Nothing
    <2> QED BY <1>1, <1>2, <1>4, <2>1, <2>2 DEF Map!Reset
  <1>6. CASE UNCHANGED <<rows, last>> /\ (Works \/ Fails)
    BY <1>1, <1>2, <1>4, <1>6 DEF Map!Fault, Map!mapVars
  <1> QED BY <1>3, <1>5, <1>6

LEMMA EndMap ==
    ASSUME IInv, Restart
    PROVE  Map!End
  <1>1. /\ pend' = <<>> /\ used' = {}
        /\ ask' = [c \in Clients |-> NoAsk] /\ reply' = reply
        /\ last' = rows /\ lossy' = {} /\ rows' = rows
        /\ faults' = faults \/ faults' = faults + 1
    BY DEF Restart
  <1>2. HashesOf(pend') = {} /\ faults' >= faults
    BY <1>1, NoHashes DEF IInv, TypeOK
  <1> QED BY <1>1, <1>2 DEF Map!End

LEMMA NextMap == IInv /\ [Next]_vars => [Map!MapNext]_(Map!mapVars)
  <1> SUFFICES ASSUME IInv, [Next]_vars PROVE Map!MapNext \/ UNCHANGED Map!mapVars
    OBVIOUS
  <1>1. CASE UNCHANGED vars
    BY <1>1 DEF vars, pendVars, diskVars, clientVars, obsVars, Map!mapVars, HashesOf
  <1>2. ASSUME NEW c \in Clients, LoadCopy(c) \/ \E k \in Keys : LoadSize(c, k)
        PROVE  Map!MapNext
    BY <1>2, CopyMap, QueryMap DEF Map!MapNext
  <1>3. ASSUME NEW v \in Values, StoreToCache(Owner[v], v)
        PROVE  Map!MapNext
    <2>1. Owner[v] \in Keys
      BY BlobAssumption
    <2> QED BY <1>3, <2>1, StoreMap DEF Map!MapNext
  <1>4. CASE CacheFlush \/ CacheShutdown
    BY <1>4, FlushMap DEF Map!MapNext
  <1>5. CASE CachePrune
    BY <1>5, PruneMap DEF Map!MapNext
  <1>6. CASE CacheInit
    BY <1>6, OpenMap DEF Map!MapNext
  <1>7. CASE Restart
    BY <1>7, EndMap DEF Map!MapNext
  <1> QED BY <1>1, <1>2, <1>3, <1>4, <1>5, <1>6, <1>7 DEF Next

(* The read cache, the pending writes and the table together are one map   *)
(* from hashes to blobs: BlobCache implements BlobMap, step by step, for   *)
(* any number of clients, keys, hashes and limits.                         *)
THEOREM ImplementsMap == Spec => IsMap
  <1> QED BY Invariant, InitMap, NextMap, PTL DEF Spec, IsMap, Map!MapSpec

-----------------------------------------------------------------------------
(* Full keys, by way of the map: what is stored, committed or given to a   *)
(* key has the hash of its own key.                                        *)
Fits(m) == \A h \in Hashes : m[h] # Absent => Hash[Owner[m[h]]] = h

ReplyFits ==
    reply # <<>> /\ reply[2] \in Values => Hash[Owner[reply[2]]] = Hash[reply[1]]

KeyInv == Fits(last) /\ Fits(rows) /\ ReplyFits

LEMMA KeyStep ==
    ASSUME IInv, KeyInv, Map!MapNext
    PROVE  KeyInv'
  <1>1. /\ last \in [Hashes -> Blobs] /\ rows \in [Hashes -> Blobs]
        /\ ask \in [Clients -> (Keys \X Nat) \cup {NoAsk}]
    BY DEF IInv, TypeOK, Blobs
  <1>2. \A v \in Values : Owner[v] \in Keys /\ Hash[Owner[v]] \in Hashes
    BY BlobAssumption
  <1>3. ASSUME NEW k \in Keys, NEW v, v \in Map!Seen(Hash[k]), v \in Values
        PROVE  Hash[Owner[v]] = Hash[k]
    <2>1. Hash[k] \in Hashes /\ v # Absent
      BY <1>3, BlobAssumption
    <2> QED BY <1>3, <2>1 DEF Map!Seen, KeyInv, Fits
  <1>4. ASSUME NEW c \in Clients, NEW k \in Keys, Map!Query(c, k)
        PROVE  KeyInv'
    <2>1. UNCHANGED <<last, rows>> /\ (reply' = reply \/ reply' = <<k, Absent>>)
      BY <1>4 DEF Map!Query
    <2> QED BY <2>1, BlobAssumption DEF KeyInv, Fits, ReplyFits
  <1>5. ASSUME NEW c \in Clients, Map!Copy(c)
        PROVE  KeyInv'
    <2>1. PICK k \in Keys, n \in Nat : ask[c] = <<k, n>>
      BY <1>1, <1>5 DEF Map!Copy
    <2>2. PICK v \in Map!Seen(Hash[k]) : reply' = <<k, Map!Outcome(v, n)>>
      BY <1>5, <2>1 DEF Map!Copy
    <2>3. UNCHANGED <<last, rows>>
      BY <1>5 DEF Map!Copy
    <2>4. Map!Outcome(v, n) \in Values => Map!Outcome(v, n) = v
      BY BlobAssumption DEF Map!Outcome
    <2>5. ReplyFits'
      BY <1>3, <2>2, <2>4 DEF ReplyFits
    <2> QED BY <2>3, <2>5 DEF KeyInv, Fits
  <1>6. ASSUME NEW m, NEW B, Fits(m), Map!Batch(m, B)
        PROVE  Fits(rows')
    <2>1. rows' = rows \/ \A h \in Hashes : rows'[h] = m[h] \/ rows'[h] = rows[h]
      BY <1>6 DEF Map!Batch, Map!Commits, Map!Drops
    <2> QED BY <1>6, <2>1 DEF KeyInv, Fits
  <1>7. ASSUME NEW v \in Values, Map!Store(Owner[v], v)
        PROVE  KeyInv'
    <2>1. last' = [last EXCEPT ![Hash[Owner[v]]] = v] /\ reply' = reply
      BY <1>7 DEF Map!Store
    <2>2. Fits(last')
      BY <1>1, <1>2, <2>1 DEF KeyInv, Fits
    <2>3. rows' = rows \/ \E B : Map!Batch(last', B)
      BY <1>7 DEF Map!Store
    <2>4. Fits(rows')
      BY <1>6, <2>2, <2>3 DEF KeyInv
    <2> QED BY <2>1, <2>2, <2>4 DEF KeyInv, Fits, ReplyFits
  <1>8. CASE Map!Flush
    <2>1. Fits(rows')
      BY <1>6, <1>8 DEF Map!Flush, KeyInv
    <2> QED BY <1>8, <2>1 DEF Map!Flush, KeyInv, Fits, ReplyFits
  <1>9. CASE Map!Prune
    <2>1. /\ \A h \in Hashes : rows'[h] = last[h] \/ rows'[h] = rows[h] \/ rows'[h] = Absent
          /\ \A h \in Hashes : last'[h] = last[h] \/ last'[h] = Absent
          /\ reply' = reply
      BY <1>9 DEF Map!Prune
    <2>2. Fits(rows') /\ Fits(last')
      BY <2>1 DEF KeyInv, Fits
    <2> QED BY <2>1, <2>2 DEF KeyInv, Fits, ReplyFits
  <1>10. CASE Map!End
    BY <1>10 DEF Map!End, KeyInv, Fits, ReplyFits
  <1>11. CASE Map!Reset
    BY <1>11 DEF Map!Reset, Map!Nothing, KeyInv, Fits, ReplyFits
  <1>12. CASE Map!Fault
    BY <1>12 DEF Map!Fault, KeyInv, Fits, ReplyFits
  <1> QED BY <1>4, <1>5, <1>7, <1>8, <1>9, <1>10, <1>11, <1>12 DEF Map!MapNext

(* While no two keys share a hash, a lookup is only ever given a blob that *)
(* was stored under the full key it asks for, although pending writes and  *)
(* table are searched by hash alone.                                       *)
THEOREM FullKeys ==
    ASSUME \A k, l \in Keys : Hash[k] = Hash[l] => k = l
    PROVE  Spec => []KeyChecked
  <1>1. Init => KeyInv
    BY DEF Init, Nothing, KeyInv, Fits, ReplyFits
  <1>2. IInv /\ KeyInv /\ [Next]_vars => KeyInv'
    <2> SUFFICES ASSUME IInv, KeyInv, [Next]_vars PROVE KeyInv'
      OBVIOUS
    <2>1. CASE UNCHANGED Map!mapVars
      BY <2>1 DEF Map!mapVars, KeyInv, Fits, ReplyFits
    <2> QED BY <2>1, NextMap, KeyStep
  <1>3. IInv /\ KeyInv => KeyChecked
    <2> SUFFICES ASSUME IInv, KeyInv, reply # <<>>, reply[2] \in Values
                 PROVE  Owner[reply[2]] = reply[1]
      BY DEF KeyChecked
    <2>1. reply[1] \in Keys /\ Owner[reply[2]] \in Keys
      BY BlobAssumption DEF IInv, TypeOK
    <2> QED BY <2>1 DEF KeyInv, ReplyFits
  <1> QED BY Invariant, <1>1, <1>2, <1>3, PTL DEF Spec

=============================================================================
