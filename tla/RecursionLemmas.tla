-------------------------- MODULE RecursionLemmas --------------------------
(***************************************************************************)
(* What the proofs about walks, folds and flattened lists need of          *)
(* recursive functions: that the function a definition chooses exists.     *)
(*                                                                         *)
(* A definition f[x \in D] == ... f[y] ... chooses a fixed point of the    *)
(* map F that takes f to the function on its right side.  There is one     *)
(* when every x has a rank, below a bound, and F[f][x] reads f only below  *)
(* the rank of x (FixedPoint).                                             *)
(***************************************************************************)
EXTENDS Integers, Sequences, SequencesExt, WellFoundedInduction, TLAPS

\* A set of natural numbers has a least member.
LEMMA LeastOf ==
  ASSUME NEW S \in SUBSET Nat, S # {}
  PROVE  \E m \in S : \A k \in S : m <= k
<1> DEFINE less == OpToRel(<, Nat)
<1>1. PICK m \in S : \A k \in S : ~ (<<k, m>> \in less)
  <2>1. IsWellFoundedOn(less, Nat)
    BY NatLessThanWellFounded
  <2> HIDE DEF less
  <2> QED BY <2>1, WFMin
<1>2. \A k \in S : ~ (k < m)
  BY <1>1 DEF OpToRel
<1> QED BY <1>2

\* F fills each place from places of a lower rank, and the ranks are bounded.
ReadsBelow(F, D, V, rank) ==
  /\ F \in [[D -> V] -> [D -> V]] /\ [D -> V] # {}
  /\ rank \in [D -> Nat] /\ \E bound \in Nat : \A x \in D : rank[x] <= bound
  /\ \A f, g \in [D -> V], x \in D :
       (\A y \in D : rank[y] < rank[x] => f[y] = g[y]) => F[f][x] = F[g][x]

\* Such a map has a fixed point: applied to a function that is right up to some rank, it
\* gives one that is right one rank further.
LEMMA FixedPoint ==
  ASSUME NEW D, NEW V, NEW rank, NEW F, ReadsBelow(F, D, V, rank)
  PROVE  \E f \in [D -> V] : f = F[f]
<1> USE DEF ReadsBelow
<1> PICK bound \in Nat : \A x \in D : rank[x] <= bound
  OBVIOUS
<1> DEFINE Right(f, n) == \A x \in D : rank[x] < n => f[x] = F[f][x]
           Failing == {n \in Nat : ~ \E f \in [D -> V] : Right(f, n)}
<1>1. ASSUME NEW n \in Nat, NEW f \in [D -> V], Right(f, n)
      PROVE  F[f] \in [D -> V] /\ Right(F[f], n + 1)
  <2>1. F[f] \in [D -> V]
    OBVIOUS
  <2>2. ASSUME NEW x \in D, rank[x] < n + 1 PROVE F[f][x] = F[F[f]][x]
    <3>1. \A y \in D : rank[y] < rank[x] => f[y] = F[f][y]
      BY <1>1, <2>2
    <3> QED BY <2>1, <3>1
  <2> QED BY <2>1, <2>2
<1>2. 0 \notin Failing
  OBVIOUS
<1>3. Failing \in SUBSET Nat
  OBVIOUS
<1>4. ASSUME Failing # {} PROVE FALSE
  <2>1. PICK m \in Failing : \A k \in Failing : m <= k
    <3> HIDE DEF Failing
    <3> QED BY <1>3, <1>4, LeastOf
  <2>2. m \in Nat /\ m # 0 /\ m - 1 \in Nat /\ ~ (m <= m - 1) /\ (m - 1) + 1 = m
    <3> HIDE DEF Failing
    <3> QED BY <1>2, <1>3, <2>1
  <2>3. m - 1 \notin Failing
    <3> HIDE DEF Failing
    <3> QED BY <2>1, <2>2
  <2>4. PICK f \in [D -> V] : Right(f, m - 1)
    BY <2>2, <2>3
  <2>5. \E g \in [D -> V] : Right(g, m)
    <3> HIDE DEF Right
    <3> QED BY <1>1, <2>2, <2>4
  <2> QED BY <2>1, <2>5
<1>5. PICK f \in [D -> V] : Right(f, bound + 1)
  <2>1. bound + 1 \in Nat /\ bound + 1 \notin Failing
    <3> HIDE DEF Failing
    <3> QED BY <1>4
  <2> QED BY <2>1
<1>6. \A x \in D : f[x] = F[f][x]
  BY <1>5
<1> QED BY <1>6

\* Induction along 0..n, over a set.
LEMMA UpTo ==
  ASSUME NEW n \in Nat, NEW K, 0 \in K, \A k \in 1..n : k - 1 \in K => k \in K
  PROVE  \A k \in 0..n : k \in K
<1> DEFINE Missed == {k \in 0..n : k \notin K}
<1> SUFFICES ASSUME Missed # {} PROVE FALSE
  OBVIOUS
<1>1. Missed \in SUBSET Nat
  OBVIOUS
<1>2. PICK m \in Missed : \A k \in Missed : m <= k
  <2> HIDE DEF Missed
  <2> QED BY <1>1, LeastOf
<1>3. m \in 0..n /\ m # 0
  OBVIOUS
<1>4. m \in 1..n /\ m - 1 \in 0..n /\ ~ (m <= m - 1)
  BY <1>3
<1>5. m - 1 \notin Missed
  <2> HIDE DEF Missed
  <2> QED BY <1>2, <1>4
<1> QED BY <1>4, <1>5

\* f carries an accumulator along the places of a list: step[k] is what place k does to it.
Accumulates(f, V, base, n, step) ==
  /\ f \in [0..n -> V]
  /\ f = [k \in 0..n |-> IF k = 0 THEN base ELSE step[k][f[k - 1]]]

LEMMA Accumulation ==
  ASSUME NEW V, NEW base \in V, NEW n \in Nat, NEW step \in [1..n -> [V -> V]]
  PROVE  \E f : Accumulates(f, V, base, n, step)
<1> DEFINE D == 0..n
           F == [f \in [D -> V] |-> [k \in D |-> IF k = 0 THEN base ELSE step[k][f[k - 1]]]]
           rank == [k \in D |-> k]
<1>1. \A k \in D : k \in Nat /\ k <= n /\ (k # 0 => k \in 1..n /\ k - 1 \in D /\ k - 1 < k)
  OBVIOUS
<1>2. F \in [[D -> V] -> [D -> V]]
  <2> SUFFICES ASSUME NEW f \in [D -> V], NEW k \in D, k # 0 PROVE step[k][f[k - 1]] \in V
    OBVIOUS
  <2>1. step[k] \in [V -> V] /\ f[k - 1] \in V
    BY <1>1
  <2> QED BY <2>1
<1>3. [k \in D |-> base] \in [D -> V]
  OBVIOUS
<1>4. rank \in [D -> Nat] /\ \A k \in D : rank[k] <= n
  BY <1>1
<1>5. ASSUME NEW f \in [D -> V], NEW g \in [D -> V], NEW k \in D,
             \A j \in D : rank[j] < rank[k] => f[j] = g[j]
      PROVE  F[f][k] = F[g][k]
  <2>1. k # 0 => f[k - 1] = g[k - 1]
    BY <1>1, <1>5
  <2> QED BY <2>1
<1>6. ReadsBelow(F, D, V, rank)
  <2> HIDE DEF F, D, rank
  <2> QED BY <1>2, <1>3, <1>4, <1>5 DEF ReadsBelow
<1>7. PICK f \in [D -> V] : f = F[f]
  <2> HIDE DEF F, D, rank
  <2> QED BY <1>6, FixedPoint
<1> QED BY <1>7 DEF Accumulates

\* A flattened list says what its lists say.
LEMMA Flattened ==
  ASSUME NEW S, NEW seqs \in Seq(Seq(S))
  PROVE  /\ FlattenSeq(seqs) \in Seq(S)
         /\ ToSet(FlattenSeq(seqs)) = UNION {ToSet(seqs[k]) : k \in DOMAIN seqs}
<1> DEFINE n == Len(seqs)
<1>1. n \in Nat /\ DOMAIN seqs = 1..n /\ \A k \in 1..n : seqs[k] \in Seq(S)
  OBVIOUS
<1>2. CASE n = 0
  <2>1. seqs = <<>> /\ FlattenSeq(seqs) = seqs
    BY <1>2 DEF FlattenSeq
  <2>2. FlattenSeq(seqs) = <<>> /\ DOMAIN seqs = {}
    BY <1>1, <1>2, <2>1
  <2>3. <<>> \in Seq(S) /\ ToSet(<<>>) = {}
    BY DEF ToSet
  <2> QED BY <2>2, <2>3
<1>3. CASE n # 0
  <2> DEFINE step == [k \in 1..n |-> [s \in Seq(S) |-> s \o seqs[k]]]
             flatten == CHOOSE f : f = [i \in 1..n |->
                          IF i = 1 THEN seqs[i] ELSE f[i - 1] \o seqs[i]]
  <2>1. step \in [1..n -> [Seq(S) -> Seq(S)]] /\ <<>> \in Seq(S)
    BY <1>1
  <2>2. PICK f : Accumulates(f, Seq(S), <<>>, n, step)
    <3> DEFINE V == Seq(S)
               base == <<>>
    <3>1. base \in V /\ step \in [1..n -> [V -> V]]
      BY <2>1
    <3> HIDE DEF step, n, V, base
    <3>2. \E f : Accumulates(f, V, base, n, step)
      BY <1>1, <3>1, Accumulation
    <3> QED BY <3>2 DEF V, base
  <2>3. f[0] = <<>> /\ \A k \in 1..n : k \in 0..n /\ k - 1 \in 0..n /\ f[k] = f[k - 1] \o seqs[k]
    <3>1. 0 \in 0..n /\ \A k \in 1..n : k \in 0..n /\ k - 1 \in 0..n /\ k # 0
      BY <1>1
    <3>2. f[0] = <<>> /\ \A k \in 1..n : f[k] = step[k][f[k - 1]]
      <4> HIDE DEF step
      <4> QED BY <2>2, <3>1 DEF Accumulates
    <3>3. \A k \in 1..n : f[k - 1] \in Seq(S)
      BY <2>2, <3>1 DEF Accumulates
    <3> QED BY <3>1, <3>2, <3>3
  <2> DEFINE g == [i \in 1..n |-> f[i]]
  <2>4. g = [i \in 1..n |-> IF i = 1 THEN seqs[i] ELSE g[i - 1] \o seqs[i]]
    <3> SUFFICES ASSUME NEW i \in 1..n
                 PROVE  f[i] = IF i = 1 THEN seqs[i] ELSE g[i - 1] \o seqs[i]
      OBVIOUS
    <3>1. i # 1 => i - 1 \in 1..n
      BY <1>1
    <3>2. <<>> \o seqs[i] = seqs[i]
      BY <1>1
    <3>3. i # 1 => g[i - 1] = f[i - 1]
      BY <3>1
    <3>4. i = 1 => f[i - 1] = f[0]
      OBVIOUS
    <3>5. f[i] = f[i - 1] \o seqs[i]
      BY <2>3
    <3> HIDE DEF g
    <3> QED BY <2>3, <3>2, <3>3, <3>4, <3>5
  <2>5. flatten = [i \in 1..n |-> IF i = 1 THEN seqs[i] ELSE flatten[i - 1] \o seqs[i]]
    <3> HIDE DEF g
    <3> QED BY <2>4
  <2>6. FlattenSeq(seqs) = flatten[n]
    BY <1>3 DEF FlattenSeq
  <2> HIDE DEF flatten
  <2>7. flatten[1] = seqs[1]
    BY <1>1, <1>3, <2>5
  <2>8. \A i \in 2..n : flatten[i] = flatten[i - 1] \o seqs[i]
    <3>1. \A i \in 2..n : i \in 1..n /\ i # 1
      BY <1>1
    <3> QED BY <2>5, <3>1
  <2> DEFINE Said(k) == UNION {ToSet(seqs[j]) : j \in 1..k}
             K == {k \in 0..n : k = 0 \/ (flatten[k] \in Seq(S) /\ ToSet(flatten[k]) = Said(k))}
  <2>9. ASSUME NEW k \in 1..n, k - 1 \in K PROVE k \in K
    <3>1. CASE k = 1
      <4>1. Said(1) = ToSet(seqs[1])
        OBVIOUS
      <4> QED BY <1>1, <2>7, <3>1, <4>1
    <3>2. CASE k # 1
      <4>1. k \in 2..n /\ k - 1 \in 1..n /\ k - 1 # 0
        BY <1>1, <3>2
      <4>2. /\ flatten[k - 1] \in Seq(S) /\ ToSet(flatten[k - 1]) = Said(k - 1)
            /\ flatten[k] = flatten[k - 1] \o seqs[k]
        BY <2>8, <2>9, <4>1
      <4>3. Said(k) = Said(k - 1) \cup ToSet(seqs[k])
        <5>1. \A j \in 1..k : j = k \/ j \in 1..(k - 1)
          BY <4>1
        <5>2. k \in 1..k /\ \A j \in 1..(k - 1) : j \in 1..k
          BY <4>1
        <5> QED BY <5>1, <5>2
      <4>4. ASSUME NEW s \in Seq(S), NEW t \in Seq(S)
            PROVE  s \o t \in Seq(S) /\ ToSet(s \o t) = ToSet(s) \cup ToSet(t)
        <5>1. /\ s \o t \in Seq(S) /\ DOMAIN (s \o t) = 1..(Len(s) + Len(t))
              /\ \A i \in 1..Len(s) : i \in DOMAIN (s \o t) /\ (s \o t)[i] = s[i]
              /\ \A i \in 1..Len(t) : /\ Len(s) + i \in DOMAIN (s \o t)
                                      /\ (s \o t)[Len(s) + i] = t[i]
              /\ DOMAIN s = 1..Len(s) /\ DOMAIN t = 1..Len(t) /\ Len(s) \in Nat /\ Len(t) \in Nat
          OBVIOUS
        <5>2. \A i \in 1..(Len(s) + Len(t)) :
                i \in 1..Len(s) \/ (i - Len(s) \in 1..Len(t) /\ Len(s) + (i - Len(s)) = i)
          BY <5>1
        <5> DEFINE u == s \o t
        <5>3. ASSUME NEW x \in ToSet(u) PROVE x \in ToSet(s) \cup ToSet(t)
          <6>1. PICK i \in 1..(Len(s) + Len(t)) : x = u[i]
            BY <5>1 DEF ToSet
          <6>2. CASE i \in 1..Len(s)
            BY <5>1, <6>1, <6>2 DEF ToSet
          <6>3. CASE i \notin 1..Len(s)
            <7>1. i - Len(s) \in 1..Len(t) /\ x = t[i - Len(s)]
              BY <5>1, <5>2, <6>1, <6>3
            <7> QED BY <5>1, <7>1 DEF ToSet
          <6> QED BY <6>2, <6>3
        <5>4. ToSet(s) \subseteq ToSet(u) /\ ToSet(t) \subseteq ToSet(u)
          <6> HIDE DEF u
          <6> QED BY <5>1 DEF ToSet, u
        <5> QED BY <5>1, <5>3, <5>4
      <4>5. ToSet(flatten[k]) = Said(k - 1) \cup ToSet(seqs[k]) /\ flatten[k] \in Seq(S)
        BY <1>1, <4>2, <4>4
      <4>6. k \in 0..n
        BY <1>1
      <4> HIDE DEF Said
      <4> QED BY <4>3, <4>5, <4>6
    <3> QED BY <3>1, <3>2
  <2>10. \A k \in 0..n : k \in K
    <3>1. 0 \in K
      BY <1>1
    <3> HIDE DEF K
    <3> QED BY <1>1, <2>9, <3>1, UpTo
  <2>11. n \in 0..n
    BY <1>1
  <2> QED BY <1>1, <1>3, <2>6, <2>10, <2>11
<1> QED BY <1>2, <1>3
=============================================================================
