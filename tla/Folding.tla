------------------------------ MODULE Folding ------------------------------
(***************************************************************************)
(* What a fold from the left computes, for any operator: the facts that    *)
(* the proofs about the modules' FoldLeft need.  A proof takes this module *)
(* with the operator of its fold.                                          *)
(***************************************************************************)
EXTENDS Integers, Folds, WellFoundedInduction, TLAPS

CONSTANT op(_, _, _)

Greatest(s) == CHOOSE m \in s : \A k \in s : m >= k

\* FoldLeft of the operator, x its context: the same set fold of the sequence's indices.
Folded(x, base, seq) ==
    MapThenFoldSet(LAMBDA e, r : op(x, r, e), base, LAMBDA i : seq[i],
                   LAMBDA s : Greatest(s), DOMAIN seq)

\* A set of numbers that is not empty has a least.
LEMMA LeastNumber ==
    ASSUME NEW S \in SUBSET Nat, S # {}
    PROVE  \E m \in S : \A k \in S : m <= k
<1> DEFINE R == OpToRel(<, Nat)
<1>1. \A j, k \in Nat : <<j, k>> \in R <=> j < k
  BY DEF OpToRel
<1>2. IsWellFoundedOn(R, Nat)
  BY NatLessThanWellFounded
<1> HIDE DEF R
<1>3. PICK m \in S : \A k \in S : <<k, m>> \notin R
  BY <1>2, WFMin
<1>4. \A k \in S : ~(k < m)
  BY <1>1, <1>3
<1> QED BY <1>4

\* Induction over the numbers, for a set of them: the least missing number would follow
\* one of the set.
LEMMA NumberInduction ==
    ASSUME NEW S, S \subseteq Nat, 0 \in S, \A n \in S : n + 1 \in S
    PROVE  S = Nat
<1> DEFINE Missing == {n \in Nat : n \notin S}
<1> SUFFICES ASSUME Missing # {} PROVE FALSE
  OBVIOUS
<1>1. PICK m \in Missing : \A k \in Missing : m <= k
  BY LeastNumber
<1>2. m \in Nat /\ m # 0 /\ m - 1 \in Nat /\ (m - 1) + 1 = m
  OBVIOUS
<1>3. m - 1 \notin Missing
  BY <1>1, <1>2
<1> QED BY <1>2, <1>3

\* The same up to a bound.
LEMMA BoundedInduction ==
    ASSUME NEW n \in Nat, NEW S, 0 \in S, \A k \in 0..(n - 1) : k \in S => k + 1 \in S
    PROVE  0..n \subseteq S
<1> DEFINE T == {k \in Nat : k <= n => k \in S}
<1>1. T \subseteq Nat /\ 0 \in T
  OBVIOUS
<1>2. \A k \in T : k + 1 \in T
  OBVIOUS
<1> HIDE DEF T
<1>3. T = Nat
  BY <1>1, <1>2, NumberInduction
<1> QED BY <1>3 DEF T

\* The greatest number of a set that has one.
LEMMA GreatestIs ==
    ASSUME NEW s \in SUBSET Int, NEW m \in s, \A k \in s : k <= m
    PROVE  Greatest(s) = m
<1>1. \E j \in s : \A k \in s : j >= k
  OBVIOUS
<1>2. Greatest(s) \in s /\ \A y \in s : Greatest(s) >= y
  BY <1>1 DEF Greatest
<1>3. Greatest(s) \in Int /\ m \in Int /\ Greatest(s) <= m /\ Greatest(s) >= m
  BY <1>2
<1> QED BY <1>3

\* The recursive function behind the fold exists.
Solves(it, x, base, seq, n) ==
    it = [s \in SUBSET (1..n) |->
            IF s = {} THEN base ELSE op(x, it[s \ {Greatest(s)}], seq[Greatest(s)])]

LEMMA SolutionExists ==
    ASSUME NEW x, NEW base, NEW seq, NEW n \in Nat
    PROVE  \E it : Solves(it, x, base, seq, n)
<1> DEFINE S == {k \in Nat : \E it : Solves(it, x, base, seq, k)}
<1>1. 0 \in S
  <2> DEFINE it == [s \in SUBSET (1..0) |-> base]
  <2>1. \A s \in SUBSET (1..0) : s = {}
    OBVIOUS
  <2>2. Solves(it, x, base, seq, 0)
    BY <2>1 DEF Solves
  <2> QED BY <2>2
<1>2. ASSUME NEW k \in S PROVE k + 1 \in S
  <2>1. k \in Nat
    OBVIOUS
  <2>2. PICK it : Solves(it, x, base, seq, k)
    OBVIOUS
  <2> DEFINE Next(s) == IF k + 1 \in s THEN op(x, it[s \ {k + 1}], seq[k + 1]) ELSE it[s]
             jt == [s \in SUBSET (1..(k + 1)) |-> Next(s)]
  <2>3. ASSUME NEW s \in SUBSET (1..(k + 1)), s # {}
        PROVE  jt[s] = op(x, jt[s \ {Greatest(s)}], seq[Greatest(s)])
    <3>1. CASE k + 1 \in s
      <4>1. Greatest(s) = k + 1
        <5>1. s \in SUBSET Int /\ \A j \in s : j <= k + 1
          BY <2>1
        <5> QED BY <3>1, <5>1, GreatestIs
      <4>2. s \ {k + 1} \in SUBSET (1..(k + 1)) /\ k + 1 \notin s \ {k + 1}
        OBVIOUS
      <4>3. jt[s] = op(x, it[s \ {k + 1}], seq[k + 1]) /\ jt[s \ {k + 1}] = it[s \ {k + 1}]
        BY <3>1, <4>2
      <4> QED BY <4>1, <4>3
    <3>2. CASE k + 1 \notin s
      <4>1. s \in SUBSET (1..k)
        BY <2>1, <3>2
      <4>2. it[s] = op(x, it[s \ {Greatest(s)}], seq[Greatest(s)])
        BY <2>2, <2>3, <4>1 DEF Solves
      <4>3. s \ {Greatest(s)} \in SUBSET (1..(k + 1)) /\ k + 1 \notin s \ {Greatest(s)}
        BY <3>2
      <4>4. jt[s] = it[s] /\ jt[s \ {Greatest(s)}] = it[s \ {Greatest(s)}]
        BY <3>2, <4>3
      <4> QED BY <4>2, <4>4
    <3> QED BY <3>1, <3>2
  <2>4. jt[{}] = base
    <3>1. {} \in SUBSET (1..k) /\ {} \in SUBSET (1..(k + 1)) /\ k + 1 \notin {}
      OBVIOUS
    <3>2. it[{}] = base
      BY <2>2, <3>1 DEF Solves
    <3> QED BY <3>1, <3>2
  <2> HIDE DEF Next
  <2>5. Solves(jt, x, base, seq, k + 1)
    <3> HIDE DEF jt
    <3>1. jt = [s \in SUBSET (1..(k + 1)) |-> jt[s]]
      BY DEF jt
    <3>2. \A s \in SUBSET (1..(k + 1)) :
            jt[s] = IF s = {} THEN base ELSE op(x, jt[s \ {Greatest(s)}], seq[Greatest(s)])
      BY <2>3, <2>4
    <3> QED BY <3>1, <3>2 DEF Solves
  <2> QED BY <2>1, <2>5
<1> HIDE DEF S
<1>3. S = Nat
  <2>1. S \subseteq Nat
    BY DEF S
  <2> QED BY <1>1, <1>2, <2>1, NumberInduction
<1> QED BY <1>3 DEF S

\* The fold has intermediate results: the base first, then one more element of the
\* sequence at a time.
RunsThrough(x, base, seq, n) ==
    \E g : /\ g[0] = base
           /\ \A k \in 0..(n - 1) : g[k + 1] = op(x, g[k], seq[k + 1])
           /\ Folded(x, base, seq) = g[n]

\* A fold goes through the sequence from its first element to its last.
THEOREM Unrolled ==
    ASSUME NEW x, NEW base, NEW seq, NEW n \in Nat, DOMAIN seq = 1..n
    PROVE  RunsThrough(x, base, seq, n)
<1> DEFINE it == CHOOSE f : Solves(f, x, base, seq, n)
           g == [k \in 0..n |-> it[1..k]]
<1>1. Folded(x, base, seq) = it[1..n]
  BY DEF Folded, MapThenFoldSet, Solves
<1>2. Solves(it, x, base, seq, n)
  BY SolutionExists
<1> HIDE DEF it
<1>3. it[{}] = base /\ \A s \in SUBSET (1..n) : s # {} => it[s] = op(x, it[s \ {Greatest(s)}], seq[Greatest(s)])
  BY <1>2 DEF Solves
<1>4. g[0] = base
  <2>1. 1..0 = {}
    OBVIOUS
  <2> QED BY <1>3, <2>1
<1>5. ASSUME NEW k \in 0..(n - 1) PROVE g[k + 1] = op(x, g[k], seq[k + 1])
  <2>1. /\ k \in Int /\ k >= 0 /\ k + 1 <= n
        /\ 1..(k + 1) \in SUBSET (1..n) /\ k + 1 \in 1..(k + 1)
        /\ 1..(k + 1) \in SUBSET Int /\ \A j \in 1..(k + 1) : j <= k + 1
        /\ k \in 0..n /\ k + 1 \in 0..n
    OBVIOUS
  <2>2. Greatest(1..(k + 1)) = k + 1
    BY <2>1, GreatestIs
  <2>3. (1..(k + 1)) \ {k + 1} = 1..k
    BY <2>1
  <2>4. it[1..(k + 1)] = op(x, it[1..k], seq[k + 1])
    BY <1>3, <2>1, <2>2, <2>3
  <2> QED BY <2>1, <2>4
<1>6. g[n] = it[1..n]
  OBVIOUS
<1>7. Folded(x, base, seq) = g[n]
  BY <1>1, <1>6
<1> HIDE DEF g
<1> QED BY <1>4, <1>5, <1>7 DEF RunsThrough
=============================================================================
