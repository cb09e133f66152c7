--------------------------- MODULE SequenceLemmas ---------------------------
(***************************************************************************)
(* What the proofs need of sequences and their positions.                  *)
(***************************************************************************)
EXTENDS Integers, SequencesExt, SequenceTheorems, WellFoundedInduction, TLAPS

\* A nonempty set of naturals has a least element.
LEMMA LeastNat ==
  ASSUME NEW S \in SUBSET Nat, S # {}
  PROVE  /\ Min(S) \in S
         /\ \A y \in S : Min(S) <= y
<1>1. PICK x \in S : \A y \in S : ~(<<y, x>> \in OpToRel(<, Nat))
  BY NatLessThanWellFounded, WFMin, Zenon
<1>2. \A y \in S : ~(y < x)
  BY <1>1 DEF OpToRel
<1>3. \E m \in S : \A y \in S : m <= y
  BY <1>2
<1> QED
  BY <1>3 DEF Min

\* A part of a sequence, position by position.
LEMMA PartOf ==
  ASSUME NEW S, NEW s \in Seq(S), NEW m \in Nat \ {0}, NEW n \in 0..Len(s)
  PROVE  /\ SubSeq(s, m, n) \in Seq(S)
         /\ Len(SubSeq(s, m, n)) = IF m <= n THEN n - m + 1 ELSE 0
         /\ \A i \in 1..n - m + 1 : SubSeq(s, m, n)[i] = s[m + i - 1]
<1>1. \A i \in m..n : s[i] \in S
  BY LenProperties, ElementOfSeq
<1> QED
  BY <1>1, LenProperties, SubSeqProperties

\* Two parts of the same length that agree position by position are equal.
LEMMA EqualParts ==
  ASSUME NEW S, NEW s \in Seq(S), NEW t \in Seq(S),
         NEW k \in Nat, NEW l \in Nat, NEW n \in Nat,
         k + n <= Len(s), l + n <= Len(t),
         \A i \in 1..n : s[k + i] = t[l + i]
  PROVE  SubSeq(s, k + 1, k + n) = SubSeq(t, l + 1, l + n)
<1>0. Len(s) \in Nat /\ Len(t) \in Nat
  BY LenProperties
<1> DEFINE a == SubSeq(s, k + 1, k + n)
           b == SubSeq(t, l + 1, l + n)
<1>1. /\ a \in Seq(S) /\ Len(a) = n
      /\ \A i \in 1..n : a[i] = s[k + i]
  <2>1. k + 1 \in Nat \ {0} /\ k + n \in 0..Len(s)
    BY <1>0
  <2>2. /\ a \in Seq(S)
        /\ Len(a) = IF k + 1 <= k + n THEN (k + n) - (k + 1) + 1 ELSE 0
        /\ \A i \in 1..(k + n) - (k + 1) + 1 : a[i] = s[(k + 1) + i - 1]
    BY <2>1, PartOf
  <2> HIDE DEF a
  <2> QED
    BY <2>2
<1>2. /\ b \in Seq(S) /\ Len(b) = n
      /\ \A i \in 1..n : b[i] = t[l + i]
  <2>1. l + 1 \in Nat \ {0} /\ l + n \in 0..Len(t)
    BY <1>0
  <2>2. /\ b \in Seq(S)
        /\ Len(b) = IF l + 1 <= l + n THEN (l + n) - (l + 1) + 1 ELSE 0
        /\ \A i \in 1..(l + n) - (l + 1) + 1 : b[i] = t[(l + 1) + i - 1]
    BY <2>1, PartOf
  <2> HIDE DEF b
  <2> QED
    BY <2>2
<1> HIDE DEF a, b
<1>3. \A i \in 1..Len(a) : a[i] = b[i]
  BY <1>1, <1>2
<1>4. a = b
  BY <1>1, <1>2, <1>3, SeqEqual
<1> QED
  BY <1>4 DEF a, b

\* t lies in s behind position k.
Holds(s, k, t) == \A i \in 1..Len(t) : s[k + i] = t[i]

\* Both parts of a concatenation lie in it.
LEMMA BothHeld ==
  ASSUME NEW S
  PROVE  \A s, t \in Seq(S) :
           /\ s \o t \in Seq(S) /\ Len(s \o t) = Len(s) + Len(t)
           /\ Holds(s \o t, 0, s) /\ Holds(s \o t, Len(s), t)
<1> SUFFICES ASSUME NEW s \in Seq(S), NEW t \in Seq(S), NEW u, u = s \o t
             PROVE  /\ u \in Seq(S) /\ Len(u) = Len(s) + Len(t)
                    /\ Holds(u, 0, s) /\ Holds(u, Len(s), t)
  OBVIOUS
<1>0. Len(s) \in Nat /\ Len(t) \in Nat
  BY LenProperties
<1>1. /\ u \in Seq(S) /\ Len(u) = Len(s) + Len(t)
      /\ \A i \in 1..Len(s) + Len(t) :
           u[i] = IF i <= Len(s) THEN s[i] ELSE t[i - Len(s)]
  BY ConcatProperties
<1>2. Holds(u, 0, s)
  BY <1>0, <1>1 DEF Holds
<1>3. Holds(u, Len(s), t)
  <2> SUFFICES ASSUME NEW i \in 1..Len(t) PROVE u[Len(s) + i] = t[i]
    BY DEF Holds
  <2>1. /\ Len(s) + i \in 1..Len(s) + Len(t) /\ ~(Len(s) + i <= Len(s))
        /\ (Len(s) + i) - Len(s) = i
    BY <1>0
  <2> QED
    BY <1>1, <2>1
<1> QED
  BY <1>1, <1>2, <1>3

\* What lies in a part lies in the whole.
LEMMA HoldsWithin ==
  ASSUME NEW s, NEW k \in Nat, NEW S, NEW t \in Seq(S), Holds(s, k, t),
         NEW l \in Nat, NEW u \in Seq(S), Holds(t, l, u),
         l + Len(u) <= Len(t)
  PROVE  Holds(s, k + l, u)
<1> SUFFICES ASSUME NEW i \in 1..Len(u) PROVE s[(k + l) + i] = u[i]
  BY DEF Holds
<1>1. Len(u) \in Nat /\ Len(t) \in Nat
  BY LenProperties
<1>2. l + i \in 1..Len(t) /\ k + (l + i) = (k + l) + i
  BY <1>1
<1> QED
  BY <1>2 DEF Holds

\* A part is cut out at its place.
LEMMA HeldPart ==
  ASSUME NEW S, NEW s \in Seq(S), NEW t \in Seq(S), NEW k \in Nat,
         k + Len(t) <= Len(s), Holds(s, k, t)
  PROVE  SubSeq(s, k + 1, k + Len(t)) = t
<1> DEFINE n == Len(t)
<1>1. n \in Nat
  BY LenProperties
<1>2. \A i \in 1..n : s[k + i] = t[0 + i]
  BY DEF Holds
<1>3. 0 + n <= Len(t) /\ 0 \in Nat /\ k + n <= Len(s)
  BY <1>1
<1>4. SubSeq(t, 1, n) = t
  BY SubSeqFull
<1> HIDE DEF n
<1>5. SubSeq(s, k + 1, k + n) = SubSeq(t, 0 + 1, 0 + n)
  BY <1>1, <1>2, <1>3, EqualParts
<1>6. 0 + 1 = 1 /\ 0 + n = n
  BY <1>1
<1> QED
  BY <1>4, <1>5, <1>6 DEF n

\* What holds of the first element of a list of values, and passes from each
\* to the next, holds of all.
LEMMA StepByStep ==
  ASSUME NEW m \in Nat, NEW n \in Nat, NEW f, NEW S,
         f[m] \in S,
         \A i \in m..n : i # m /\ f[i - 1] \in S => f[i] \in S
  PROVE  \A i \in m..n : f[i] \in S
<1> DEFINE Bad == {i \in m..n : f[i] \notin S}
<1> SUFFICES ASSUME Bad # {} PROVE FALSE
  OBVIOUS
<1>1. Bad \in SUBSET Nat
  OBVIOUS
<1>2. PICK k \in Bad : \A y \in Bad : k <= y
  BY <1>1, LeastNat
<1>3. k \in m..n /\ f[k] \notin S /\ k # m
  BY <1>2
<1>4. k - 1 \in m..n /\ k - 1 \notin Bad
  BY <1>2, <1>3
<1>5. f[k - 1] \in S
  BY <1>4
<1> QED
  BY <1>3, <1>5

\* f is v at m, and step of the position and the value before it behind m.
Solution(f, V, m, n, v, step) ==
  /\ f \in [m..n -> V]
  /\ \A i \in m..n : f[i] = IF i = m THEN v ELSE step[<<i, f[i - 1]>>]

\* A definition by recursion over a range of positions has a solution.
LEMMA Recursion ==
  ASSUME NEW V, NEW v \in V, NEW m \in Nat, NEW n \in Nat,
         NEW step \in [Nat \X V -> V]
  PROVE  \E f : Solution(f, V, m, n, v, step)
<1> DEFINE Solves(f, k) ==
             \A i \in m..k : f[i] = IF i = m THEN v ELSE step[<<i, f[i - 1]>>]
           Bad == {k \in Nat : ~\E f \in [m..k -> V] : Solves(f, k)}
<1> SUFFICES ASSUME Bad # {} PROVE FALSE
  <2> SUFFICES ASSUME Bad = {} PROVE \E f : Solution(f, V, m, n, v, step)
    OBVIOUS
  <2>1. \E f \in [m..n -> V] : Solves(f, n)
    OBVIOUS
  <2>2. PICK f \in [m..n -> V] : Solves(f, n)
    BY <2>1
  <2>3. Solution(f, V, m, n, v, step)
    BY <2>2 DEF Solution
  <2> QED
    BY <2>3
<1>1. Bad \in SUBSET Nat
  OBVIOUS
<1>2. PICK k \in Bad : \A y \in Bad : k <= y
  BY <1>1, LeastNat
<1>3. CASE k <= m
  <2> DEFINE g == [i \in m..k |-> v]
  <2>1. g \in [m..k -> V] /\ Solves(g, k)
    BY <1>3
  <2> QED
    BY <1>2, <2>1
<1>4. CASE k > m
  <2>1. k \in Nat /\ k - 1 \in Nat /\ k - 1 \notin Bad
    <3>1. k \in Nat
      BY <1>1, <1>2
    <3> HIDE DEF Bad
    <3> QED
      BY <1>2, <1>4, <3>1
  <2>2. PICK f \in [m..(k - 1) -> V] : Solves(f, k - 1)
    BY <2>1
  <2> DEFINE g == [i \in m..k |-> IF i = k THEN step[<<k, f[k - 1]>>]
                                  ELSE f[i]]
  <2>3. step[<<k, f[k - 1]>>] \in V
    <3>1. k - 1 \in m..(k - 1)
      BY <1>4, <2>1
    <3>2. f[k - 1] \in V
      BY <3>1
    <3> QED
      BY <2>1, <3>2
  <2>4. \A i \in m..k : i # k => i \in m..(k - 1)
    BY <2>1
  <2>5. g \in [m..k -> V]
    BY <2>3, <2>4
  <2>6. ASSUME NEW i \in m..k
        PROVE  g[i] = IF i = m THEN v ELSE step[<<i, g[i - 1]>>]
    <3>1. CASE i = k
      <4>1. k - 1 \in m..k /\ k - 1 # k /\ i # m
        BY <1>4, <2>1, <3>1
      <4>2. g[k - 1] = f[k - 1]
        BY <4>1
      <4> QED
        BY <3>1, <4>1, <4>2
    <3>2. CASE i # k
      <4>1. i \in m..(k - 1) /\ g[i] = f[i]
        BY <2>4, <3>2
      <4>2. CASE i = m
        BY <2>2, <4>1, <4>2
      <4>3. CASE i # m
        <5>1. i - 1 \in m..k /\ i - 1 # k
          BY <2>1, <4>1, <4>3
        <5>2. g[i - 1] = f[i - 1]
          BY <5>1
        <5> QED
          BY <2>2, <4>1, <4>3, <5>2
      <4> QED
        BY <4>2, <4>3
    <3> QED
      BY <3>1, <3>2
  <2> HIDE DEF g
  <2> QED
    BY <1>2, <2>5, <2>6
<1> QED
  BY <1>2, <1>3, <1>4

\* g[i] is the first i of seqs, one after the other.
Flattens(g, S, seqs) ==
  \A i \in 1..Len(seqs) :
    /\ g[i] \in Seq(S)
    /\ g[i] = IF i = 1 THEN seqs[1] ELSE g[i - 1] \o seqs[i]

LEMMA FlattenedStepwise ==
  ASSUME NEW S, NEW seqs \in Seq(Seq(S)), Len(seqs) # 0
  PROVE  \E g : Flattens(g, S, seqs) /\ FlattenSeq(seqs) = g[Len(seqs)]
<1> DEFINE n == Len(seqs)
           Eq(f) == f = [i \in 1..n |-> IF i = 1 THEN seqs[i]
                                        ELSE f[i - 1] \o seqs[i]]
<1>1. n \in Nat /\ \A i \in 1..n : seqs[i] \in Seq(S)
  BY LenProperties, ElementOfSeq
<1>2. n # 0
  OBVIOUS
<1> DEFINE step == [x \in Nat \X Seq(S) |->
                      IF x[1] \in 1..n THEN x[2] \o seqs[x[1]] ELSE <<>>]
<1>3. step \in [Nat \X Seq(S) -> Seq(S)]
  <2>1. \A x \in Nat \X Seq(S) : x[1] \in 1..n => x[2] \o seqs[x[1]] \in Seq(S)
    BY <1>1, ConcatProperties
  <2> QED
    BY <2>1, EmptySeq
<1>4. seqs[1] \in Seq(S)
  BY <1>1, <1>2
<1> HIDE DEF step
<1>5. PICK f \in [1..n -> Seq(S)] :
        \A i \in 1..n : f[i] = IF i = 1 THEN seqs[1] ELSE step[<<i, f[i - 1]>>]
  <2> DEFINE V == Seq(S)
             v == seqs[1]
  <2>1. 1 \in Nat /\ n \in Nat /\ v \in V /\ step \in [Nat \X V -> V]
    BY <1>1, <1>3, <1>4
  <2> HIDE DEF n, V, v
  <2>2. \E f : Solution(f, V, 1, n, v, step)
    BY <2>1, Recursion, Zenon
  <2> QED
    BY <2>2 DEF V, v, Solution
<1>6. \A i \in 1..n : f[i] = IF i = 1 THEN seqs[i] ELSE f[i - 1] \o seqs[i]
  <2> SUFFICES ASSUME NEW i \in 1..n, i # 1
               PROVE  step[<<i, f[i - 1]>>] = f[i - 1] \o seqs[i]
    BY <1>5
  <2>1. i - 1 \in 1..n /\ i \in Nat
    BY <1>1
  <2>2. f[i - 1] \in Seq(S)
    BY <2>1
  <2> QED
    BY <2>1, <2>2 DEF step
<1>7. Eq(f)
  BY <1>5, <1>6
<1> DEFINE flatten == CHOOSE g : Eq(g)
<1>8. Eq(flatten)
  BY <1>7
<1>9. FlattenSeq(seqs) = flatten[n]
  BY <1>2 DEF FlattenSeq
<1> HIDE DEF flatten
<1>10. \A i \in 1..n : i # 1 /\ flatten[i - 1] \in Seq(S) => flatten[i] \in Seq(S)
  <2> SUFFICES ASSUME NEW i \in 1..n, i # 1, flatten[i - 1] \in Seq(S)
               PROVE  flatten[i] \in Seq(S)
    OBVIOUS
  <2>1. flatten[i] = flatten[i - 1] \o seqs[i]
    BY <1>8
  <2>2. seqs[i] \in Seq(S)
    BY <1>1
  <2> QED
    BY <2>1, <2>2, ConcatProperties
<1>11. flatten[1] \in Seq(S)
  BY <1>1, <1>2, <1>8
<1>12. \A i \in 1..n : flatten[i] \in Seq(S)
  BY <1>1, <1>10, <1>11, StepByStep
<1>13. \A i \in 1..n : flatten[i] = IF i = 1 THEN seqs[1]
                                    ELSE flatten[i - 1] \o seqs[i]
  BY <1>8
<1>14. Flattens(flatten, S, seqs)
  BY <1>12, <1>13 DEF Flattens
<1> QED
  BY <1>9, <1>14

\* Sequences of elements of S, one after the other, are one.
LEMMA Flattened ==
  ASSUME NEW S, NEW seqs \in Seq(Seq(S))
  PROVE  FlattenSeq(seqs) \in Seq(S)
<1>1. Len(seqs) \in Nat
  BY LenProperties
<1>2. CASE Len(seqs) = 0
  BY <1>2, EmptySeq DEF FlattenSeq
<1>3. CASE Len(seqs) # 0
  <2>1. PICK g : Flattens(g, S, seqs) /\ FlattenSeq(seqs) = g[Len(seqs)]
    BY <1>3, FlattenedStepwise
  <2>2. Len(seqs) \in 1..Len(seqs)
    BY <1>1, <1>3
  <2> QED
    BY <2>1, <2>2 DEF Flattens
<1> QED
  BY <1>2, <1>3
=============================================================================
