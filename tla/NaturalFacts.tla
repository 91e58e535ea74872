---------------------------- MODULE NaturalFacts ----------------------------
(***************************************************************************)
(* Induction over the natural numbers, stated of sets instead of           *)
(* predicates, and facts about sequences, that the proofs share.           *)
(***************************************************************************)
EXTENDS Integers, SequencesExt, FiniteSetsExt, TLAPS, WellFoundedInduction

\* Every set of naturals has a least element: induction without a predicate.
LEMMA LeastNatural ==
    ASSUME NEW T \in SUBSET Nat, T # {}
    PROVE  \E x \in T : \A y \in T : x <= y
<1>1. IsWellFoundedOn(OpToRel(<, Nat), Nat)
  BY NatLessThanWellFounded
<1> DEFINE R == {p \in Nat \X Nat : p[1] < p[2]}
<1>2. OpToRel(<, Nat) = R
  BY DEF OpToRel
<1>3. IsWellFoundedOn(R, Nat)
  BY <1>1, <1>2
<1> HIDE DEF R
<1>4. \A x, y \in Nat : <<y, x>> \in R <=> y < x
  BY DEF R
<1>5. PICK x \in T : \A y \in T : <<y, x>> \notin R
  BY <1>3, WFMin
<1>6. ASSUME NEW y \in T PROVE x <= y
  <2>1. ~ (y < x)
    BY <1>4, <1>5
  <2> QED
    BY <2>1
<1> QED
  BY <1>6

\* A set with 0 that is closed under successor is all of Nat.
LEMMA SetInduction ==
    ASSUME NEW T \in SUBSET Nat, 0 \in T, \A n \in T : n + 1 \in T
    PROVE  T = Nat
<1> SUFFICES ASSUME Nat \ T # {} PROVE FALSE
  OBVIOUS
<1>1. PICK x \in Nat \ T : \A y \in Nat \ T : x <= y
  BY LeastNatural
<1>2. x - 1 \in Nat /\ x - 1 < x
  OBVIOUS
<1>3. x - 1 \in T
  BY <1>1, <1>2
<1> QED
  BY <1>3

\* The greatest number of a set is one of it.
LEMMA GreatestOf ==
    ASSUME NEW n \in Nat, NEW S \in SUBSET (1..n), S # {}
    PROVE  Max(S) \in S /\ \A y \in S : y <= Max(S)
<1> DEFINE T == {t \in Nat : n - t \in S}
<1>1. \A x \in S : x \in 1..n
  OBVIOUS
<1>2. \A x \in S : n - x \in T
  <2> SUFFICES ASSUME NEW x \in S PROVE n - x \in Nat /\ n - (n - x) \in S
    OBVIOUS
  <2>1. x \in 1..n /\ n - (n - x) = x
    BY <1>1
  <2> QED
    BY <2>1
<1>3. PICK t \in T : \A u \in T : t <= u
  <2>1. T \in SUBSET Nat /\ T # {}
    BY <1>2
  <2> QED
    BY <2>1, LeastNatural
<1>4. t \in Nat /\ n - t \in S
  BY <1>3
<1>5. ASSUME NEW y \in S PROVE y <= n - t
  <2>1. t <= n - y /\ y \in 1..n
    BY <1>1, <1>2, <1>3
  <2> QED
    BY <1>4, <2>1
<1>6. Max(S) \in S /\ \A y \in S : Max(S) >= y
  <2>1. \A y \in S : n - t >= y
    BY <1>1, <1>4, <1>5
  <2> QED
    BY <1>4, <2>1 DEF Max
<1> QED
  BY <1>1, <1>6

\* The first n elements of a sequence.
LEMMA PrefixOfSequence ==
    ASSUME NEW S, NEW s \in Seq(S), NEW n \in 0..Len(s)
    PROVE  /\ SubSeq(s, 1, n) \in Seq(S) /\ Len(SubSeq(s, 1, n)) = n
           /\ \A i \in 1..n : SubSeq(s, 1, n)[i] = s[i]
  OBVIOUS

\* The function that FlattenSeq() defines.
FlattenStep(f, seqs, i) == IF i = 1 THEN seqs[i] ELSE f[i - 1] \o seqs[i]

LEMMA FlattenSeqIs ==
    ASSUME NEW seqs, NEW n \in Nat, n > 0, Len(seqs) = n
    PROVE  \E f : /\ f = [i \in 1 .. n |-> FlattenStep(f, seqs, i)]
                  /\ FlattenSeq(seqs) = f[n]
<1> DEFINE Total == {m \in Nat : \E f : f = [i \in 1 .. m |-> FlattenStep(f, seqs, i)]}
<1>1. 0 \in Total
  <2> DEFINE f == [i \in 1 .. 0 |-> 0]
  <2>1. f = [i \in 1 .. 0 |-> FlattenStep(f, seqs, i)]
    OBVIOUS
  <2> QED
    BY <2>1
<1>2. ASSUME NEW m \in Total PROVE m + 1 \in Total
  <2>1. PICK f : f = [i \in 1 .. m |-> FlattenStep(f, seqs, i)]
    OBVIOUS
  <2>2. m \in Nat
    OBVIOUS
  <2> DEFINE h == [i \in 1 .. m + 1 |-> FlattenStep(f, seqs, i)]
  <2>3. \A i \in 1 .. m : i \in 1 .. m + 1 /\ h[i] = f[i]
    BY <2>1, <2>2
  <2>4. ASSUME NEW i \in 1 .. m + 1 PROVE FlattenStep(f, seqs, i) = FlattenStep(h, seqs, i)
    <3>1. CASE i = 1
      BY <3>1 DEF FlattenStep
    <3>2. CASE i # 1
      <4>1. i - 1 \in 1 .. m
        BY <2>2, <3>2
      <4> HIDE DEF h
      <4>2. h[i - 1] = f[i - 1]
        BY <2>3, <4>1
      <4> QED
        BY <3>2, <4>2 DEF FlattenStep
    <3> QED
      BY <3>1, <3>2
  <2>5. h = [i \in 1 .. m + 1 |-> FlattenStep(h, seqs, i)]
    BY <2>4
  <2> HIDE DEF h
  <2> QED
    BY <2>2, <2>5
<1>3. \E f : f = [i \in 1 .. n |-> FlattenStep(f, seqs, i)]
  <2>1. Total = Nat
    <3> HIDE DEF Total
    <3>1. Total \in SUBSET Nat
      BY DEF Total
    <3> QED
      BY <1>1, <1>2, <3>1, SetInduction
  <2> QED
    BY <2>1
<1>4. ASSUME Len(seqs) # 0, \E f : f = [i \in 1 .. Len(seqs) |-> FlattenStep(f, seqs, i)]
      PROVE  \E f : /\ f = [i \in 1 .. Len(seqs) |-> FlattenStep(f, seqs, i)]
                    /\ FlattenSeq(seqs) = f[Len(seqs)]
  BY <1>4, Zenon DEF FlattenSeq, FlattenStep
<1> QED
  BY <1>3, <1>4

\* What is defined of everything by what it is of lower things is defined.
AreHeights(N, height) ==
    height \in [N -> Nat] /\ \E top \in Nat : \A n \in N : height[n] <= top
FromBelow(F, N, V, height) ==
    /\ F \in [[N -> V] -> [N -> V]]
    /\ \A f, g \in [N -> V] : \A n \in N :
          (\A m \in N : height[m] < height[n] => f[m] = g[m]) => F[f][n] = F[g][n]

LEMMA FixedPoint ==
    ASSUME NEW N, NEW V, NEW height, NEW F, NEW start \in [N -> V],
           AreHeights(N, height), FromBelow(F, N, V, height)
    PROVE  \E f \in [N -> V] : f = F[f]
<1>1. PICK top \in Nat : \A n \in N : height[n] <= top
  BY DEF AreHeights
<1>2. height \in [N -> Nat]
  BY DEF AreHeights
<1>3. F \in [[N -> V] -> [N -> V]]
  BY DEF FromBelow
<1>4. \A f, g \in [N -> V] : \A n \in N :
         (\A m \in N : height[m] < height[n] => f[m] = g[m]) => F[f][n] = F[g][n]
  BY DEF FromBelow
<1> DEFINE Done == {k \in Nat : \E f \in [N -> V] :
                        \A n \in N : height[n] < k => f[n] = F[f][n]}
<1>5. 0 \in Done
  <2>1. \A n \in N : ~ (height[n] < 0)
    BY <1>2
  <2> QED
    BY <2>1
<1>6. ASSUME NEW k \in Done PROVE k + 1 \in Done
  <2>1. k \in Nat /\ k + 1 \in Nat
    OBVIOUS
  <2>2. PICK f \in [N -> V] : \A n \in N : height[n] < k => f[n] = F[f][n]
    OBVIOUS
  <2>3. PICK g \in [N -> V] : g = F[f]
    BY <1>3
  <2>4. ASSUME NEW n \in N, height[n] < k + 1 PROVE g[n] = F[g][n]
    <3>1. \A m \in N : height[m] < height[n] => f[m] = g[m]
      <4> SUFFICES ASSUME NEW m \in N, height[m] < height[n] PROVE f[m] = g[m]
        OBVIOUS
      <4>1. height[m] \in Nat /\ height[n] \in Nat
        BY <1>2
      <4>2. height[m] < k
        BY <2>1, <2>4, <4>1
      <4> QED
        BY <2>2, <2>3, <4>2
    <3>2. F[f][n] = F[g][n]
      BY <1>4, <3>1
    <3> QED
      BY <2>3, <3>2
  <2> QED
    BY <2>1, <2>4
<1>7. top + 1 \in Done
  <2>1. Done = Nat
    <3>1. Done \in SUBSET Nat
      OBVIOUS
    <3> HIDE DEF Done
    <3> QED
      BY <1>5, <1>6, <3>1, SetInduction
  <2> HIDE DEF Done
  <2> QED
    BY <2>1
<1>8. PICK f \in [N -> V] : \A n \in N : height[n] < top + 1 => f[n] = F[f][n]
  BY <1>7
<1>9. \A n \in N : height[n] < top + 1
  BY <1>1, <1>2
<1>10. \A n \in N : f[n] = F[f][n]
  BY <1>8, <1>9
<1>11. F[f] \in [N -> V]
  BY <1>3
<1>12. f = F[f]
  BY <1>10, <1>11
<1> QED
  BY <1>12

LEMMA IsSequence ==
    ASSUME NEW S, NEW n \in Nat, NEW f, f = [i \in 1 .. n |-> f[i]], \A i \in 1 .. n : f[i] \in S
    PROVE  f \in Seq(S) /\ Len(f) = n
<1>1. f \in [1 .. n -> S]
  OBVIOUS
<1>2. f \in Seq(S)
  BY <1>1
<1> QED
  BY <1>1, <1>2

\* What holds of a thing when it holds of lower things holds of all.
LEMMA HeightInduction ==
    ASSUME NEW N, NEW height \in [N -> Nat], NEW T,
           \A n \in N : (\A m \in N : height[m] < height[n] => m \in T) => n \in T
    PROVE  \A n \in N : n \in T
<1> DEFINE Done == {k \in Nat : \A n \in N : height[n] < k => n \in T}
<1>1. 0 \in Done
  <2>1. \A n \in N : ~ (height[n] < 0)
    OBVIOUS
  <2> QED
    BY <2>1
<1>2. ASSUME NEW k \in Done PROVE k + 1 \in Done
  <2>1. k \in Nat /\ k + 1 \in Nat
    OBVIOUS
  <2>2. ASSUME NEW n \in N, height[n] < k + 1 PROVE n \in T
    <3>1. \A m \in N : height[m] < height[n] => height[m] < k
      BY <2>1, <2>2
    <3> QED
      BY <3>1
  <2> QED
    BY <2>1, <2>2
<1>3. Done = Nat
  <2>1. Done \in SUBSET Nat
    OBVIOUS
  <2> HIDE DEF Done
  <2> QED
    BY <1>1, <1>2, <2>1, SetInduction
<1> SUFFICES ASSUME NEW n \in N PROVE n \in T
  OBVIOUS
<1>4. height[n] + 1 \in Nat /\ height[n] < height[n] + 1
  OBVIOUS
<1> HIDE DEF Done
<1>5. height[n] + 1 \in Done
  BY <1>3, <1>4
<1> QED
  BY <1>4, <1>5 DEF Done
=============================================================================
