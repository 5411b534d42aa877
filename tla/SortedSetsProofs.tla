--------------------------- MODULE SortedSetsProofs ----------------------------
(***************************************************************************)
(* Lemmas about sets of numbers, which the proofs about paths, documents   *)
(* and lists rest on.                                                      *)
(***************************************************************************)
EXTENDS SortedSets, FiniteSetTheorems, TLAPS

\* A set of numbers that has one has a least: inductions go by least counterexamples.
LEMMA LeastIsThere ==
    ASSUME NEW at \in SUBSET Nat, at # {}
    PROVE  \E i \in at : \A j \in at : i <= j
<1>1. \E x \in at : \A y \in at : ~ (<<y, x>> \in OpToRel(<, Nat))
  BY WFMin, NatLessThanWellFounded, Zenon
<1>2. PICK x \in at : \A y \in at : ~ (<<y, x>> \in OpToRel(<, Nat))
  BY <1>1
<1>3. \A y \in at : ~(y < x)
  BY <1>2, Zenon DEF OpToRel
<1> QED BY <1>3

\* Ascending lists the numbers of a set, each once and the less before the greater.
LEMMA Ascends ==
    ASSUME NEW S \in SUBSET Nat, IsFiniteSet(S)
    PROVE  /\ Cardinality(S) \in Nat
           /\ Ascending(S) \in [1..Cardinality(S) -> S]
           /\ \A i \in S : \E k \in 1..Cardinality(S) : Ascending(S)[k] = i
           /\ \A j, k \in 1..Cardinality(S) :
                 j < k => Ascending(S)[j] < Ascending(S)[k]
<1> DEFINE upTo(i) == {j \in S : j <= i}
           rank(i) == Cardinality(upTo(i))
           n == Cardinality(S)
<1>1. n \in Nat
  BY FS_CardinalityType
<1>2. \A i \in S : /\ IsFiniteSet(upTo(i)) /\ rank(i) \in 1..n
                   /\ i \in upTo(i) /\ upTo(i) \in SUBSET S
  <2> SUFFICES ASSUME NEW i \in S
               PROVE  /\ IsFiniteSet(upTo(i)) /\ rank(i) \in 1..n
                      /\ i \in upTo(i) /\ upTo(i) \in SUBSET S
    OBVIOUS
  <2>1. i \in upTo(i) /\ upTo(i) \in SUBSET S
    OBVIOUS
  <2> HIDE DEF upTo
  <2>2. IsFiniteSet(upTo(i)) /\ rank(i) <= n
    BY <2>1, FS_Subset
  <2>3. rank(i) \in Nat /\ rank(i) # 0
    BY <2>1, <2>2, FS_CardinalityType, FS_EmptySet
  <2> QED BY <1>1, <2>1, <2>2, <2>3
<1>3. \A i, j \in S : i < j => rank(i) < rank(j)
  <2> SUFFICES ASSUME NEW i \in S, NEW j \in S, i < j
               PROVE  rank(i) < rank(j)
    OBVIOUS
  <2>1. upTo(i) \in SUBSET upTo(j) /\ j \notin upTo(i)
    <3>1. \A k \in S : k <= i => k <= j
      OBVIOUS
    <3>2. ~(j <= i)
      OBVIOUS
    <3> QED BY <3>1, <3>2
  <2>2. IsFiniteSet(upTo(j)) /\ j \in upTo(j) /\ rank(i) \in 1..n /\ rank(j) \in 1..n
    BY <1>2
  <2> HIDE DEF upTo
  <2>3. rank(i) <= rank(j) /\ rank(j) # rank(i)
    BY <2>1, <2>2, FS_Subset
  <2> QED BY <2>2, <2>3
<1> HIDE DEF upTo
<1>4. \A i, j \in S : rank(i) = rank(j) => i = j
  <2> SUFFICES ASSUME NEW i \in S, NEW j \in S, rank(i) = rank(j), i # j
               PROVE  FALSE
    OBVIOUS
  <2>1. i < j \/ j < i
    OBVIOUS
  <2>2. rank(i) \in 1..n /\ rank(j) \in 1..n
    BY <1>2
  <2> QED BY <1>3, <2>1, <2>2
<1>5. \A k \in 1..n : \E i \in S : rank(i) = k
  <2> DEFINE f == [i \in S |-> rank(i)]
  <2>1. f \in Injection(S, 1..n)
    BY <1>2, <1>4 DEF Injection, IsInjective
  <2>2. IsFiniteSet(1..n) /\ Cardinality(1..n) = n
    BY <1>1, FS_Interval
  <2> HIDE DEF f
  <2>3. f \in Surjection(S, 1..n)
    BY <2>1, <2>2, FS_Injection
  <2> QED BY <2>3 DEF Surjection, f
<1>6. \A k \in 1..n : Ascending(S)[k] \in S /\ rank(Ascending(S)[k]) = k
  <2> SUFFICES ASSUME NEW k \in 1..n
               PROVE  Ascending(S)[k] \in S /\ rank(Ascending(S)[k]) = k
    OBVIOUS
  <2>1. Ascending(S)[k] = CHOOSE i \in S : rank(i) = k
    BY DEF Ascending, upTo
  <2> HIDE DEF rank
  <2> QED BY <1>5, <2>1
<1>7. Ascending(S) \in [1..n -> S]
  BY <1>6 DEF Ascending
<1> HIDE DEF rank
<1>8. \A i \in S : \E k \in 1..n : Ascending(S)[k] = i
  <2> SUFFICES ASSUME NEW i \in S PROVE \E k \in 1..n : Ascending(S)[k] = i
    OBVIOUS
  <2>1. rank(i) \in 1..n
    BY <1>2 DEF rank
  <2>2. Ascending(S)[rank(i)] = i
    BY <1>4, <1>6, <2>1
  <2> QED BY <2>1, <2>2
<1>9. \A j, k \in 1..n : j < k => Ascending(S)[j] < Ascending(S)[k]
  <2> SUFFICES ASSUME NEW j \in 1..n, NEW k \in 1..n, j < k
               PROVE  Ascending(S)[j] < Ascending(S)[k]
    OBVIOUS
  <2> DEFINE a == Ascending(S)[j]
             b == Ascending(S)[k]
  <2>1. a \in S /\ b \in S /\ rank(a) = j /\ rank(b) = k
    BY <1>6
  <2> HIDE DEF a, b
  <2>2. a # b /\ ~(b < a)
    BY <1>1, <1>3, <2>1
  <2>3. a < b
    BY <2>1, <2>2
  <2> QED BY <2>3 DEF a, b
<1> QED BY <1>1, <1>7, <1>8, <1>9
================================================================================
