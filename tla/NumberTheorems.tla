--------------------------- MODULE NumberTheorems ---------------------------
(* Facts about sets of numbers that the proofs about components share.       *)
EXTENDS Integers, FiniteSetTheorems, WellFoundedInduction, TLAPS

\* A set of natural numbers that is not empty has a least element.
LEMMA Minimum ==
  ASSUME NEW S \in SUBSET Nat, S # {}
  PROVE  \E n \in S : \A m \in S : n <= m
  <1> DEFINE T == {1 .. n : n \in S}
  <1>1. \A n \in S : 1 .. n \in FiniteSubsetsOf(Nat)
    <2> SUFFICES ASSUME NEW n \in S PROVE 1 .. n \in FiniteSubsetsOf(Nat)
      OBVIOUS
    <2>1. n \in Int /\ 1 \in Int /\ 1 .. n \in SUBSET Nat
      OBVIOUS
    <2>2. IsFiniteSet(1 .. n)
      BY <2>1, FS_Interval
    <2> QED
      BY <2>1, <2>2 DEF FiniteSubsetsOf
  <1>2. T # {} /\ T \subseteq FiniteSubsetsOf(Nat)
    BY <1>1
  <1>3. PICK x \in T : \A y \in T : ~(<<y, x>> \in StrictSubsetOrdering(Nat))
    BY <1>2, FS_StrictSubsetOrderingWellFounded, WFMin
  <1>4. PICK n \in S : x = 1 .. n
    OBVIOUS
  <1>5. ASSUME NEW m \in S, m < n PROVE FALSE
    <2>1. 1 .. m \in T /\ 1 .. m \subseteq 1 .. n /\ n \in 1 .. n /\ n \notin 1 .. m
      BY <1>5
    <2>2. <<1 .. m, x>> \in StrictSubsetOrdering(Nat)
      BY <1>4, <2>1 DEF StrictSubsetOrdering
    <2> QED
      BY <1>3, <2>1, <2>2
  <1> QED
    BY <1>5

\* How many elements of P there are up to one of them: the rank of that element.
Rank(P, i) == Cardinality(P \cap (1 .. i))

\* The ranks of a set of positions are the numbers up to its size, each once.
LEMMA RanksCount ==
  ASSUME NEW m \in Nat, NEW P \in SUBSET (1 .. m)
  PROVE  /\ IsFiniteSet(P) /\ Cardinality(P) \in 0 .. m
         /\ \A i \in P : Rank(P, i) \in 1 .. Cardinality(P)
         /\ \A i \in P : Cardinality({j \in 1 .. i - 1 : j \in P}) = Rank(P, i) - 1
         /\ \A i, j \in P : Rank(P, i) = Rank(P, j) => i = j
         /\ \A n \in 1 .. Cardinality(P) : \E i \in P : Rank(P, i) = n
  <1>1. IsFiniteSet(P) /\ Cardinality(P) \in 0 .. m
    <2>1. IsFiniteSet(1 .. m) /\ Cardinality(1 .. m) = m
      BY FS_Interval
    <2>2. IsFiniteSet(P) /\ Cardinality(P) <= m
      BY <2>1, FS_Subset
    <2> QED
      BY <2>2, FS_CardinalityType
  <1>2. \A Q \in SUBSET P : /\ IsFiniteSet(Q) /\ Cardinality(Q) \in Nat
                            /\ Cardinality(Q) <= Cardinality(P)
    BY <1>1, FS_Subset, FS_CardinalityType
  <1>3. ASSUME NEW i \in P
        PROVE  /\ Rank(P, i) \in Int /\ Rank(P, i) \in 1 .. Cardinality(P)
               /\ Cardinality({j \in 1 .. i - 1 : j \in P}) = Rank(P, i) - 1
    <2> DEFINE Q == {j \in 1 .. i - 1 : j \in P}
    <2>1. P \cap (1 .. i) = Q \cup {i} /\ i \notin Q /\ Q \in SUBSET P
      OBVIOUS
    <2>2. P \cap (1 .. i) \in SUBSET P
      OBVIOUS
    <2> HIDE DEF Q
    <2>3. Rank(P, i) = Cardinality(Q) + 1
      BY <1>2, <2>1, FS_AddElement DEF Rank
    <2>4. Rank(P, i) <= Cardinality(P) /\ Cardinality(Q) \in Nat
      BY <1>2, <2>1, <2>2 DEF Rank
    <2>5. Rank(P, i) \in Int /\ Rank(P, i) \in 1 .. Cardinality(P)
      BY <1>1, <2>3, <2>4
    <2>6. Cardinality(Q) = Rank(P, i) - 1
      BY <2>3, <2>4
    <2> QED
      BY <2>5, <2>6 DEF Q
  <1>4. ASSUME NEW i \in P, NEW j \in P, i < j
        PROVE  Rank(P, i) < Rank(P, j)
    <2>1. P \cap (1 .. i) \in SUBSET {k \in 1 .. j - 1 : k \in P}
      BY <1>4
    <2>2. {k \in 1 .. j - 1 : k \in P} \in SUBSET P
      OBVIOUS
    <2>3. Rank(P, i) <= Cardinality({k \in 1 .. j - 1 : k \in P})
      BY <1>2, <2>1, <2>2, FS_Subset DEF Rank
    <2>4. Cardinality({k \in 1 .. j - 1 : k \in P}) = Rank(P, j) - 1
      BY <1>3
    <2>5. Rank(P, i) \in Int /\ Rank(P, j) \in Int
      BY <1>3
    <2> QED
      BY <2>3, <2>4, <2>5
  <1>5. \A i, j \in P : Rank(P, i) = Rank(P, j) => i = j
    <2> SUFFICES ASSUME NEW i \in P, NEW j \in P, Rank(P, i) = Rank(P, j), i # j PROVE FALSE
      OBVIOUS
    <2>1. i < j \/ j < i
      OBVIOUS
    <2>2. Rank(P, i) \in Int
      BY <1>3
    <2> QED
      BY <1>4, <2>1, <2>2
  <1>6. \A n \in 1 .. Cardinality(P) : \E i \in P : Rank(P, i) = n
    <2> DEFINE f == [i \in P |-> Rank(P, i)]
    <2>1. f \in Injection(P, 1 .. Cardinality(P))
      BY <1>3, <1>5 DEF Injection, IsInjective
    <2>2. IsFiniteSet(1 .. Cardinality(P)) /\ Cardinality(1 .. Cardinality(P)) = Cardinality(P)
      BY <1>1, FS_Interval
    <2>3. f \in Surjection(P, 1 .. Cardinality(P))
      BY <2>1, <2>2, FS_Injection
    <2> QED
      BY <2>3 DEF Surjection
  <1> QED
    BY <1>1, <1>3, <1>5, <1>6

\* Each number up to the size of a set of positions is the rank of one of them.
LEMMA RanksReached ==
  ASSUME NEW m \in Nat, NEW P \in SUBSET (1 .. m), NEW n \in 1 .. Cardinality(P)
  PROVE  \E i \in P : Rank(P, i) = n
  <1>1. \A k \in 1 .. Cardinality(P) : \E i \in P : Rank(P, i) = k
    BY RanksCount
  <1> QED
    BY <1>1
=============================================================================
