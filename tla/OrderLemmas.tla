---------------------------- MODULE OrderLemmas ----------------------------
(***************************************************************************)
(* Facts about finite sets of numbers that the proofs about books and      *)
(* timings rest on: a least element exists, the members of a finite set    *)
(* have ranks 0, 1, 2 ... by the number of members below them, and each    *)
(* rank below the cardinality is taken once.                               *)
(***************************************************************************)
EXTENDS Integers, FiniteSetTheorems, WellFoundedInduction, TLAPS

\* Every set of naturals that has a member has a least one.  It is what the
\* proofs use in the place of induction: the least counterexample.
LEMMA LeastNat ==
    ASSUME NEW S \in SUBSET Nat, S # {}
    PROVE  \E m \in S : \A x \in S : m <= x
<1>1. PICK x \in S : \A y \in S : ~ (<<y, x>> \in OpToRel(<, Nat))
  BY NatLessThanWellFounded, WFMin, Zenon
<1>2. ~ \E y \in S : y < x
  BY <1>1, Zenon DEF OpToRel
<1> QED
  BY <1>2

\* The members of S below p.
Below(S, p) == {q \in S : q < p}

\* Every member has a rank, a greater member a greater one, and none is left out.
LEMMA Ranks ==
    ASSUME NEW S \in SUBSET Nat, IsFiniteSet(S)
    PROVE  /\ Cardinality(S) \in Nat
           /\ \A p \in S : Cardinality(Below(S, p)) \in 0 .. Cardinality(S) - 1
           /\ \A p, q \in S : p < q => Cardinality(Below(S, p)) < Cardinality(Below(S, q))
           /\ \A i \in 0 .. Cardinality(S) - 1 : \E p \in S : Cardinality(Below(S, p)) = i
<1>1. Cardinality(S) \in Nat
  BY FS_CardinalityType
<1>2. ASSUME NEW p \in S
      PROVE  /\ IsFiniteSet(Below(S, p)) /\ Cardinality(Below(S, p)) \in 0 .. Cardinality(S) - 1
  <2>1. Below(S, p) \in SUBSET S /\ p \notin Below(S, p)
    BY DEF Below
  <2>2. /\ IsFiniteSet(Below(S, p)) /\ Cardinality(Below(S, p)) <= Cardinality(S)
        /\ Cardinality(Below(S, p)) \in Nat
        /\ Cardinality(S) # Cardinality(Below(S, p))
    <3>1. S # Below(S, p)
      BY <2>1
    <3> QED
      BY <2>1, <3>1, FS_Subset, FS_CardinalityType
  <2> QED
    BY <1>1, <2>2
<1>3. ASSUME NEW p \in S, NEW q \in S, p < q
      PROVE  Cardinality(Below(S, p)) < Cardinality(Below(S, q))
  <2>1. Below(S, p) \in SUBSET Below(S, q) /\ p \in Below(S, q) /\ p \notin Below(S, p)
    <3>1. \A r \in S : r < p => r < q
      BY <1>3
    <3>2. p \in Nat /\ ~(p < p)
      OBVIOUS
    <3> QED
      BY <1>3, <3>1, <3>2, Zenon DEF Below
  <2>2. Below(S, q) # Below(S, p)
    BY <2>1
  <2>3. /\ Cardinality(Below(S, p)) <= Cardinality(Below(S, q))
        /\ Cardinality(Below(S, q)) # Cardinality(Below(S, p))
    <3>1. IsFiniteSet(Below(S, q))
      BY <1>2
    <3> QED
      BY <2>1, <2>2, <3>1, FS_Subset, Zenon
  <2>4. Cardinality(Below(S, p)) \in Int /\ Cardinality(Below(S, q)) \in Int
    BY <1>2
  <2> QED
    BY <2>3, <2>4
<1> DEFINE T == 0 .. Cardinality(S) - 1
           rank == [p \in S |-> Cardinality(Below(S, p))]
<1>4. IsFiniteSet(T) /\ Cardinality(T) = Cardinality(S)
  <2>1. 0 \in Int /\ Cardinality(S) - 1 \in Int
    BY <1>1
  <2>2. /\ IsFiniteSet(T)
        /\ Cardinality(T)
             = IF 0 > Cardinality(S) - 1 THEN 0 ELSE Cardinality(S) - 1 - 0 + 1
    BY <2>1, FS_Interval, Zenon
  <2> QED
    BY <1>1, <2>2
<1>5. rank \in Injection(S, T)
  <2>1. rank \in [S -> T]
    BY <1>2
  <2>2. ASSUME NEW p \in S, NEW q \in S, rank[p] = rank[q] PROVE p = q
    <3>1. p \in Nat /\ q \in Nat
      OBVIOUS
    <3>2. rank[p] = Cardinality(Below(S, p)) /\ rank[q] = Cardinality(Below(S, q))
      OBVIOUS
    <3>3. rank[p] \in Int /\ rank[q] \in Int
      BY <1>2, <3>2
    <3> QED
      BY <1>3, <2>2, <3>1, <3>2, <3>3
  <2>3. IsInjective(rank)
    BY <2>2 DEF IsInjective
  <2> QED
    BY <2>1, <2>3 DEF Injection
<1>6. rank \in Surjection(S, T)
  BY <1>4, <1>5, FS_Injection, Zenon
<1>7. \A i \in T : \E p \in S : Cardinality(Below(S, p)) = i
  BY <1>6 DEF Surjection
<1> QED
  BY <1>1, <1>2, <1>3, <1>7

\* A listing of n different values names n of them.
LEMMA DistinctValues ==
    ASSUME NEW n \in Nat, NEW f, NEW T,
           \A i \in 1 .. n : f[i] \in T,
           \A t \in T : \E i \in 1 .. n : f[i] = t,
           \A i, j \in 1 .. n : f[i] = f[j] => i = j
    PROVE  IsFiniteSet(T) /\ Cardinality(T) = n
<1> DEFINE g == [i \in 1 .. n |-> f[i]]
<1>1. IsFiniteSet(1 .. n) /\ Cardinality(1 .. n) = n
  <2>1. 1 \in Int /\ n \in Int
    OBVIOUS
  <2>2. /\ IsFiniteSet(1 .. n)
        /\ Cardinality(1 .. n) = IF 1 > n THEN 0 ELSE n - 1 + 1
    BY <2>1, FS_Interval, Zenon
  <2> QED
    BY <2>2
<1>2. g \in Surjection(1 .. n, T)
  BY DEF Surjection
<1>3. g \in Injection(1 .. n, T)
  BY DEF Injection, IsInjective
<1> QED
  BY <1>1, <1>2, <1>3, FS_Surjection
=============================================================================
