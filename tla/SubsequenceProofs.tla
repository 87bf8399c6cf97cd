------------------------- MODULE SubsequenceProofs -------------------------
(* Lemmas about finite sets of naturals and the subsequences they select,  *)
(* which the proofs of the components cite.                                 *)
EXTENDS Subsequence, Sequences, FiniteSetTheorems, TLAPS

\* A set of naturals has a least element: what the proofs use in the place of
\* induction.
LEMMA LeastOfNaturals ==
  ASSUME NEW A, A \subseteq Nat, A # {}
  PROVE  \E m \in A : \A k \in A : m <= k
PROOF
  <1>0. \A k \in A : k \in Nat
    OBVIOUS
  <1>1. PICK n \in A : TRUE
    OBVIOUS
  <1> DEFINE Below(m) == { k \in A : k <= m }
             F == { Below(m) : m \in Below(n) }
  <1>2. IsFiniteSet(Below(n))
    BY <1>0, <1>1, FS_BoundedSetOfNaturals
  <1>3. F \subseteq FiniteSubsetsOf(Below(n)) /\ F # {}
    <2>1. ASSUME NEW m \in Below(n) PROVE Below(m) \in SUBSET Below(n)
      <3>1. SUFFICES ASSUME NEW j \in Below(m) PROVE j \in Below(n)
        OBVIOUS
      <3>2. j \in A /\ j \in Nat /\ m \in Nat /\ n \in Nat /\ j <= m /\ m <= n
        BY <1>0, <1>1
      <3> QED BY <3>2
    <2>2. SUBSET Below(n) = FiniteSubsetsOf(Below(n))
      BY <1>2, FS_FiniteSubsetsOfFinite
    <2>3. n \in Below(n)
      BY <1>0, <1>1
    <2> HIDE DEF Below
    <2> QED BY <2>1, <2>2, <2>3
  <1>4. IsWellFoundedOn(StrictSubsetOrdering(Below(n)), FiniteSubsetsOf(Below(n)))
    BY FS_StrictSubsetOrderingWellFounded
  <1>5. PICK X \in F : \A Y \in F : <<Y, X>> \notin StrictSubsetOrdering(Below(n))
    <2> HIDE DEF F, Below
    <2> QED BY <1>3, <1>4, WFMin
  <1>6. PICK m \in Below(n) : X = Below(m)
    BY <1>5
  <1>7. ASSUME NEW k \in A, k < m PROVE FALSE
    <2>0. k \in Nat /\ m \in Nat /\ n \in Nat /\ m <= n
      BY <1>0, <1>1, <1>6
    <2>1. k \in Below(n) /\ m \in Below(m) /\ m \notin Below(k)
      BY <2>0, <1>6, <1>7
    <2>3. ASSUME NEW j \in Below(k) PROVE j \in Below(m)
      <3>1. j \in A /\ j \in Nat /\ j <= k
        BY <1>0
      <3> QED BY <2>0, <3>1, <1>7
    <2>4. ASSUME NEW j \in Below(m) PROVE j \in Below(n)
      <3>1. j \in A /\ j \in Nat /\ j <= m
        BY <1>0
      <3> QED BY <2>0, <3>1
    <2>2. <<Below(k), Below(m)>> \in StrictSubsetOrdering(Below(n))
      <3>1. Below(m) \subseteq Below(n) /\ Below(k) \subseteq Below(m)
        BY <2>3, <2>4
      <3> HIDE DEF Below
      <3> QED BY <2>1, <3>1 DEF StrictSubsetOrdering
    <2> QED BY <2>1, <2>2, <1>5, <1>6
  <1>8. \A k \in A : ~ (k < m) => m <= k
    BY <1>0, <1>6
  <1> QED BY <1>6, <1>7, <1>8

\* A bounded set of naturals has a greatest element.
LEMMA GreatestOfNaturals ==
  ASSUME NEW n \in Nat, NEW A \in SUBSET (0 .. n), A # {}
  PROVE  \E m \in A : \A k \in A : k <= m
PROOF
  <1> DEFINE B == { b \in Nat : \E k \in A : b = n - k }
  <1>1. B # {}
    <2>1. PICK k \in A : TRUE
      OBVIOUS
    <2>2. n - k \in B
      OBVIOUS
    <2> QED BY <2>2
  <1>2. PICK b \in B : \A c \in B : b <= c
    <2>1. B \subseteq Nat
      OBVIOUS
    <2> HIDE DEF B
    <2> QED BY <1>1, <2>1, LeastOfNaturals
  <1>3. PICK m \in A : b = n - m
    OBVIOUS
  <1>4. ASSUME NEW k \in A PROVE k <= m
    <2>1. n - k \in B
      OBVIOUS
    <2> QED BY <1>2, <1>3, <2>1
  <1> QED BY <1>4

-----------------------------------------------------------------------------
\* The rank of an element of D is between 1 and the size of D, and grows with
\* the element.
LEMMA RankGrows ==
  ASSUME NEW D, D \subseteq Nat, IsFiniteSet(D)
  PROVE  /\ \A i \in D : Rank(D, i) \in 1 .. Cardinality(D)
         /\ \A i, j \in D : i < j <=> Rank(D, i) < Rank(D, j)
         /\ \A i, j \in D : Rank(D, i) = Rank(D, j) => i = j
PROOF
  <1> DEFINE Upto(i) == { j \in D : j <= i }
  <1>0. \A i \in D : i \in Nat
    OBVIOUS
  <1>1. ASSUME NEW i \in D
        PROVE  IsFiniteSet(Upto(i)) /\ Cardinality(Upto(i)) \in 1 .. Cardinality(D)
    <2>1. Upto(i) \in SUBSET D /\ i \in Upto(i)
      BY <1>0
    <2>2. IsFiniteSet(Upto(i)) /\ Cardinality(Upto(i)) <= Cardinality(D)
      BY <2>1, FS_Subset
    <2>3. Cardinality(Upto(i)) \in Nat /\ Cardinality(Upto(i)) # 0 /\ Cardinality(D) \in Nat
      BY <2>1, <2>2, FS_CardinalityType, FS_EmptySet
    <2> QED BY <2>2, <2>3
  <1>2. ASSUME NEW i \in D, NEW j \in D, i < j
        PROVE  Cardinality(Upto(i)) < Cardinality(Upto(j))
    <2>0. i \in Nat /\ j \in Nat
      BY <1>0
    <2>3. ASSUME NEW k \in Upto(i) PROVE k \in Upto(j)
      <3>1. k \in D /\ k \in Nat /\ k <= i
        BY <1>0
      <3> QED BY <2>0, <3>1, <1>2
    <2>4. j \in Upto(j) /\ j \notin Upto(i)
      BY <2>0, <1>2
    <2>1. Upto(i) \in SUBSET Upto(j) /\ j \in Upto(j) /\ j \notin Upto(i)
      BY <2>3, <2>4, Zenon
    <2>2. Cardinality(Upto(i)) <= Cardinality(Upto(j))
          /\ Cardinality(Upto(i)) # Cardinality(Upto(j))
      BY <1>1, <2>1, FS_Subset
    <2> QED BY <1>1, <2>2
  <1>3. \A i, j \in D : i < j \/ j < i \/ i = j
    BY <1>0
  <1>4. \A i \in D : Rank(D, i) = Cardinality(Upto(i)) /\ Rank(D, i) \in Nat
    BY <1>1 DEF Rank
  <1> HIDE DEF Upto
  <1>5. \A i \in D : Rank(D, i) \in 1 .. Cardinality(D)
    BY <1>1, <1>4
  <1>6. \A i, j \in D : i < j => Rank(D, i) < Rank(D, j)
    BY <1>2, <1>4
  <1> QED BY <1>3, <1>4, <1>5, <1>6

\* Each rank is the rank of one element: Position is the inverse of Rank.
LEMMA PositionOfRank ==
  ASSUME NEW D, D \subseteq Nat, IsFiniteSet(D)
  PROVE  /\ \A k \in 1 .. Cardinality(D) : Position(D, k) \in D /\ Rank(D, Position(D, k)) = k
         /\ \A i \in D : Position(D, Rank(D, i)) = i
         /\ \A k, l \in 1 .. Cardinality(D) : k < l <=> Position(D, k) < Position(D, l)
         /\ \A k, l \in 1 .. Cardinality(D) : Position(D, k) = Position(D, l) => k = l
PROOF
  <1> DEFINE n == Cardinality(D)
             rank == [i \in D |-> Rank(D, i)]
  <1>1. n \in Nat
    BY FS_CardinalityType
  <1>2. rank \in Injection(D, 1 .. n)
    <2>1. rank \in [D -> 1 .. n]
      BY RankGrows
    <2>2. \A i, j \in D : rank[i] = rank[j] => i = j
      BY RankGrows
    <2> QED BY <2>1, <2>2, Zenon DEF Injection, IsInjective
  <1>3. IsFiniteSet(1 .. n) /\ Cardinality(1 .. n) = n
    BY <1>1, FS_Interval
  <1>4. rank \in Surjection(D, 1 .. n)
    BY <1>2, <1>3, FS_Injection
  <1>5. \A k \in 1 .. n : \E i \in D : Rank(D, i) = k
    BY <1>4 DEF Surjection
  <1>6. \A k \in 1 .. n : Position(D, k) \in D /\ Rank(D, Position(D, k)) = k
    BY <1>5 DEF Position
  <1>7. \A i \in D : Position(D, Rank(D, i)) = i
    BY <1>6, RankGrows, ZenonT(60)
  <1> HIDE DEF n
  <1>8. ASSUME NEW k \in 1 .. n, NEW l \in 1 .. n
        PROVE  k < l <=> Position(D, k) < Position(D, l)
    <2>1. /\ Position(D, k) \in D /\ Rank(D, Position(D, k)) = k
          /\ Position(D, l) \in D /\ Rank(D, Position(D, l)) = l
      BY <1>6
    <2> DEFINE i == Position(D, k)
               j == Position(D, l)
    <2>2. i \in D /\ j \in D /\ Rank(D, i) = k /\ Rank(D, j) = l
      BY <2>1
    <2> HIDE DEF i, j
    <2>3. i < j <=> Rank(D, i) < Rank(D, j)
      BY <2>2, RankGrows
    <2> QED BY <2>2, <2>3 DEF i, j
  <1>9. \A k, l \in 1 .. n : Position(D, k) = Position(D, l) => k = l
    BY <1>6
  <1> QED BY <1>6, <1>7, <1>8, <1>9 DEF n

\* As many elements as d have a rank up to d.
LEMMA FirstRanks ==
  ASSUME NEW D, D \subseteq Nat, IsFiniteSet(D), NEW d \in 0 .. Cardinality(D)
  PROVE  LET first == { i \in D : Rank(D, i) <= d }
         IN  IsFiniteSet(first) /\ Cardinality(first) = d
PROOF
  <1> DEFINE first == { i \in D : Rank(D, i) <= d }
             at == [k \in 1 .. d |-> Position(D, k)]
  <1>1. Cardinality(D) \in Nat /\ d \in Nat /\ 1 .. d \subseteq 1 .. Cardinality(D)
    BY FS_CardinalityType
  <1>2. ASSUME NEW k \in 1 .. d PROVE Position(D, k) \in D /\ Rank(D, Position(D, k)) = k
    BY <1>1, PositionOfRank
  <1>3. at \in [1 .. d -> first]
    BY <1>1, <1>2
  <1>4. \A k, l \in 1 .. d : at[k] = at[l] => k = l
    BY <1>1, PositionOfRank
  <1>5. ASSUME NEW i \in first PROVE \E k \in 1 .. d : at[k] = i
    <2>0. i \in D /\ Rank(D, i) <= d
      OBVIOUS
    <2>2. Position(D, Rank(D, i)) = i /\ Rank(D, i) \in 1 .. Cardinality(D)
      BY <2>0, PositionOfRank, RankGrows
    <2>1. Rank(D, i) \in 1 .. d /\ Position(D, Rank(D, i)) = i
      BY <1>1, <2>0, <2>2
    <2> QED BY <2>1
  <1> HIDE DEF first, at
  <1>6. at \in Bijection(1 .. d, first)
    BY <1>3, <1>4, <1>5, Zenon DEF Bijection, Injection, Surjection, IsInjective
  <1>7. ExistsBijection(1 .. d, first)
    BY <1>6 DEF ExistsBijection
  <1>8. Cardinality(first) = d
    BY <1>1, <1>7, FS_CountingElements
  <1>9. IsFiniteSet(first)
    BY FS_Subset DEF first
  <1> QED BY <1>8, <1>9 DEF first

\* The entries that are retained are those at the positions, each once, in
\* their order.
LEMMA RetainedEntries ==
  ASSUME NEW s, NEW D, D \subseteq Nat, IsFiniteSet(D)
  PROVE  /\ Cardinality(D) \in Nat
         /\ DOMAIN Retained(s, D) = 1 .. Cardinality(D)
         /\ \A k \in 1 .. Cardinality(D) :
              Position(D, k) \in D /\ Retained(s, D)[k] = s[Position(D, k)]
         /\ \A i \in D : \E k \in 1 .. Cardinality(D) :
              Position(D, k) = i /\ Retained(s, D)[k] = s[i]
         /\ \A k, l \in 1 .. Cardinality(D) : Position(D, k) = Position(D, l) => k = l
PROOF
  <1>1. Cardinality(D) \in Nat
    BY FS_CardinalityType
  <1>2. DOMAIN Retained(s, D) = 1 .. Cardinality(D)
    BY DEF Retained
  <1>3. \A k \in 1 .. Cardinality(D) :
          Position(D, k) \in D /\ Retained(s, D)[k] = s[Position(D, k)]
    BY PositionOfRank DEF Retained
  <1>4. \A i \in D : \E k \in 1 .. Cardinality(D) : Position(D, k) = i /\ Retained(s, D)[k] = s[i]
    BY <1>3, PositionOfRank, RankGrows
  <1> QED BY <1>1, <1>2, <1>3, <1>4, PositionOfRank

\* What is retained of a sequence over S is one.
LEMMA RetainedTyped ==
  ASSUME NEW s, NEW D, D \subseteq Nat, IsFiniteSet(D), NEW S, \A i \in D : s[i] \in S
  PROVE  Retained(s, D) \in Seq(S) /\ Len(Retained(s, D)) = Cardinality(D)
PROOF
  <1>1. Retained(s, D) \in [1 .. Cardinality(D) -> S] /\ Cardinality(D) \in Nat
    BY RetainedEntries DEF Retained
  <1> QED BY <1>1

=============================================================================
