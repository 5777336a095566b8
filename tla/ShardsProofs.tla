---------------------------- MODULE ShardsProofs ----------------------------
(***************************************************************************)
(* Theorems about what the shards of a collection answer together.  They   *)
(* hold for every value of the constants.                                  *)
(***************************************************************************)
EXTENDS Integers, Sequences, FiniteSets, FunctionTheorems, FiniteSetTheorems, TLAPS

(* Ranks.  In a finite set with a strict order, an element's rank is how     *)
(* many there are before it; every number below the size of the set is the   *)
(* rank of exactly one.                                                      *)

Before(S, L, x) == {y \in S : <<y, x>> \in L}

Orders(L, S) ==
  /\ \A x \in S : <<x, x>> \notin L
  /\ \A x, y, z \in S : <<x, y>> \in L /\ <<y, z>> \in L => <<x, z>> \in L
  /\ \A x, y \in S : x # y => <<x, y>> \in L \/ <<y, x>> \in L

Rank(S, L, x) == Cardinality(Before(S, L, x))

LEMMA RankRange ==
  ASSUME NEW S, IsFiniteSet(S), NEW L, Orders(L, S), NEW x \in S
  PROVE  /\ IsFiniteSet(Before(S, L, x))
         /\ Rank(S, L, x) \in Nat /\ Rank(S, L, x) + 1 \in 1..Cardinality(S)
<1>1. Before(S, L, x) \in SUBSET (S \ {x})
  BY Zenon DEF Before, Orders
<1>2. IsFiniteSet(S \ {x}) /\ Cardinality(S \ {x}) = Cardinality(S) - 1
  BY Zenon, FS_RemoveElement
<1>3. IsFiniteSet(Before(S, L, x)) /\ Rank(S, L, x) <= Cardinality(S) - 1
  BY <1>1, <1>2, FS_Subset DEF Rank
<1>4. Rank(S, L, x) \in Nat /\ Cardinality(S) \in Nat
  BY Zenon, <1>3, FS_CardinalityType DEF Rank
<1> QED BY <1>3, <1>4

\* Ranks are ordered as the elements are.
LEMMA RankOrder ==
  ASSUME NEW S, IsFiniteSet(S), NEW L, Orders(L, S), NEW x \in S, NEW y \in S
  PROVE  <<x, y>> \in L <=> Rank(S, L, x) < Rank(S, L, y)
<1>1. ASSUME NEW a \in S, NEW b \in S, <<a, b>> \in L
      PROVE  Rank(S, L, a) < Rank(S, L, b)
  <2>1. Before(S, L, a) \in SUBSET Before(S, L, b)
    BY Zenon, <1>1 DEF Before, Orders
  <2>2. a \in Before(S, L, b) /\ a \notin Before(S, L, a)
    BY Zenon, <1>1 DEF Before, Orders
  <2>3. /\ IsFiniteSet(Before(S, L, b))
        /\ Rank(S, L, a) \in Nat /\ Rank(S, L, b) \in Nat
    BY Zenon, RankRange
  <2>4. Rank(S, L, a) <= Rank(S, L, b) /\ Rank(S, L, a) # Rank(S, L, b)
    BY Zenon, <2>1, <2>2, <2>3, FS_Subset DEF Rank
  <2> QED BY <2>3, <2>4
<1>2. Rank(S, L, x) \in Nat /\ Rank(S, L, y) \in Nat
  BY Zenon, RankRange
<1>3. <<x, y>> \notin L => x = y \/ <<y, x>> \in L
  BY Zenon DEF Orders
<1> QED BY <1>1, <1>2, <1>3

LEMMA RankTaken ==
  ASSUME NEW S, IsFiniteSet(S), NEW L, Orders(L, S), NEW i \in 1..Cardinality(S)
  PROVE  \E x \in S : Rank(S, L, x) = i - 1
<1> DEFINE n == Cardinality(S)
           f == [x \in S |-> Rank(S, L, x) + 1]
<1>1. n \in Nat
  BY Zenon, FS_CardinalityType
<1>2. f \in [S -> 1..n]
  BY Zenon, RankRange
<1>3. ASSUME NEW x \in S, NEW y \in S, f[x] = f[y] PROVE x = y
  <2>1. Rank(S, L, x) \in Nat /\ Rank(S, L, y) \in Nat
    BY Zenon, RankRange
  <2>2. Rank(S, L, x) = Rank(S, L, y)
    BY <1>3, <2>1
  <2>3. <<x, y>> \notin L /\ <<y, x>> \notin L
    BY <2>1, <2>2, RankOrder
  <2> QED BY Zenon, <2>3 DEF Orders
<1>4. IsFiniteSet(1..n) /\ Cardinality(1..n) = n
  BY <1>1, FS_Interval
<1>5. f \in Injection(S, 1..n)
  BY Zenon, <1>2, <1>3 DEF Injection, IsInjective
<1>6. f \in Surjection(S, 1..n)
  BY Zenon, <1>4, <1>5, FS_Injection
<1>7. PICK x \in S : f[x] = i
  BY Zenon, <1>6 DEF Surjection
<1>8. Rank(S, L, x) \in Nat /\ i \in Nat
  BY RankRange, <1>1
<1> QED BY <1>7, <1>8

\* The first n elements.
First(S, L, n) == {x \in S : Rank(S, L, x) < n}

LEMMA FirstBefore ==
  ASSUME NEW S, IsFiniteSet(S), NEW L, Orders(L, S), NEW n \in Nat, n <= Cardinality(S)
  PROVE  IsFiniteSet(First(S, L, n)) /\ Cardinality(First(S, L, n)) = n
<1> DEFINE F == First(S, L, n)
           g == [x \in F |-> Rank(S, L, x) + 1]
<1>0. Cardinality(S) \in Nat
  BY Zenon, FS_CardinalityType
<1>1. F \in SUBSET S
  BY Zenon DEF First
<1>2. IsFiniteSet(F)
  BY Zenon, <1>1, FS_Subset
<1>3. \A x \in F : Rank(S, L, x) \in Nat /\ Rank(S, L, x) < n
  BY Zenon, <1>1, RankRange DEF First
<1>4. g \in [F -> 1..n]
  BY <1>3
<1>5. ASSUME NEW x \in F, NEW y \in F, g[x] = g[y] PROVE x = y
  <2>1. Rank(S, L, x) = Rank(S, L, y)
    BY <1>3, <1>5
  <2>2. <<x, y>> \notin L /\ <<y, x>> \notin L
    BY <1>1, <1>3, <2>1, RankOrder
  <2> QED BY Zenon, <1>1, <2>2 DEF Orders
<1>6. ASSUME NEW i \in 1..n PROVE \E x \in F : g[x] = i
  <2>1. i \in 1..Cardinality(S)
    BY <1>0
  <2>2. PICK x \in S : Rank(S, L, x) = i - 1
    BY Zenon, <2>1, RankTaken
  <2>3. x \in F
    BY <2>2 DEF First
  <2> QED BY <2>2, <2>3
<1>7. g \in Bijection(F, 1..n)
  <2>1. g \in Injection(F, 1..n)
    BY Zenon, <1>4, <1>5 DEF Injection, IsInjective
  <2>2. g \in Surjection(F, 1..n)
    BY Zenon, <1>4, <1>6 DEF Surjection
  <2> QED BY Zenon, <2>1, <2>2 DEF Bijection
<1>8. Cardinality(1..n) = n
  BY FS_Interval
<1>9. Cardinality(1..n) = Cardinality(F)
  <2>1. ExistsBijection(F, 1..n)
    BY Zenon, <1>7 DEF ExistsBijection
  <2> QED BY Zenon, <1>2, <2>1, FS_Bijection
<1> QED BY Zenon, <1>2, <1>8, <1>9

-----------------------------------------------------------------------------
(* The shards of a collection.  A point that is there all along is found by  *)
(* its shard or crowded out by k nearer ones, and the nearer ones that crowd *)
(* it out are then among the candidates: so whatever order the shards answer *)
(* in, and whatever is written in between, merging loses nothing.            *)

CONSTANTS Ids, Hash, Distance, ShardCount, Callers, k, MaxDeletes, None

VARIABLES state, index, recover, saving, waiting, candidates, answer, steady, seen

Shd == INSTANCE Shards

LEMMA ShardCardinality == \A S : Shd!Cardinality(S) = Cardinality(S)
  BY Zenon DEF Shd!Cardinality, Cardinality

LEMMA ShardFinite == \A S : Shd!IsFiniteSet(S) <=> IsFiniteSet(S)
  BY Zenon DEF Shd!IsFiniteSet, IsFiniteSet

Nearer == {p \in Ids \X Ids : Distance[p[1]] < Distance[p[2]]}

\* Candidates nearer to the query than a point.
Closer(S, id) == {j \in S : Distance[j] < Distance[id]}

LEMMA DistancesOrder ==
  ASSUME Shd!ConstantsOK, NEW S \in SUBSET Ids
  PROVE  /\ IsFiniteSet(S) /\ Orders(Nearer, S)
         /\ \A id \in S : Before(S, Nearer, id) = Closer(S, id)
         /\ \A id \in S : Rank(S, Nearer, id) = Cardinality(Closer(S, id))
         /\ Shd!Nearest(S) = First(S, Nearer, k)
<1>1. IsFiniteSet(S)
  BY Zenon, ShardFinite, FS_Subset DEF Shd!ConstantsOK
<1>2. \A x, y \in S : <<x, y>> \in Nearer <=> Distance[x] < Distance[y]
  BY Zenon DEF Nearer
<1>3. \A x \in S : Distance[x] \in Int
  BY Zenon DEF Shd!ConstantsOK
<1>4. \A x, y \in S : x # y => Distance[x] # Distance[y]
  BY Zenon DEF Shd!ConstantsOK
<1>5. Orders(Nearer, S)
  BY <1>2, <1>3, <1>4 DEF Orders
<1>6. \A id \in S : Before(S, Nearer, id) = Closer(S, id)
  BY Zenon, <1>2 DEF Before, Closer
<1>7. \A id \in S : Rank(S, Nearer, id) = Cardinality(Closer(S, id))
  BY Zenon, <1>6 DEF Rank
<1>8. \A id \in S : Shd!Cardinality({j \in S : Distance[j] < Distance[id]}) = Rank(S, Nearer, id)
  BY Zenon, <1>7, ShardCardinality DEF Closer
<1>9. Shd!Nearest(S) = {id \in S : Rank(S, Nearer, id) < k}
  BY Zenon, <1>8 DEF Shd!Nearest
<1> QED BY Zenon, <1>1, <1>5, <1>6, <1>7, <1>9 DEF First

\* A point is among the candidates, or k nearer ones are.
Accounted(S, id) == id \in S \/ Cardinality(Closer(S, id)) >= k

\* What a shard answers accounts for each of its points.
LEMMA NearestAccounts ==
  ASSUME Shd!ConstantsOK, NEW S \in SUBSET Ids, NEW id \in S
  PROVE  Accounted(Shd!Nearest(S), id)
<1>0. k \in Nat
  BY Zenon DEF Shd!ConstantsOK
<1>1. /\ IsFiniteSet(S) /\ Orders(Nearer, S)
      /\ Shd!Nearest(S) = First(S, Nearer, k)
  BY Zenon, DistancesOrder
<1>2. Cardinality(S) \in Nat /\ Rank(S, Nearer, id) \in Nat
      /\ Rank(S, Nearer, id) + 1 \in 1..Cardinality(S)
  BY Zenon, <1>1, RankRange, FS_CardinalityType
<1>3. CASE Rank(S, Nearer, id) < k
  BY Zenon, <1>1, <1>3 DEF First, Accounted
<1>4. CASE k <= Rank(S, Nearer, id)
  <2>1. Cardinality(First(S, Nearer, k)) = k
    BY <1>0, <1>1, <1>2, <1>4, FirstBefore
  <2>2. ASSUME NEW x \in First(S, Nearer, k) PROVE Distance[x] < Distance[id]
    <3>1. x \in S /\ Rank(S, Nearer, x) < k
      BY Zenon, <2>2 DEF First
    <3>2. Rank(S, Nearer, x) \in Nat
      BY Zenon, <1>1, <3>1, RankRange
    <3>3. Rank(S, Nearer, x) < Rank(S, Nearer, id)
      BY SMTT(30), <1>0, <1>2, <1>4, <3>1, <3>2
    <3>4. <<x, id>> \in Nearer
      BY Zenon, <1>1, <3>1, <3>3, RankOrder
    <3> QED BY Zenon, <3>4 DEF Nearer
  <2>3. Closer(First(S, Nearer, k), id) = First(S, Nearer, k)
    BY Zenon, <2>2 DEF Closer
  <2>4. Cardinality(Closer(Shd!Nearest(S), id)) = k
    BY Zenon, <1>1, <2>1, <2>3
  <2> QED BY <1>0, <2>4 DEF Accounted
<1> QED BY <1>0, <1>2, <1>3, <1>4

LEMMA AccountedGrows ==
  ASSUME Shd!ConstantsOK, NEW T \in SUBSET Ids, NEW S \in SUBSET T, NEW id \in Ids,
         Accounted(S, id)
  PROVE  Accounted(T, id)
<1>1. CASE id \in S
  BY Zenon, <1>1 DEF Accounted
<1>2. CASE Cardinality(Closer(S, id)) >= k
  <2>1. IsFiniteSet(T)
    BY Zenon, DistancesOrder
  <2>2. Closer(T, id) \in SUBSET T /\ Closer(S, id) \in SUBSET Closer(T, id)
    BY Zenon DEF Closer
  <2>3. IsFiniteSet(Closer(T, id)) /\ IsFiniteSet(Closer(S, id))
        /\ Cardinality(Closer(S, id)) <= Cardinality(Closer(T, id))
    BY Zenon, <2>1, <2>2, FS_Subset
  <2>4. /\ Cardinality(Closer(S, id)) \in Nat /\ Cardinality(Closer(T, id)) \in Nat
        /\ k \in Nat
    BY Zenon, <2>3, FS_CardinalityType DEF Shd!ConstantsOK
  <2> QED BY <1>2, <2>3, <2>4 DEF Accounted
<1> QED BY Zenon, <1>1, <1>2 DEF Accounted

\* sortCandidates puts every candidate at its rank.
LEMMA CandidatesSorted ==
  ASSUME Shd!ConstantsOK, NEW S \in SUBSET Ids
  PROVE  /\ Cardinality(S) \in Nat
         /\ Shd!sortCandidates(S) \in [1..Cardinality(S) -> S]
         /\ \A i \in 1..Cardinality(S) :
              Cardinality(Closer(S, Shd!sortCandidates(S)[i])) = i - 1
<1> DEFINE n == Cardinality(S)
           At(i) == CHOOSE id \in S : Shd!Cardinality(Closer(S, id)) = i - 1
<1>1. IsFiniteSet(S) /\ Orders(Nearer, S)
      /\ \A id \in S : Rank(S, Nearer, id) = Cardinality(Closer(S, id))
  BY Zenon, DistancesOrder
<1>2. n \in Nat
  BY Zenon, <1>1, FS_CardinalityType
<1>3. ASSUME NEW i \in 1..n PROVE At(i) \in S /\ Cardinality(Closer(S, At(i))) = i - 1
  <2>1. PICK id \in S : Rank(S, Nearer, id) = i - 1
    BY Zenon, <1>1, RankTaken
  <2>2. Shd!Cardinality(Closer(S, id)) = i - 1
    BY Zenon, <1>1, <2>1, ShardCardinality
  <2>3. At(i) \in S /\ Shd!Cardinality(Closer(S, At(i))) = i - 1
    BY Zenon, <2>2
  <2> QED BY Zenon, <2>3, ShardCardinality
<1>4. Shd!sortCandidates(S) = [i \in 1..n |-> At(i)]
  BY Zenon, ShardCardinality DEF Shd!sortCandidates, Closer
<1> HIDE DEF At
<1> QED BY Zenon, <1>2, <1>3, <1>4

\* What Search returns of the candidates.
Merged(S) == LET sorted == Shd!sortCandidates(S)
             IN  IF Len(sorted) > k THEN SubSeq(sorted, 1, k) ELSE sorted

\* What may be said of an answer: it is in order, no longer than k, and whatever
\* is accounted for and not in it is further away than all of it.
Ordered(a) == \A i, j \in DOMAIN a : i < j => Distance[a[i]] < Distance[a[j]]

Omits(a, id) ==
  \/ id \in {a[i] : i \in DOMAIN a}
  \/ Len(a) = k /\ \A i \in DOMAIN a : Distance[a[i]] < Distance[id]

LEMMA MergedSorted ==
  ASSUME Shd!ConstantsOK, NEW S \in SUBSET Ids
  PROVE  /\ Len(Merged(S)) = IF Cardinality(S) > k THEN k ELSE Cardinality(S)
         /\ DOMAIN Merged(S) = 1..Len(Merged(S))
         /\ \A i \in DOMAIN Merged(S) :
              /\ Merged(S)[i] \in S
              /\ Cardinality(Closer(S, Merged(S)[i])) = i - 1
<1> DEFINE n == Cardinality(S)
           t == Shd!sortCandidates(S)
<1>1. /\ n \in Nat /\ t \in [1..n -> S]
      /\ \A i \in 1..n : Cardinality(Closer(S, t[i])) = i - 1
  BY Zenon, CandidatesSorted
<1>2. k \in Nat
  BY Zenon DEF Shd!ConstantsOK
<1>3. Merged(S) = IF Len(t) > k THEN SubSeq(t, 1, k) ELSE t
  BY Zenon DEF Merged
<1> HIDE DEF n, t
<1>4. t \in Seq(S) /\ Len(t) = n
  BY <1>1
<1>5. CASE n > k
  <2>1. Merged(S) = SubSeq(t, 1, k)
    BY Zenon, <1>3, <1>4, <1>5
  <2>2. Len(SubSeq(t, 1, k)) = k /\ DOMAIN SubSeq(t, 1, k) = 1..k
        /\ \A i \in 1..k : SubSeq(t, 1, k)[i] = t[i]
    BY <1>1, <1>2, <1>4, <1>5
  <2>3. \A i \in 1..k : i \in 1..n
    BY <1>1, <1>2, <1>5
  <2> QED BY Zenon, <1>1, <1>5, <2>1, <2>2, <2>3 DEF n
<1>6. CASE ~(n > k)
  <2>1. Merged(S) = t /\ DOMAIN t = 1..n
    BY Zenon, <1>1, <1>3, <1>4, <1>6
  <2> QED BY Zenon, <1>1, <1>4, <1>6, <2>1 DEF n
<1> QED BY Zenon, <1>5, <1>6

\* The fewer are closer, the closer a point is.
LEMMA FewerCloser ==
  ASSUME Shd!ConstantsOK, NEW S \in SUBSET Ids, NEW x \in Ids, NEW y \in Ids,
         Cardinality(Closer(S, x)) < Cardinality(Closer(S, y))
  PROVE  Distance[x] < Distance[y]
<1>1. \A z \in Ids : Distance[z] \in Int
  BY Zenon DEF Shd!ConstantsOK
<1>2. ASSUME ~(Distance[x] < Distance[y]) PROVE FALSE
  <2>1. Closer(S, y) \in SUBSET Closer(S, x) /\ Closer(S, x) \in SUBSET S
    BY <1>1, <1>2 DEF Closer
  <2>2. IsFiniteSet(S)
    BY Zenon, DistancesOrder
  <2>3. IsFiniteSet(Closer(S, x)) /\ IsFiniteSet(Closer(S, y))
        /\ Cardinality(Closer(S, y)) <= Cardinality(Closer(S, x))
    BY Zenon, <2>1, <2>2, FS_Subset
  <2>4. Cardinality(Closer(S, x)) \in Nat /\ Cardinality(Closer(S, y)) \in Nat
    BY Zenon, <2>3, FS_CardinalityType
  <2> QED BY <2>3, <2>4
<1> QED BY Zenon, <1>2

LEMMA MergedOrdered ==
  ASSUME Shd!ConstantsOK, NEW S \in SUBSET Ids
  PROVE  Ordered(Merged(S))
<1> SUFFICES ASSUME NEW i \in DOMAIN Merged(S), NEW j \in DOMAIN Merged(S), i < j
             PROVE  Distance[Merged(S)[i]] < Distance[Merged(S)[j]]
  BY Zenon DEF Ordered
<1>1. i \in Int /\ j \in Int
  BY MergedSorted
<1>2. /\ Merged(S)[i] \in Ids /\ Merged(S)[j] \in Ids
      /\ Cardinality(Closer(S, Merged(S)[i])) < Cardinality(Closer(S, Merged(S)[j]))
  BY <1>1, MergedSorted
<1> QED BY Zenon, <1>2, FewerCloser

LEMMA MergedOmits ==
  ASSUME Shd!ConstantsOK, NEW S \in SUBSET Ids, NEW id \in Ids, Accounted(S, id)
  PROVE  Omits(Merged(S), id)
<1> DEFINE n == Cardinality(S)
           r == Cardinality(Closer(S, id))
<1>0. k \in Nat /\ n \in Nat
  BY Zenon, CandidatesSorted DEF Shd!ConstantsOK
<1>1. r \in Nat /\ r <= n
  <2>1. Closer(S, id) \in SUBSET S /\ IsFiniteSet(S)
    BY Zenon, DistancesOrder DEF Closer
  <2> QED BY Zenon, <2>1, FS_Subset, FS_CardinalityType
<1>2. CASE r >= k
  <2>1. Len(Merged(S)) = k /\ DOMAIN Merged(S) = 1..k
    BY SMTT(30), <1>0, <1>1, <1>2, MergedSorted
  <2>2. ASSUME NEW i \in 1..k PROVE Distance[Merged(S)[i]] < Distance[id]
    <3>1. Merged(S)[i] \in Ids /\ Cardinality(Closer(S, Merged(S)[i])) = i - 1
      BY Zenon, <2>1, MergedSorted
    <3>2. Cardinality(Closer(S, Merged(S)[i])) < Cardinality(Closer(S, id))
      BY SMTT(30), <1>0, <1>1, <1>2, <3>1
    <3> QED BY Zenon, <3>1, <3>2, FewerCloser
  <2> QED BY Zenon, <2>1, <2>2 DEF Omits
<1>3. CASE r < k
  <2>1. id \in S
    BY <1>0, <1>1, <1>3 DEF Accounted
  <2>2. /\ IsFiniteSet(S) /\ Orders(Nearer, S) /\ Rank(S, Nearer, id) = r
    BY Zenon, <2>1, DistancesOrder
  <2>3. r + 1 \in 1..n
    BY Zenon, <2>1, <2>2, RankRange
  <2>4. r + 1 \in DOMAIN Merged(S)
    BY SMTT(30), <1>0, <1>1, <1>3, <2>3, MergedSorted
  <2> DEFINE x == Merged(S)[r + 1]
  <2>5. x \in S /\ Cardinality(Closer(S, x)) = r
    BY <1>1, <2>4, MergedSorted
  <2>6. Rank(S, Nearer, x) = Rank(S, Nearer, id)
    BY Zenon, <2>2, <2>5, DistancesOrder
  <2>7. <<x, id>> \notin Nearer /\ <<id, x>> \notin Nearer
    BY SMTT(30), <1>1, <2>1, <2>2, <2>5, <2>6, RankOrder
  <2>8. x = id
    BY Zenon, <2>1, <2>2, <2>5, <2>7 DEF Orders
  <2>9. id \in {Merged(S)[i] : i \in DOMAIN Merged(S)}
    BY Zenon, <2>4, <2>8
  <2> QED BY Zenon, <2>9 DEF Omits
<1> QED BY <1>0, <1>1, <1>2, <1>3

\* The inductive invariant of the shards.  A steady point is live in its shard,
\* which is not dead, and if the shard has answered the candidates account for it.
Waited(id) ==
  /\ id \in Shd!Live(Shd!computeShardID(id))
  /\ state[Shd!computeShardID(id)] # "dead"
  /\ Shd!computeShardID(id) \notin waiting => Accounted(candidates, id)

Node == [id : Ids, deleted : BOOLEAN]

Recovery == [pc : {"idle", "locking", "streaming", "done"}, shard : Shd!ShardIds \cup {None}]

ShardTypes ==
  /\ Shd!TypeOK
  /\ index \in [Shd!ShardIds -> Seq(Node)]
  /\ recover \in [Callers -> Recovery]
  /\ \A c \in Callers : recover[c].pc # "idle" => recover[c].shard \in Shd!ShardIds
  /\ candidates \subseteq seen /\ seen \subseteq Ids /\ steady \subseteq Ids

Searching ==
  /\ answer = None /\ waiting \subseteq Shd!ShardIds
  /\ \A s \in Shd!ShardIds : Shd!Live(s) \subseteq seen
  /\ \A id \in steady : Waited(id)

ShardInv == /\ ShardTypes
            /\ waiting = None => candidates = {}
            /\ waiting # None => Searching
            /\ Shd!ShardsSearch

LEMMA ShardOf ==
  ASSUME Shd!ConstantsOK, NEW id \in Ids
  PROVE  Shd!computeShardID(id) \in Shd!ShardIds
<1>1. Shd!shardCount \in Nat \ {0}
  BY DEF Shd!ConstantsOK, Shd!shardCount
<1>2. Hash[id] \in Nat
  BY Zenon DEF Shd!ConstantsOK
<1>3. Hash[id] % Shd!shardCount \in 0..(Shd!shardCount - 1)
  BY <1>1, <1>2
<1> QED BY Zenon, <1>3 DEF Shd!computeShardID, Shd!ShardIds

LEMMA LiveIds ==
  ASSUME ShardTypes, NEW s \in Shd!ShardIds
  PROVE  Shd!Live(s) \subseteq Ids /\ Shd!Nodes(s) \subseteq Node
         /\ \A id \in Shd!Live(s) : Shd!computeShardID(id) = s
<1>1. index[s] \in Seq(Node)
  BY Zenon DEF ShardTypes
<1>2. Shd!Nodes(s) \subseteq Node
  BY <1>1 DEF Shd!Nodes
<1>3. \A n \in Shd!Nodes(s) : n.id \in Ids /\ Shd!computeShardID(n.id) = s
  BY Zenon DEF ShardTypes, Shd!TypeOK
<1> QED BY Zenon, <1>2, <1>3 DEF Shd!Live

LEMMA ShardInit == Shd!ConstantsOK /\ Shd!NewShardManager => ShardInv
<1> SUFFICES ASSUME Shd!ConstantsOK, Shd!NewShardManager PROVE ShardInv
  BY Zenon
<1>1. \A s \in Shd!ShardIds : Shd!Nodes(s) = {}
  BY DEF Shd!NewShardManager, Shd!Nodes
<1>2. Shd!TypeOK
  BY Zenon, <1>1 DEF Shd!NewShardManager, Shd!TypeOK
<1>3. ShardTypes
  BY <1>2 DEF Shd!NewShardManager, ShardTypes, Recovery
<1> QED BY Zenon, <1>3 DEF Shd!NewShardManager, ShardInv, Shd!ShardsSearch

Elements(q) == {q[i] : i \in DOMAIN q}

LEMMA AppendedRange ==
  ASSUME NEW S, NEW q \in Seq(S), NEW x \in S
  PROVE  Elements(Append(q, x)) = Elements(q) \cup {x}
<1>1. /\ DOMAIN q = 1..Len(q) /\ DOMAIN Append(q, x) = 1..(Len(q) + 1) /\ Len(q) \in Nat
      /\ \A i \in 1..Len(q) : Append(q, x)[i] = q[i]
      /\ Append(q, x)[Len(q) + 1] = x
  OBVIOUS
<1>2. \A i \in 1..(Len(q) + 1) : i \in 1..Len(q) \/ i = Len(q) + 1
  BY <1>1
<1>3. \A i \in 1..Len(q) : i \in 1..(Len(q) + 1)
  BY <1>1
<1>4. Len(q) + 1 \in 1..(Len(q) + 1)
  BY <1>1
<1> QED BY Zenon, <1>1, <1>2, <1>3, <1>4 DEF Elements

\* What an Insert and a Delete do to the live points.
LEMMA InsertLive ==
  ASSUME Shd!ConstantsOK, ShardTypes, NEW id \in Ids, Shd!Insert(id)
  PROVE  /\ index' \in [Shd!ShardIds -> Seq(Node)]
         /\ \A s \in Shd!ShardIds : \A n \in Shd!Nodes(s)' :
              n.id \in Ids /\ Shd!computeShardID(n.id) = s
         /\ \A s \in Shd!ShardIds : Shd!Live(s) \subseteq Shd!Live(s)'
                                    /\ Shd!Live(s)' \subseteq Shd!Live(s) \cup {id}
<1> DEFINE t == Shd!computeShardID(id)
           new == [id |-> id, deleted |-> FALSE]
<1>1. t \in Shd!ShardIds
  BY Zenon, ShardOf
<1>2. index' = [index EXCEPT ![t] = Append(@, new)]
  BY Zenon DEF Shd!Insert
<1>3. index \in [Shd!ShardIds -> Seq(Node)] /\ new \in Node
  BY Zenon DEF ShardTypes, Node
<1> HIDE DEF t, new
<1>4. index' \in [Shd!ShardIds -> Seq(Node)]
  BY <1>1, <1>2, <1>3
<1>5. ASSUME NEW s \in Shd!ShardIds
      PROVE  Shd!Nodes(s)' = IF s = t THEN Shd!Nodes(s) \cup {new} ELSE Shd!Nodes(s)
  <2>1. CASE s = t
    <3> DEFINE q == index[t]
    <3>1. q \in Seq(Node) /\ index'[t] = Append(q, new)
      BY Zenon, <1>1, <1>2, <1>3
    <3> HIDE DEF q
    <3>2. Elements(Append(q, new)) = Elements(q) \cup {new}
      BY <1>3, <3>1, AppendedRange
    <3> QED BY SMTT(30), <2>1, <3>1, <3>2 DEF Shd!Nodes, Elements, q
  <2>2. CASE s # t
    BY Zenon, <1>2, <1>3, <2>2 DEF Shd!Nodes
  <2> QED BY Zenon, <2>1, <2>2
<1>6. new.id = id /\ new.deleted = FALSE
  BY Zenon DEF new
<1>7. \A s \in Shd!ShardIds : \A n \in Shd!Nodes(s)' :
        n.id \in Ids /\ Shd!computeShardID(n.id) = s
  BY ZenonT(30), <1>5, <1>6 DEF ShardTypes, Shd!TypeOK, t
<1>8. \A s \in Shd!ShardIds : Shd!Live(s) \subseteq Shd!Live(s)'
                              /\ Shd!Live(s)' \subseteq Shd!Live(s) \cup {id}
  BY Zenon, <1>5, <1>6 DEF Shd!Live
<1> QED BY Zenon, <1>4, <1>7, <1>8

LEMMA DeleteLive ==
  ASSUME Shd!ConstantsOK, ShardTypes, NEW id \in Ids, Shd!Delete(id)
  PROVE  /\ index' \in [Shd!ShardIds -> Seq(Node)]
         /\ \A s \in Shd!ShardIds : \A n \in Shd!Nodes(s)' :
              n.id \in Ids /\ Shd!computeShardID(n.id) = s
         /\ \A s \in Shd!ShardIds : Shd!Live(s)' = Shd!Live(s) \ {id}
<1> DEFINE t == Shd!computeShardID(id)
           Mark(n) == [n EXCEPT !.deleted = @ \/ n.id = id]
<1>1. t \in Shd!ShardIds
  BY Zenon, ShardOf
<1>2. index' = [index EXCEPT ![t] = [i \in DOMAIN index[t] |-> Mark(index[t][i])]]
  BY Zenon DEF Shd!Delete
<1>3. index \in [Shd!ShardIds -> Seq(Node)]
  BY Zenon DEF ShardTypes
<1>4. \A n \in Node : Mark(n) \in Node /\ Mark(n).id = n.id
                      /\ (Mark(n).deleted <=> n.deleted \/ n.id = id)
  BY Zenon DEF Node
<1> HIDE DEF t, Mark
<1>5. index'[t] = [i \in DOMAIN index[t] |-> Mark(index[t][i])]
      /\ index[t] \in Seq(Node) /\ \A s \in Shd!ShardIds \ {t} : index'[s] = index[s]
  BY Zenon, <1>1, <1>2, <1>3
<1>6. index'[t] \in Seq(Node)
  BY <1>4, <1>5
<1>7. index' \in [Shd!ShardIds -> Seq(Node)]
  BY ZenonT(30), <1>1, <1>2, <1>3, <1>5, <1>6
<1>8. /\ Shd!Nodes(t)' = {Mark(n) : n \in Shd!Nodes(t)}
      /\ \A s \in Shd!ShardIds \ {t} : Shd!Nodes(s)' = Shd!Nodes(s)
  BY <1>5 DEF Shd!Nodes
<1>9. Shd!Nodes(t) \subseteq Node
  BY Zenon, <1>1, LiveIds
<1>10. \A s \in Shd!ShardIds : \A n \in Shd!Nodes(s)' :
         n.id \in Ids /\ Shd!computeShardID(n.id) = s
  BY SMTT(30), <1>4, <1>8, <1>9 DEF ShardTypes, Shd!TypeOK
<1>11. Shd!Live(t)' = Shd!Live(t) \ {id}
  BY <1>4, <1>8, <1>9 DEF Shd!Live
<1>12. ASSUME NEW s \in Shd!ShardIds \ {t} PROVE Shd!Live(s)' = Shd!Live(s) \ {id}
  <2>1. id \notin Shd!Live(s)
    BY Zenon, LiveIds DEF t
  <2> QED BY Zenon, <1>8, <2>1 DEF Shd!Live
<1> QED BY Zenon, <1>7, <1>10, <1>11, <1>12

-----------------------------------------------------------------------------
(* One step after the other.                                                 *)

LEMMA ShardInsert ==
  ASSUME Shd!ConstantsOK, ShardInv, NEW id \in Ids, Shd!Insert(id)
  PROVE  ShardInv'
<1>1. ShardTypes /\ answer = None /\ answer' = None
      /\ UNCHANGED <<state, recover, saving, waiting, candidates, steady>>
  BY Zenon DEF ShardInv, Shd!Insert, Shd!Begins
<1>2. /\ index' \in [Shd!ShardIds -> Seq(Node)]
      /\ \A s \in Shd!ShardIds : \A n \in Shd!Nodes(s)' :
           n.id \in Ids /\ Shd!computeShardID(n.id) = s
      /\ \A s \in Shd!ShardIds : Shd!Live(s) \subseteq Shd!Live(s)'
                                 /\ Shd!Live(s)' \subseteq Shd!Live(s) \cup {id}
  BY Zenon, <1>1, InsertLive
<1>3. seen' = IF waiting = None THEN seen ELSE seen \cup {id}
  BY Zenon DEF Shd!Insert
<1>4. ShardTypes'
  BY Zenon, <1>1, <1>2, <1>3 DEF ShardTypes, Shd!TypeOK
<1>5. ASSUME waiting # None PROVE Searching'
  <2>1. Searching
    BY Zenon, <1>5 DEF ShardInv
  <2>2. ASSUME NEW s \in Shd!ShardIds PROVE Shd!Live(s)' \subseteq seen'
    BY Zenon, <1>2, <1>3, <1>5, <2>1 DEF Searching
  <2>3. ASSUME NEW x \in steady PROVE Waited(x)'
    <3>1. Waited(x) /\ Shd!computeShardID(x) \in Shd!ShardIds
      BY Zenon, <1>1, <2>1, ShardOf DEF Searching, ShardTypes
    <3>2. x \in Shd!Live(Shd!computeShardID(x))'
      BY Zenon, <1>2, <3>1 DEF Waited
    <3> QED BY Zenon, <1>1, <3>1, <3>2 DEF Waited
  <2> QED BY Zenon, <1>1, <2>1, <2>2, <2>3 DEF Searching
<1> QED BY Zenon, <1>1, <1>4, <1>5 DEF ShardInv, Shd!ShardsSearch

LEMMA ShardDelete ==
  ASSUME Shd!ConstantsOK, ShardInv, NEW id \in Ids, Shd!Delete(id)
  PROVE  ShardInv'
<1>1. ShardTypes /\ answer = None /\ answer' = None /\ steady' = steady \ {id}
      /\ UNCHANGED <<state, recover, saving, waiting, candidates, seen>>
  BY Zenon DEF ShardInv, Shd!Delete, Shd!Begins
<1>2. /\ index' \in [Shd!ShardIds -> Seq(Node)]
      /\ \A s \in Shd!ShardIds : \A n \in Shd!Nodes(s)' :
           n.id \in Ids /\ Shd!computeShardID(n.id) = s
      /\ \A s \in Shd!ShardIds : Shd!Live(s)' = Shd!Live(s) \ {id}
  BY Zenon, <1>1, DeleteLive
<1>3. ShardTypes'
  BY Zenon, <1>1, <1>2 DEF ShardTypes, Shd!TypeOK
<1>4. ASSUME waiting # None PROVE Searching'
  <2>1. Searching
    BY Zenon, <1>4 DEF ShardInv
  <2>2. ASSUME NEW s \in Shd!ShardIds PROVE Shd!Live(s)' \subseteq seen'
    BY Zenon, <1>1, <1>2, <2>1 DEF Searching
  <2>3. ASSUME NEW x \in steady' PROVE Waited(x)'
    <3>1. Waited(x) /\ Shd!computeShardID(x) \in Shd!ShardIds /\ x # id
      BY Zenon, <1>1, <2>1, ShardOf DEF Searching, ShardTypes
    <3>2. x \in Shd!Live(Shd!computeShardID(x))'
      BY Zenon, <1>2, <3>1 DEF Waited
    <3> QED BY Zenon, <1>1, <3>1, <3>2 DEF Waited
  <2> QED BY Zenon, <1>1, <2>1, <2>2, <2>3 DEF Searching
<1> QED BY Zenon, <1>1, <1>3, <1>4 DEF ShardInv, Shd!ShardsSearch

\* The index stays as it is.
LEMMA SameLive ==
  ASSUME UNCHANGED index PROVE \A s : Shd!Live(s)' = Shd!Live(s) /\ Shd!Nodes(s)' = Shd!Nodes(s)
  BY Zenon DEF Shd!Live, Shd!Nodes

LEMMA ShardSearch ==
  ASSUME Shd!ConstantsOK, ShardInv, Shd!Search
  PROVE  ShardInv'
<1>1. /\ ShardTypes /\ answer = None /\ waiting = None /\ candidates = {}
      /\ waiting' = Shd!ShardIds
      /\ seen' = UNION {Shd!Live(s) : s \in Shd!ShardIds}
      /\ steady' = UNION {Shd!Live(s) : s \in {t \in Shd!ShardIds : state[t] # "dead"}}
      /\ UNCHANGED <<state, index, recover, saving, candidates, answer>>
  BY Zenon DEF ShardInv, Shd!Search, Shd!Begins
<1>2. \A s : Shd!Live(s)' = Shd!Live(s) /\ Shd!Nodes(s)' = Shd!Nodes(s)
  BY Zenon, <1>1, SameLive
<1>3. \A s \in Shd!ShardIds : Shd!Live(s) \subseteq Ids
      /\ \A id \in Shd!Live(s) : Shd!computeShardID(id) = s
  BY Zenon, <1>1, LiveIds
<1>4. seen' \subseteq Ids /\ steady' \subseteq Ids
  BY ZenonT(30), <1>1, <1>3
<1>5. ShardTypes'
  BY Zenon, <1>1, <1>2, <1>4 DEF ShardTypes, Shd!TypeOK
<1>6. ASSUME NEW x \in steady' PROVE Waited(x)'
  <2>1. PICK s \in Shd!ShardIds : state[s] # "dead" /\ x \in Shd!Live(s)
    BY Zenon, <1>1
  <2>2. Shd!computeShardID(x) = s
    BY Zenon, <1>3, <2>1
  <2> QED BY Zenon, <1>1, <1>2, <2>1, <2>2 DEF Waited
<1>7. Searching'
  BY Zenon, <1>1, <1>2, <1>6 DEF Searching
<1> QED BY Zenon, <1>1, <1>5, <1>7 DEF ShardInv, Shd!ShardsSearch

LEMMA ShardSearchShard ==
  ASSUME Shd!ConstantsOK, ShardInv, NEW s \in Shd!ShardIds, Shd!SearchShard(s)
  PROVE  ShardInv'
<1> DEFINE more == IF state[s] \in {"active", "recovering"} THEN Shd!Nearest(Shd!Live(s)) ELSE {}
<1>1. /\ ShardTypes /\ Searching /\ s \in waiting
      /\ waiting' = waiting \ {s} /\ candidates' = candidates \cup more
      /\ UNCHANGED <<state, index, recover, saving, answer, steady, seen>>
  BY Zenon DEF ShardInv, Shd!SearchShard
<1>2. \A t : Shd!Live(t)' = Shd!Live(t) /\ Shd!Nodes(t)' = Shd!Nodes(t)
  BY Zenon, <1>1, SameLive
<1>3. waiting' # None
  BY Zenon, <1>1 DEF Searching, Shd!ConstantsOK
<1>4. Shd!Live(s) \subseteq seen /\ Shd!Live(s) \in SUBSET Ids
  BY Zenon, <1>1, LiveIds DEF Searching
<1>5. more \subseteq Shd!Live(s)
  BY Zenon DEF Shd!Nearest
<1>6. candidates' \subseteq seen /\ candidates' \in SUBSET Ids
  BY Zenon, <1>1, <1>4, <1>5 DEF ShardTypes
<1>7. ShardTypes'
  BY Zenon, <1>1, <1>2, <1>6 DEF ShardTypes, Shd!TypeOK
<1>8. ASSUME NEW x \in steady PROVE Waited(x)'
  <2> DEFINE t == Shd!computeShardID(x)
  <2>1. Waited(x) /\ x \in Ids /\ t \in Shd!ShardIds
    BY Zenon, <1>1, ShardOf DEF Searching, ShardTypes
  <2>2. x \in Shd!Live(t) /\ state[t] # "dead"
    BY Zenon, <2>1 DEF Waited
  <2>3. ASSUME t \notin waiting' PROVE Accounted(candidates', x)
    <3>1. CASE t # s
      <4>1. Accounted(candidates, x)
        BY Zenon, <1>1, <2>1, <2>3, <3>1 DEF Waited
      <4> QED BY ZenonT(30), <1>1, <1>6, <2>1, <4>1, AccountedGrows
    <3>2. CASE t = s
      <4>1. state[s] \in {"active", "recovering"}
        BY Zenon, <1>1, <2>2, <3>2 DEF ShardTypes, Shd!TypeOK
      <4>2. Accounted(more, x)
        BY Zenon, <1>4, <2>2, <3>2, <4>1, NearestAccounts
      <4> HIDE DEF more
      <4>3. more \in SUBSET candidates'
        BY Zenon, <1>1
      <4> QED BY Zenon, <1>6, <2>1, <4>2, <4>3, AccountedGrows
    <3> QED BY Zenon, <3>1, <3>2
  <2> QED BY Zenon, <1>1, <1>2, <2>2, <2>3 DEF Waited
<1>9. Searching'
  BY Zenon, <1>1, <1>2, <1>8 DEF Searching
<1> QED BY Zenon, <1>1, <1>3, <1>7, <1>9 DEF ShardInv, Shd!ShardsSearch, Searching

LEMMA ShardMerge ==
  ASSUME Shd!ConstantsOK, ShardInv, Shd!Merge
  PROVE  ShardInv'
<1>1. /\ ShardTypes /\ waiting = {} /\ waiting' = None /\ candidates' = {}
      /\ answer' = Merged(candidates)
      /\ UNCHANGED <<state, index, recover, saving, steady, seen>>
  BY Zenon DEF ShardInv, Shd!Merge, Merged
<1>2. waiting # None
  BY Zenon, <1>1 DEF Shd!ConstantsOK
<1>3. Searching
  BY Zenon, <1>2 DEF ShardInv
<1>4. \A t : Shd!Live(t)' = Shd!Live(t) /\ Shd!Nodes(t)' = Shd!Nodes(t)
  BY Zenon, <1>1, SameLive
<1>5. candidates \in SUBSET Ids /\ steady \subseteq Ids
  BY Zenon, <1>1 DEF ShardTypes
<1>6. /\ DOMAIN Merged(candidates) = 1..Len(Merged(candidates))
      /\ \A i \in DOMAIN Merged(candidates) : Merged(candidates)[i] \in candidates
  BY Zenon, <1>5, MergedSorted
<1>7. Len(Merged(candidates)) <= k
  <2>1. Cardinality(candidates) \in Nat /\ k \in Nat
    BY Zenon, <1>5, CandidatesSorted DEF Shd!ConstantsOK
  <2>2. Len(Merged(candidates)) = IF Cardinality(candidates) > k THEN k ELSE Cardinality(candidates)
    BY Zenon, <1>5, MergedSorted
  <2> QED BY <2>1, <2>2
<1>8. ShardTypes'
  BY Zenon, <1>1, <1>4, <1>7 DEF ShardTypes, Shd!TypeOK
<1>9. \A id \in steady : Omits(answer', id)
  BY Zenon, <1>1, <1>3, <1>5, MergedOmits DEF Searching, Waited
<1>10. Ordered(answer')
  BY Zenon, <1>1, <1>5, MergedOrdered
<1>11. {answer'[i] : i \in DOMAIN answer'} \subseteq seen
  BY Zenon, <1>1, <1>6 DEF ShardTypes
<1>12. Shd!ShardsSearch'
  BY Zenon, <1>1, <1>9, <1>10, <1>11 DEF Shd!ShardsSearch, Omits, Ordered
<1> QED BY Zenon, <1>1, <1>8, <1>12 DEF ShardInv

LEMMA ShardRecovers ==
  ASSUME Shd!ConstantsOK, ShardInv, NEW c \in Callers,
         \/ \E s \in Shd!ShardIds : Shd!RecoverShard(c, s)
         \/ Shd!BeginRecovery(c)
         \/ \E ok \in BOOLEAN : Shd!EndRecovery(c, ok)
  PROVE  ShardInv'
<1>1. /\ ShardTypes
      /\ UNCHANGED <<index, saving, waiting, candidates, answer, seen>>
  BY Zenon DEF ShardInv, Shd!RecoverShard, Shd!BeginRecovery, Shd!EndRecovery
<1>2. \A t : Shd!Live(t)' = Shd!Live(t) /\ Shd!Nodes(t)' = Shd!Nodes(t)
  BY Zenon, <1>1, SameLive
<1>3. /\ recover' \in [Callers -> Recovery]
      /\ \A d \in Callers : recover'[d].pc # "idle" => recover'[d].shard \in Shd!ShardIds
  <2>1. PICK r \in Recovery : recover' = [recover EXCEPT ![c] = r]
                              /\ (r.pc # "idle" => r.shard \in Shd!ShardIds)
    <3>1. CASE \E s \in Shd!ShardIds : Shd!RecoverShard(c, s)
      BY Zenon, <3>1 DEF Shd!RecoverShard, Recovery
    <3>2. CASE Shd!BeginRecovery(c)
      <4> DEFINE r == [pc |-> "streaming", shard |-> recover[c].shard]
      <4>1. recover[c] \in Recovery /\ recover[c].shard \in Shd!ShardIds
        BY Zenon, <1>1, <3>2 DEF Shd!BeginRecovery, ShardTypes
      <4>2. r \in Recovery /\ r.shard \in Shd!ShardIds
        BY Zenon, <4>1 DEF Recovery
      <4>3. [recover[c] EXCEPT !.pc = "streaming"] = r
        BY <4>1 DEF Recovery
      <4>4. recover' = [recover EXCEPT ![c] = [recover[c] EXCEPT !.pc = "streaming"]]
        BY Zenon, <3>2 DEF Shd!BeginRecovery
      <4> QED BY Zenon, <4>2, <4>3, <4>4
    <3>3. CASE \E ok \in BOOLEAN : Shd!EndRecovery(c, ok)
      <4> DEFINE r == [pc |-> "done", shard |-> recover[c].shard]
      <4>1. recover[c] \in Recovery /\ recover[c].shard \in Shd!ShardIds
        BY Zenon, <1>1, <3>3 DEF Shd!EndRecovery, ShardTypes
      <4>2. r \in Recovery /\ r.shard \in Shd!ShardIds
        BY Zenon, <4>1 DEF Recovery
      <4>3. [recover[c] EXCEPT !.pc = "done"] = r
        BY <4>1 DEF Recovery
      <4>4. recover' = [recover EXCEPT ![c] = [recover[c] EXCEPT !.pc = "done"]]
        BY Zenon, <3>3 DEF Shd!EndRecovery
      <4> QED BY Zenon, <4>2, <4>3, <4>4
    <3> QED BY Zenon, <3>1, <3>2, <3>3
  <2> QED BY Zenon, <1>1, <2>1 DEF ShardTypes
<1>4. \/ UNCHANGED <<state, steady>>
      \/ \E s \in Shd!ShardIds, to \in {"active", "recovering", "dead"} : Shd!Becomes(s, to)
  BY Zenon, <1>1 DEF Shd!RecoverShard, Shd!BeginRecovery, Shd!EndRecovery, ShardTypes
<1>5. /\ state' \in [Shd!ShardIds -> {"active", "recovering", "dead"}]
      /\ steady' \subseteq steady
  BY SMTT(30), <1>1, <1>4 DEF Shd!Becomes, ShardTypes, Shd!TypeOK
<1>6. ShardTypes'
  BY Zenon, <1>1, <1>2, <1>3, <1>5 DEF ShardTypes, Shd!TypeOK
<1>7. ASSUME Searching, NEW x \in steady' PROVE Waited(x)'
  <2> DEFINE t == Shd!computeShardID(x)
  <2>1. x \in steady /\ Waited(x) /\ t \in Shd!ShardIds
    BY Zenon, <1>1, <1>5, <1>7, ShardOf DEF Searching, ShardTypes
  <2>2. state'[t] # "dead"
    <3>1. x \in Shd!Live(t) /\ state[t] # "dead"
      BY Zenon, <2>1 DEF Waited
    <3>2. CASE UNCHANGED <<state, steady>>
      BY Zenon, <3>1, <3>2
    <3>3. CASE \E s \in Shd!ShardIds, to \in {"active", "recovering", "dead"} : Shd!Becomes(s, to)
      BY ZenonT(30), <1>1, <1>7, <2>1, <3>1, <3>3 DEF Shd!Becomes, ShardTypes, Shd!TypeOK
    <3> QED BY Zenon, <1>4, <3>2, <3>3
  <2> QED BY Zenon, <1>1, <1>2, <2>1, <2>2 DEF Waited
<1>8. Searching => Searching'
  BY Zenon, <1>1, <1>2, <1>7 DEF Searching
<1>9. Shd!ShardsSearch'
  BY ZenonT(30), <1>1, <1>5 DEF ShardInv, Shd!ShardsSearch
<1> QED BY Zenon, <1>1, <1>6, <1>8, <1>9 DEF ShardInv

LEMMA ShardStep == ASSUME Shd!ConstantsOK, ShardInv, [Shd!Next]_Shd!vars PROVE ShardInv'
<1>1. CASE Shd!SaveMetadata \/ Shd!ShardInfo \/ UNCHANGED Shd!vars
  <2>1. /\ UNCHANGED <<state, index, recover, waiting, candidates, answer, steady, seen>>
        /\ saving' \in BOOLEAN
    BY Zenon, <1>1 DEF Shd!SaveMetadata, Shd!ShardInfo, Shd!vars, ShardInv, ShardTypes, Shd!TypeOK
  <2>2. \A t : Shd!Live(t)' = Shd!Live(t) /\ Shd!Nodes(t)' = Shd!Nodes(t)
    BY Zenon, <2>1, SameLive
  <2>3. ShardTypes'
    BY Zenon, <2>1, <2>2 DEF ShardInv, ShardTypes, Shd!TypeOK
  <2>4. Searching => Searching'
    BY Zenon, <2>1, <2>2 DEF Searching, Waited
  <2> QED BY Zenon, <2>1, <2>3, <2>4 DEF ShardInv, Shd!ShardsSearch
<1> QED
  BY Zenon, <1>1, ShardInsert, ShardDelete, ShardSearch, ShardSearchShard, ShardMerge, ShardRecovers
  DEF Shd!Next

\* ShardManager.Search: for any number of points and shards and any k, with inserts,
\* deletes and recoveries between the answers of the shards, the merged result is
\* in order, has only points that were there, and omits a point that was there all
\* along only for k nearer ones.
THEOREM ShardsSearchTogether ==
  ASSUME Shd!ConstantsOK PROVE Shd!Spec => [](Shd!TypeOK /\ Shd!ShardsSearch)
<1>1. Shd!ConstantsOK
  BY Zenon
<1>2. Shd!NewShardManager => ShardInv
  BY Zenon, <1>1, ShardInit
<1>3. ShardInv /\ [Shd!Next]_Shd!vars => ShardInv'
  BY Zenon, <1>1, ShardStep
<1>4. ShardInv => Shd!TypeOK /\ Shd!ShardsSearch
  BY Zenon DEF ShardInv, ShardTypes
<1> QED
  BY <1>2, <1>3, <1>4, PTL DEF Shd!Spec
=============================================================================
