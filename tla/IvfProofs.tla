------------------------------ MODULE IvfProofs ------------------------------
(***************************************************************************)
(* Theorems about the inverted file index: every point is filed under its  *)
(* nearest centroid, and searches that probe every cluster find all that   *)
(* is there.  They hold for every value of the constants.                  *)
(***************************************************************************)
EXTENDS Integers, Sequences, FiniteSets, WellFoundedInduction, TLAPS

CONSTANTS Ids, None, Position, Places, NumClusters, TrainingSamples, MaxTrains

VARIABLES points, clusters, centroids, trained, trainingBuffer, deletedCount, insert, train,
          trains, overlapped

Inv == INSTANCE Ivf

LEMMA IvfCardinality == \A S : Inv!Cardinality(S) = Cardinality(S)
  BY Zenon DEF Inv!Cardinality, Cardinality

LEMMA IvfFinite == \A S : Inv!IsFiniteSet(S) <=> IsFiniteSet(S)
  BY Zenon DEF Inv!IsFiniteSet, IsFiniteSet

\* A set of natural numbers that is not empty has a smallest element.
LEMMA SmallestExists ==
  ASSUME NEW S \in SUBSET Nat, S # {}
  PROVE  \E x \in S : \A y \in S : x <= y
<1> DEFINE R == OpToRel(<, Nat)
<1>1. PICK x \in S : \A y \in S : ~(<<y, x>> \in R)
  BY Zenon, WFMin, NatLessThanWellFounded
<1>2. \A m, n \in Nat : m < n => <<m, n>> \in R
  BY DEF OpToRel
<1>3. \A y \in S : y \in Nat /\ x \in Nat /\ ~(y < x)
  BY Zenon, <1>1, <1>2
<1>4. \A y \in S : x <= y
  BY <1>3
<1> QED BY Zenon, <1>4

\* The number of clusters for n vectors exists and is within the configured one.
LEMMA ClustersInRange ==
  ASSUME Inv!ConstantsOK, NEW n \in Nat \ {0}
  PROVE  Inv!ClustersFor(n) \in 1..NumClusters
<1>1. NumClusters \in Nat \ {0}
  BY Zenon DEF Inv!ConstantsOK
<1>2. CASE NumClusters <= n
  BY <1>1, <1>2 DEF Inv!ClustersFor
<1>3. CASE ~(NumClusters <= n)
  <2> DEFINE S == {r \in 1..n : (r + 1) * (r + 1) > n}
  <2>1. n \in S /\ S \in SUBSET Nat
    <3>1. (n + 1) * (n + 1) = n * n + n + n + 1 /\ n * n \in Nat
      OBVIOUS
    <3> QED BY <3>1
  <2>2. PICK r \in S : \A y \in S : r <= y
    <3> HIDE DEF S
    <3> QED BY Zenon, <2>1, SmallestExists
  <2>3. r \in 1..n /\ (r + 1) * (r + 1) > n
    BY Zenon
  <2>4. r * r <= n
    <3>1. CASE r = 1
      BY <3>1
    <3>2. CASE r # 1
      <4>1. r - 1 \in 1..n /\ (r - 1) + 1 = r /\ ~(r <= r - 1) /\ r * r \in Int
        BY <2>3, <3>2
      <4>2. r - 1 \notin S
        BY Zenon, <2>2, <4>1
      <4>3. ~(r * r > n)
        BY Zenon, <4>1, <4>2
      <4> QED BY <4>1, <4>3
    <3> QED BY Zenon, <3>1, <3>2
  <2>5. Inv!ClustersFor(n) \in 1..n
    BY Zenon, <1>3, <2>3, <2>4 DEF Inv!ClustersFor
  <2> QED BY <1>1, <1>3, <2>5
<1> QED BY Zenon, <1>2, <1>3

\* There are centroids.
Centred == \E n \in 1..NumClusters : centroids \in [1..n -> Places]

LEMMA NearestExists ==
  ASSUME Inv!ConstantsOK, Centred, NEW v \in Int
  PROVE  Inv!FindNearestCentroid(v) \in DOMAIN centroids
<1>1. PICK n \in 1..NumClusters : centroids \in [1..n -> Places]
  BY Zenon DEF Centred
<1> DEFINE S == DOMAIN centroids
           d(c) == Inv!Dist(v, centroids[c])
<1>2. S = 1..n /\ n \in Nat \ {0} /\ \A c \in S : centroids[c] \in Int
  <2>1. NumClusters \in Nat /\ Places \subseteq Int
    BY Zenon DEF Inv!ConstantsOK
  <2>2. S = 1..n
    BY Zenon, <1>1
  <2>3. n \in Nat \ {0}
    BY <1>1, <2>1
  <2> QED BY Zenon, <1>1, <2>1, <2>2, <2>3
<1>3. \A c \in S : d(c) \in Nat
  <2>1. ASSUME NEW c \in S PROVE d(c) \in Nat
    <3>1. centroids[c] \in Int
      BY Zenon, <1>2
    <3> QED BY <3>1 DEF Inv!Dist, Inv!Abs
  <2> QED BY Zenon, <2>1
<1>4. 1 \in S /\ S \subseteq Nat
  BY <1>2
<1>5. Inv!FindNearestCentroid(v) =
        CHOOSE c \in S : \A e \in S : d(c) < d(e) \/ (d(c) = d(e) /\ c <= e)
  BY Zenon DEF Inv!FindNearestCentroid
<1> HIDE DEF S, d
<1>6. PICK m \in {d(c) : c \in S} : \A e \in S : m <= d(e)
  <2> DEFINE T == {d(c) : c \in S}
  <2>1. T \in SUBSET Nat /\ T # {} /\ \A e \in S : d(e) \in T
    BY Zenon, <1>3, <1>4
  <2> HIDE DEF T
  <2>2. \E m \in T : \A y \in T : m <= y
    BY Zenon, <2>1, SmallestExists
  <2>3. \E m \in T : \A e \in S : m <= d(e)
    BY Zenon, <2>1, <2>2
  <2> QED BY Zenon, <2>3 DEF T
<1>7. PICK x \in {c \in S : d(c) = m} : \A e \in S : d(e) = m => x <= e
  <2>1. {c \in S : d(c) = m} \in SUBSET Nat /\ {c \in S : d(c) = m} # {}
    BY Zenon, <1>4, <1>6
  <2> QED BY Zenon, <2>1, SmallestExists
<1>8. ASSUME NEW e \in S PROVE d(x) < d(e) \/ (d(x) = d(e) /\ x <= e)
  <2>1. m \in Nat /\ d(x) = m /\ d(e) \in Nat /\ m <= d(e)
    BY Zenon, <1>3, <1>6, <1>7
  <2>2. d(e) = m => x <= e
    BY Zenon, <1>7
  <2> QED BY <2>1, <2>2
<1> QED BY Zenon, <1>5, <1>7, <1>8 DEF S

\* Every point is under its nearest centroid and under no other.
Filed ==
  /\ DOMAIN clusters = DOMAIN centroids
  /\ \A i \in DOMAIN points :
       {c \in DOMAIN clusters : i \in clusters[c]} = {Inv!FindNearestCentroid(Inv!Vector(i))}

\* FileAll files every point.
LEMMA FileAllFiles ==
  ASSUME Inv!ConstantsOK, Centred, points \in Seq(Ids), NEW n \in Nat, DOMAIN centroids = 1..n,
         Inv!FileAll(n), UNCHANGED <<points, centroids>>
  PROVE  Filed'
<1>1. clusters' = [c \in 1..n |->
                     {i \in DOMAIN points : Inv!FindNearestCentroid(Inv!Vector(i)) = c}]
  BY Zenon DEF Inv!FileAll, Inv!Indices
<1>2. ASSUME NEW i \in DOMAIN points
      PROVE  Inv!FindNearestCentroid(Inv!Vector(i)) \in 1..n
  <2>1. Inv!Vector(i) \in Int
    BY DEF Inv!Vector, Inv!ConstantsOK
  <2> QED BY Zenon, <2>1, NearestExists
<1>3. \A i \in DOMAIN points :
        {c \in DOMAIN clusters' : i \in clusters'[c]} = {Inv!FindNearestCentroid(Inv!Vector(i))}
  BY Zenon, <1>1, <1>2
<1>4. \A v : Inv!FindNearestCentroid(v)' = Inv!FindNearestCentroid(v)
  BY Zenon DEF Inv!FindNearestCentroid
<1>5. \A i : Inv!Vector(i)' = Inv!Vector(i)
  BY Zenon DEF Inv!Vector
<1> QED BY Zenon, <1>1, <1>3, <1>4, <1>5 DEF Filed

\* The inductive invariant.  Unless an Insert and a Train interleaved: centroids
\* that are being filed are those of the call that files them, and a point that is
\* about to be stored knows its nearest centroid.
Inserting == [at : {"idle", "fit", "file", "store"}, id : Ids \cup {None}, cluster : Int]

IvfTypes ==
  /\ points \in Seq(Ids) /\ \A i, j \in DOMAIN points : points[i] = points[j] => i = j
  /\ clusters = [c \in DOMAIN clusters |-> clusters[c]]
  /\ \A c \in DOMAIN clusters : clusters[c] \subseteq DOMAIN points
  /\ trainingBuffer = None \/ trainingBuffer \in 0..TrainingSamples
  /\ insert \in Inserting
  /\ insert.at = "idle" => insert = Inv!Idle
  /\ insert.at # "idle" => insert.id \in Ids /\ insert.id \notin Inv!Stored
  /\ train \in 0..NumClusters /\ trained \in BOOLEAN /\ overlapped \in BOOLEAN

Alone ==
  /\ train # 0 => DOMAIN centroids = 1..train
  /\ insert.at = "file" => train = 0 /\ DOMAIN centroids = 1..Inv!ClustersFor(Inv!Buffered)
  /\ insert.at \in {"fit", "file"} => ~trained
  /\ train = 0 /\ trained => Filed
  /\ train = 0 /\ insert.at = "store" =>
       insert.cluster = IF trained THEN Inv!FindNearestCentroid(Position[insert.id]) ELSE -1

IvfInv == /\ IvfTypes
          /\ trained \/ train # 0 \/ insert.at = "file" => Centred
          /\ ~overlapped => Alone

LEMMA IvfInit == Inv!ConstantsOK /\ Inv!New => IvfInv
<1> SUFFICES ASSUME Inv!ConstantsOK, Inv!New PROVE IvfInv
  BY Zenon
<1>1. points = <<>> /\ trained = FALSE /\ trainingBuffer = 0 /\ insert = Inv!Idle /\ train = 0
      /\ clusters = [c \in 1..NumClusters |-> {}] /\ overlapped = FALSE
  BY Zenon DEF Inv!New
<1>2. insert \in Inserting /\ insert.at = "idle"
  BY <1>1 DEF Inv!Idle, Inserting
<1>3. NumClusters \in Nat /\ TrainingSamples \in Nat
  BY Zenon DEF Inv!ConstantsOK
<1>4. points \in Seq(Ids) /\ DOMAIN points = {}
  BY <1>1
<1>5. /\ clusters = [c \in DOMAIN clusters |-> clusters[c]]
      /\ \A c \in DOMAIN clusters : clusters[c] = {}
  BY Zenon, <1>1
<1>6. 0 \in 0..TrainingSamples /\ 0 \in 0..NumClusters
  BY <1>3
<1>7. IvfTypes
  BY Zenon, <1>1, <1>2, <1>4, <1>5, <1>6 DEF IvfTypes
<1> QED BY Zenon, <1>1, <1>2, <1>7 DEF IvfInv, Alone

\* The parts of a state that the filing depends on stay.
LEMMA FiledStays ==
  ASSUME UNCHANGED <<points, clusters, centroids>>
  PROVE  /\ Filed' = Filed /\ Centred' = Centred /\ Inv!Stored' = Inv!Stored
         /\ \A v : Inv!FindNearestCentroid(v)' = Inv!FindNearestCentroid(v)
<1>1. \A v : Inv!FindNearestCentroid(v)' = Inv!FindNearestCentroid(v)
  BY Zenon DEF Inv!FindNearestCentroid
<1>2. \A i : Inv!Vector(i)' = Inv!Vector(i)
  BY Zenon DEF Inv!Vector
<1>3. Filed' = Filed
  BY Zenon, <1>1, <1>2 DEF Filed
<1> QED BY Zenon, <1>1, <1>3 DEF Centred, Inv!Stored, Inv!Indices

LEMMA IvfInsert ==
  ASSUME Inv!ConstantsOK, IvfInv, NEW id \in Ids, Inv!Insert(id)
  PROVE  IvfInv'
<1>1. /\ IvfTypes /\ id \notin Inv!Stored
      /\ UNCHANGED <<points, clusters, centroids, trained, train, overlapped>>
  BY Zenon DEF IvfInv, Inv!Insert
<1>2. /\ Filed' = Filed /\ Centred' = Centred /\ Inv!Stored' = Inv!Stored
      /\ \A v : Inv!FindNearestCentroid(v)' = Inv!FindNearestCentroid(v)
  BY <1>1, FiledStays
<1>3. CASE trained
  <2>1. /\ insert' = [at |-> "store", id |-> id, cluster |-> Inv!FindNearestCentroid(Position[id])]
        /\ trainingBuffer' = trainingBuffer
    BY Zenon, <1>3 DEF Inv!Insert
  <2>2. Inv!FindNearestCentroid(Position[id]) \in Int
    <3>1. Position[id] \in Int /\ Centred
      BY Zenon, <1>3 DEF Inv!ConstantsOK, IvfInv
    <3>2. PICK n \in 1..NumClusters : centroids \in [1..n -> Places]
      BY Zenon, <3>1 DEF Centred
    <3>3. Inv!FindNearestCentroid(Position[id]) \in 1..n
      BY Zenon, <3>1, <3>2, NearestExists
    <3> QED BY <3>3
  <2>3. IvfTypes'
    BY <1>1, <1>2, <2>1, <2>2 DEF IvfTypes, Inserting
  <2>4. Alone => Alone'
    BY Zenon, <1>1, <1>2, <1>3, <2>1 DEF Alone
  <2> QED BY Zenon, <1>1, <1>2, <1>3, <2>3, <2>4 DEF IvfInv
<1>4. CASE ~trained
  <2> DEFINE filled == (IF trainingBuffer = None THEN 0 ELSE trainingBuffer) + 1
             full == filled >= TrainingSamples
  <2>1. /\ insert' = [at |-> IF full THEN "fit" ELSE "store", id |-> id, cluster |-> -1]
        /\ trainingBuffer' = IF full THEN None ELSE filled
    BY Zenon, <1>4 DEF Inv!Insert
  <2>2. trainingBuffer' = None \/ trainingBuffer' \in 0..TrainingSamples
    <3>1. TrainingSamples \in Nat /\ filled \in Nat
      BY <1>1 DEF Inv!ConstantsOK, IvfTypes
    <3> QED BY <2>1, <3>1
  <2> HIDE DEF full
  <2>3. insert' \in Inserting /\ insert'.at \in {"fit", "store"} /\ insert'.id = id
        /\ insert'.cluster = -1
    BY <2>1 DEF Inserting
  <2>4. IvfTypes'
    BY Zenon, <1>1, <1>2, <2>2, <2>3 DEF IvfTypes
  <2>5. Alone => Alone'
    BY Zenon, <1>1, <1>2, <1>4, <2>3 DEF Alone
  <2> QED BY <1>1, <1>2, <1>4, <2>3, <2>4, <2>5 DEF IvfInv
<1> QED BY Zenon, <1>3, <1>4

\* k-means leaves as many centroids as it was to find.
LEMMA Trained ==
  ASSUME Inv!ConstantsOK, NEW n \in 1..NumClusters, Inv!KMeansTrain(n)
  PROVE  Centred' /\ DOMAIN centroids' = 1..n
  BY Zenon DEF Inv!KMeansTrain, Centred

LEMMA BufferedClusters ==
  ASSUME Inv!ConstantsOK PROVE Inv!ClustersFor(Inv!Buffered) \in 1..NumClusters
<1>1. Inv!Buffered \in Nat \ {0}
  BY DEF Inv!ConstantsOK, Inv!Buffered
<1> QED BY Zenon, <1>1, ClustersInRange

LEMMA IvfInsertFits ==
  ASSUME Inv!ConstantsOK, IvfInv, Inv!InsertFits
  PROVE  IvfInv'
<1>1. /\ IvfTypes /\ insert.at = "fit" /\ insert' = [insert EXCEPT !.at = "file"]
      /\ Inv!KMeansTrain(Inv!ClustersFor(Inv!Buffered))
      /\ overlapped' = (overlapped \/ train # 0)
      /\ UNCHANGED <<points, clusters, trained, trainingBuffer, train>>
  BY Zenon DEF IvfInv, Inv!InsertFits
<1>2. Centred' /\ DOMAIN centroids' = 1..Inv!ClustersFor(Inv!Buffered)
  BY Zenon, <1>1, BufferedClusters, Trained
<1>3. Inv!Stored' = Inv!Stored
  BY Zenon, <1>1 DEF Inv!Stored, Inv!Indices
<1>4. insert' \in Inserting /\ insert'.at = "file" /\ insert'.id = insert.id
  BY Zenon, <1>1 DEF IvfTypes, Inserting
<1>5. IvfTypes'
  BY <1>1, <1>3, <1>4 DEF IvfTypes
<1>6. Inv!ClustersFor(Inv!Buffered)' = Inv!ClustersFor(Inv!Buffered)
  BY Zenon DEF Inv!ClustersFor, Inv!Buffered
<1>7. ASSUME ~overlapped' PROVE Alone'
  <2>1. train = 0 /\ ~trained
    BY Zenon, <1>1, <1>7 DEF IvfInv, Alone
  <2> QED BY Zenon, <1>1, <1>2, <1>4, <1>6, <2>1 DEF Alone
<1> QED BY Zenon, <1>2, <1>5, <1>7 DEF IvfInv

LEMMA FileAllTypes ==
  ASSUME IvfTypes, NEW n, Inv!FileAll(n), UNCHANGED points
  PROVE  /\ clusters' = [c \in DOMAIN clusters' |-> clusters'[c]]
         /\ \A c \in DOMAIN clusters' : clusters'[c] \subseteq DOMAIN points'
         /\ trained' = TRUE
         /\ Inv!Stored' = Inv!Stored
  BY Zenon DEF Inv!FileAll, Inv!Indices, Inv!Stored

LEMMA IvfInsertFiles ==
  ASSUME Inv!ConstantsOK, IvfInv, Inv!InsertFiles
  PROVE  IvfInv'
<1> DEFINE n == Inv!ClustersFor(Inv!Buffered)
           nearest == Inv!FindNearestCentroid(Position[insert.id])
<1>1. /\ IvfTypes /\ Centred /\ insert.at = "file"
      /\ insert' = [insert EXCEPT !.at = "store", !.cluster = nearest]
      /\ Inv!FileAll(n)
      /\ UNCHANGED <<points, centroids, trainingBuffer, train, overlapped>>
  BY Zenon DEF IvfInv, Inv!InsertFiles
<1>2. n \in 1..NumClusters /\ n \in Nat
  <2>1. NumClusters \in Nat
    BY Zenon DEF Inv!ConstantsOK
  <2> QED BY <2>1, BufferedClusters
<1> HIDE DEF n
<1>3. /\ clusters' = [c \in DOMAIN clusters' |-> clusters'[c]]
      /\ \A c \in DOMAIN clusters' : clusters'[c] \subseteq DOMAIN points'
      /\ trained' = TRUE
      /\ Inv!Stored' = Inv!Stored
  BY Zenon, <1>1, FileAllTypes
<1>4. insert.id \in Ids /\ Position[insert.id] \in Int
  BY Zenon, <1>1 DEF IvfTypes, Inv!ConstantsOK
<1>5. nearest \in Int
  <2>1. PICK m \in 1..NumClusters : centroids \in [1..m -> Places]
    BY Zenon, <1>1 DEF Centred
  <2>2. nearest \in 1..m
    BY <1>1, <1>4, <2>1, NearestExists
  <2> QED BY <2>2
<1>6. Centred' /\ \A v : Inv!FindNearestCentroid(v)' = Inv!FindNearestCentroid(v)
  BY Zenon, <1>1 DEF Centred, Inv!FindNearestCentroid
<1> HIDE DEF nearest
<1>7. insert' \in Inserting /\ insert'.at = "store" /\ insert'.id = insert.id
      /\ insert'.cluster = nearest
  BY <1>1, <1>5 DEF IvfTypes, Inserting
<1>8. IvfTypes'
  BY <1>1, <1>3, <1>7 DEF IvfTypes
<1>9. ASSUME ~overlapped' PROVE Alone'
  <2>1. train = 0 /\ DOMAIN centroids = 1..n
    BY Zenon, <1>1, <1>9 DEF IvfInv, Alone, n
  <2>2. Filed'
    BY Zenon, <1>1, <1>2, <2>1, FileAllFiles DEF IvfTypes
  <2>3. (insert.cluster = Inv!FindNearestCentroid(Position[insert.id]))'
    BY <1>1, <1>7 DEF nearest, Inv!FindNearestCentroid
  <2> QED BY Zenon, <1>1, <1>3, <1>7, <2>1, <2>2, <2>3 DEF Alone
<1> QED BY Zenon, <1>6, <1>8, <1>9 DEF IvfInv

LEMMA IvfTrain ==
  ASSUME Inv!ConstantsOK, IvfInv, Inv!Train
  PROVE  IvfInv'
<1>1. /\ IvfTypes /\ points # <<>>
      /\ train' = Inv!ClustersFor(Len(points)) /\ Inv!KMeansTrain(train')
      /\ overlapped' = (overlapped \/ insert # Inv!Idle)
      /\ UNCHANGED <<points, clusters, trained, trainingBuffer, insert>>
  BY Zenon DEF IvfInv, Inv!Train
<1>2. Len(points) \in Nat \ {0}
  BY <1>1 DEF IvfTypes
<1>3. train' \in 1..NumClusters
  BY Zenon, <1>1, <1>2, ClustersInRange
<1>4. train' \in 0..NumClusters /\ train' # 0
  <2>1. NumClusters \in Nat
    BY Zenon DEF Inv!ConstantsOK
  <2> QED BY <1>3, <2>1
<1>5. Centred' /\ DOMAIN centroids' = 1..train'
  BY Zenon, <1>1, <1>3 DEF Inv!KMeansTrain, Centred
<1>6. Inv!Stored' = Inv!Stored
  BY Zenon, <1>1 DEF Inv!Stored, Inv!Indices
<1>7. IvfTypes'
  BY <1>1, <1>4, <1>6 DEF IvfTypes
<1>8. ASSUME ~overlapped' PROVE Alone'
  <2>1. insert' = Inv!Idle
    BY Zenon, <1>1, <1>8
  <2> QED BY Zenon, <1>4, <1>5, <2>1 DEF Alone, Inv!Idle
<1> QED BY Zenon, <1>5, <1>7, <1>8 DEF IvfInv

LEMMA IvfTrainFiles ==
  ASSUME Inv!ConstantsOK, IvfInv, Inv!TrainFiles
  PROVE  IvfInv'
<1>1. /\ IvfTypes /\ Centred /\ train # 0 /\ train' = 0
      /\ Inv!FileAll(train)
      /\ overlapped' = (overlapped \/ insert # Inv!Idle)
      /\ UNCHANGED <<points, centroids, trainingBuffer, insert>>
  BY Zenon DEF IvfInv, Inv!TrainFiles
<1>2. /\ clusters' = [c \in DOMAIN clusters' |-> clusters'[c]]
      /\ \A c \in DOMAIN clusters' : clusters'[c] \subseteq DOMAIN points'
      /\ trained' = TRUE
      /\ Inv!Stored' = Inv!Stored
  BY Zenon, <1>1, FileAllTypes
<1>3. NumClusters \in Nat /\ train \in Nat
  BY <1>1 DEF Inv!ConstantsOK, IvfTypes
<1>4. 0 \in 0..NumClusters
  BY <1>3
<1>5. IvfTypes'
  BY Zenon, <1>1, <1>2, <1>4 DEF IvfTypes
<1>6. Centred'
  BY Zenon, <1>1 DEF Centred
<1>7. ASSUME ~overlapped' PROVE Alone'
  <2>1. insert' = Inv!Idle /\ DOMAIN centroids = 1..train
    BY Zenon, <1>1, <1>7 DEF IvfInv, Alone
  <2>2. Filed'
    BY <1>1, <1>3, <2>1, FileAllFiles DEF IvfTypes
  <2> QED BY <1>1, <2>1, <2>2 DEF Alone, Inv!Idle
<1> QED BY Zenon, <1>5, <1>6, <1>7 DEF IvfInv

LEMMA Stores ==
  ASSUME IvfTypes, NEW id \in Ids, id \notin Inv!Stored, points' = Append(points, id)
  PROVE  /\ points' \in Seq(Ids) /\ Len(points) + 1 \in Nat
         /\ DOMAIN points = 1..Len(points) /\ DOMAIN points' = 1..(Len(points) + 1)
         /\ \A i \in DOMAIN points : i \in DOMAIN points' /\ i # Len(points) + 1
                                     /\ points'[i] = points[i]
         /\ Len(points) + 1 \in DOMAIN points' /\ points'[Len(points) + 1] = id
         /\ \A i \in DOMAIN points' : i \in DOMAIN points \/ i = Len(points) + 1
         /\ \A i, j \in DOMAIN points' : points'[i] = points'[j] => i = j
<1>1. points \in Seq(Ids) /\ \A i, j \in DOMAIN points : points[i] = points[j] => i = j
  BY Zenon DEF IvfTypes
<1>2. Len(points) \in Nat /\ DOMAIN points = 1..Len(points) /\ points' \in Seq(Ids)
      /\ DOMAIN points' = 1..(Len(points) + 1)
  BY <1>1
<1>3. /\ \A i \in 1..Len(points) : points'[i] = points[i]
      /\ points'[Len(points) + 1] = id
  BY <1>1, <1>2
<1>4. /\ \A i \in 1..Len(points) : i \in 1..(Len(points) + 1) /\ i # Len(points) + 1
      /\ Len(points) + 1 \in 1..(Len(points) + 1)
      /\ \A i \in 1..(Len(points) + 1) : i \in 1..Len(points) \/ i = Len(points) + 1
  BY <1>2
<1>5. \A i \in DOMAIN points : points[i] # id
  BY DEF Inv!Stored, Inv!Indices
<1>6. \A i, j \in DOMAIN points' : points'[i] = points'[j] => i = j
  BY <1>1, <1>2, <1>3, <1>4, <1>5
<1> QED BY <1>2, <1>3, <1>4, <1>6

LEMMA IvfStores ==
  ASSUME Inv!ConstantsOK, IvfInv, Inv!storePoint
  PROVE  IvfInv'
<1> DEFINE id == insert.id
           new == Len(points) + 1
           to == insert.cluster
<1>1. /\ IvfTypes /\ insert.at = "store" /\ id \in Ids /\ id \notin Inv!Stored
      /\ points' = Append(points, id) /\ insert' = Inv!Idle
      /\ to = -1 \/ to \in DOMAIN clusters
      /\ clusters' = IF to = -1 THEN clusters ELSE [clusters EXCEPT ![to] = @ \cup {new}]
      /\ UNCHANGED <<centroids, trained, trainingBuffer, train, overlapped>>
  BY Zenon DEF IvfInv, IvfTypes, Inv!storePoint
<1>2. /\ points' \in Seq(Ids)
      /\ \A i \in DOMAIN points : i \in DOMAIN points' /\ i # new /\ points'[i] = points[i]
      /\ new \in DOMAIN points' /\ points'[new] = id
      /\ \A i \in DOMAIN points' : i \in DOMAIN points \/ i = new
      /\ \A i, j \in DOMAIN points' : points'[i] = points'[j] => i = j
  BY Zenon, <1>1, Stores
<1>3. /\ \A c \in DOMAIN clusters : clusters[c] \subseteq DOMAIN points
      /\ clusters = [c \in DOMAIN clusters |-> clusters[c]]
  BY Zenon, <1>1 DEF IvfTypes
<1> HIDE DEF id, new, to
<1>4. /\ DOMAIN clusters' = DOMAIN clusters
      /\ clusters' = [c \in DOMAIN clusters' |-> clusters'[c]]
      /\ \A c \in DOMAIN clusters :
           clusters'[c] = IF to # -1 /\ c = to THEN clusters[c] \cup {new} ELSE clusters[c]
  BY <1>1, <1>3
<1>5. \A c \in DOMAIN clusters' : clusters'[c] \subseteq DOMAIN points'
  BY <1>2, <1>3, <1>4
<1>6. insert' \in Inserting /\ insert'.at = "idle"
  BY <1>1 DEF Inv!Idle, Inserting
<1>7. IvfTypes'
  BY <1>1, <1>2, <1>4, <1>5, <1>6 DEF IvfTypes
<1>8. Centred' <=> Centred
  BY Zenon, <1>1 DEF Centred
<1>9. ASSUME ~overlapped, train = 0, trained PROVE Filed'
  <2>1. /\ Filed /\ to = Inv!FindNearestCentroid(Position[id])
    BY Zenon, <1>1, <1>9 DEF IvfInv, Alone, id, to
  <2>2. Centred /\ Position[id] \in Int
    BY <1>1, <1>9 DEF IvfInv, Inv!ConstantsOK
  <2>3. to \in DOMAIN centroids
    BY Zenon, <2>1, <2>2, NearestExists
  <2>4. to # -1
    <3>1. PICK n \in 1..NumClusters : centroids \in [1..n -> Places]
      BY Zenon, <2>2 DEF Centred
    <3> QED BY <2>3, <3>1
  <2>5. ASSUME NEW i \in DOMAIN points'
        PROVE  {c \in DOMAIN clusters' : i \in clusters'[c]}
                 = {Inv!FindNearestCentroid(Inv!Vector(i))'}
    <3>1. CASE i \in DOMAIN points
      <4>1. {c \in DOMAIN clusters : i \in clusters[c]} = {Inv!FindNearestCentroid(Inv!Vector(i))}
        BY <2>1, <3>1 DEF Filed
      <4>2. i # new
        BY Zenon, <1>2, <3>1
      <4>3. \A c \in DOMAIN clusters : i \in clusters'[c] <=> i \in clusters[c]
        BY SMTT(30), <1>4, <4>2
      <4>4. Inv!FindNearestCentroid(Inv!Vector(i))' = Inv!FindNearestCentroid(Inv!Vector(i))
        BY <1>1, <1>2, <3>1 DEF Inv!FindNearestCentroid, Inv!Vector
      <4> QED BY Zenon, <1>4, <4>1, <4>3, <4>4
    <3>2. CASE i = new
      <4>1. \A c \in DOMAIN clusters : new \notin clusters[c]
        BY <1>2, <1>3
      <4>2. \A c \in DOMAIN clusters : new \in clusters'[c] <=> c = to
        BY Zenon, <1>4, <2>4, <4>1
      <4>3. to \in DOMAIN clusters
        BY SMTT(30), <1>1, <2>4
      <4>4. Inv!FindNearestCentroid(Inv!Vector(i))' = Inv!FindNearestCentroid(Position[id])
        BY SMTT(30), <1>1, <1>2, <3>2 DEF Inv!FindNearestCentroid, Inv!Vector
      <4> QED BY SMTT(30), <1>4, <2>1, <3>2, <4>2, <4>3, <4>4
    <3> QED BY SMTT(30), <1>2, <3>1, <3>2
  <2> QED BY Zenon, <1>1, <1>4, <2>1, <2>5 DEF Filed
<1>10. ~overlapped' => Alone'
  BY <1>1, <1>6, <1>9 DEF IvfInv, Alone
<1> QED BY <1>1, <1>6, <1>7, <1>8, <1>10 DEF IvfInv

LEMMA IvfStep == ASSUME Inv!ConstantsOK, IvfInv, [Inv!Next]_Inv!vars PROVE IvfInv'
<1>1. CASE (\E id \in Ids : Inv!Delete(id)) \/ UNCHANGED Inv!vars
  <2>1. UNCHANGED <<points, clusters, centroids, trained, trainingBuffer, insert, train,
                    overlapped>>
    BY <1>1 DEF Inv!Delete, Inv!vars
  <2>2. /\ Filed' = Filed /\ Centred' = Centred /\ Inv!Stored' = Inv!Stored
        /\ \A v : Inv!FindNearestCentroid(v)' = Inv!FindNearestCentroid(v)
    BY Zenon, <2>1, FiledStays
  <2>3. IvfTypes'
    BY <2>1, <2>2 DEF IvfInv, IvfTypes
  <2>4. Alone => Alone'
    BY Zenon, <2>1, <2>2 DEF Alone
  <2> QED BY <2>1, <2>2, <2>3, <2>4 DEF IvfInv
<1> QED
  BY <1>1, IvfInsert, IvfInsertFits, IvfInsertFiles, IvfStores, IvfTrain, IvfTrainFiles
  DEF Inv!Next

-----------------------------------------------------------------------------
(* What searches find in an index in which every point is filed; these       *)
(* proofs count.                                                             *)

INSTANCE FiniteSetTheorems

\* As many probes as there may be clusters are probes of all of them.
LEMMA AllProbed ==
  ASSUME Inv!ConstantsOK, Centred, NEW q \in Int
  PROVE  Inv!FindNearestCentroids(q, NumClusters) = DOMAIN centroids
<1>1. PICK n \in 1..NumClusters : centroids \in [1..n -> Places]
  BY Zenon DEF Centred
<1>2. n \in Nat \ {0} /\ NumClusters \in Nat /\ Places \subseteq Int
  BY DEF Inv!ConstantsOK
<1> DEFINE Ahead(c) == {d \in DOMAIN centroids : Inv!Nearer(q, d, c)}
<1>3. ASSUME NEW c \in DOMAIN centroids PROVE Inv!Cardinality(Ahead(c)) < NumClusters
  <2>0. c \in 1..n
    BY Zenon, <1>1
  <2>1. centroids[c] \in Int /\ c \in Int
    <3>1. centroids[c] \in Places
      BY Zenon, <1>1, <2>0
    <3>2. centroids[c] \in Int
      BY <1>2, <3>1, Zenon
    <3>3. c \in Int
      BY SMTT(30), <1>2, <2>0, SMT
    <3> QED BY Zenon, <3>2, <3>3
  <2>2. Inv!Dist(q, centroids[c]) \in Int
    BY <2>1 DEF Inv!Dist, Inv!Abs
  <2>3. ~Inv!Nearer(q, c, c)
    BY SMTT(30), <2>1, <2>2 DEF Inv!Nearer
  <2>4. Ahead(c) \in SUBSET (1..n \ {c}) /\ c \in 1..n
    BY ZenonT(30), <1>1, <2>3
  <2> HIDE DEF Ahead
  <2>5. IsFiniteSet(1..n) /\ Cardinality(1..n) = n
    BY SMTT(30), <1>2, FS_Interval
  <2>6. IsFiniteSet(1..n \ {c}) /\ Cardinality(1..n \ {c}) = n - 1
    BY ZenonT(30), <2>4, <2>5, FS_RemoveElement
  <2>7. IsFiniteSet(Ahead(c)) /\ Cardinality(Ahead(c)) <= n - 1
    BY SMTT(30), <2>4, <2>6, FS_Subset
  <2>8. Cardinality(Ahead(c)) \in Nat
    BY Zenon, <2>7, FS_CardinalityType
  <2>9. Cardinality(Ahead(c)) < NumClusters
    BY SMTT(30), <1>1, <1>2, <2>7, <2>8
  <2> QED BY Zenon, <2>9, IvfCardinality
<1> QED BY <1>3 DEF Inv!FindNearestCentroids

\* All clusters together have all points.
LEMMA AllLooked ==
  ASSUME IvfTypes, Filed
  PROVE  (UNION {clusters[c] : c \in DOMAIN clusters}) = DOMAIN points
<1>1. ASSUME NEW i \in DOMAIN points PROVE \E c \in DOMAIN clusters : i \in clusters[c]
  <2>1. Inv!FindNearestCentroid(Inv!Vector(i)) \in {c \in DOMAIN clusters : i \in clusters[c]}
    BY Zenon DEF Filed
  <2> QED BY Zenon, <2>1
<1>2. \A c \in DOMAIN clusters : clusters[c] \subseteq DOMAIN points
  BY Zenon DEF IvfTypes
<1> QED BY SMTT(30), <1>1, <1>2

LEMMA SearchesAll ==
  ASSUME Inv!ConstantsOK, IvfTypes, trained => Centred /\ Filed, NEW q \in Int, NEW n
  PROVE  Inv!SearchWithParams(q, n, NumClusters) = Inv!KBest(q, n, DOMAIN points)
<1>1. CASE ~trained
  BY Zenon, <1>1 DEF Inv!SearchWithParams, Inv!Indices
<1>2. CASE trained
  <2>1. Inv!FindNearestCentroids(q, NumClusters) \cap DOMAIN clusters = DOMAIN clusters
    BY ZenonT(30), <1>2, AllProbed DEF Filed
  <2>2. Inv!SearchWithParams(q, n, NumClusters)
          = Inv!KBest(q, n, UNION {clusters[c] : c \in DOMAIN clusters})
    BY SMTT(30), <1>2, <2>1 DEF Inv!SearchWithParams
  <2> QED BY SMTT(30), <1>2, <2>2, AllLooked
<1> QED BY Zenon, <1>1, <1>2 DEF IvfTypes

LEMMA RangesAll ==
  ASSUME IvfTypes, trained => Filed, NEW q, NEW r,
         \A c \in DOMAIN centroids : Inv!Dist(q, centroids[c]) <= 2 * r
  PROVE  Inv!RangeSearch(q, r) = {i \in DOMAIN points : Inv!Dist(q, Inv!Vector(i)) <= r}
<1>1. CASE ~trained
  BY <1>1 DEF Inv!RangeSearch, Inv!Indices
<1>2. CASE trained
  <2>1. {d \in DOMAIN clusters : Inv!Dist(q, centroids[d]) <= 2 * r} = DOMAIN clusters
    BY SMTT(30), <1>2 DEF Filed
  <2>2. Inv!RangeSearch(q, r)
          = {i \in UNION {clusters[c] : c \in DOMAIN clusters} : Inv!Dist(q, Inv!Vector(i)) <= r}
    BY ZenonT(30), <1>2, <2>1 DEF Inv!RangeSearch
  <2>3. (UNION {clusters[c] : c \in DOMAIN clusters}) = DOMAIN points
    BY SMTT(30), <1>2, AllLooked
  <2> QED BY Zenon, <2>2, <2>3
<1> QED BY ZenonT(30), <1>1, <1>2 DEF IvfTypes

\* The best of the others are among the two best of all.
LEMMA SecondBest ==
  ASSUME NEW S, IsFiniteSet(S), NEW i \in S, NEW v
  PROVE  Inv!KBest(v, 1, S \ {i}) \subseteq Inv!KBest(v, 2, S) \ {i}
<1> SUFFICES ASSUME NEW j \in S \ {i},
                    Inv!Cardinality({x \in S \ {i} : Inv!Closer(v, x, j)}) < 1
             PROVE  Inv!Cardinality({x \in S : Inv!Closer(v, x, j)}) < 2
  BY Zenon DEF Inv!KBest
<1> DEFINE A == {x \in S \ {i} : Inv!Closer(v, x, j)}
           B == {x \in S : Inv!Closer(v, x, j)}
<1>1. B \in SUBSET (A \cup {i}) /\ A \in SUBSET S
  BY Zenon
<1>2. Cardinality(A) < 1
  BY Zenon, IvfCardinality
<1> HIDE DEF A, B
<1>3. IsFiniteSet(A)
  BY Zenon, <1>1, FS_Subset
<1>4. Cardinality(A) \in Nat
  BY SMTT(30), <1>3, FS_CardinalityType
<1>5. IsFiniteSet(A \cup {i}) /\ Cardinality(A \cup {i}) <= Cardinality(A) + 1
  <2>1. /\ IsFiniteSet(A \cup {i})
        /\ \/ Cardinality(A \cup {i}) = Cardinality(A)
           \/ Cardinality(A \cup {i}) = Cardinality(A) + 1
    BY ZenonT(30), <1>3, FS_AddElement
  <2> QED BY SMTT(30), <1>4, <2>1
<1>6. IsFiniteSet(B) /\ Cardinality(B) <= Cardinality(A \cup {i})
  BY SMTT(30), <1>1, <1>5, FS_Subset
<1>7. Cardinality(B) \in Nat /\ Cardinality(A \cup {i}) \in Nat
  BY ZenonT(30), <1>5, <1>6, FS_CardinalityType
<1>8. Cardinality(B) < 2
  BY SMTT(30), <1>2, <1>4, <1>5, <1>6, <1>7
<1> QED BY ZenonT(30), <1>8, IvfCardinality DEF B

\* IVF: for any points, centroids and sizes, between calls that did not interleave
\* every point of a trained index is in the cluster of its nearest centroid alone,
\* and searches of all clusters find what a scan of all points would.
THEOREM IvfFindsAll ==
  ASSUME Inv!ConstantsOK PROVE Inv!Spec => [](Inv!TypeOK /\ Inv!PointsFiled)
<1>1. Inv!ConstantsOK
  BY Zenon
<1>2. Inv!New => IvfInv
  BY Zenon, <1>1, IvfInit
<1>3. IvfInv /\ [Inv!Next]_Inv!vars => IvfInv'
  BY Zenon, <1>1, IvfStep
<1>4. ASSUME IvfInv PROVE Inv!TypeOK
  <2>1. IvfTypes
    BY Zenon, <1>4 DEF IvfInv
  <2>2. Len(points) \in Nat /\ points \in Injection(1..Len(points), Ids)
    BY SMTT(30), <2>1 DEF IvfTypes, Injection, IsInjective
  <2>3. IsFiniteSet(Ids)
    BY Zenon, <1>1, IvfFinite DEF Inv!ConstantsOK
  <2>4. Cardinality(1..Len(points)) = Len(points)
    <3>1. \A n \in Nat : Cardinality(1..n) = n
      BY SMTT(30), FS_Interval
    <3> QED BY Zenon, <2>2, <3>1
  <2>5. Len(points) <= Cardinality(Ids)
    BY SMTT(30), <2>2, <2>3, <2>4, FS_Injection
  <2> QED BY SMTT(30), <2>1, <2>5, IvfCardinality DEF IvfTypes, Inv!TypeOK, Inv!Indices, Inserting
<1>5. ASSUME IvfInv PROVE Inv!PointsFiled
  <2> SUFFICES ASSUME insert = Inv!Idle, train = 0, ~overlapped
      PROVE
        /\ trained => \A i \in DOMAIN points : {c \in DOMAIN clusters : i \in clusters[c]}
                                                 = {Inv!FindNearestCentroid(Inv!Vector(i))}
        /\ \A q \in Places, n \in 1..2 :
             Inv!SearchWithParams(q, n, NumClusters) = Inv!KBest(q, n, DOMAIN points)
        /\ \A q \in Places, r \in 0..2 :
             (\A c \in DOMAIN centroids : Inv!Dist(q, centroids[c]) <= 2 * r) =>
               Inv!RangeSearch(q, r) = {i \in DOMAIN points : Inv!Dist(q, Inv!Vector(i)) <= r}
        /\ \A i \in DOMAIN points :
             Inv!KBest(Inv!Vector(i), 1, DOMAIN points \ {i}) \subseteq Inv!Recommend(i, 1)
    BY Zenon DEF Inv!PointsFiled, Inv!Indices
  <2>1. IvfTypes /\ (trained => Centred /\ Filed)
    BY Zenon, <1>5 DEF IvfInv, Alone
  <2>2. trained => \A i \in DOMAIN points : {c \in DOMAIN clusters : i \in clusters[c]}
                                              = {Inv!FindNearestCentroid(Inv!Vector(i))}
    BY Zenon, <2>1 DEF Filed
  <2>3. \A q \in Places, n \in 1..2 :
          Inv!SearchWithParams(q, n, NumClusters) = Inv!KBest(q, n, DOMAIN points)
    BY SMTT(30), <1>1, <2>1, SearchesAll DEF Inv!ConstantsOK
  <2>4. \A q \in Places, r \in 0..2 :
          (\A c \in DOMAIN centroids : Inv!Dist(q, centroids[c]) <= 2 * r) =>
            Inv!RangeSearch(q, r) = {i \in DOMAIN points : Inv!Dist(q, Inv!Vector(i)) <= r}
    BY Zenon, <2>1, RangesAll
  <2>5. ASSUME NEW i \in DOMAIN points
        PROVE  Inv!KBest(Inv!Vector(i), 1, DOMAIN points \ {i}) \subseteq Inv!Recommend(i, 1)
    <3>1. Inv!Vector(i) \in Int
      BY SMTT(30), <1>1, <2>1 DEF Inv!Vector, Inv!ConstantsOK, IvfTypes
    <3>2. Inv!Recommend(i, 1) = Inv!KBest(Inv!Vector(i), 2, DOMAIN points) \ {i}
      BY SMTT(30), <1>1, <2>1, <3>1, SearchesAll DEF Inv!Recommend
    <3>3. IsFiniteSet(DOMAIN points)
      <4>1. \A n \in Nat : IsFiniteSet(1..n)
        BY SMTT(30), FS_Interval
      <4>2. Len(points) \in Nat /\ DOMAIN points = 1..Len(points)
        BY <2>1 DEF IvfTypes
      <4> QED BY Zenon, <4>1, <4>2
    <3> QED BY SMTT(30), <3>2, <3>3, SecondBest
  <2> QED BY SMTT(30), <2>2, <2>3, <2>4, <2>5
<1>6. IvfInv => Inv!TypeOK /\ Inv!PointsFiled
  BY ZenonT(30), <1>4, <1>5
<1> QED
  BY SMTT(30), <1>2, <1>3, <1>6, PTL DEF Inv!Spec
=============================================================================
