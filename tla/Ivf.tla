--------------------------------- MODULE Ivf ---------------------------------
(* The inverted file index of pkg/index/ivf: points are filed under the       *)
(* nearest centroid once the index is trained, and searches look only into    *)
(* the clusters nearest to the query.                                         *)
(*                                                                            *)
(* Vectors are numbers.  K-means may find any centroids: nothing here depends *)
(* on which.  Insert holds buildLock throughout, Train from outside does not  *)
(* take it, and each of their steps below is one critical section.            *)
EXTENDS Integers, Sequences, FiniteSets

CONSTANTS Ids, Position,   \* Position[id]: the vector of a point
          Places,          \* where centroids may be
          NumClusters, TrainingSamples,
          None,
          MaxTrains        \* bound on the calls of Train from outside

VARIABLES points,          \* IVF.points, as ids
          clusters,        \* the indices into points of each cluster
          centroids,       \* KMeans.centroids
          trained,
          trainingBuffer,  \* how many vectors it has; None once it was used up
          deletedCount,
          insert,          \* the Insert under way: where it is, its id and cluster
          train,           \* how many clusters a Train from outside is fitting; 0 for none
          trains,
          overlapped       \* history: a Train and an Insert, or two Trains, interleaved

vars == <<points, clusters, centroids, trained, trainingBuffer, deletedCount, insert, train,
          trains, overlapped>>

Abs(x) == IF x < 0 THEN -x ELSE x
Dist(a, b) == Abs(a - b)
Vector(i) == Position[points[i]]
Indices == DOMAIN points
Idle == [at |-> "idle", id |-> None, cluster |-> -1]

\* How many vectors the buffer has when Insert trains on it.
Buffered == IF TrainingSamples = 0 THEN 1 ELSE TrainingSamples

ConstantsOK == /\ IsFiniteSet(Ids) /\ Position \in [Ids -> Int] /\ Places \subseteq Int
               /\ NumClusters \in Nat \ {0} /\ TrainingSamples \in Nat

New == /\ points = <<>> /\ centroids = <<>> /\ trained = FALSE
       /\ clusters = [c \in 1..NumClusters |-> {}]
       /\ trainingBuffer = 0 /\ deletedCount = 0
       /\ insert = Idle /\ train = 0 /\ trains = 0 /\ overlapped = FALSE
------------------------------------------------------------------------------
(* K-means.                                                                   *)

\* The first of the nearest ones.
FindNearestCentroid(v) ==
  CHOOSE c \in DOMAIN centroids :
    \A d \in DOMAIN centroids :
      LET dc == Dist(v, centroids[c]) dd == Dist(v, centroids[d])
      IN  dc < dd \/ (dc = dd /\ c <= d)

Nearer(v, c, d) ==
  \/ Dist(v, centroids[c]) < Dist(v, centroids[d])
  \/ Dist(v, centroids[c]) = Dist(v, centroids[d]) /\ c < d

FindNearestCentroids(v, n) ==
  {c \in DOMAIN centroids : Cardinality({d \in DOMAIN centroids : Nearer(v, d, c)}) < n}

\* As many clusters as configured, or the root of the number of vectors.
ClustersFor(vectors) ==
  IF NumClusters <= vectors THEN NumClusters
  ELSE CHOOSE r \in 1..vectors : r * r <= vectors /\ (r + 1) * (r + 1) > vectors

KMeansTrain(n) == centroids' \in [1..n -> Places]

\* Mutant: the points that were there before are not filed.
FileNone(n) ==
  /\ trained' = TRUE
  /\ clusters' = [c \in 1..n |-> {}]

\* The second half of Train: all points are filed anew under n clusters.
FileAll(n) ==
  /\ trained' = TRUE
  /\ clusters' = [c \in 1..n |-> {i \in Indices : FindNearestCentroid(Vector(i)) = c}]
------------------------------------------------------------------------------
(* Insert, Train and Delete.                                                  *)

Stored == {points[i] : i \in Indices}

\* Insert up to the moment where it stores the point or starts to train.
Insert(id) ==
  /\ insert.at = "idle" /\ id \notin Stored
  /\ IF trained
     THEN /\ insert' = [at |-> "store", id |-> id, cluster |-> FindNearestCentroid(Position[id])]
          /\ UNCHANGED trainingBuffer
     ELSE LET filled == (IF trainingBuffer = None THEN 0 ELSE trainingBuffer) + 1
              full == filled >= TrainingSamples
          IN  /\ insert' = [at |-> IF full THEN "fit" ELSE "store", id |-> id, cluster |-> -1]
              /\ trainingBuffer' = IF full THEN None ELSE filled
  /\ UNCHANGED <<points, clusters, centroids, trained, deletedCount, train, trains, overlapped>>

\* Train on the buffer, from within Insert.
InsertFits ==
  /\ insert.at = "fit"
  /\ KMeansTrain(ClustersFor(Buffered))
  /\ insert' = [insert EXCEPT !.at = "file"]
  /\ overlapped' = (overlapped \/ train # 0)
  /\ UNCHANGED <<points, clusters, trained, trainingBuffer, deletedCount, train, trains>>

\* With the choice of a cluster for the point itself, in insertTrained.
InsertFiles ==
  /\ insert.at = "file"
  /\ FileAll(ClustersFor(Buffered))
  /\ insert' = [insert EXCEPT !.at = "store", !.cluster = FindNearestCentroid(Position[insert.id])]
  /\ UNCHANGED <<points, centroids, trainingBuffer, deletedCount, train, trains, overlapped>>

\* A cluster that a Train has taken away in the meantime is a nil pointer.
storePoint ==
  /\ insert.at = "store"
  /\ insert.cluster = -1 \/ insert.cluster \in DOMAIN clusters
  /\ points' = Append(points, insert.id)
  /\ clusters' = IF insert.cluster = -1 THEN clusters
                 ELSE [clusters EXCEPT ![insert.cluster] = @ \cup {Len(points) + 1}]
  /\ insert' = Idle
  /\ UNCHANGED <<centroids, trained, trainingBuffer, deletedCount, train, trains, overlapped>>

\* Train from outside, on as many vectors as there are points.
Train ==
  /\ train = 0 /\ trains < MaxTrains /\ points # <<>>
  /\ train' = ClustersFor(Len(points))
  /\ KMeansTrain(train')
  /\ trains' = trains + 1
  /\ overlapped' = (overlapped \/ insert # Idle)
  /\ UNCHANGED <<points, clusters, trained, trainingBuffer, deletedCount, insert>>

TrainFiles ==
  /\ train # 0
  /\ FileAll(train)
  /\ train' = 0
  /\ overlapped' = (overlapped \/ insert # Idle)
  /\ UNCHANGED <<points, centroids, trainingBuffer, deletedCount, insert, trains>>

\* Delete counts; the point stays in its cluster.
Delete(id) ==
  /\ id \in Stored /\ deletedCount < Len(points)
  /\ deletedCount' = deletedCount + 1
  /\ UNCHANGED <<points, clusters, centroids, trained, trainingBuffer, insert, train, trains,
                 overlapped>>

Next == \/ \E id \in Ids : Insert(id) \/ Delete(id)
        \/ InsertFits \/ InsertFiles \/ storePoint \/ Train \/ TrainFiles

Spec == New /\ [][Next]_vars
------------------------------------------------------------------------------
(* Searches.                                                                  *)

Closer(q, i, j) == Dist(q, Vector(i)) < Dist(q, Vector(j))

\* The heap keeps k points such that none left out is closer.
KBest(q, k, S) ==
  {i \in S : Cardinality({j \in S : Closer(q, j, i)}) < k}

SearchWithParams(q, k, nprobe) ==
  IF trained
  THEN KBest(q, k, UNION {clusters[c] : c \in FindNearestCentroids(q, nprobe) \cap DOMAIN clusters})
  ELSE KBest(q, k, Indices)

RangeSearch(q, radius) ==
  LET looked == IF ~trained THEN Indices
                ELSE UNION {clusters[c] : c \in {d \in DOMAIN clusters :
                                                   Dist(q, centroids[d]) <= 2 * radius}}
  IN  {i \in looked : Dist(q, Vector(i)) <= radius}

Recommend(i, k) == SearchWithParams(Vector(i), k + 1, NumClusters) \ {i}
------------------------------------------------------------------------------
TypeOK == /\ Len(points) <= Cardinality(Ids)
          /\ \A c \in DOMAIN clusters : clusters[c] \subseteq Indices
          /\ trainingBuffer = None \/ trainingBuffer \in 0..TrainingSamples
          /\ insert.at \in {"idle", "fit", "file", "store"}

\* Between calls, every point of a trained index is filed under its nearest
\* centroid and under no other, whether it came before, with or after the
\* training, unless an Insert and a Train interleaved.  So a search of all
\* clusters is exact, RangeSearch finds all near points around which the
\* clusters are near, and the points that Recommend returns are the nearest.
PointsFiled ==
  insert = Idle /\ train = 0 /\ ~overlapped =>
    /\ trained => \A i \in Indices : {c \in DOMAIN clusters : i \in clusters[c]}
                                       = {FindNearestCentroid(Vector(i))}
    /\ \A q \in Places, k \in 1..2 : SearchWithParams(q, k, NumClusters) = KBest(q, k, Indices)
    /\ \A q \in Places, r \in 0..2 :
         (\A c \in DOMAIN centroids : Dist(q, centroids[c]) <= 2 * r) =>
           RangeSearch(q, r) = {i \in Indices : Dist(q, Vector(i)) <= r}
    /\ \A i \in Indices : KBest(Vector(i), 1, Indices \ {i}) \subseteq Recommend(i, 1)
==============================================================================
