-------------------------------- MODULE Scann --------------------------------
(* The ScaNN index of pkg/index/scann: points are kept in the leaves of a     *)
(* tree that Train builds, and found by a first pass over the codes of the    *)
(* nearest leaves and an exact second pass.                                   *)
(*                                                                            *)
(* Vectors are numbers, so the tree splits one dimension.  Which codes the    *)
(* quantizer learns is left open: a codebook is any set of places.  Insert    *)
(* holds buildLock throughout, a call of Train from outside does not.         *)
EXTENDS Integers, Sequences, FiniteSets

CONSTANTS Ids, Position,   \* Position[id]: the vector of a point
          Codebooks,       \* what the quantizer may learn
          NumLeaves, TrainingSamples,
          None,
          MaxTrains        \* bound on the calls of Train from outside

VARIABLES points,          \* ids, vectors and whether they have a code
          trained, codebook, tree,
          leaves,          \* leaves[l]: the centroid and the points of a leaf
          trainingBuffer,
          deletedCount,
          insert, train,   \* where the insert and the call of Train are
          trains,
          overlapped       \* history: an insert ran between the steps of a Train

vars == <<points, trained, codebook, tree, leaves, trainingBuffer, deletedCount, insert, train,
          trains, overlapped>>

Idle == [at |-> "idle", id |-> None, vectors |-> <<>>]

New ==
  /\ points = <<>> /\ trained = FALSE /\ codebook = {} /\ tree = None /\ leaves = <<>>
  /\ trainingBuffer = <<>> /\ deletedCount = 0 /\ insert = Idle /\ train = Idle
  /\ trains = 0 /\ overlapped = FALSE

Abs(x) == IF x < 0 THEN -x ELSE x
SetOf(s) == {s[i] : i \in DOMAIN s}
Smallest(S) == CHOOSE x \in S : \A y \in S : x <= y
------------------------------------------------------------------------------
(* TreePartitioner.                                                           *)

RECURSIVE Sorted(_)
Sorted(s) ==
  IF s = <<>> THEN <<>>
  ELSE LET least == Smallest(SetOf(s))
           i == Smallest({j \in DOMAIN s : s[j] = least})
       IN  <<least>> \o Sorted([j \in 1..(Len(s) - 1) |-> IF j < i THEN s[j] ELSE s[j + 1]])

median(s) == Sorted(s)[Len(s) \div 2 + 1]

RECURSIVE Total(_)
Total(s) == IF s = <<>> THEN 0 ELSE Head(s) + Total(Tail(s))

computeCentroid(s) == [sum |-> Total(s), n |-> Len(s)]

\* The tree over the vectors s out of size many, with the leaves made so far.
\* A split that puts all on one side halves the list instead, and keeps its value.
RECURSIVE buildTree(_, _, _, _)
buildTree(s, size, numLeaves, made) ==
  IF Len(s) <= size \div numLeaves \/ Len(made) >= numLeaves - 1
  THEN [node |-> [leaf |-> Len(made) + 1],
        made |-> Append(made, [centroid |-> computeCentroid(s), ids |-> <<>>])]
  ELSE LET split == median(s)
           low == SelectSeq(s, LAMBDA x : x <= split)
           high == SelectSeq(s, LAMBDA x : x > split)
           half == Len(low) \div 2
           l == buildTree(IF high = <<>> THEN SubSeq(low, 1, half) ELSE low, size, numLeaves, made)
           r == buildTree(IF high = <<>> THEN SubSeq(low, half + 1, Len(low)) ELSE high,
                          size, numLeaves, l.made)
       IN  [node |-> [split |-> split, left |-> l.node, right |-> r.node], made |-> r.made]

RECURSIVE findLeaf(_, _)
findLeaf(node, v) ==
  IF "leaf" \in DOMAIN node THEN node.leaf
  ELSE findLeaf(IF v <= node.split THEN node.left ELSE node.right, v)

Add(lv, i, v) == [lv EXCEPT ![findLeaf(tree, v)].ids = Append(@, i)]

\* Mutant: only the points without a code are filed.
RECURSIVE AddUncoded(_, _)
AddUncoded(lv, i) ==
  IF i > Len(points) THEN lv
  ELSE AddUncoded(IF points[i].coded THEN lv ELSE Add(lv, i, points[i].vec), i + 1)

\* All the points from number i on.
RECURSIVE AddAll(_, _)
AddAll(lv, i) == IF i > Len(points) THEN lv ELSE AddAll(Add(lv, i, points[i].vec), i + 1)

\* The centroids compared with the query, without dividing.
Nearer(q, a, b) == Abs(q * a.n - a.sum) * b.n < Abs(q * b.n - b.sum) * a.n

\* The n leaves with the nearest centroids, the first of equal ones.
RECURSIVE Nearest(_, _, _)
Nearest(q, n, from) ==
  IF n = 0 \/ from = {} THEN {}
  ELSE LET best == CHOOSE l \in from :
                     \A m \in from \ {l} :
                       \/ Nearer(q, leaves[l].centroid, leaves[m].centroid)
                       \/ l < m /\ ~Nearer(q, leaves[m].centroid, leaves[l].centroid)
       IN  {best} \cup Nearest(q, n - 1, from \ {best})

FindNearestLeaves(q, n) == Nearest(q, n, DOMAIN leaves)
------------------------------------------------------------------------------
(* Insert, Train and Delete.                                                  *)

LeavesFor(n) == IF NumLeaves > n THEN Smallest({r \in 1..n : (r + 1) * (r + 1) > n}) ELSE NumLeaves

\* The quantizer and the partitioner are replaced, without a lock.
Fit(vectors) ==
  \E book \in Codebooks :
    LET built == buildTree(vectors, Len(vectors), LeavesFor(Len(vectors)), <<>>)
    IN  codebook' = book /\ tree' = built.node /\ leaves' = built.made

FileAll ==
  /\ trained' = TRUE
  /\ leaves' = AddAll(leaves, 1)
  /\ points' = [i \in DOMAIN points |-> [points[i] EXCEPT !.coded = TRUE]]

Insert(id) ==
  /\ insert = Idle
  /\ \A i \in DOMAIN points : points[i].id # <<id>>
  /\ IF trained
     THEN insert' = [at |-> "coded", id |-> id, vectors |-> <<>>] /\ UNCHANGED trainingBuffer
     ELSE /\ trainingBuffer' = Append(trainingBuffer, Position[id])
          /\ insert' = [at |-> IF Len(trainingBuffer') >= TrainingSamples THEN "fit" ELSE "plain",
                        id |-> id, vectors |-> trainingBuffer']
  /\ UNCHANGED <<points, trained, codebook, tree, leaves, deletedCount, train, trains, overlapped>>

InsertFits ==
  /\ insert.at = "fit"
  /\ Fit(insert.vectors)
  /\ insert' = [insert EXCEPT !.at = "file"]
  /\ overlapped' = (overlapped \/ train # Idle)
  /\ UNCHANGED <<points, trained, trainingBuffer, deletedCount, train, trains>>

InsertFiles ==
  /\ insert.at = "file"
  /\ FileAll
  /\ trainingBuffer' = <<>>
  /\ insert' = [insert EXCEPT !.at = "temps"]
  /\ UNCHANGED <<codebook, tree, deletedCount, train, trains, overlapped>>

Stored(id, v, coded) ==
  /\ points' = Append(points, [id |-> id, vec |-> v, coded |-> coded])
  /\ leaves' = IF trained /\ tree # None THEN Add(leaves, Len(points) + 1, v) ELSE leaves

\* The buffered vectors are stored once more, under names of their own.
InsertTemp ==
  /\ insert.at = "temps" /\ insert.vectors # <<>>
  /\ Stored(<<insert.id, Len(insert.vectors)>>, Head(insert.vectors), TRUE)
  /\ insert' = [insert EXCEPT !.vectors = Tail(@),
                              !.at = IF Len(insert.vectors) = 1 THEN "coded" ELSE "temps"]
  /\ overlapped' = (overlapped \/ train # Idle)
  /\ UNCHANGED <<trained, codebook, tree, trainingBuffer, deletedCount, train, trains>>

storePoint ==
  /\ insert.at \in {"plain", "coded"}
  /\ Stored(<<insert.id>>, Position[insert.id], insert.at = "coded")
  /\ insert' = Idle
  /\ overlapped' = (overlapped \/ train # Idle)
  /\ UNCHANGED <<trained, codebook, tree, trainingBuffer, deletedCount, train, trains>>

\* Train from outside, with vectors of its own.
Train(vectors) ==
  /\ train = Idle /\ trains < MaxTrains
  /\ Fit(vectors)
  /\ train' = [Idle EXCEPT !.at = "file"]
  /\ trains' = trains + 1
  /\ overlapped' = (overlapped \/ insert.at = "file")
  /\ UNCHANGED <<points, trained, trainingBuffer, deletedCount, insert>>

TrainFiles ==
  /\ train.at = "file"
  /\ FileAll
  /\ train' = Idle
  /\ UNCHANGED <<codebook, tree, trainingBuffer, deletedCount, insert, trains, overlapped>>

\* Delete only counts.
Delete(id) ==
  /\ \E i \in DOMAIN points : points[i].id = <<id>>
  /\ deletedCount < Cardinality(Ids)
  /\ deletedCount' = deletedCount + 1
  /\ UNCHANGED <<points, trained, codebook, tree, leaves, trainingBuffer, insert, train, trains,
                 overlapped>>

Next == \/ \E id \in Ids : Insert(id) \/ Delete(id)
        \/ InsertFits \/ InsertFiles \/ InsertTemp \/ storePoint
        \/ \E id, other \in Ids : Train(<<Position[id], Position[other]>>)
        \/ TrainFiles

Spec == New /\ [][Next]_vars
------------------------------------------------------------------------------
(* Searching.                                                                 *)

Encode(v) == CHOOSE c \in codebook : \A d \in codebook : Abs(v - c) < Abs(v - d) \/ c <= d

\* The distance of the first pass: to the code, or to the vector without one.
LookupDistance(q, i) == IF points[i].coded THEN Abs(q - Encode(points[i].vec))
                        ELSE Abs(q - points[i].vec)

\* Sets of which the one is n members of C with the least first distances.
Kept(q, n, C) ==
  {S \in SUBSET C : /\ Cardinality(S) = Smallest({n, Cardinality(C)})
                    /\ \A i \in S, j \in C \ S : LookupDistance(q, i) <= LookupDistance(q, j)}

getApproximateCandidates(q, numLeaves, numRerank) ==
  Kept(q, numRerank, UNION {SetOf(leaves[l].ids) : l \in FindNearestLeaves(q, numLeaves)})

\* The distances of the k nearest members of S.
RECURSIVE KNearest(_, _, _)
KNearest(q, k, S) ==
  IF k = 0 \/ S = {} THEN <<>>
  ELSE LET i == CHOOSE i \in S : \A j \in S : Abs(q - points[i].vec) <= Abs(q - points[j].vec)
       IN  <<Abs(q - points[i].vec)>> \o KNearest(q, k - 1, S \ {i})

\* What a search may return, as the distances of its results.
SearchWithParams(q, k, numLeaves, numRerank) ==
  IF ~trained THEN {KNearest(q, k, DOMAIN points)}
  ELSE {KNearest(q, k, S) : S \in getApproximateCandidates(q, numLeaves, numRerank)}

\* Leaves whose centroid is more than two radiuses away are not looked at.
RangeSearch(q, radius) ==
  LET near == {l \in DOMAIN leaves : Abs(q * leaves[l].centroid.n - leaves[l].centroid.sum)
                                       <= 2 * radius * leaves[l].centroid.n}
      from == IF trained THEN UNION {SetOf(leaves[l].ids) : l \in near} ELSE DOMAIN points
  IN  {i \in from : Abs(q - points[i].vec) <= radius}
------------------------------------------------------------------------------
TypeOK == /\ \A i \in DOMAIN points : points[i].id[1] \in Ids
          /\ \A l \in DOMAIN leaves : SetOf(leaves[l].ids) \subseteq DOMAIN points
          /\ insert.at \in {"idle", "fit", "file", "temps", "plain", "coded"}
          /\ train.at \in {"idle", "file"}

\* Between trainings every stored point is in the leaf that its vector leads to,
\* once unless an insert ran during a training, and in no other.  So a search of
\* all leaves that reranks all candidates returns the nearest of all the points,
\* trained or not, and RangeSearch returns only points within the radius.
ScannFinds ==
  train = Idle /\ insert.at # "file" =>
    /\ trained =>
         \A i \in DOMAIN points, l \in DOMAIN leaves :
           LET times == Cardinality({k \in DOMAIN leaves[l].ids : leaves[l].ids[k] = i})
           IN  IF findLeaf(tree, points[i].vec) = l THEN times = 1 \/ (overlapped /\ times > 0)
               ELSE times = 0
    /\ \A id \in Ids :
         LET q == Position[id] all == DOMAIN points IN
         /\ SearchWithParams(q, 2, Len(leaves), Cardinality(all)) = {KNearest(q, 2, all)}
         /\ \A i \in RangeSearch(q, 1) : Abs(q - points[i].vec) <= 1
==============================================================================
