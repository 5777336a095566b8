-------------------------------- MODULE Hybrid -------------------------------
(* Hybrid search: the inverted index of pkg/index/sparse beside the nodes of  *)
(* the HNSW index, as pkg/collection keeps the two in step, and the fusion    *)
(* of their two result lists by reciprocal ranks.                             *)
(*                                                                            *)
(* A dense search is exact here, as the graph of a small collection is; the   *)
(* entry node, the first one, is a candidate even when it is deleted.         *)
EXTENDS Integers, Sequences, FiniteSets

CONSTANTS Ids,
          Dense,        \* dense vectors, numbers
          Dims,         \* dimensions of a sparse vector
          Sparse,       \* sparse vectors, functions on sets of dimensions
          NoSparse,
          K             \* results asked for

VARIABLES nodes,         \* the points of the nodes, their sparse vector as it was given
          idToIndex,     \* the node of each id
          postingLists,
          docCount,
          indexed        \* history: the nodes that came by Insert

vars == <<nodes, idToIndex, postingLists, docCount, indexed>>

Init == /\ nodes = <<>> /\ idToIndex = <<>> /\ indexed = {}
        /\ postingLists = [d \in Dims |-> <<>>] /\ docCount = 0

SetOf(s) == {s[i] : i \in DOMAIN s}
Live == {n \in DOMAIN nodes : ~nodes[n].deleted}
Known(id) == id \in DOMAIN idToIndex
------------------------------------------------------------------------------
(* Writing.                                                                   *)

Add(lists, n, vec) ==
  [d \in Dims |-> IF d \in DOMAIN vec THEN Append(lists[d], [doc |-> n, value |-> vec[d]])
                  ELSE lists[d]]

\* Mutant: the postings of the first dimension only.
RemoveFirst(lists, n) ==
  [d \in Dims |-> IF \A e \in Dims : d <= e THEN SelectSeq(lists[d], LAMBDA p : p.doc # n)
                  ELSE lists[d]]

Remove(lists, n) == [d \in Dims |-> SelectSeq(lists[d], LAMBDA p : p.doc # n)]

MarkDeleted(id) == [nodes EXCEPT ![idToIndex[id]].deleted = TRUE]

NewNode(id, v, vec) ==
  /\ nodes' = Append(nodes, [id |-> id, vec |-> v, sparse |-> vec, deleted |-> FALSE])
  /\ idToIndex' = [i \in DOMAIN idToIndex \cup {id} |->
                     IF i = id THEN Len(nodes) + 1 ELSE idToIndex[i]]

\* insertInternal; an id whose node is deleted is refused too.
Insert(id, v, vec) ==
  /\ ~Known(id)
  /\ NewNode(id, v, vec)
  /\ indexed' = indexed \cup {Len(nodes) + 1}
  /\ IF vec = NoSparse THEN UNCHANGED <<postingLists, docCount>>
     ELSE postingLists' = Add(postingLists, Len(nodes) + 1, vec) /\ docCount' = docCount + 1

\* InsertV2 does not look at the sparse vector.
InsertV2(id, v, vec) ==
  /\ ~Known(id)
  /\ NewNode(id, v, vec)
  /\ UNCHANGED <<postingLists, docCount, indexed>>

\* upsertInternal puts a new point into the dense index only; one that is there
\* is taken out of both indexes, and its id is then refused.
Upsert(id) ==
  /\ IF Known(id)
     THEN /\ nodes' = MarkDeleted(id) /\ UNCHANGED idToIndex
          /\ postingLists' = Remove(postingLists, idToIndex[id])
     ELSE /\ \E v \in Dense, vec \in Sparse \cup {NoSparse} : NewNode(id, v, vec)
          /\ UNCHANGED postingLists
  /\ UNCHANGED <<docCount, indexed>>

\* deleteInternal; a deletion again changes nothing.
Delete(id) ==
  /\ Known(id)
  /\ nodes' = MarkDeleted(id)
  /\ postingLists' = Remove(postingLists, idToIndex[id])
  /\ UNCHANGED <<idToIndex, docCount, indexed>>

Next == \E id \in Ids :
          \/ \E v \in Dense, vec \in Sparse \cup {NoSparse} :
               Insert(id, v, vec) \/ InsertV2(id, v, vec)
          \/ Upsert(id) \/ Delete(id)

Spec == Init /\ [][Next]_vars
------------------------------------------------------------------------------
(* Searching.                                                                 *)

Abs(x) == IF x < 0 THEN -x ELSE x

\* The lists of n members of S with the least keys, in order; ties in any order.
RECURSIVE Ordered(_, _, _)
Ordered(S, n, key) ==
  IF n = 0 \/ S = {} THEN {<<>>}
  ELSE UNION {{<<x>> \o rest : rest \in Ordered(S \ {x}, n - 1, key)} :
                x \in {y \in S : \A z \in S : key[y] <= key[z]}}

DenseSearch(q) ==
  LET found == Ordered(Live \cup (IF nodes = <<>> THEN {} ELSE {1}), K,
                       [n \in DOMAIN nodes |-> Abs(q - nodes[n].vec)])
  IN  {SelectSeq(s, LAMBDA n : n \in Live) : s \in found}

RECURSIVE Dot(_, _, _)
Dot(query, n, dims) ==
  IF dims = {} THEN 0
  ELSE LET d == CHOOSE x \in dims : TRUE
           values == SelectSeq(postingLists[d], LAMBDA p : p.doc = n)
       IN  (IF values = <<>> THEN 0 ELSE query[d] * values[1].value) + Dot(query, n, dims \ {d})

\* Every document with a posting in one of the query's dimensions, by its dot
\* product with the query.
SparseSearch(query) ==
  LET docs == UNION {{p.doc : p \in SetOf(postingLists[d])} : d \in DOMAIN query}
  IN  Ordered(docs, K, [n \in docs |-> -Dot(query, n, DOMAIN query)])

\* 1 / (60 + rank), over a common denominator for the first three ranks.
Reciprocal(rank) == (61 * 62 * 63) \div (60 + rank)

Score(list, n) ==
  LET at == {i \in DOMAIN list : list[i] = n}
  IN  IF at = {} THEN 0 ELSE Reciprocal(CHOOSE i \in at : TRUE)

\* Mutant: the sparse result replaces the dense one.
fuseLast(dense, sparse) ==
  LET docs == SetOf(dense) \cup SetOf(sparse)
  IN  Ordered(docs, K, [n \in docs |-> IF n \in SetOf(sparse) THEN -Score(sparse, n)
                                       ELSE -Score(dense, n)])

fuseRRF(dense, sparse) ==
  LET docs == SetOf(dense) \cup SetOf(sparse)
  IN  Ordered(docs, K, [n \in docs |-> -(Score(dense, n) + Score(sparse, n))])

\* Results that are not there any more are dropped at the end.
Fused(dense, sparse) == {SelectSeq(s, LAMBDA n : n \in Live) : s \in fuseRRF(dense, sparse)}
------------------------------------------------------------------------------
TypeOK == /\ Len(nodes) <= Cardinality(Ids)
          /\ \A id \in DOMAIN idToIndex : nodes[idToIndex[id]].id = id
          /\ docCount \in 0..Len(nodes)

\* After any sequence of inserts, upserts and deletions, the sparse index holds
\* the sparse vector of each live point that was inserted, in full and once, and
\* nothing of a point that was deleted or replaced.
SparseInStep ==
  \A n \in DOMAIN nodes, d \in Dims :
    LET posted == SelectSeq(postingLists[d], LAMBDA p : p.doc = n)
        vec == nodes[n].sparse
    IN  posted = IF n \in Live \cap indexed /\ vec # NoSparse /\ d \in DOMAIN vec
                 THEN <<[doc |-> n, value |-> vec[d]]>> ELSE <<>>

\* The place of n in a list, one after the last when it is not there.
Place(list, n) == IF n \in SetOf(list) THEN CHOOSE i \in DOMAIN list : list[i] = n ELSE K + 1

\* A hybrid search returns live points only, and a point that is nowhere behind
\* another in the two lists, and ahead in one, is not behind it in the result.
HybridRanks ==
  \A q \in Dense, query \in Sparse :
    \A dense \in DenseSearch(q), sparse \in SparseSearch(query) :
      \A result \in Fused(dense, sparse) :
        /\ SetOf(result) \subseteq Live
        /\ \A m, n \in SetOf(dense) \cup SetOf(sparse) :
             /\ Place(dense, m) <= Place(dense, n) /\ Place(sparse, m) <= Place(sparse, n)
             /\ <<Place(dense, m), Place(sparse, m)>> # <<Place(dense, n), Place(sparse, n)>>
             => Place(result, m) <= Place(result, n)
==============================================================================
