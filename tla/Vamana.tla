------------------------------- MODULE Vamana --------------------------------
(* The DiskANN index of pkg/index/diskann: a graph with at most maxDegree     *)
(* edges out of a node, built by inserts and searched from one entry node.    *)
(*                                                                            *)
(* Vectors are numbers with pairwise different distances, so that every sort  *)
(* has one outcome.  Insert gives g.mu back between its four steps, so the    *)
(* steps of several calls interleave.                                         *)
EXTENDS Integers, Sequences, FiniteSets

CONSTANTS Ids, Position,   \* Position[id]: the vector of a point
          Callers,
          maxDegree, searchL,
          AlphaTenths,     \* alpha is 1.2 by default
          None,
          MaxDeletes

VARIABLES nodes,           \* the ids of the nodes, in the order of their numbers
          neighbors,       \* neighbors[n]: the list of node n
          deleted,
          entryNode,
          nodeCount, deletedCount,
          call,            \* what each caller does: where it is, its node and candidates
          build,           \* the nodes that BuildIndex has yet to link, or None
          locked           \* g.mu is held for writing for good

vars == <<nodes, neighbors, deleted, entryNode, nodeCount, deletedCount, call, build, locked>>

Idle == [at |-> "idle", op |-> "insert", node |-> 0, cands |-> {}]

NewVamanaGraph ==
  /\ nodes = <<>> /\ neighbors = <<>> /\ deleted = {} /\ entryNode = 1
  /\ nodeCount = 0 /\ deletedCount = 0
  /\ call = [c \in Callers |-> Idle]
  /\ build = None /\ locked = FALSE

Abs(x) == IF x < 0 THEN -x ELSE x
Vec(n) == Position[nodes[n]]
Dist(q, n) == Abs(q - Vec(n))
SetOf(s) == {s[i] : i \in DOMAIN s}

RECURSIVE ByDistance(_, _)
ByDistance(q, S) ==
  IF S = {} THEN <<>>
  ELSE LET n == CHOOSE m \in S : \A o \in S : Dist(q, m) <= Dist(q, o)
       IN  <<n>> \o ByDistance(q, S \ {n})
------------------------------------------------------------------------------
(* BeamSearch.                                                                *)

Closest(q, S) == CHOOSE n \in S : \A m \in S : Dist(q, n) <= Dist(q, m)
Farthest(q, S) == CHOOSE n \in S : \A m \in S : Dist(q, n) >= Dist(q, m)

\* The neighbours in list, one after the other: w holds the candidates, the
\* results and the nodes visited.
RECURSIVE Visit(_, _, _, _)
Visit(q, L, list, w) ==
  IF list = <<>> THEN w
  ELSE LET n == Head(list)
           seen == [w EXCEPT !.visited = @ \cup {n}]
           kept == w.results \cup {n}
           next == IF n \in w.visited \/ n \in deleted THEN seen
                   ELSE IF Cardinality(w.results) < L
                           \/ Dist(q, n) < Dist(q, Farthest(q, w.results))
                   THEN [candidates |-> w.candidates \cup {n}, visited |-> seen.visited,
                         results |-> IF Cardinality(kept) > L THEN kept \ {Farthest(q, kept)}
                                     ELSE kept]
                   ELSE seen
       IN  Visit(q, L, Tail(list), next)

\* Mutant: the search ends at the first candidate that is no better than the best.
StopEarly(q, L, w) ==
  Dist(q, Closest(q, w.candidates)) > Dist(q, Closest(q, w.results))

Stop(q, L, w) ==
  /\ Cardinality(w.results) >= L
  /\ Dist(q, Closest(q, w.candidates)) > Dist(q, Farthest(q, w.results))

RECURSIVE Beam(_, _, _)
Beam(q, L, w) ==
  IF w.candidates = {} \/ Stop(q, L, w) THEN w.results
  ELSE LET n == Closest(q, w.candidates)
       IN  Beam(q, L, Visit(q, L, neighbors[n], [w EXCEPT !.candidates = @ \ {n}]))

Start == [candidates |-> {entryNode}, results |-> {entryNode}, visited |-> {entryNode}]

BeamSearch(q, L) == Beam(q, L, Start)

\* The filtered search stops when it has enough; out are the nodes that passed.
RECURSIVE FilteredBeam(_, _, _, _, _, _)
FilteredBeam(q, L, K, pass, w, out) ==
  IF w.candidates = {} \/ Cardinality(out) >= 2 * K THEN out
  ELSE LET n == Closest(q, w.candidates)
           now == IF n \in pass \ deleted THEN out \cup {n} ELSE out
       IN  IF Stop(q, L, w) THEN now
           ELSE FilteredBeam(q, L, K, pass,
                             Visit(q, L, neighbors[n], [w EXCEPT !.candidates = @ \ {n}]), now)

SearchWithFilter(q, L, K, pass) ==
  LET found == ByDistance(q, FilteredBeam(q, L, K, pass, Start, {}))
  IN  SubSeq(found, 1, IF Len(found) < K THEN Len(found) ELSE K)

RECURSIVE Spread(_, _, _)
Spread(queue, visited, out) ==
  IF queue = <<>> THEN out
  ELSE LET n == Head(queue)
           new == SelectSeq(neighbors[n], LAMBDA m : m \notin visited)
       IN  IF n \in deleted THEN Spread(Tail(queue), visited, out)
           ELSE Spread(Tail(queue) \o new, visited \cup SetOf(new), out \cup {n})

RangeSearch(q, radius) ==
  {n \in Spread(<<entryNode>>, {entryNode}, {}) : Dist(q, n) <= radius}
------------------------------------------------------------------------------
(* Pruning and linking.                                                       *)

RECURSIVE Diverse(_, _, _)
Diverse(q, pool, chosen) ==
  IF pool = <<>> \/ Len(chosen) >= maxDegree THEN chosen
  ELSE LET p == Head(pool)
           close == \E n \in SetOf(chosen) : AlphaTenths * Dist(Vec(p), n) <= 10 * Dist(q, p)
       IN  Diverse(q, Tail(pool), IF close THEN chosen ELSE Append(chosen, p))

Pool(nb, n, cands) == ByDistance(Vec(n), ((SetOf(nb[n]) \cup cands) \ {n}) \ deleted)

robustPruneInternal(nb, n, cands) ==
  [nb EXCEPT ![n] = Diverse(Vec(n), Pool(nb, n, cands), <<>>)]

SimplePrune(nb, n, cands) ==
  LET pool == Pool(nb, n, cands)
  IN  [nb EXCEPT ![n] = SubSeq(pool, 1, IF Len(pool) < maxDegree THEN Len(pool) ELSE maxDegree)]

AddNeighbor(nb, n, m) ==
  IF m \in SetOf(nb[n]) \/ Len(nb[n]) >= maxDegree THEN nb ELSE [nb EXCEPT ![n] = Append(@, m)]

\* The edges back to n from each of its neighbours in list; a full list is
\* pruned by addReverseEdges, and left as it is by Insert.
RECURSIVE addReverseEdges(_, _, _, _)
addReverseEdges(nb, n, list, prunes) ==
  IF list = <<>> THEN nb
  ELSE LET m == Head(list)
           one == IF prunes /\ Len(nb[m]) >= maxDegree THEN robustPruneInternal(nb, m, {n})
                  ELSE AddNeighbor(nb, m, n)
       IN  addReverseEdges(one, n, Tail(list), prunes)
------------------------------------------------------------------------------
(* Insert and IncrementalInsert, step by step, Delete and BuildIndex.         *)

Create(c, id, op) ==
  /\ ~locked /\ call[c].at = "idle" /\ build = None
  /\ id \notin SetOf(nodes)
  /\ nodes' = Append(nodes, id)
  /\ neighbors' = Append(neighbors, <<>>)
  /\ nodeCount' = IF op = "insert" THEN nodeCount + 1 ELSE nodeCount
  /\ call' = IF nodes = <<>> THEN call
             ELSE [call EXCEPT ![c] = [at |-> "search", op |-> op, node |-> Len(nodes) + 1,
                                       cands |-> {}]]
  /\ UNCHANGED <<deleted, entryNode, deletedCount, build, locked>>

Search(c) ==
  /\ ~locked /\ call[c].at = "search"
  /\ call' = [call EXCEPT ![c].at = "prune",
                          ![c].cands = BeamSearch(Vec(call[c].node), searchL)]
  /\ UNCHANGED <<nodes, neighbors, deleted, entryNode, nodeCount, deletedCount, build, locked>>

RobustPrune(c) ==
  /\ ~locked /\ call[c].at = "prune"
  /\ neighbors' = robustPruneInternal(neighbors, call[c].node, call[c].cands)
  /\ call' = [call EXCEPT ![c].at = "link", ![c].cands = {}]
  /\ UNCHANGED <<nodes, deleted, entryNode, nodeCount, deletedCount, build, locked>>

Link(c) ==
  /\ ~locked /\ call[c].at = "link"
  /\ neighbors' = addReverseEdges(neighbors, call[c].node, neighbors[call[c].node],
                                  call[c].op = "incremental")
  /\ call' = [call EXCEPT ![c] = Idle]
  /\ UNCHANGED <<nodes, deleted, entryNode, nodeCount, deletedCount, build, locked>>

\* Deleting a point again is not refused, and counted again.
Delete(n) ==
  /\ ~locked /\ n \in DOMAIN nodes /\ deletedCount < MaxDeletes
  /\ deleted' = deleted \cup {n}
  /\ deletedCount' = deletedCount + 1
  /\ UNCHANGED <<nodes, neighbors, entryNode, nodeCount, call, build, locked>>

\* BuildIndex on an empty graph, with the points in any order.
BuildIndex ==
  /\ ~locked /\ nodes = <<>> /\ build = None
  /\ \E k \in 2..Cardinality(Ids) : \E order \in [1..k -> Ids] :
       /\ \A i, j \in 1..k : i # j => order[i] # order[j]
       /\ nodes' = order
       /\ neighbors' = [i \in 1..k |-> <<>>]
       /\ build' = 1..k
  /\ UNCHANGED <<deleted, entryNode, nodeCount, deletedCount, call, locked>>

\* The first pass, over the nodes in a shuffled order.
BuildNode(n) ==
  /\ ~locked /\ build # None /\ n \in build
  /\ LET pruned == SimplePrune(neighbors, n, BeamSearch(Vec(n), searchL))
     IN  neighbors' = addReverseEdges(pruned, n, pruned[n], TRUE)
  /\ build' = build \ {n}
  /\ UNCHANGED <<nodes, deleted, entryNode, nodeCount, deletedCount, call, locked>>

\* The first pass ends with ComputeMedoid under g.mu, which asks for g.mu again:
\* neither this goroutine nor another that needs the lock goes on.
BuildMedoid ==
  /\ ~locked /\ build = {}
  /\ locked' = TRUE
  /\ UNCHANGED <<nodes, neighbors, deleted, entryNode, nodeCount, deletedCount, call, build>>

Next == \/ \E c \in Callers :
             \/ \E id \in Ids, op \in {"insert", "incremental"} : Create(c, id, op)
             \/ Search(c) \/ RobustPrune(c) \/ Link(c)
        \/ \E n \in 1..Cardinality(Ids) : Delete(n) \/ BuildNode(n)
        \/ BuildIndex \/ BuildMedoid

Spec == NewVamanaGraph /\ [][Next]_vars
------------------------------------------------------------------------------
TypeOK == /\ SetOf(nodes) \subseteq Ids /\ Len(neighbors) = Len(nodes)
          /\ deleted \subseteq DOMAIN nodes
          /\ nodeCount \in 0..Len(nodes) /\ deletedCount \in 0..MaxDeletes
          /\ \A c \in Callers : call[c].at \in {"idle", "search", "prune", "link"}

\* What can be reached from the entry node along live nodes, in at most k steps.
Reachable[k \in Nat] ==
  IF k = 0 THEN {entryNode}
  ELSE Reachable[k - 1]
         \cup {n \in DOMAIN nodes \ deleted : \E m \in Reachable[k - 1] : n \in SetOf(neighbors[m])}

\* However the steps of several inserts interleave, no node has more edges than
\* maxDegree, an edge to itself or the same edge twice, and a search finds what
\* is there to be found: a beam as wide as the graph returns all the nodes that
\* can be reached, with the entry node even when that is deleted; RangeSearch
\* finds the near ones among them unless the entry node is deleted; a filtered
\* search returns live nodes that pass, nearest first.
VamanaSearches ==
  nodes # <<>> =>
    LET reach == Reachable[Len(nodes)] size == Len(nodes) IN
    /\ \A n \in DOMAIN nodes :
         /\ Len(neighbors[n]) <= maxDegree /\ n \notin SetOf(neighbors[n])
         /\ Cardinality(SetOf(neighbors[n])) = Len(neighbors[n])
    /\ \A id \in Ids :
         LET q == Position[id] IN
         /\ BeamSearch(q, size) = reach
         /\ RangeSearch(q, 4) = (IF entryNode \in deleted THEN {}
                                 ELSE {n \in reach : Dist(q, n) <= 4})
         /\ LET pass == {n \in DOMAIN nodes : n % 2 = 1}
                found == SearchWithFilter(q, size, size, pass)
            IN  SetOf(found) = (reach \cap pass) \ deleted
                  /\ \A i \in 1..(Len(found) - 1) : Dist(q, found[i]) <= Dist(q, found[i + 1])
==============================================================================
