-------------------------------- MODULE Hnsw --------------------------------
(* The HNSW graph of pkg/index/hnsw: insertion, lazy deletion, the searches,  *)
(* and the metadata a restart rebuilds it from.                               *)
(*                                                                            *)
(* Vectors are places on a line, and Position is chosen so that no two        *)
(* distances from a point are equal: the heaps of the code are then sets, and *)
(* a slice sorted by distance has one order.  Nodes are numbered from 1.      *)
(* Collection.mu is held across Insert, so that nothing but a crash comes     *)
(* between its two steps here.                                                *)
EXTENDS Integers, Sequences, FiniteSets

CONSTANTS Ids,             \* point IDs
          Position,          \* where the vector of each point is
          Rough,             \* where the quantizer puts it
          M, efConstruction, efSearch,
          MaxLevel,          \* bound: the highest level randomLevel draws
          MaxHigh,           \* bound: the nodes above level 0
          MaxWork            \* bound: nodes, and three times the deletions, saves, restarts

VARIABLES nodes,             \* HNSW.nodes: id, level, deleted, rough (has Quantized)
          links,             \* Connections of each node, per layer
          entryPoint, maxLevel,
          nodeCount, deletedCount,
          linking,           \* the node Insert has added but not linked yet, or 0
          entered,           \* entry point and top layer that Insert read for it
          saved,             \* the metadata file, or <<>>
          restarts

vars == <<nodes, links, entryPoint, maxLevel, nodeCount, deletedCount, linking, entered,
          saved, restarts>>

Layers == 0 .. MaxLevel
Work == Len(nodes) + 3 * (deletedCount + restarts + (IF saved = <<>> THEN 0 ELSE 1))
Mmax0 == 2 * M
Abs(n) == IF n < 0 THEN -n ELSE n
Node == 1 .. Len(nodes)
NodeOf(id) == {n \in Node : nodes[n].id = id}
Live == {n \in Node : ~nodes[n].deleted}

\* getVector, and the distance to a query: of the quantized vector if there is one.
Vector(n) == Position[nodes[n].id]
Exact(q, n) == Abs(q - Vector(n))
Distance(q, n) == IF nodes[n].rough THEN Abs(q - Rough[nodes[n].id]) ELSE Exact(q, n)

getConnections(n, layer) == IF layer > nodes[n].level THEN <<>> ELSE links[n][layer]

Near(S, D) == CHOOSE n \in S : \A m \in S : D[n] <= D[m]
Far(S, D) == CHOOSE n \in S : \A m \in S : D[n] >= D[m]

RECURSIVE Ascending(_, _)
Ascending(S, D) ==
  IF S = {} THEN <<>> ELSE LET n == Near(S, D) IN <<n>> \o Ascending(S \ {n}, D)

FirstOf(s, k) == SubSeq(s, 1, IF Len(s) > k THEN k ELSE Len(s))
SetOf(s) == {s[i] : i \in DOMAIN s}
------------------------------------------------------------------------------
(* Walking a layer.                                                           *)

\* One pass over the neighbours of a node, which moves on as it goes.
RECURSIVE Closest(_, _, _)
Closest(q, n, neighbours) ==
  IF neighbours = <<>> THEN n
  ELSE LET m == Head(neighbours)
       IN Closest(q, IF ~nodes[m].deleted /\ Distance(q, m) < Distance(q, n) THEN m ELSE n,
                  Tail(neighbours))

RECURSIVE greedySearchLayer(_, _, _)
greedySearchLayer(q, n, layer) ==
  LET m == Closest(q, n, getConnections(n, layer))
  IN IF m = n THEN n ELSE greedySearchLayer(q, m, layer)

RECURSIVE Descend(_, _, _, _)
Descend(q, n, from, to) ==
  IF from <= to THEN n ELSE Descend(q, greedySearchLayer(q, n, from), from - 1, to)

\* The loop that searchLayer, searchLayerWithFilter and discoverLayer0 share:
\* D is the distance, ef bounds the results, wide the frontier, stop ends the
\* loop, and keep holds the nodes that may be results.  w is the walk so far.
Better(n, D, w, bound) ==
  Cardinality(w.results) < bound \/ D[n] < D[Far(w.results, D)]

RECURSIVE Visit(_, _, _, _, _, _)
Visit(neighbours, D, ef, wide, keep, w) ==
  IF neighbours = <<>> THEN w
  ELSE LET n == Head(neighbours)
           new == n \notin w.visited /\ ~nodes[n].deleted
           more == w.results \cup {n}
       IN Visit(Tail(neighbours), D, ef, wide, keep,
            [visited |-> w.visited \cup {n},
             frontier |-> IF new /\ Better(n, D, w, wide)
                          THEN w.frontier \cup {n} ELSE w.frontier,
             results |-> IF ~(new /\ n \in keep /\ Better(n, D, w, ef)) THEN w.results
                         ELSE IF Cardinality(more) > ef THEN more \ {Far(more, D)}
                         ELSE more])

RECURSIVE Walk(_, _, _, _, _, _, _)
Walk(layer, D, ef, wide, stop, keep, w) ==
  IF w.frontier = {} THEN w.results
  ELSE LET n == Near(w.frontier, D)
       IN IF Cardinality(w.results) >= stop /\ D[n] > D[Far(w.results, D)]
          THEN w.results
          ELSE Walk(layer, D, ef, wide, stop, keep,
                    Visit(getConnections(n, layer), D, ef, wide, keep,
                          [w EXCEPT !.frontier = @ \ {n}]))

\* The entry is a result even if it is deleted.
searchLayer(q, entry, ef, layer) ==
  LET D == [n \in Node |-> Distance(q, n)]
  IN Ascending(Walk(layer, D, ef, ef, ef, Node,
                    [visited |-> {entry}, frontier |-> {entry}, results |-> {entry}]), D)
------------------------------------------------------------------------------
(* Insertion.                                                                 *)

RECURSIVE Diverse(_, _, _, _, _)
Diverse(working, D, max, selected, discarded) ==
  IF working = <<>> \/ Len(selected) >= max
  THEN selected \o FirstOf(discarded, max - Len(selected))
  ELSE LET c == Head(working)
           accept == \A s \in SetOf(selected) : Abs(Vector(c) - Vector(s)) >= D[c]
       IN Diverse(Tail(working), D, max,
                  IF accept THEN Append(selected, c) ELSE selected,
                  IF accept THEN discarded ELSE Append(discarded, c))

\* Mutant: a list that is too long is cut to one more than fits.
selectNeighborsTooMany(D, candidates, max) ==
  IF Len(candidates) <= max + 1 THEN candidates
  ELSE Diverse(Ascending(SetOf(candidates), D), D, max, <<>>, <<>>)

selectNeighborsHeuristic(D, candidates, max) ==
  IF Len(candidates) <= max THEN candidates
  ELSE Diverse(Ascending(SetOf(candidates), D), D, max, <<>>, <<>>)

\* The connections of from once it is also connected to node.
addConnection(from, node, layer, max) ==
  LET conns == getConnections(from, layer)
      D == [n \in Node |-> Exact(Vector(from), n)]
  IN CASE node \in SetOf(conns) -> conns
       [] node \notin SetOf(conns) /\ Len(conns) < max -> Append(conns, node)
       [] OTHER -> selectNeighborsHeuristic(D, Append(conns, node), max)

\* Insert up to the end of insertNode: the node exists and may be the entry.
insertNode ==
  /\ linking = 0
  /\ Work < MaxWork
  /\ \E id \in {i \in Ids : NodeOf(i) = {}}, level \in Layers :
       LET node == Len(nodes) + 1
       IN /\ level = 0 \/ Cardinality({n \in Node : nodes[n].level > 0}) < MaxHigh
          /\ nodes' = Append(nodes, [id |-> id, level |-> level, deleted |-> FALSE,
                                     rough |-> TRUE])
          /\ links' = Append(links, [l \in 0 .. level |-> <<>>])
          /\ nodeCount' = nodeCount + 1
          /\ linking' = IF maxLevel = -1 THEN 0 ELSE node
          /\ entered' = IF maxLevel = -1 THEN entered ELSE <<entryPoint, maxLevel>>
          /\ entryPoint' = IF level > maxLevel THEN node ELSE entryPoint
          /\ maxLevel' = IF level > maxLevel THEN level ELSE maxLevel
  /\ UNCHANGED <<deletedCount, saved, restarts>>

Lower(a, b) == IF a < b THEN a ELSE b

\* What selectNeighbors leaves at a layer, for the candidates found there.
selectNeighbors(node, candidates, layer) ==
  LET max == IF layer = 0 THEN Mmax0 ELSE M
      D == [n \in Node |-> Distance(Vector(node), n)]
      selected == selectNeighborsHeuristic(D, candidates, max)
  IN [n \in SetOf(selected) \cup {node} |->
        IF n = node THEN selected ELSE addConnection(n, node, layer, max)]

\* The rest of Insert: layer by layer, each search from the best of the last.
RECURSIVE Linked(_, _, _)
Linked(node, at, layer) ==
  IF layer < 0 THEN <<>>
  ELSE LET found == searchLayer(Vector(node), at, efConstruction, layer)
       IN Append(Linked(node, found[1], layer - 1), selectNeighbors(node, found, layer))

Insert ==
  /\ linking # 0
  /\ LET top == Lower(nodes[linking].level, entered[2])
         at == Descend(Vector(linking), entered[1], entered[2], nodes[linking].level)
     IN \E changed \in {Linked(linking, at, top)} :
          links' = [n \in Node |-> [l \in DOMAIN links[n] |->
                      IF l <= top /\ n \in DOMAIN changed[l + 1] THEN changed[l + 1][n]
                      ELSE links[n][l]]]
  /\ linking' = 0
  /\ UNCHANGED <<nodes, entryPoint, maxLevel, nodeCount, deletedCount, entered, saved,
                 restarts>>

Delete ==
  /\ linking = 0
  /\ Work + 3 <= MaxWork
  /\ \E n \in Live : nodes' = [nodes EXCEPT ![n].deleted = TRUE]
  /\ deletedCount' = deletedCount + 1
  /\ UNCHANGED <<links, entryPoint, maxLevel, nodeCount, linking, entered, saved, restarts>>
------------------------------------------------------------------------------
(* Searches.                                                                  *)

Rescored(q, found) == Ascending(found, [n \in Node |-> Exact(q, n)])

SearchWithEf(q, k, ef) ==
  LET at == Descend(q, entryPoint, maxLevel, 0)
  IN FirstOf(Rescored(q, SetOf(searchLayer(q, at, 2 * (IF ef < k THEN k ELSE ef), 0))), k)

\* calculateAdaptiveEf, for a selectivity in percent (0: not estimated).
calculateAdaptiveEf(ef, percent) ==
  LET p == IF percent <= 0 THEN 33 ELSE percent
      tenths == CASE p > 100 -> 20 [] p >= 80 -> 15 [] p >= 50 -> 20 [] p >= 20 -> 30
                  [] p >= 10 -> 50 [] p >= 5 -> 70 [] OTHER -> 100
  IN Lower((ef * tenths) \div 10, ef * 15)

\* searchLayerWithFilter leaves a deleted entry out, but not one beyond the
\* radius.  A radius of 0 is no radius.
SearchWithFilter(q, k, ef, percent, pass, radius) ==
  LET D == [n \in Node |-> Distance(q, n)]
      at == Descend(q, entryPoint, maxLevel, 0)
      bound == 2 * (IF ef < k THEN k ELSE ef)
      found == Walk(0, D, bound, calculateAdaptiveEf(bound, percent), bound,
                    {n \in pass : radius = 0 \/ D[n] <= radius},
                    [visited |-> {at}, frontier |-> {at},
                     results |-> {at} \cap pass \cap Live])
  IN FirstOf(Rescored(q, found), k)

\* contextDistance, times ten, for one pair of a positive and a negative example
\* (target -1: there is none).
contextDistance(n, target, positive, negative) ==
  LET closer == Exact(positive, n) - Exact(negative, n)
      penalty == IF closer > 0 THEN 10 * closer ELSE 0
  IN penalty + (IF target # -1 THEN 10 * Exact(target, n) ELSE Exact(positive, n))

DiscoverWithFilter(target, positive, negative, k, ef, pass) ==
  LET D == [n \in Node |-> contextDistance(n, target, positive, negative)]
      bound == IF ef < k THEN k ELSE ef
      found == Walk(0, D, bound, 3 * bound, 3 * bound, pass,
                    [visited |-> {entryPoint}, frontier |-> {entryPoint},
                     results |-> {entryPoint} \cap pass \cap Live])
  IN FirstOf(Ascending(found, D), k)

\* rangeSearchLayer0: a deleted node is not walked through, nor begun from.
RECURSIVE InRange(_, _, _, _)
InRange(q, radius, queue, visited) ==
  IF queue = <<>> THEN {}
  ELSE LET n == Head(queue)
           next == SelectSeq(getConnections(n, 0), LAMBDA m : m \notin visited)
       IN IF nodes[n].deleted THEN InRange(q, radius, Tail(queue), visited)
          ELSE (IF Exact(q, n) <= radius THEN {n} ELSE {})
               \cup InRange(q, radius, Tail(queue) \o next, visited \cup SetOf(next))

RangeSearch(q, radius) ==
  LET at == Descend(q, entryPoint, maxLevel, 0)
  IN InRange(q, radius, <<at>>, {at})

\* Mutant: only as many are looked for as are wanted.
RecommendNoSpare(n, k) ==
  FirstOf(SelectSeq(SearchWithEf(Vector(n), k, efSearch), LAMBDA m : m # n), k)

Recommend(n, k) ==
  FirstOf(SelectSeq(SearchWithEf(Vector(n), k + 1, efSearch), LAMBDA m : m # n), k)
------------------------------------------------------------------------------
(* Restarts.                                                                  *)

SaveMetadata ==
  /\ linking = 0
  /\ Len(nodes) > 0 /\ Work + 3 <= MaxWork
  /\ saved' = <<nodes, links, entryPoint, maxLevel, nodeCount, deletedCount>>
  /\ UNCHANGED <<nodes, links, entryPoint, maxLevel, nodeCount, deletedCount, linking,
                 entered, restarts>>

\* The nodes come back with their vectors but without quantized ones.
LoadMetadata ==
  /\ nodes' = [n \in DOMAIN saved[1] |-> [saved[1][n] EXCEPT !.rough = FALSE]]
  /\ links' = saved[2] /\ entryPoint' = saved[3] /\ maxLevel' = saved[4]
  /\ nodeCount' = saved[5] /\ deletedCount' = saved[6]

New ==
  /\ nodes' = <<>> /\ links' = <<>> /\ entryPoint' = 1 /\ maxLevel' = -1
  /\ nodeCount' = 0 /\ deletedCount' = 0

\* The process dies and starts again, before the log is replayed.
Restart ==
  /\ Len(nodes) > 0
  /\ Work + 3 <= MaxWork
  /\ restarts' = restarts + 1
  /\ IF saved = <<>> THEN New ELSE LoadMetadata
  /\ linking' = 0
  /\ UNCHANGED <<entered, saved>>

Init == /\ nodes = <<>> /\ links = <<>> /\ entryPoint = 1 /\ maxLevel = -1
        /\ nodeCount = 0 /\ deletedCount = 0
        /\ linking = 0 /\ entered = <<1, -1>>
        /\ saved = <<>> /\ restarts = 0

Next == insertNode \/ Insert \/ Delete \/ SaveMetadata \/ Restart

Spec == Init /\ [][Next]_vars
------------------------------------------------------------------------------
TypeOK == /\ Len(links) = Len(nodes)
          /\ \A n \in Node : /\ nodes[n].id \in Ids /\ nodes[n].level \in Layers
                             /\ DOMAIN links[n] = 0 .. nodes[n].level
          /\ linking \in {0} \cup Node
          /\ maxLevel \in Layers \cup {-1}

\* The graph is one that the walks may trust: a connection leads to another
\* node that is on that layer, none is there twice, no list is longer than the
\* room the on-disk graph reserves for it, and the entry point is on the top
\* layer.
GraphSound ==
  /\ \A n \in Node : \A l \in DOMAIN links[n] :
       LET conns == links[n][l]
       IN /\ \A m \in SetOf(conns) : m \in Node \ {n} /\ nodes[m].level >= l
          /\ Cardinality(SetOf(conns)) = Len(conns)
          /\ Len(conns) <= IF l = 0 THEN Mmax0 ELSE M
  /\ Len(nodes) > 0 => /\ nodes[entryPoint].level = maxLevel
                       /\ \A n \in Node : nodes[n].level <= maxLevel

\* A list of nodes is what a search for the k best of a set should return.
IsBest(found, k, S, D) ==
  /\ SetOf(found) \subseteq S
  /\ Len(found) = Lower(k, Cardinality(S)) /\ Cardinality(SetOf(found)) = Len(found)
  /\ \A i, j \in DOMAIN found : i < j => D[found[i]] <= D[found[j]]
  /\ \A n \in S \ SetOf(found), m \in SetOf(found) : D[m] <= D[n]

\* The searches are exact on a graph no larger than their beams, while nothing
\* is deleted: the links that Insert chooses and prunes, whatever the order of
\* insertion and the levels, and however often the graph was reloaded, leave
\* every node within reach, so that Search, SearchWithFilter, RangeSearch,
\* Recommend and DiscoverWithFilter return what a scan of all nodes would.
\* Deletions may cost them results, but what was deleted is never among those
\* of a filtered search or a range search.
SearchesExact ==
  /\ linking = 0 /\ deletedCount = 0 /\ Len(nodes) > 0 =>
       /\ \A p \in Node :
            LET q == Vector(p)
                D == [n \in Node |-> Exact(q, n)]
            IN /\ IsBest(Recommend(p, 2), 2, Node \ {p}, D)
               /\ RangeSearch(q, 3) = {n \in Node : D[n] <= 3}
       /\ LET q == Vector(Len(nodes))
              even == {n \in Node : n % 2 = 0}
          IN /\ IsBest(SearchWithFilter(q, 2, efSearch, 0, even, 0), 2, even,
                       [n \in Node |-> Exact(q, n)])
             /\ IsBest(DiscoverWithFilter(-1, q, Vector(1), 2, efSearch, even), 2, even,
                       [n \in Node |-> contextDistance(n, -1, q, Vector(1))])
  /\ linking = 0 /\ deletedCount > 0 =>
       \A p \in Node :
         LET q == Vector(p)
         IN /\ SetOf(SearchWithFilter(q, 2, efSearch, 0, Node, 0)) \subseteq Live
            /\ RangeSearch(q, 3) \subseteq Live
==============================================================================
