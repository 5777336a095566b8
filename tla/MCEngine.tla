------------------------------ MODULE MCEngine ------------------------------
(***************************************************************************)
(* The parts of the server that keep data: the replicated state machine,   *)
(* the collection manager with its snapshots, aliases, shards, the vector  *)
(* file, the graph file, the four vector indexes, scrolling with filters,  *)
(* SQL and hybrid search.  A behaviour is a behaviour of one of them,      *)
(* chosen in the initial state; the others rest.                           *)
(***************************************************************************)
EXTENDS Integers, Sequences, FiniteSets, TLC

CONSTANTS None, Unknown, Bare, Torn, NoOffset, NoSparse

VARIABLES
  part,
  log, leader, voters, up, stored, applied, floor, snapshots, coll, replayed, leaderRest,
  announcing, mark, alone, writes, elections, crashes,
  open, collections, configName, logging, dirs, walled, busy, snapWriter, snap, unsynced, meta,
  disturbed, moved, dropped, stops,
  mapping, fileSize, capacity, nextOffset, freeList, maxSize, metaFile, vectors, slot,
  words, mapped, NumNodes, added, lists, sets,
  nodes, links, entryPoint, maxLevel, nodeCount, deletedCount, linking, entered, saved, restarts,
  listed, request, offset, got, ended, touched, lost,
  tables, result, listing,
  filed, clusters, centroids, fitted, buffered, unfiled, filing, fitting, fits, crossed,
  vertices, neighbors, deleted, entryNode, vertexCount, cut, call, build, locked,
  points, trained, codebook, tree, leaves, trainingBuffer, removed, insert, train, trains,
  overlapped,
  docs, idToIndex, postingLists, docCount, indexed,
  shardState, shardIndex, recover, savingInfo, waiting, candidates, answer, steady, seen,
  running, aliases, file, savingAliases, promised, failed, changes, kills

-----------------------------------------------------------------------------
(* The instances and their bounds.                                           *)

Prior == <<[op |-> "create_collection"],
           [op |-> "upsert_points", id |-> "p", value |-> 2],
           [op |-> "delete_collection"]>>

\* Two nodes, one point, a log of three entries to start from.  In "raft" the
\* second node also takes writes past Raft and the first compacts its log, in
\* "elections" the leader changes twice.
Fsm == INSTANCE RaftFsm
         WITH Nodes <- {"n1", "n2"}, Ids <- {"p"}, First <- "n1",
              RestAddr <- [n \in {"n1", "n2"} |-> n], Outside <- {"n2"}, Compacting <- {"n1"},
              TrailingLogs <- 0, Priors <- {Prior},
              MaxWrites <- 1, MaxElections <- 1, MaxCrashes <- 1
Ele == INSTANCE RaftFsm
         WITH Nodes <- {"n1", "n2"}, Ids <- {"p"}, First <- "n1",
              RestAddr <- [n \in {"n1", "n2"} |-> n], Outside <- {}, Compacting <- {},
              TrailingLogs <- 0, Priors <- {Prior},
              MaxWrites <- 1, MaxElections <- 2, MaxCrashes <- 1

\* Two names, one point, one snapshot, one crash.
Mgr == INSTANCE Manager
       WITH Names <- {"a", "b"}, Points <- {"x"}, Snaps <- {1}, retainCount <- 0,
            MaxCollections <- 2, MaxCrashes <- 1,
            up <- open, writer <- snapWriter, crashes <- stops

\* Vectors of two bytes; a new file has room for one and a byte more, the disk
\* for three.
Vec == INSTANCE Mmap
       WITH VectorSize <- 2, InitialSize <- 3, DiskSize <- 6, Holders <- {"n1", "n2", "n3"},
            Values <- {"u"}

\* Lists of up to two neighbours on two layers; the file grows at the second node.
Gph == INSTANCE GraphFile
       WITH M <- 2, MaxLevel <- 1, GraphHeaderSize <- 4, InitialNodes <- 1, MaxNodes <- 2,
            MaxSets <- 2

\* Points on a line with uneven gaps, two of them moved by the quantizer: in
\* "hnsw" one of five may be above the ground layer, in "flat" there are six, one
\* more than a node may have neighbours.
Nsw == INSTANCE Hnsw
         WITH Ids <- 1..5, Position <- <<0, 1, 4, 9, 15>>, Rough <- <<0, 1, 5, 9, 16>>,
              M <- 2, efConstruction <- 3, efSearch <- 5, MaxLevel <- 1, MaxHigh <- 1, MaxWork <- 5
Flt == INSTANCE Hnsw
         WITH Ids <- 1..6, Position <- <<0, 1, 4, 9, 15, 22>>, Rough <- <<0, 1, 5, 9, 16, 22>>,
              M <- 2, efConstruction <- 3, efSearch <- 6, MaxLevel <- 0, MaxHigh <- 0, MaxWork <- 6

Payloads == << [a |-> <<"num", 1>>, b |-> <<"str", 1, "lower">>],
               [a |-> <<"num", 2>>, b |-> <<"str", 2, "upper">>],
               [b |-> <<"str", 2, "lower">>] >>

\* Word 1 is a part of word 2 and begins it.
Parts == [contains |-> {<<1, 2>>}, starts_with |-> {<<1, 2>>}, ends_with |-> {}]

Equals(v) == [map |-> FALSE, value |-> v]
Operator(o, values) == [map |-> TRUE, ops |-> (o :> values)]
One == <<"num", 1>>
Two == <<"num", 2>>

Requests ==
  << [b |-> Operator("contains", <<<<"str", 1, "upper">>>>),
      a |-> Operator("range", [gte |-> One, lte |-> One])],
     [or |-> <<[a |-> Equals(One)], [b |-> Equals(<<"str", 2, "upper">>)]>>,
      not |-> <<[a |-> Operator("in", <<Two>>)]>>],
     [should |-> <<[must |-> <<[a |-> Operator("lt", <<Two>>)],
                              [b |-> Operator("ne", <<<<"str", 2, "lower">>>>)]>>],
                   [b |-> Operator("match", [any |-> <<<<"str", 2, "lower">>, One>>])]>>] >>

Must(conditions) == [kind |-> "must", conditions |-> conditions]
Should(conditions) == [kind |-> "should", conditions |-> conditions]
MustNot(conditions) == [kind |-> "must_not", conditions |-> conditions]
Match(field, v) == [kind |-> "field", field |-> field, by |-> "match", value |-> v]
Within(field, range) == [kind |-> "field", field |-> field, by |-> "range", range |-> range]
AnyOf(field, values) == [kind |-> "field", field |-> field, by |-> "values", values |-> values]

Messages ==
  << Must(<<Within("a", [gt |-> One, lte |-> Two]), Match("b", <<"str", 2, "lower">>)>>),
     MustNot(<<Match("a", Two), Should(<<Match("b", <<"str", 1, "upper">>), Within("a", [lt |-> One])>>)>>),
     Should(<<Must(<<MustNot(<<AnyOf("b", <<<<"str", 2, "lower">>, One>>)>>)>>),
              Must(<<AnyOf("a", <<Two>>), MustNot(<<Match("b", One)>>)>>)>>) >>

\* Three ids, three payloads, pages of one point, a filter of each shape.
Scr == INSTANCE Scroll
       WITH Words <- {1, 2}, Ids <- {"i1", "i2", "i3"}, Limit <- 1, MaxTouched <- 1,
            nodes <- listed

Atom(field, op, condition, values) ==
  [type |-> "atom", field |-> field, cond |-> [op |-> condition, values |-> values],
   tokens |-> <<<<"field", field>>, <<"op", op>>>>
              \o [i \in DOMAIN values |-> <<"val", values[i]>>]]
IsOne == Atom("a", "eq", "eq", <<One>>)
Above == Atom("a", "gt", "gt", <<One>>)
Other == Atom("b", "ne", "ne", <<<<"str", 1, "lower">>>>)
Like == Atom("b", "like", "contains", <<<<"str", 1, "upper">>>>)
Missing == Atom("a", "is_null", "is_null", <<>>)
Or(parts) == [type |-> "or", parts |-> parts]
And(parts) == [type |-> "and", parts |-> parts]
Not(clause) == [type |-> "not", parts |-> <<clause>>]

\* One table, two ids, three clauses that mix AND, OR and NOT.
Qry == INSTANCE Sql
       WITH Words <- {1, 2}, Tables <- {"t"}, Ids <- {"i1", "i2"}, Limits <- {0, 1},
            Clauses <- << Or(<<And(<<IsOne, Like>>), Above>>),
                          Or(<<Missing, And(<<Not(IsOne), Other>>)>>),
                          And(<<Not(Missing), Like, Not(Not(Above))>>) >>

\* Four points, two clusters with centroids at any of two places.
Inv == INSTANCE Ivf
       WITH Ids <- 1..4, Position <- <<0, 1, 3, 4>>, Places <- {0, 3}, NumClusters <- 2,
            TrainingSamples <- 3, MaxTrains <- 1,
            points <- filed, trained <- fitted, trainingBuffer <- buffered,
            deletedCount <- unfiled, insert <- filing, train <- fitting, trains <- fits,
            overlapped <- crossed

\* Three points, two callers, one neighbour per node and a beam of two.
Vam == INSTANCE Vamana
       WITH Ids <- 1..3, Position <- <<0, 1, 4>>, Callers <- {"c1", "c2"}, maxDegree <- 1,
            searchL <- 2, AlphaTenths <- 12, MaxDeletes <- 1,
            nodes <- vertices, nodeCount <- vertexCount, deletedCount <- cut

\* Three points, two leaves, a quantizer with one code or with two.
Sca == INSTANCE Scann
       WITH Ids <- 1..3, Position <- <<0, 2, 5>>, Codebooks <- {{0}, {1, 5}}, NumLeaves <- 2,
            TrainingSamples <- 2, MaxTrains <- 1, deletedCount <- removed

\* Three points with one of two dense vectors, with or without a sparse one.
Hyb == INSTANCE Hybrid
       WITH Ids <- {"i1", "i2", "i3"}, Dense <- {0, 3}, Dims <- {1, 2}, Sparse <- {<<2, 1>>},
            K <- 3, nodes <- docs

\* Three points in two shards, of which one is recovered.
Shd == INSTANCE Shards
       WITH Ids <- 1..3, Hash <- <<4, 7, 2>>, Distance <- <<2, 1, 3>>, ShardCount <- 2, k <- 2,
            MaxDeletes <- 1, Callers <- {"c1"},
            state <- shardState, index <- shardIndex, saving <- savingInfo

\* Two aliases, two collections.
Als == INSTANCE Aliases
       WITH Aliases <- {"x", "y"}, Collections <- {"a", "b"}, MaxChanges <- 3, MaxCrashes <- 2,
            up <- running, saving <- savingAliases, crashes <- kills

\* What the theorems about the parts assume of their constants holds of these.
ASSUME InstancesOK == /\ Mgr!ConstantsOK /\ Als!ConstantsOK /\ Gph!ConstantsOK
                      /\ Shd!ConstantsOK /\ Inv!ConstantsOK

-----------------------------------------------------------------------------
AllParts == {"raft", "elections", "manager", "vectors", "graph", "hnsw", "flat", "scroll", "sql",
             "ivf", "vamana", "scann", "hybrid", "shards", "aliases"}

Init == /\ part \in AllParts
        /\ Fsm!Init /\ Mgr!Init /\ Vec!Init /\ Gph!NewGraphMmap /\ Nsw!Init /\ Scr!Init
        /\ Qry!Init /\ Inv!New /\ Vam!NewVamanaGraph /\ Sca!New /\ Hyb!Init
        /\ Shd!NewShardManager /\ Als!NewAliasManager

raftVars == <<log, leader, voters, up, stored, applied, floor, snapshots, coll, replayed,
              leaderRest, announcing, mark, alone, writes, elections, crashes>>
managerVars == <<open, collections, configName, logging, dirs, walled, busy, snapWriter, snap,
                 unsynced, meta, disturbed, moved, dropped, stops>>
fileVars == <<mapping, fileSize, capacity, nextOffset, freeList, maxSize, metaFile, vectors, slot>>
graphVars == <<words, mapped, NumNodes, added, lists, sets>>
hnswVars == <<nodes, links, entryPoint, maxLevel, nodeCount, deletedCount, linking, entered,
              saved, restarts>>
scrollVars == <<listed, request, offset, got, ended, touched, lost>>
sqlVars == <<tables, result, listing>>
ivfVars == <<filed, clusters, centroids, fitted, buffered, unfiled, filing, fitting, fits, crossed>>
vamanaVars == <<vertices, neighbors, deleted, entryNode, vertexCount, cut, call, build, locked>>
scannVars == <<points, trained, codebook, tree, leaves, trainingBuffer, removed, insert, train,
               trains, overlapped>>
hybridVars == <<docs, idToIndex, postingLists, docCount, indexed>>
shardVars == <<shardState, shardIndex, recover, savingInfo, waiting, candidates, answer,
               steady, seen>>
aliasVars == <<running, aliases, file, savingAliases, promised, failed, changes, kills>>

vars == <<part, raftVars, managerVars, fileVars, graphVars, hnswVars, scrollVars, sqlVars, ivfVars,
          vamanaVars, scannVars, hybridVars, shardVars, aliasVars>>

\* The others stay as they are.
Only(p) == /\ part = p /\ UNCHANGED part
           /\ (p \in {"raft", "elections"} \/ UNCHANGED raftVars)
           /\ (p = "manager" \/ UNCHANGED managerVars)
           /\ (p = "vectors" \/ UNCHANGED fileVars)
           /\ (p = "graph" \/ UNCHANGED graphVars)
           /\ (p \in {"hnsw", "flat"} \/ UNCHANGED hnswVars)
           /\ (p = "scroll" \/ UNCHANGED scrollVars)
           /\ (p = "sql" \/ UNCHANGED sqlVars)
           /\ (p = "ivf" \/ UNCHANGED ivfVars)
           /\ (p = "vamana" \/ UNCHANGED vamanaVars)
           /\ (p = "scann" \/ UNCHANGED scannVars)
           /\ (p = "hybrid" \/ UNCHANGED hybridVars)
           /\ (p = "shards" \/ UNCHANGED shardVars)
           /\ (p = "aliases" \/ UNCHANGED aliasVars)

Next == \/ Only("raft") /\ Fsm!Next
        \/ Only("elections") /\ Ele!Next
        \/ Only("manager") /\ Mgr!Next
        \/ Only("vectors") /\ Vec!Next
        \/ Only("graph") /\ Gph!Next
        \/ Only("hnsw") /\ Nsw!Next
        \/ Only("flat") /\ Flt!Next
        \/ Only("scroll") /\ Scr!Next
        \/ Only("sql") /\ Qry!Next
        \/ Only("ivf") /\ Inv!Next
        \/ Only("vamana") /\ Vam!Next
        \/ Only("scann") /\ Sca!Next
        \/ Only("hybrid") /\ Hyb!Next
        \/ Only("shards") /\ Shd!Next
        \/ Only("aliases") /\ Als!Next

Spec == Init /\ [][Next]_vars

-----------------------------------------------------------------------------
\* The types of each part's state; every index, offset and size is within bounds.
TypeOK == /\ part \in {"raft", "elections"} => Fsm!TypeOK
          /\ part = "manager" => Mgr!TypeOK
          /\ part = "vectors" => Vec!TypeOK
          /\ part = "graph" => Gph!TypeOK
          /\ part = "hnsw" => Nsw!TypeOK
          /\ part = "flat" => Flt!TypeOK
          /\ part = "scroll" => Scr!TypeOK
          /\ part = "sql" => Qry!TypeOK
          /\ part = "ivf" => Inv!TypeOK
          /\ part = "vamana" => Vam!TypeOK
          /\ part = "scann" => Sca!TypeOK
          /\ part = "hybrid" => Hyb!TypeOK
          /\ part = "shards" => Shd!TypeOK
          /\ part = "aliases" => Als!TypeOK

\* FSM.Apply and Restore: nodes that applied the same entries hold the same points,
\* unless one of them was written past Raft.
ReplicasAgree == part \in {"raft", "elections"} => Fsm!ReplicasAgree

\* Manager: a restart finds every collection under its name, with its points.
\* AliasManager: and every alias.
RestartKeepsCollections == /\ part = "manager" => Mgr!RestartKeepsCollections
                           /\ part = "aliases" => Als!AliasesPersist

\* SnapshotWriter.Finish: a snapshot that is listed is whole.
ListedIsWhole == part = "manager" => Mgr!ListedIsWhole

\* Storage and Allocator implement slots that nobody else writes.
KeepsPromise == Vec!KeepsPromise

\* GraphMmap: a list read back is the list last set.
ListsReadBack == part = "graph" => Gph!ListsReadBack

\* HNSW: the graph's links are sound.
GraphSound == part \in {"hnsw", "flat"} => Nsw!GraphSound

\* What the four indexes, and the shards together, find for a query is what they
\* hold.
IndexesSearch == /\ part = "hnsw" => Nsw!SearchesExact
                 /\ part = "flat" => Flt!SearchesExact
                 /\ part = "ivf" => Inv!PointsFiled
                 /\ part = "vamana" => Vam!VamanaSearches
                 /\ part = "scann" => Sca!ScannFinds
                 /\ part = "shards" => Shd!ShardsSearch

\* Collection.Scroll returns what stays in the collection exactly once.
ScrollReturnsOnce == part = "scroll" => Scr!ScrollReturnsOnce

\* A filter says the same in a request, in the tree, in the SQL it compiles to,
\* and in a SELECT.
FiltersAgree == /\ part = "scroll" => Scr!FiltersAgree
                /\ part = "sql" => Qry!SelectMeans

\* Sparse index and fusion.
HybridRanks == part = "hybrid" => Hyb!SparseInStep /\ Hyb!HybridRanks
=============================================================================
