-------------------------------- MODULE Shards -------------------------------
(* The shards of a collection, pkg/collection/shard.go: points are placed by  *)
(* the hash of their id, a search asks all shards in parallel and merges what *)
(* they answer, and RecoverShard takes a shard out of service meanwhile.      *)
(* SaveMetadata takes the manager's read lock twice.                          *)
EXTENDS Integers, Sequences, FiniteSets

CONSTANTS Ids,
          Hash,         \* Hash[id]: the first bytes of the SHA-256 of an id
          Distance,     \* Distance[id]: from the query, no two alike
          ShardCount,
          Callers,      \* of RecoverShard, each of which calls it once
          k,
          MaxDeletes,   \* bound on the points deleted
          None

VARIABLES state,        \* Shard.State
          index,        \* the nodes of each shard's HNSW, in order of insertion
          recover,      \* recover[c]: where RecoverShard stands, and its shard
          saving,       \* SaveMetadata holds the outer read lock
          waiting,      \* the shards that have yet to answer the search, or None
          candidates,   \* what they answered: the id of each candidate's point
          answer,       \* what the search returned, or None
          steady,       \* history: points live, and in a shard not dead, all along
          seen          \* history: points live at some time of the search

vars == <<state, index, recover, saving, waiting, candidates, answer, steady, seen>>
------------------------------------------------------------------------------
shardCount == IF ShardCount <= 0 THEN 1 ELSE ShardCount
ShardIds == 0..(shardCount - 1)
computeShardID(id) == Hash[id] % shardCount

ConstantsOK == /\ IsFiniteSet(Ids) /\ ShardCount \in Int /\ k \in Nat
               /\ Hash \in [Ids -> Nat] /\ Distance \in [Ids -> Int]
               /\ \A i, j \in Ids : Distance[i] = Distance[j] => i = j
               /\ \A S \in SUBSET ShardIds : S # None

Nodes(s) == {index[s][i] : i \in DOMAIN index[s]}
Deleted == UNION {{n \in Nodes(s) : n.deleted} : s \in ShardIds}
Live(s) == {n.id : n \in {m \in Nodes(s) : ~m.deleted}}

NewShardManager ==
  /\ state = [s \in ShardIds |-> "active"]
  /\ index = [s \in ShardIds |-> <<>>]
  /\ recover = [c \in Callers |-> [pc |-> "idle", shard |-> None]]
  /\ saving = FALSE
  /\ waiting = None /\ candidates = {} /\ answer = None /\ steady = {} /\ seen = {}

\* Bound: no call begins once the search has returned.
Begins == answer = None

\* A writer that waits for sm.mu keeps new readers out.
CanRead == \A c \in Callers : recover[c].pc # "locking"

\* HNSW.Insert refuses an id that it has or had.
Insert(id) ==
  LET s == computeShardID(id)
  IN  /\ Begins /\ CanRead /\ state[s] = "active"
      /\ \A n \in Nodes(s) : n.id # id
      /\ index' = [index EXCEPT ![s] = Append(@, [id |-> id, deleted |-> FALSE])]
      /\ seen' = IF waiting = None THEN seen ELSE seen \cup {id}
      /\ UNCHANGED <<state, recover, saving, waiting, candidates, answer, steady>>

Delete(id) ==
  LET s == computeShardID(id)
  IN  /\ Begins /\ CanRead /\ state[s] = "active" /\ id \in Live(s)
      /\ Cardinality(Deleted) < MaxDeletes
      /\ index' = [index EXCEPT ![s] = [i \in DOMAIN index[s] |->
                     [index[s][i] EXCEPT !.deleted = @ \/ index[s][i].id = id]]]
      /\ steady' = steady \ {id}
      /\ UNCHANGED <<state, recover, saving, waiting, candidates, answer, seen>>
------------------------------------------------------------------------------
(* Search.                                                                    *)

\* The first k of a set by distance.
Nearest(S) == {id \in S : Cardinality({j \in S : Distance[j] < Distance[id]}) < k}

Search ==
  /\ Begins /\ CanRead /\ waiting = None
  /\ waiting' = ShardIds
  /\ seen' = UNION {Live(s) : s \in ShardIds}
  /\ steady' = UNION {Live(s) : s \in {t \in ShardIds : state[t] # "dead"}}
  /\ UNCHANGED <<state, index, recover, saving, candidates, answer>>

\* A shard that is not searchable gives an error, which is passed over.
SearchShard(s) ==
  /\ waiting # None /\ s \in waiting
  /\ waiting' = waiting \ {s}
  /\ candidates' = candidates \cup (IF state[s] \in {"active", "recovering"}
                                    THEN Nearest(Live(s)) ELSE {})
  /\ UNCHANGED <<state, index, recover, saving, answer, steady, seen>>

\* sortCandidates exchanges a candidate with every nearer one behind it.
sortCandidates(S) ==
  [i \in 1..Cardinality(S) |->
     CHOOSE id \in S : Cardinality({j \in S : Distance[j] < Distance[id]}) = i - 1]

Merge ==
  /\ waiting = {}
  /\ waiting' = None /\ candidates' = {}
  /\ LET sorted == sortCandidates(candidates)
     IN  answer' = IF Len(sorted) > k THEN SubSeq(sorted, 1, k) ELSE sorted
  /\ UNCHANGED <<state, index, recover, saving, steady, seen>>
------------------------------------------------------------------------------
(* RecoverShard and SaveMetadata.                                             *)

\* Every change of a shard's state in RecoverShard; what a dead shard holds is
\* not found.
Becomes(s, to) ==
  /\ state' = [state EXCEPT ![s] = to]
  /\ steady' = IF to = "dead" THEN steady \ Live(s) ELSE steady

RecoverShard(c, s) ==
  /\ Begins /\ recover[c].pc = "idle"
  /\ recover' = [recover EXCEPT ![c] = [pc |-> "locking", shard |-> s]]
  /\ UNCHANGED <<state, index, saving, waiting, candidates, answer, steady, seen>>

\* sm.mu is taken when no reader holds it, and given back at once.
BeginRecovery(c) ==
  /\ recover[c].pc = "locking" /\ ~saving
  /\ recover' = [recover EXCEPT ![c].pc = "streaming"]
  /\ Becomes(recover[c].shard, "recovering")
  /\ UNCHANGED <<index, saving, waiting, candidates, answer, seen>>

\* The handler has only Shard.Insert to fill the shard with, which refuses a
\* shard that is recovering.  Without a handler the recovery fails.
EndRecovery(c, ok) ==
  /\ recover[c].pc = "streaming"
  /\ recover' = [recover EXCEPT ![c].pc = "done"]
  /\ Becomes(recover[c].shard, IF ok THEN "active" ELSE "dead")
  /\ UNCHANGED <<index, saving, waiting, candidates, answer, seen>>

SaveMetadata ==
  /\ Begins /\ CanRead /\ ~saving
  /\ saving' = TRUE
  /\ UNCHANGED <<state, index, recover, waiting, candidates, answer, steady, seen>>

\* ShardInfo takes the read lock again: behind a waiting writer, which waits for
\* this reader, it never does.
ShardInfo ==
  /\ saving /\ CanRead
  /\ saving' = FALSE
  /\ UNCHANGED <<state, index, recover, waiting, candidates, answer, steady, seen>>

Next == \/ \E id \in Ids : Insert(id) \/ Delete(id)
        \/ Search \/ Merge \/ SaveMetadata \/ ShardInfo
        \/ \E s \in ShardIds : SearchShard(s) \/ \E c \in Callers : RecoverShard(c, s)
        \/ \E c \in Callers : BeginRecovery(c) \/ \E ok \in BOOLEAN : EndRecovery(c, ok)

Spec == NewShardManager /\ [][Next]_vars
------------------------------------------------------------------------------
\* Once NewShardManager returns no shard is initializing, and every point is in
\* the shard that its id is hashed to.
TypeOK == /\ state \in [ShardIds -> {"active", "recovering", "dead"}]
          /\ saving \in BOOLEAN
          /\ \A s \in ShardIds : \A n \in Nodes(s) : n.id \in Ids /\ computeShardID(n.id) = s
          /\ answer = None \/ Len(answer) <= k

\* ShardManager.Search, with writes and recoveries between the answers of the
\* shards: the result is in order of distance, has no point twice, has only points
\* that were there at some time of the search, and a point that was there all the
\* time, in a shard that was not dead, is missing only if k nearer ones are in it.
ShardsSearch ==
  answer # None =>
    LET found == {answer[i] : i \in DOMAIN answer}
    IN  /\ \A i, j \in DOMAIN answer : i < j => Distance[answer[i]] < Distance[answer[j]]
        /\ found \subseteq seen
        /\ \A id \in steady \ found :
             Len(answer) = k /\ \A i \in DOMAIN answer : Distance[answer[i]] < Distance[id]
==============================================================================
