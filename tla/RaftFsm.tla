------------------------------ MODULE RaftFsm ------------------------------
(***************************************************************************)
(* Replication of a collection by Raft: the commands of pkg/cluster/fsm.go *)
(* applied to the collection manager of every node, pkg/cluster/raft.go,   *)
(* and the REST and gRPC handlers that write through Raft or past it.      *)
(*                                                                         *)
(* The Raft library is external: what it gives is one log of committed     *)
(* commands, of which every voter stores a prefix, a leader that stores    *)
(* all of it, and snapshots that let a node forget its oldest commands.    *)
(*                                                                         *)
(* A node's collection is on its disk as a directory and as records of its *)
(* own write-ahead log, which is never truncated: replayed[n] is what      *)
(* replayWAL rebuilds from those records.  At a restart the node rebuilds  *)
(* that first and Raft then applies its whole log once more on top of it.  *)
(***************************************************************************)
EXTENDS Integers, Sequences, FiniteSets

CONSTANTS Nodes, Ids,
          First,         \* the node started with -raft-bootstrap
          RestAddr,      \* RaftConfig.RestAddr of every node
          Unknown,       \* the empty LeaderRestAddr
          Outside,       \* nodes whose clients use the paths that bypass Raft
          Compacting,    \* nodes that take Raft snapshots
          TrailingLogs,  \* commands a node keeps behind its snapshot
          Priors,        \* logs that First may have written before the run
          MaxWrites, MaxElections, MaxCrashes

VARIABLES
  log,          \* the committed commands
  leader,       \* the leader, or Unknown
  voters,
  up,           \* the processes that run
  stored,       \* stored[n]: how much of the log n has on disk
  applied,      \* applied[n]: how much of it FSM.Apply has seen in this process
  floor,        \* floor[n]: the commands n has compacted away
  snapshots,    \* nodes with a snapshot in their Raft snapshot store
  coll,         \* coll[n]: the collection in n's manager, or Absent
  replayed,     \* what replaying n's write-ahead log gives
  leaderRest,   \* RaftNode.LeaderRestAddr
  announcing,   \* nodes whose leadership goroutine is about to write
  mark,         \* history: how much n had applied before its last restart
  alone,        \* history: nodes that took a write past Raft
  writes, elections, crashes

vars == <<log, leader, voters, up, stored, applied, floor, snapshots, coll,
          replayed, leaderRest, announcing, mark, alone,
          writes, elections, crashes>>

raftVars == <<voters, up, floor, snapshots, mark, elections, crashes>>

\* A point: never inserted, deleted, or the number of the write it came from.
NoPoint == 0
Dead == -1
Absent == [p \in {} |-> NoPoint]
Empty == [p \in Ids |-> NoPoint]

\* The content of a write that does not come from the log.
Direct == -2

Contents == {Absent} \cup [Ids -> {NoPoint, Dead, Direct} \cup 1..Len(log)]

IsMajority(Q) == 2 * Cardinality(Q) > Cardinality(voters)

-----------------------------------------------------------------------------
(* The collection manager, as the commands use it. *)

\* An id is inserted once: HNSW keeps a deleted id and refuses it later.
Insert(c, p, v) == IF c[p] = NoPoint THEN [c EXCEPT ![p] = v] ELSE c
Delete(c, p) == IF c[p] = NoPoint THEN c ELSE [c EXCEPT ![p] = Dead]

\* FSM.Apply on the collections.  Exists and Get guard every command.
ApplyTo(c, cmd) ==
  CASE cmd.op = "create_collection" -> IF c = Absent THEN Empty ELSE c
    [] cmd.op = "delete_collection" -> Absent
    [] cmd.op = "upsert_points" -> IF c = Absent THEN c ELSE Insert(c, cmd.id, cmd.value)
    [] cmd.op = "delete_points" -> IF c = Absent THEN c ELSE Delete(c, cmd.id)
    [] OTHER -> c

\* What the command leaves in the write-ahead log: a point operation on a
\* collection that exists is recorded before it is tried.
Record(w, c, cmd) ==
  CASE c = Absent -> w
    [] cmd.op = "upsert_points" -> Insert(w, cmd.id, cmd.value)
    [] cmd.op = "delete_points" -> Delete(w, cmd.id)
    [] OTHER -> w

\* The collection after the first k commands, applied one after the other to c.
After(c, k) ==
  LET state[i \in 0..k] == IF i = 0 THEN c ELSE ApplyTo(state[i - 1], log[i])
  IN state[k]

\* The write-ahead log they leave, replayed.
Rebuilt(k) ==
  LET state[i \in 0..k] ==
        IF i = 0 THEN Empty ELSE Record(state[i - 1], After(Absent, i - 1), log[i])
  IN state[k]

Init ==
  /\ log \in Priors
  /\ leader = Unknown
  /\ voters = {First}
  /\ up = Nodes
  /\ stored = [n \in Nodes |-> IF n = First THEN Len(log) ELSE 0]
  /\ applied = stored
  /\ floor = [n \in Nodes |-> 0] /\ snapshots = {}
  /\ coll = [n \in Nodes |-> After(Absent, applied[n])]
  /\ replayed = [n \in Nodes |-> Rebuilt(applied[n])]
  /\ leaderRest = [n \in Nodes |-> Unknown]
  /\ announcing = {}
  /\ mark = [n \in Nodes |-> 0]
  /\ alone = {}
  /\ writes = 0 /\ elections = 0 /\ crashes = 0

Apply(n) ==
  /\ n \in up /\ leader # Unknown
  /\ applied[n] < stored[n]
  /\ LET cmd == log[applied[n] + 1] IN
       /\ coll' = [coll EXCEPT ![n] = ApplyTo(@, cmd)]
       /\ replayed' = [replayed EXCEPT ![n] = Record(@, coll[n], cmd)]
       /\ leaderRest' = IF cmd.op = "set_leader_rest"
                        THEN [leaderRest EXCEPT ![n] = RestAddr[cmd.node]] ELSE leaderRest
  /\ applied' = [applied EXCEPT ![n] = @ + 1]
  /\ UNCHANGED <<log, leader, stored, announcing, alone, writes, raftVars>>

-----------------------------------------------------------------------------
(* Writes. *)

\* RaftNode.Write: only the leader writes, and the command commits when a
\* majority stores it.
Write(n, cmd) ==
  /\ leader = n
  /\ \E Q \in SUBSET {m \in voters \cap up : stored[m] = Len(log)} :
       /\ n \in Q /\ IsMajority(Q)
       /\ stored' = [m \in Nodes |-> IF m \in Q THEN Len(log) + 1 ELSE stored[m]]
  /\ log' = Append(log, cmd)
  /\ UNCHANGED <<leader, applied, coll, replayed, leaderRest, alone, raftVars>>

\* A request of a client that proxyToLeader lets through on node n.
ClientWrite(n, cmd) ==
  /\ writes < MaxWrites /\ writes' = writes + 1
  /\ Write(n, cmd)
  /\ UNCHANGED announcing

handleCreateCollection(n) == ClientWrite(n, [op |-> "create_collection"])
handleDeleteCollection(n) == ClientWrite(n, [op |-> "delete_collection"])

\* The point handlers answer 404 when the node they run on lacks the collection.
handleUpsertPoints(n, p) ==
  /\ coll[n] # Absent
  /\ ClientWrite(n, [op |-> "upsert_points", id |-> p, value |-> Len(log) + 1])

handleDeletePoint(n, p) ==
  /\ coll[n] # Absent
  /\ ClientWrite(n, [op |-> "delete_points", id |-> p])

\* The goroutine of NewRaftNode, a second after an election.  A Write that
\* fails because the leadership is gone is not tried again.
AnnounceLeader(n) ==
  /\ n \in announcing
  /\ announcing' = announcing \ {n}
  /\ UNCHANGED writes
  /\ IF leader = n THEN Write(n, [op |-> "set_leader_rest", node |-> n])
     ELSE UNCHANGED <<log, leader, stored, applied, coll, replayed, leaderRest, alone, raftVars>>

\* Handlers that change the collections of the node they run on and nothing else.
\* The first such write of a node is enough: no property holds of it any more.
WritePastRaft(n, cmd) ==
  /\ n \in (up \cap Outside) \ alone
  /\ coll' = [coll EXCEPT ![n] = ApplyTo(@, cmd)]
  /\ coll' # coll
  /\ alone' = alone \cup {n}
  /\ UNCHANGED <<log, leader, stored, applied, leaderRest, announcing, writes, raftVars>>

\* InsertV2 writes no log record.
handleUpsertPointsV2(n, p) ==
  /\ WritePastRaft(n, [op |-> "upsert_points", id |-> p, value |-> Direct])
  /\ UNCHANGED replayed

Logged(n, cmd) ==
  /\ WritePastRaft(n, cmd)
  /\ replayed' = [replayed EXCEPT ![n] = Record(@, coll[n], cmd)]

handleBatchDelete(n, p) == Logged(n, [op |-> "delete_points", id |-> p])
handleCreateCollectionV2(n) == Logged(n, [op |-> "create_collection"])

\* The gRPC service does not know of Raft.
UpsertPoints(n, p) == Logged(n, [op |-> "upsert_points", id |-> p, value |-> Direct])
DeletePoints(n, p) == Logged(n, [op |-> "delete_points", id |-> p])
CreateCollection(n) == Logged(n, [op |-> "create_collection"])
DeleteCollection(n) == Logged(n, [op |-> "delete_collection"])

-----------------------------------------------------------------------------
(* What the Raft library does. *)

fsmVars == <<applied, coll, replayed, leaderRest, alone, writes>>

\* A voter that stores every committed command is elected by a majority.
Elect(n) ==
  /\ leader = Unknown /\ elections < MaxElections
  /\ n \in voters \cap up /\ stored[n] = Len(log)
  /\ IsMajority(voters \cap up)
  /\ leader' = n
  /\ announcing' = announcing \cup {n}
  /\ elections' = elections + 1
  /\ UNCHANGED <<log, stored, voters, up, floor, snapshots, mark, crashes, fsmVars>>

\* RaftNode.Join on the leader: AddVoter (a node that is there already stays).
Join(n) ==
  /\ leader # Unknown /\ n \in up \ voters
  /\ IsMajority(voters \cap up)
  /\ voters' = voters \cup {n}
  /\ UNCHANGED <<log, leader, stored, up, floor, snapshots, announcing, mark,
                 elections, crashes, fsmVars>>

\* The leader sends the next command, if it still has it.
AppendEntries(n) ==
  /\ leader # Unknown
  /\ n \in (voters \cap up) \ {leader}
  /\ floor[leader] <= stored[n] /\ stored[n] < Len(log)
  /\ stored' = [stored EXCEPT ![n] = @ + 1]
  /\ UNCHANGED <<log, leader, announcing, fsmVars, raftVars>>

\* FSM.Snapshot and Persist, and the compaction that follows.
Snapshot(n) ==
  /\ n \in up \cap Compacting
  /\ applied[n] > floor[n] + TrailingLogs
  /\ snapshots' = snapshots \cup {n}
  /\ floor' = [floor EXCEPT ![n] = applied[n] - TrailingLogs]
  /\ UNCHANGED <<log, leader, stored, voters, up, announcing, mark, elections,
                 crashes, fsmVars>>

\* Restore writes the stream to a file called raft_restore_<time>.snap and
\* opens it under that id; only snap_<digits> is an id of a snapshot.
restoreID == "raft_restore_*"
validateSnapshotID(id) == id = "snap_*"

\* A node that is behind the leader's log is sent the leader's snapshot.  It
\* keeps the stream in its snapshot store and calls FSM.Restore.
InstallSnapshot(n) ==
  /\ leader # Unknown
  /\ n \in (voters \cap up) \ {leader}
  /\ stored[n] < floor[leader]
  /\ snapshots' = snapshots \cup {n}
  /\ IF validateSnapshotID(restoreID)
     THEN /\ coll' = [coll EXCEPT ![n] = IF coll[leader] = Absent THEN @ ELSE coll[leader]]
          /\ stored' = [stored EXCEPT ![n] = applied[leader]]
          /\ applied' = [applied EXCEPT ![n] = applied[leader]]
     ELSE UNCHANGED <<coll, stored, applied>>
  /\ UNCHANGED <<log, leader, voters, up, floor, replayed, leaderRest, announcing,
                 mark, alone, writes, elections, crashes>>

\* A process dies.  The others notice when it was the leader, and a leader that
\* no longer reaches a majority steps down.
Crash(n) ==
  /\ n \in up /\ crashes < MaxCrashes
  /\ up' = up \ {n}
  /\ leader' = IF leader = n \/ ~IsMajority(voters \cap up') THEN Unknown ELSE leader
  /\ announcing' = announcing \ {n}
  /\ mark' = [mark EXCEPT ![n] = IF applied[n] > @ THEN applied[n] ELSE @]
  /\ crashes' = crashes + 1
  /\ UNCHANGED <<log, stored, voters, floor, snapshots, elections, fsmVars>>

\* The manager's Recover, then NewRaftNode.  With a snapshot in the store NewRaft
\* calls Restore, and the process exits when that fails.
RestartAt(n, index) ==
  /\ n \notin up
  /\ n \notin snapshots \/ validateSnapshotID(restoreID)
  /\ up' = up \cup {n}
  /\ coll' = [coll EXCEPT ![n] = IF @ = Absent THEN @ ELSE replayed[n]]
  /\ applied' = [applied EXCEPT ![n] = index]
  /\ leaderRest' = [leaderRest EXCEPT ![n] = Unknown]
  /\ UNCHANGED <<log, leader, stored, voters, floor, snapshots, replayed,
                 announcing, mark, alone, writes, elections, crashes>>

\* The restart that trusts the local state and goes on where it stopped.
RestartWhereItStopped(n) == RestartAt(n, applied[n])

Restart(n) == RestartAt(n, 0)

Next ==
  \E n \in Nodes :
    \/ Apply(n) \/ AnnounceLeader(n)
    \/ handleCreateCollection(n) \/ handleDeleteCollection(n)
    \/ handleCreateCollectionV2(n) \/ CreateCollection(n) \/ DeleteCollection(n)
    \/ \E p \in Ids : \/ handleUpsertPoints(n, p) \/ handleDeletePoint(n, p)
                      \/ handleUpsertPointsV2(n, p) \/ handleBatchDelete(n, p)
                      \/ UpsertPoints(n, p) \/ DeletePoints(n, p)
    \/ Elect(n) \/ Join(n) \/ AppendEntries(n) \/ Snapshot(n) \/ InstallSnapshot(n)
    \/ Crash(n) \/ Restart(n)

\* The library's loops run, and so does the leadership goroutine.
Fairness ==
  \A n \in Nodes : /\ WF_vars(Apply(n)) /\ WF_vars(AnnounceLeader(n))
                   /\ WF_vars(AppendEntries(n)) /\ WF_vars(InstallSnapshot(n))

Spec == Init /\ [][Next]_vars /\ Fairness

-----------------------------------------------------------------------------
TypeOK ==
  /\ leader \in Nodes \cup {Unknown} /\ voters \subseteq Nodes /\ up \subseteq Nodes
  /\ stored \in [Nodes -> 0..Len(log)] /\ applied \in [Nodes -> 0..Len(log)]
  /\ floor \in [Nodes -> 0..Len(log)]
  /\ snapshots \subseteq Nodes /\ announcing \subseteq Nodes /\ alone \subseteq Nodes
  /\ coll \in [Nodes -> Contents] /\ replayed \in [Nodes -> Contents]

\* Applying the first k commands to their own result changes nothing.  It does
\* when an id is deleted before it is inserted, or a point is written before its
\* collection is created: then the second pass differs from the first.
Repeatable(k) == After(After(Absent, k), k) = After(Absent, k)

\* Replicas agree: a node that took no write past Raft holds exactly what the
\* commands it has applied give, however often it crashed in between.  After a
\* restart, when it rebuilt its own state and Raft applies the log to that again,
\* this holds once it has caught up with itself and if the log is repeatable.
ReplicasAgree ==
  \A n \in up : /\ n \notin alone
                /\ applied[n] >= mark[n]
                /\ mark[n] > 0 => Repeatable(mark[n])
                => coll[n] = After(Absent, applied[n])

\* docs/clustering.md: new followers catch up via the Raft log plus an FSM snapshot.
\* A voter that stays up under a leader that stays has applied, in the end, all
\* that was committed.
CatchesUp ==
  \A n, m \in Nodes :
    <>[](leader = n /\ m \in voters \cap up) => <>[](applied[m] = Len(log))
=============================================================================
