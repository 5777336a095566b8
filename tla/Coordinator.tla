----------------------------- MODULE Coordinator -----------------------------
(***************************************************************************)
(* Cluster membership on one node, pkg/cluster/cluster.go: the coordinator *)
(* (members and c.hashRing, written together under c.mu), the shard        *)
(* manager with its own hash ring and the shard assignment (under sm.mu),  *)
(* the failure detector, and the channel memberCh that the application     *)
(* reads.                                                                  *)
(*                                                                         *)
(* AddMember and RemoveMember take c.mu, give it back, take sm.mu, give it *)
(* back and then send their event, which blocks while memberCh is full:    *)
(* calls of several goroutines interleave between these three steps.       *)
(*                                                                         *)
(* A Node is a pointer that the maps share; all calls about one id pass    *)
(* the same object here.  No RPC ever refreshes LastHeartbeat of a remote  *)
(* member: it ages until the next AddMember.  Hashes are points of a small *)
(* circle without collisions, and the copies that AddNode appends for a    *)
(* node that is on the ring already do not change a lookup.                *)
(***************************************************************************)
EXTENDS Integers, Sequences, FiniteSets

CONSTANTS Local, Remotes, None,
          Joined,       \* remote nodes added before, their events read
          Callers,      \* goroutines that call AddMember and RemoveMember
          Position,     \* Position[n]: the hashes of the virtual nodes of n
          Hashes,       \* the points of the circle, an interval from 0
          ShardCount, Replication,
          Capacity,     \* of memberCh (100 in the code)
          MaxCalls      \* bound on the calls of AddMember and RemoveMember

ConstantsOK ==
  /\ IsFiniteSet(Remotes) /\ Local \notin Remotes /\ Joined \subseteq Remotes
  /\ {ShardCount, Replication, Capacity} \subseteq Nat

VARIABLES
  members,     \* the ids in c.members and on c.hashRing
  ring,        \* the ids on shardManager.hashRing
  state,       \* Node.State of the remote nodes
  silent,      \* nodes whose LastHeartbeat is older than FailureTimeout
  shards,      \* shards[s]: the primary followed by the replicas
  call,        \* call[c]: where AddMember or RemoveMember of c stands
  reporting,   \* ids whose failure detectFailures has yet to send
  memberCh,
  stopped,     \* stopCh is closed
  overlapped,  \* history: ids on which two calls overlapped
  calls        \* how many calls have begun

vars == <<members, ring, state, silent, shards, call, reporting, memberCh, stopped, overlapped, calls>>

Idle == [at |-> "idle", id |-> None, type |-> "join"]

Everyone == Remotes \cup {Local}

\* NewShardManager numbers the shards.
ShardIds == 0..(ShardCount - 1)

\* GetAllNodes, in Go's map order: any list that has each node once.
Orders(nodes) ==
  {order \in [1..Cardinality(nodes) -> nodes] :
     \A i, j \in DOMAIN order : i # j => order[i] # order[j]}

\* rebalanceShards, round-robin over GetAllNodes.
Assigned(order) ==
  [s \in ShardIds |->
     [r \in 1..(IF Replication < Len(order) THEN Replication ELSE Len(order)) |->
        order[((s + r - 1) % Len(order)) + 1]]]

rebalanceShards ==
  [nodes \in SUBSET Everyone |->
     {Assigned(order) : order \in Orders(nodes)}]

\* NewCoordinator, and AddMember for each node of Joined.
NewCoordinator ==
  /\ members = {Local} \cup Joined
  /\ ring = members
  /\ shards \in rebalanceShards[ring]
  /\ state = [n \in Everyone |-> "active"]
  /\ silent = {}
  /\ call = [c \in Callers |-> Idle]
  /\ reporting = {}
  /\ memberCh = <<>>
  /\ stopped = FALSE
  /\ overlapped = {}
  /\ calls = 0

-----------------------------------------------------------------------------
IsHealthy(n) == state[n] = "active"

\* How far clockwise from the hash h the first virtual node of n is: the order
\* in which sort.Search and the walk from there, with its wrap-around, meet the
\* nodes of the ring.
Ahead ==
  [h \in Hashes |-> [n \in Everyone |->
     LET steps == {(p - h) % Cardinality(Hashes) : p \in Position[n]}
     IN  CHOOSE x \in steps : \A y \in steps : x <= y]]

\* The first n healthy nodes of the ring in that order, each once.
Collect(ahead, n) ==
  LET healthy == {x \in ring : IsHealthy(x)}
      size == Cardinality(healthy)
  IN  [i \in 1..(IF size < n THEN size ELSE n) |->
         CHOOSE x \in healthy :
           Cardinality({y \in healthy : ahead[y] < ahead[x]}) = i - 1]

\* Mutant: keys placed by their remainder instead of along the circle.
GetNodesModulo(h, n) == Collect(Ahead[h % Cardinality(ring)], n)

GetNodes(h, n) == Collect(Ahead[h], n)

-----------------------------------------------------------------------------
\* A call enters while another on the same id has not reached the shards yet.
Overlaps(c, n) ==
  IF \E d \in Callers \ {c} : call[d].at = "shards" /\ call[d].id = n
  THEN overlapped \cup {n} ELSE overlapped

AddMember(c, n) ==
  /\ call[c].at = "idle" /\ calls < MaxCalls
  /\ state' = [state EXCEPT ![n] = "active"]
  /\ silent' = silent \ {n}
  /\ members' = members \cup {n}
  /\ call' = [call EXCEPT ![c] = [at |-> "shards", id |-> n, type |-> "join"]]
  /\ overlapped' = Overlaps(c, n)
  /\ calls' = calls + 1
  /\ UNCHANGED <<ring, shards, reporting, memberCh, stopped>>

\* Nothing happens when the id is no member.
RemoveMember(c, n) ==
  /\ call[c].at = "idle" /\ calls < MaxCalls
  /\ n \in members
  /\ members' = members \ {n}
  /\ call' = [call EXCEPT ![c] = [at |-> "shards", id |-> n, type |-> "leave"]]
  /\ overlapped' = Overlaps(c, n)
  /\ calls' = calls + 1
  /\ UNCHANGED <<ring, state, silent, shards, reporting, memberCh, stopped>>

\* Mutant: RemoveNode forgets to rebalance.
UpdateShardsOnAdd(c) ==
  /\ call[c].at = "shards"
  /\ ring' = IF call[c].type = "join" THEN ring \cup {call[c].id} ELSE ring \ {call[c].id}
  /\ IF call[c].type = "join" THEN shards' \in rebalanceShards[ring'] ELSE UNCHANGED shards
  /\ call' = [call EXCEPT ![c].at = "event"]
  /\ UNCHANGED <<members, state, silent, reporting, memberCh, stopped, overlapped, calls>>

\* shardManager.AddNode and RemoveNode: the ring, then the shards.
UpdateShards(c) ==
  /\ call[c].at = "shards"
  /\ ring' = IF call[c].type = "join" THEN ring \cup {call[c].id} ELSE ring \ {call[c].id}
  /\ shards' \in rebalanceShards[ring']
  /\ call' = [call EXCEPT ![c].at = "event"]
  /\ UNCHANGED <<members, state, silent, reporting, memberCh, stopped, overlapped, calls>>

SendEvent(c) ==
  /\ call[c].at = "event"
  /\ Len(memberCh) < Capacity
  /\ memberCh' = Append(memberCh, [type |-> call[c].type, id |-> call[c].id])
  /\ call' = [call EXCEPT ![c] = Idle]
  /\ UNCHANGED <<members, ring, state, silent, shards, reporting, stopped, overlapped, calls>>

-----------------------------------------------------------------------------
\* FailureTimeout passes for a member.
Elapse(n) ==
  /\ n \in members \ silent
  /\ silent' = silent \cup {n}
  /\ UNCHANGED <<members, ring, state, shards, call, reporting, memberCh, stopped, overlapped, calls>>

\* Mutant: a suspect is not looked at again.
detectSuspects ==
  LET late == {n \in members \cap silent : state[n] = "active"}
  IN  /\ ~stopped /\ reporting = {} /\ late # {}
      /\ state' = [n \in Everyone |-> IF n \in late THEN "suspect" ELSE state[n]]
      /\ UNCHANGED <<members, ring, silent, shards, call, reporting, memberCh, stopped,
                     overlapped, calls>>

\* One tick of failureDetectorLoop: the critical section, for all members.
detectFailures ==
  LET late == {n \in members \cap silent : state[n] # "inactive"}
  IN  /\ ~stopped /\ reporting = {} /\ late # {}
      /\ state' = [n \in Everyone |->
                     IF n \notin late THEN state[n]
                     ELSE IF state[n] = "active" THEN "suspect" ELSE "inactive"]
      /\ reporting' = {n \in late : state[n] = "suspect"}
      /\ UNCHANGED <<members, ring, silent, shards, call, memberCh, stopped, overlapped, calls>>

\* The failures go out one by one after c.mu is released.
ReportFailure(n) ==
  /\ n \in reporting
  /\ Len(memberCh) < Capacity
  /\ memberCh' = Append(memberCh, [type |-> "failed", id |-> n])
  /\ reporting' = reporting \ {n}
  /\ UNCHANGED <<members, ring, state, silent, shards, call, stopped, overlapped, calls>>

\* The application reads MemberEvents().
ReadEvent ==
  /\ memberCh # <<>>
  /\ memberCh' = Tail(memberCh)
  /\ UNCHANGED <<members, ring, state, silent, shards, call, reporting, stopped, overlapped, calls>>

\* Stop closes stopCh: the loops end once they are back at their select.
Stop ==
  /\ ~stopped
  /\ stopped' = TRUE
  /\ UNCHANGED <<members, ring, state, silent, shards, call, reporting, memberCh, overlapped, calls>>

Next ==
  \/ \E c \in Callers :
       \/ \E n \in Remotes : AddMember(c, n) \/ RemoveMember(c, n)
       \/ UpdateShards(c) \/ SendEvent(c)
  \/ detectFailures
  \/ \E n \in Remotes : Elapse(n) \/ ReportFailure(n)
  \/ ReadEvent \/ Stop

\* Goroutines go on, tickers tick, time passes, the application keeps reading.
Fairness ==
  /\ \A c \in Callers : WF_vars(UpdateShards(c)) /\ SF_vars(SendEvent(c))
  /\ WF_vars(detectFailures) /\ WF_vars(ReadEvent)
  /\ \A n \in Remotes : WF_vars(Elapse(n)) /\ SF_vars(ReportFailure(n))

Spec == NewCoordinator /\ [][Next]_vars /\ Fairness

-----------------------------------------------------------------------------
TypeOK ==
  /\ Local \in members \cap ring
  /\ members \cup ring \subseteq Everyone
  /\ state \in [Everyone -> {"active", "suspect", "inactive"}]
  /\ silent \cup reporting \subseteq Remotes
  /\ Len(memberCh) <= Capacity

\* Between calls the shard manager has caught up with the membership: the nodes
\* on its ring are the members, every shard has its full number of distinct
\* owners and all of them are members.  Ids on which AddMember and RemoveMember
\* overlapped are left out: their two critical sections may run in opposite
\* orders.
ShardsFollowMembers ==
  (\A c \in Callers : call[c].at # "shards") =>
    /\ \A n \in Remotes \ overlapped : n \in ring <=> n \in members
    /\ \A s \in DOMAIN shards :
         LET owners == {shards[s][i] : i \in DOMAIN shards[s]} IN
         /\ owners \subseteq ring
         /\ Cardinality(owners) = Len(shards[s])
         /\ Len(shards[s]) = (IF Replication < Cardinality(ring) THEN Replication
                              ELSE Cardinality(ring))

\* Consistent hashing: whatever joins, leaves or fails, the nodes that stay
\* healthy on the ring keep their order for every key.
OrderKept ==
  \A h \in Hashes :
    LET stays   == {n \in ring \cap ring' : IsHealthy(n) /\ IsHealthy(n)'}
        keep(n) == n \in stays
        all     == Cardinality(Everyone)
    IN  SelectSeq(GetNodes(h, all), keep) = SelectSeq(GetNodes(h, all)', keep)

KeysStay == [][OrderKept]_<<ring, state>>

\* A member that nobody adds again or removes is found failed and reported, as
\* long as the application reads and the coordinator is not stopped.
FailureReported ==
  \A n \in Remotes :
    <>[](n \in members /\ ~stopped /\ \A c \in Callers : call[c].id # n)
      => <>(n \notin reporting /\ state[n] = "inactive")
=============================================================================
