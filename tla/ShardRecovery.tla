---------------------------- MODULE ShardRecovery ----------------------------
(***************************************************************************)
(* Shard recovery and anti-entropy, pkg/cluster/recovery.go.  RecoverShard *)
(* queues a shard; recoveryLoop starts one goroutine per tick for the head *)
(* of the queue (executeRecovery), which imports the chunks that the       *)
(* source streams and then compares checksums.  antiEntropyLoop pushes     *)
(* this node's chunks to a replica whose checksum differs.                 *)
(*                                                                         *)
(* The DataProvider and the peers are external: a shard is a set of        *)
(* chunks, its checksum is that set, imports add to it.  A stream that     *)
(* breaks between two messages ends with io.EOF, and the error of the      *)
(* source's iterator is not sent (HandleStreamRequest): both look like the *)
(* end of the data.  Entries of rm.recovering are never removed.           *)
(***************************************************************************)
EXTENDS Integers, Sequences, FiniteSets

CONSTANTS Lost,        \* shards this node is a replica of and lost
          Own,         \* shards it is the primary of (getLocalShards)
          Chunks,
          Initial,     \* the chunks the other owner has at first
          MaxConcurrentRecov,
          MaxJobs,     \* bound on the recoveries that start
          MaxQueue     \* bound on the length of recoveryQueue

ConstantsOK == Initial \subseteq Chunks

VARIABLES
  recoveryQueue,
  recovering,   \* recovering[s]: the number of the job rm.recovering holds, 0 if none
  jobs,         \* every job that ever started
  data,         \* data[s]: the chunks of the shard on this node
  remote,       \* remote[s]: the chunks of the shard on its other owner
  repair,       \* repair[s]: the run of repairShard and pushDataToReplica
  stopCh        \* closed by Stop: both loops return, what they started goes on

Shards == Lost \cup Own

vars == <<recoveryQueue, recovering, jobs, data, remote, repair, stopCh>>

Init ==
  /\ recoveryQueue = <<>>
  /\ recovering = [s \in Shards |-> 0]
  /\ jobs = <<>>
  /\ data = [s \in Shards |-> IF s \in Own THEN Chunks ELSE {}]
  /\ remote = [s \in Shards |-> Initial]
  /\ repair = [s \in Own |-> [at |-> "idle", chunks |-> {}]]
  /\ stopCh = "open"

Stop ==
  /\ stopCh = "open" /\ stopCh' = "closed"
  /\ UNCHANGED <<recoveryQueue, recovering, jobs, data, remote, repair>>

\* Nothing but an entry in rm.recovering keeps a shard from being queued again.
RecoverShard(s) ==
  /\ recovering[s] = 0
  /\ Len(recoveryQueue) < MaxQueue
  /\ recoveryQueue' = Append(recoveryQueue, s)
  /\ UNCHANGED <<recovering, jobs, data, remote, repair, stopCh>>

ActiveCount ==
  Cardinality({s \in Shards : recovering[s] # 0 /\ jobs[recovering[s]].status = "streaming"})

\* A job of executeRecovery: at is where its goroutine stands, todo the chunks
\* the source's iterator still has, sum the local checksum, had (history) the
\* chunks of the source when the job started.
NewJob(s) ==
  [shard |-> s, status |-> "streaming", at |-> "recv", todo |-> remote[s],
   sum |-> {}, had |-> remote[s]]

\* One tick of recoveryLoop.  findSourceNode may find no healthy owner, and
\* then the shard is gone from the queue.
processRecoveryQueue ==
  /\ stopCh = "open"
  /\ ActiveCount < MaxConcurrentRecov
  /\ recoveryQueue # <<>>
  /\ recoveryQueue' = Tail(recoveryQueue)
  /\ \/ UNCHANGED <<recovering, jobs>>
     \/ /\ Len(jobs) < MaxJobs
        /\ jobs' = Append(jobs, NewJob(Head(recoveryQueue)))
        /\ recovering' = [recovering EXCEPT ![Head(recoveryQueue)] = Len(jobs) + 1]
  /\ UNCHANGED <<data, remote, repair, stopCh>>

-----------------------------------------------------------------------------
\* The error is recorded and the status left as it was.
failRecoveryQuietly(j) == jobs' = [jobs EXCEPT ![j].at = "end"]

failRecovery(j) == jobs' = [jobs EXCEPT ![j].status = "failed", ![j].at = "end"]

\* stream.Recv and ImportData of the next chunk; either may fail.
Receive(j) ==
  /\ jobs[j].at = "recv"
  /\ \/ /\ \E c \in jobs[j].todo :
             /\ jobs' = [jobs EXCEPT ![j].todo = @ \ {c}]
             /\ data' = [data EXCEPT ![jobs[j].shard] = @ \cup {c}]
     \/ failRecovery(j) /\ UNCHANGED data
  /\ UNCHANGED <<recoveryQueue, recovering, remote, repair, stopCh>>

\* io.EOF: the end of the source's data, or a stream that broke cleanly.
EndOfStream(j) ==
  /\ jobs[j].at = "recv"
  /\ jobs' = [jobs EXCEPT ![j].at = "checksum"]
  /\ UNCHANGED <<recoveryQueue, recovering, data, remote, repair, stopCh>>

LocalChecksum(j) ==
  /\ jobs[j].at = "checksum"
  /\ jobs' = [jobs EXCEPT ![j].at = "compare", ![j].sum = data[jobs[j].shard]]
  /\ UNCHANGED <<recoveryQueue, recovering, data, remote, repair, stopCh>>

\* The checksum of the number of chunks only.
CompareSizes(j) ==
  /\ jobs[j].at = "compare"
  /\ IF Cardinality(jobs[j].sum) <= Cardinality(remote[jobs[j].shard])
     THEN jobs' = [jobs EXCEPT ![j].status = "complete", ![j].at = "end"]
     ELSE failRecovery(j)
  /\ UNCHANGED <<recoveryQueue, recovering, data, remote, repair, stopCh>>

\* requestChecksum and the comparison; the request may fail as well.
CompareChecksum(j) ==
  /\ jobs[j].at = "compare"
  /\ \/ /\ jobs[j].sum = remote[jobs[j].shard]
        /\ jobs' = [jobs EXCEPT ![j].status = "complete", ![j].at = "end"]
     \/ failRecovery(j)
  /\ UNCHANGED <<recoveryQueue, recovering, data, remote, repair, stopCh>>

-----------------------------------------------------------------------------
\* repairShard up to the request: the local checksum.
repairShard(s) ==
  /\ repair[s].at = "idle" /\ stopCh = "open"
  /\ repair' = [repair EXCEPT ![s] = [at |-> "compare", chunks |-> data[s]]]
  /\ UNCHANGED <<recoveryQueue, recovering, jobs, data, remote, stopCh>>

\* The answer of the replica: nothing to do, or pushDataToReplica starts with
\* an iterator over the data of that moment.
CompareReplica(s) ==
  /\ repair[s].at = "compare"
  /\ repair' = [repair EXCEPT ![s] =
                  IF @.chunks = remote[s] THEN [at |-> "idle", chunks |-> {}]
                  ELSE [at |-> "push", chunks |-> data[s]]]
  /\ UNCHANGED <<recoveryQueue, recovering, jobs, data, remote, stopCh>>

\* One chunk goes out, or the stream breaks or ends.
pushDataToReplica(s) ==
  /\ repair[s].at = "push"
  /\ \/ \E c \in repair[s].chunks :
          /\ repair' = [repair EXCEPT ![s].chunks = @ \ {c}]
          /\ remote' = [remote EXCEPT ![s] = @ \cup {c}]
     \/ /\ repair' = [repair EXCEPT ![s] = [at |-> "idle", chunks |-> {}]]
        /\ UNCHANGED remote
  /\ UNCHANGED <<recoveryQueue, recovering, jobs, data, stopCh>>

\* A write on the other owner.
RemoteWrite(s) ==
  /\ \E c \in Chunks \ remote[s] : remote' = [remote EXCEPT ![s] = @ \cup {c}]
  /\ UNCHANGED <<recoveryQueue, recovering, jobs, data, repair, stopCh>>

ExecuteRecovery(j) == Receive(j) \/ EndOfStream(j) \/ LocalChecksum(j) \/ CompareChecksum(j)

Next ==
  \/ \E s \in Lost : RecoverShard(s) \/ RemoteWrite(s)
  \/ \E s \in Own : repairShard(s) \/ CompareReplica(s) \/ pushDataToReplica(s)
  \/ processRecoveryQueue \/ Stop
  \/ \E j \in DOMAIN jobs : ExecuteRecovery(j)

\* Tickers tick, and a stream that a goroutine reads goes on, ends or breaks:
\* nothing in the code enforces the latter, Recv has no deadline.
Fairness ==
  /\ WF_vars(processRecoveryQueue)
  /\ \A j \in 1..MaxJobs : WF_vars(j \in DOMAIN jobs /\ ExecuteRecovery(j))

Spec == Init /\ [][Next]_vars /\ Fairness

-----------------------------------------------------------------------------
TypeOK ==
  /\ recoveryQueue \in Seq(Shards)
  /\ recovering \in [Shards -> 0..Len(jobs)]
  /\ data \in [Shards -> SUBSET Chunks] /\ remote \in [Shards -> SUBSET Chunks]
  /\ \A j \in DOMAIN jobs : /\ jobs[j].shard \in Shards
                            /\ jobs[j].status \in {"streaming", "complete", "failed"}
                            /\ jobs[j].at \in {"recv", "checksum", "compare", "end"}

\* A recovery that is complete left every chunk the source had when it started,
\* however its stream ended, whatever the source took in meanwhile and whatever
\* other recoveries and repairs of the shard did.
CompleteHasAll ==
  \A j \in DOMAIN jobs : jobs[j].status = "complete" => jobs[j].had \subseteq data[jobs[j].shard]

\* Every recovery ends, complete or failed, also one whose entry in
\* rm.recovering a second recovery of the shard has taken over; with that the
\* places that MaxConcurrentRecov counts come free.
RecoveriesEnd ==
  \A j \in 1..MaxJobs : j \in DOMAIN jobs ~> (j \in DOMAIN jobs /\ jobs[j].status # "streaming")
=============================================================================
