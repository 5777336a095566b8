----------------------------- MODULE MCServices -----------------------------
(***************************************************************************)
(* The parts of the server that run goroutines of their own and share no   *)
(* state: gossip, cluster coordinator, shard recovery, ingestion engine,   *)
(* WebSocket hub and webhook dispatcher.  A behaviour is a behaviour of    *)
(* one of them, chosen in the initial state; the others rest.              *)
(***************************************************************************)
EXTENDS Integers, Sequences, FiniteSets

CONSTANTS None, AnyCollection

Nodes == {"n1", "n2"}
Remotes == {"a", "b"}
Callers == {"c1", "c2"}     \* of the coordinator and of the engine, and WebSocket clients
Events == {"e1", "e2", "e3"}
Hooks == {"h1", "h2"}

VARIABLES
  part,
  running, known, incarnation, suspicions, mutex, probing, leaving, stopping, net,
  members, ring, state, silent, shards, call, reporting, memberCh, stopped, overlapped, calls,
  recoveryQueue, recovering, jobs, data, remote, repair, loops,
  pc, hand, currentBatch, currentMemory, batchQueue, queueClosed, accepting, stopCh, cancelled,
  accepted, before, handed, panicked,
  clients, broadcast, reader, writer, connected, send, closed, subscriptions, published, messages,
  hooks, eventCh, current, posting, posted, kept, dropped, due

\* Two nodes of which one is reliable, one message in flight.
G == INSTANCE Gossip
       WITH Fragile <- {"n2"}, MaxIncarnation <- 2, MaxMessages <- 1

\* Two remote nodes, two concurrent calls, a ring of five hashes on which the
\* virtual nodes of one remote surround the local one, memberCh of one event.
C == INSTANCE Coordinator
       WITH Local <- "local", Joined <- {},
            Position <- [local |-> {1}, a |-> {0, 3}, b |-> {2}], Hashes <- 0..4,
            ShardCount <- 2, Replication <- 2, Capacity <- 1, MaxCalls <- 2

\* One lost shard and two recoveries of it, one own shard under repair.
R == INSTANCE ShardRecovery
       WITH Lost <- {"s1"}, Own <- {"s2"}, Chunks <- {"k1", "k2"}, Initial <- {"k1"},
            MaxConcurrentRecov <- 2, MaxJobs <- 2, MaxQueue <- 2,
            stopCh <- loops

\* Two callers and a worker; batches of two points, a queue of one batch and
\* memory for one point, so that the second caller overshoots or waits.
I == INSTANCE Ingestion
       WITH Points <- 1..3, Workers <- {"w"},
            Timer <- "timer", Stopper <- "stopper", BatchSize <- 2, MaxPendingBatches <- 1,
            Threshold <- 0, PointMemory <- 1, MaxMemoryBytes <- 1,
            closed <- queueClosed, running <- accepting

\* Two clients with channels of one message; a subscription to everything and
\* one with an event type and a filter.
H == INSTANCE Hub
       WITH Clients <- Callers,
            Subscriptions <-
              {[collection |-> AnyCollection, events |-> {}, filter |-> {}],
               [collection |-> "k", events |-> {"insert"}, filter |-> {<<"f", 1>>}]},
            Events <- {[collection |-> "k", type |-> "insert", data |-> {}],
                       [collection |-> "k", type |-> "insert", data |-> {<<"f", 1>>}]},
            Vetoed <- {}, SendCapacity <- 1, BroadcastCapacity <- 1,
            MaxPublished <- 1, MaxMessages <- 2

\* Three events for two webhooks, room for one event and for one request.
D == INSTANCE Dispatcher
       WITH Collections <- {"k"}, Collection <- [e \in Events |-> "k"],
            Capacity <- 1, maxConcurrentWebhooks <- 1, subscriptions <- hooks

\* What the theorems about the parts assume of their constants holds of these.
ASSUME InstancesOK == /\ G!ConstantsOK /\ C!ConstantsOK /\ R!ConstantsOK
                      /\ I!ConstantsOK /\ H!ConstantsOK /\ D!ConstantsOK

Parts == {"gossip", "coordinator", "recovery", "ingestion", "hub", "dispatcher"}

Init == /\ part \in Parts
        /\ G!Init /\ C!NewCoordinator /\ R!Init /\ I!Init /\ H!NewHub /\ D!GetDispatcher

gossipVars == <<running, known, incarnation, suspicions, mutex, probing, leaving, stopping, net>>
coordinatorVars == <<members, ring, state, silent, shards, call, reporting, memberCh, stopped,
                     overlapped, calls>>
recoveryVars == <<recoveryQueue, recovering, jobs, data, remote, repair, loops>>
ingestionVars == <<pc, hand, currentBatch, currentMemory, batchQueue, queueClosed, accepting,
                   stopCh, cancelled, accepted, before, handed, panicked>>
hubVars == <<clients, broadcast, reader, writer, connected, send, closed, subscriptions,
             published, messages>>
dispatcherVars == <<hooks, eventCh, current, posting, posted, kept, dropped, due>>

vars == <<part, gossipVars, coordinatorVars, recoveryVars, ingestionVars, hubVars, dispatcherVars>>

\* The others stay as they are.
Only(p) == /\ part = p /\ UNCHANGED part
           /\ (p = "gossip" \/ UNCHANGED gossipVars)
           /\ (p = "coordinator" \/ UNCHANGED coordinatorVars)
           /\ (p = "recovery" \/ UNCHANGED recoveryVars)
           /\ (p = "ingestion" \/ UNCHANGED ingestionVars)
           /\ (p = "hub" \/ UNCHANGED hubVars)
           /\ (p = "dispatcher" \/ UNCHANGED dispatcherVars)

Next == \/ Only("gossip") /\ G!Next
        \/ Only("coordinator") /\ C!Next
        \/ Only("recovery") /\ R!Next
        \/ Only("ingestion") /\ I!Next
        \/ Only("hub") /\ H!Next
        \/ Only("dispatcher") /\ D!Next

\* The parts' fairness is in the liveness properties: each is claimed of the fair
\* behaviours of its own part.
Spec == Init /\ [][Next]_vars

-----------------------------------------------------------------------------
\* The types of each part's state and the capacities of its channels.
TypeOK == /\ part = "gossip" => G!TypeOK
          /\ part = "coordinator" => C!TypeOK
          /\ part = "recovery" => R!TypeOK
          /\ part = "ingestion" => I!TypeOK
          /\ part = "hub" => H!TypeOK
          /\ part = "dispatcher" => D!TypeOK

\* AddMember and RemoveMember: between calls the ring and the shards are those
\* of the members.
ShardsFollowMembers == part = "coordinator" => C!ShardsFollowMembers

\* executeRecovery: a complete recovery left all that the source had at its start.
CompleteHasAll == part = "recovery" => R!CompleteHasAll

\* Ingest: the memory limit is exceeded by one point per further caller at most.
MemoryBounded == part = "ingestion" => I!MemoryBounded

\* Engine.Stop: what was accepted before is handed to onBatch.
StopLosesNothing == part = "ingestion" => I!StopLosesNothing

\* Hub.Run and the pumps: nobody sends on a closed channel.
NoSendOnClosed == part = "hub" => H!NoSendOnClosed

\* mergeStates: what is known of a member never becomes older.
NewestWins == [][G!NeverOlder]_gossipVars

\* HashRing.GetNodes: nodes that stay keep their order for every key.
KeysStay == [][C!OrderKept]_<<ring, state>>

\* doGossip and mergeStates: two members that go on talking come to agree.
Converges == part = "gossip" /\ G!Fairness => G!Converges

\* detectFailures: a member that falls silent is found failed and reported.
FailureReported == part = "coordinator" /\ C!Fairness => C!FailureReported

\* executeRecovery: every recovery ends, so its place comes free.
RecoveriesEnd == part = "recovery" /\ R!Fairness => R!RecoveriesEnd

\* Engine.Stop returns, or the process panics.
StopReturns == part = "ingestion" /\ I!Fairness => I!StopReturns

\* readPump and Run: a client whose connection is closed leaves the hub.
ClientsLeave == part = "hub" /\ H!Fairness => H!ClientsLeave

\* Dispatcher.worker: an event that was put reaches the hooks it is due to.
HooksNotified == part = "dispatcher" /\ D!Fairness => D!HooksNotified
=============================================================================
