------------------------------- MODULE Gossip -------------------------------
(***************************************************************************)
(* Gossip membership, pkg/cluster/gossip.go: every node keeps what it      *)
(* knows of the others (states), pushes it to members it believes active,  *)
(* probes them, and merges what it receives by incarnation and state.      *)
(* Messages may be lost or overtake each other; a node may crash and start *)
(* again with incarnation 1.                                               *)
(*                                                                         *)
(* g.mu is not reentrant, and startSuspicion and broadcastState call       *)
(* nextSeqNo, which takes it, while they hold it.  The goroutine waits for *)
(* itself: mutex[p] stays "wedged", and every step of p that needs g.mu is *)
(* disabled from then on.  For this reason checkSuspicions never finds an  *)
(* expired timer and nothing is ever taken from or put on the broadcast    *)
(* queue: the expiry of suspicions has no step here.                       *)
(*                                                                         *)
(* That messages reach HandleMessage is the application's wiring           *)
(* (Transport.OnMessage).                                                  *)
(***************************************************************************)
EXTENDS Integers, FiniteSets

CONSTANTS Nodes, None,
          Fragile,          \* the nodes that may leave, stop or crash
          MaxIncarnation,   \* bound on SetMetadata and Leave of one process
          MaxMessages       \* bound on the messages in flight

VARIABLES
  running,       \* the processes that are up and not stopped
  known,         \* known[p][n]: g.states of p, or None
  incarnation,   \* g.incarnation
  suspicions,    \* g.suspicions: the nodes with a timer
  mutex,         \* g.mu: "free", or "wedged" by the goroutine that holds it
  probing,       \* the target of the running doProbe
  leaving,       \* nodes between the two critical sections of Leave
  stopping,      \* nodes whose Stop waits for the goroutines
  net            \* messages in flight

vars == <<running, known, incarnation, suspicions, mutex, probing, leaving,
          stopping, net>>

local == <<suspicions, mutex, probing, leaving, stopping>>

States == {"active", "suspect", "leaving", "inactive"}

Entry == [state: States, incarnation: 1..MaxIncarnation]

ConstantsOK == MaxIncarnation \in Nat \ {0} /\ None \notin Nodes \cup Entry

statePriority(s) ==
  CASE s = "active" -> 0 [] s = "suspect" -> 1 [] s = "leaving" -> 2 [] OTHER -> 3

\* What NewGossiper starts with: the node knows itself.
NewGossiper(p) ==
  [n \in Nodes |-> IF n = p THEN [state |-> "active", incarnation |-> 1] ELSE None]

Init ==
  /\ running = Nodes
  /\ known = [p \in Nodes |-> NewGossiper(p)]
  /\ incarnation = [p \in Nodes |-> 1]
  /\ suspicions = [p \in Nodes |-> {}]
  /\ mutex = [p \in Nodes |-> "free"]
  /\ probing = [p \in Nodes |-> None]
  /\ leaving = {}
  /\ stopping = {}
  /\ net = {}

-----------------------------------------------------------------------------
\* Is the incoming entry newer than the existing one?
Newer(incoming, existing) ==
  \/ existing = None
  \/ incoming.incarnation > existing.incarnation
  \/ /\ incoming.incarnation = existing.incarnation
     /\ statePriority(incoming.state) > statePriority(existing.state)

\* The incarnations left out of the comparison.
NewerByState(incoming, existing) ==
  \/ existing = None
  \/ statePriority(incoming.state) >= statePriority(existing.state)

\* Only what is unknown is taken over.
NewerIfUnknown(incoming, existing) == existing = None

\* A node's own entry is merged like any other: there is no refutation.
MergedWith(entries, states, newer(_, _)) ==
  [n \in Nodes |-> IF states[n] # None /\ newer(states[n], entries[n])
                   THEN states[n] ELSE entries[n]]

mergeStatesUnordered(entries, states) == MergedWith(entries, states, NewerByState)

mergeStatesOnce(entries, states) == MergedWith(entries, states, NewerIfUnknown)

mergeStates(entries, states) == MergedWith(entries, states, Newer)

\* The goroutines of p that need g.mu.
CanLock(p) == p \in running /\ mutex[p] = "free"

Message(type, from, to) == [type |-> type, from |-> from, to |-> to, states |-> known[from]]

Send(m) == Cardinality(net) < MaxMessages /\ net' = net \cup {m}

\* Join: push-pull to a seed.
Join(p, seed) ==
  /\ CanLock(p) /\ p # seed /\ p \notin stopping
  /\ known[p][seed] = None
  /\ Send(Message("push_pull", p, seed))
  /\ UNCHANGED <<running, known, incarnation, local>>

Active(p) == {n \in Nodes \ {p} : known[p][n] # None /\ known[p][n].state = "active"}

\* doGossip, for one of the targets that selectGossipTargets may pick.
doGossip(p, target) ==
  /\ CanLock(p) /\ p \notin stopping
  /\ target \in Active(p)
  /\ Send(Message("push", p, target))
  /\ UNCHANGED <<running, known, incarnation, local>>

\* HandleMessage of the receiver.  A push is answered with an empty ack, which
\* the sender cannot decode and drops; a push-pull with everything known.
HandleMessage(m) ==
  /\ CanLock(m.to)
  /\ LET merged == mergeStates(known[m.to], m.states)
         reply  == [type |-> "reply", from |-> m.to, to |-> m.from, states |-> merged]
     IN  /\ known' = [known EXCEPT ![m.to] = merged]
         /\ net' = (net \ {m}) \cup (IF m.type = "push_pull" THEN {reply} ELSE {})
  /\ UNCHANGED <<running, incarnation, local>>

Deliver(from, to) == \E m \in net : m.from = from /\ m.to = to /\ HandleMessage(m)

\* The message, or the connection, is lost.
Lose == /\ \E m \in net : net' = net \ {m}
        /\ UNCHANGED <<running, known, incarnation, local>>

-----------------------------------------------------------------------------
\* doProbe up to the answer: selectProbeTarget and nextSeqNo.
doProbe(p) ==
  /\ CanLock(p) /\ p \notin stopping
  /\ probing[p] = None
  /\ \E target \in Active(p) : probing' = [probing EXCEPT ![p] = target]
  /\ UNCHANGED <<running, known, incarnation, suspicions, mutex, leaving, stopping, net>>

\* The target answers without taking its g.mu; clearSuspicion.
clearSuspicion(p) ==
  LET n == probing[p] IN
  /\ n # None /\ n \in running
  /\ CanLock(p)
  /\ probing' = [probing EXCEPT ![p] = None]
  /\ suspicions' = [suspicions EXCEPT ![p] = @ \ {n}]
  /\ known' = [known EXCEPT ![p][n] =
                 IF @.state = "suspect" THEN [@ EXCEPT !.state = "active"] ELSE @]
  /\ UNCHANGED <<running, incarnation, mutex, leaving, stopping, net>>

\* The probe fails; startSuspicion marks the node and then waits for itself.
startSuspicion(p) ==
  LET n == probing[p] IN
  /\ n # None
  /\ CanLock(p)
  /\ IF n \in suspicions[p] \/ known[p][n].state # "active"
     THEN /\ probing' = [probing EXCEPT ![p] = None]
          /\ UNCHANGED <<known, suspicions, mutex>>
     ELSE /\ known' = [known EXCEPT ![p][n].state = "suspect"]
          /\ suspicions' = [suspicions EXCEPT ![p] = @ \cup {n}]
          /\ mutex' = [mutex EXCEPT ![p] = "wedged"]
          /\ UNCHANGED probing
  /\ UNCHANGED <<running, incarnation, leaving, stopping, net>>

-----------------------------------------------------------------------------
\* A new incarnation of p in its own entry.
Reincarnate(p, state) ==
  /\ incarnation[p] < MaxIncarnation
  /\ incarnation' = [incarnation EXCEPT ![p] = @ + 1]
  /\ known' = [known EXCEPT ![p][p] = [state |-> state, incarnation |-> incarnation[p] + 1]]

SetMetadata(p) ==
  /\ CanLock(p) /\ p \notin leaving
  /\ Reincarnate(p, known[p][p].state)
  /\ UNCHANGED <<running, local, net>>

\* Leave up to the first Unlock.
Leave(p) ==
  /\ p \in Fragile /\ CanLock(p) /\ p \notin leaving
  /\ Reincarnate(p, "leaving")
  /\ leaving' = leaving \cup {p}
  /\ UNCHANGED <<running, suspicions, mutex, probing, stopping, net>>

\* broadcastState takes g.mu again and then waits for itself in nextSeqNo.
broadcastState(p) ==
  /\ p \in leaving /\ CanLock(p)
  /\ mutex' = [mutex EXCEPT ![p] = "wedged"]
  /\ UNCHANGED <<running, known, incarnation, suspicions, probing, leaving, stopping, net>>

\* Stop closes stopCh and waits for the three loops.
Stop(p) ==
  /\ p \in Fragile \cap running /\ p \notin stopping
  /\ stopping' = stopping \cup {p}
  /\ UNCHANGED <<running, known, incarnation, suspicions, mutex, probing, leaving, net>>

\* A process that ends takes the connections it waits on with it.
Unanswered(p) == {m \in net : m.type # "reply" \/ m.to # p}

\* wg.Wait returns when no loop stands at g.mu or in a probe.
Stopped(p) ==
  /\ p \in stopping /\ mutex[p] = "free" /\ probing[p] = None
  /\ running' = running \ {p}
  /\ stopping' = stopping \ {p}
  /\ net' = Unanswered(p)
  /\ UNCHANGED <<known, incarnation, suspicions, mutex, probing, leaving>>

Crash(p) ==
  /\ p \in Fragile \cap running
  /\ running' = running \ {p}
  /\ stopping' = stopping \ {p}
  /\ net' = Unanswered(p)
  /\ UNCHANGED <<known, incarnation, suspicions, mutex, probing, leaving>>

\* A new process under the same node id.
Start(p) ==
  /\ p \notin running
  /\ running' = running \cup {p}
  /\ known' = [known EXCEPT ![p] = NewGossiper(p)]
  /\ incarnation' = [incarnation EXCEPT ![p] = 1]
  /\ suspicions' = [suspicions EXCEPT ![p] = {}]
  /\ mutex' = [mutex EXCEPT ![p] = "free"]
  /\ probing' = [probing EXCEPT ![p] = None]
  /\ leaving' = leaving \ {p}
  /\ UNCHANGED <<stopping, net>>

Next ==
  \/ \E p, q \in Nodes : Join(p, q) \/ doGossip(p, q) \/ Deliver(p, q)
  \/ Lose
  \/ \E p \in Nodes :
       \/ doProbe(p) \/ clearSuspicion(p) \/ startSuspicion(p)
       \/ SetMetadata(p) \/ Leave(p) \/ broadcastState(p)
       \/ Stop(p) \/ Stopped(p) \/ Crash(p) \/ Start(p)

(***************************************************************************)
(* The loops run until stopCh is closed, and their goroutines go on.       *)
(* Targets are drawn at random and a connection that works again and again *)
(* lets a message through again and again, hence strong fairness of        *)
(* sending to and of delivery between each pair.                           *)
(***************************************************************************)
Fairness ==
  /\ \A p \in Nodes : \A q \in Nodes \ {p} :
       SF_vars(doGossip(p, q)) /\ SF_vars(Deliver(p, q))
  /\ \A p \in Nodes : /\ WF_vars(clearSuspicion(p) \/ startSuspicion(p))
                       /\ WF_vars(Stopped(p))
  /\ WF_vars(Lose)

Spec == Init /\ [][Next]_vars /\ Fairness

-----------------------------------------------------------------------------
TypeOK ==
  /\ running \subseteq Nodes /\ leaving \subseteq Nodes /\ stopping \subseteq running
  /\ known \in [Nodes -> [Nodes -> Entry \cup {None}]]
  /\ incarnation \in [Nodes -> 1..MaxIncarnation]
  /\ suspicions \in [Nodes -> SUBSET Nodes]
  /\ mutex \in [Nodes -> {"free", "wedged"}]
  /\ probing \in [Nodes -> Nodes \cup {None}]
  /\ \A m \in net : /\ m.type \in {"push", "push_pull", "reply"}
                    /\ m.from \in Nodes /\ m.to \in Nodes
                    /\ m.states \in [Nodes -> Entry \cup {None}]

\* What a process knows of another member never goes back to an older incarnation, or
\* from leaving to active within one, whatever order messages arrive in.
NeverOlder ==
  \A p, n \in Nodes :
    p # n /\ p \in running /\ p \in running' /\ known[p][n] # None =>
      /\ known'[p][n] # None
      /\ known'[p][n].incarnation >= known[p][n].incarnation
      /\ known[p][n].state = "leaving" /\ known'[p][n].state = "active" =>
           known'[p][n].incarnation > known[p][n].incarnation

NewestWins == [][NeverOlder]_vars

\* Two processes that go on working, of which p believes q active: q comes to
\* know the latest incarnation of p.
Converges ==
  \A p, q \in Nodes :
    <>[](CanLock(p) /\ CanLock(q) /\ p \notin stopping /\ q \in Active(p))
      => <>[](known[q][p] # None /\ known[q][p].incarnation >= known[p][p].incarnation)
=============================================================================
