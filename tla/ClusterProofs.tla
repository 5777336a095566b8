--------------------------- MODULE ClusterProofs ---------------------------
(***************************************************************************)
(* Theorems about the cluster: what gossip tells the nodes of each other,  *)
(* and the members, ring and shards that the coordinator keeps.  They hold *)
(* for every value of the constants; each part's specification is          *)
(* instantiated with its own names.                                        *)
(***************************************************************************)
EXTENDS Integers, Sequences, FiniteSets, TLAPS

-----------------------------------------------------------------------------
(* Gossip.  Entries are only replaced by newer ones, by the node itself or  *)
(* by the failure detector, which moves a member between active and suspect *)
(* and nothing else.  The invariant says in addition to the types that      *)
(* probes go to members that are known.                                     *)

CONSTANTS Nodes, None, Fragile, MaxIncarnation, MaxMessages

VARIABLES running, known, incarnation, suspicions, mutex, probing, leaving, stopping, net

G == INSTANCE Gossip

GossipInv ==
  /\ G!TypeOK
  /\ \A p \in Nodes : /\ known[p][p] # None
                      /\ probing[p] # None => probing[p] # p /\ known[p][probing[p]] # None

\* The entry e may follow the entry d.
Follows(e, d) ==
  /\ e # None
  /\ e.incarnation >= d.incarnation
  /\ d.state = "leaving" /\ e.state = "active" => e.incarnation > d.incarnation

Entries == [Nodes -> G!Entry \cup {None}]

\* mergeStates keeps what is known or replaces it by something newer.
LEMMA MergeFollows ==
  ASSUME G!ConstantsOK, NEW entries \in Entries, NEW states \in Entries
  PROVE  /\ G!mergeStates(entries, states) \in Entries
         /\ \A n \in Nodes : entries[n] # None =>
              Follows(G!mergeStates(entries, states)[n], entries[n])
<1> DEFINE merged == G!mergeStates(entries, states)
<1>1. merged = [n \in Nodes |-> IF states[n] # None /\ G!Newer(states[n], entries[n])
                                THEN states[n] ELSE entries[n]]
  BY Zenon DEF G!mergeStates, G!MergedWith
<1>2. merged \in Entries
  BY Zenon, <1>1 DEF Entries
<1>3. ASSUME NEW n \in Nodes, entries[n] # None
      PROVE  Follows(merged[n], entries[n])
  <2>1. entries[n] \in G!Entry /\ (states[n] # None => states[n] \in G!Entry)
    BY Zenon, <1>3 DEF Entries
  <2>2. CASE states[n] # None /\ G!Newer(states[n], entries[n])
    BY <1>1, <1>3, <2>1, <2>2
       DEF G!Newer, G!statePriority, G!Entry, G!States, G!ConstantsOK, Follows
  <2>3. CASE ~(states[n] # None /\ G!Newer(states[n], entries[n]))
    BY <1>1, <1>3, <2>1, <2>3 DEF G!Entry, G!ConstantsOK, Follows
  <2> QED BY Zenon, <2>2, <2>3
<1> QED BY Zenon, <1>2, <1>3

LEMMA GossipInit ==
  ASSUME G!ConstantsOK PROVE G!Init => GossipInv
  BY DEF G!ConstantsOK, G!Init, G!NewGossiper, G!TypeOK, G!Entry, G!States, GossipInv

\* Steps that leave every known entry as it is.
LEMMA GossipQuiet ==
  ASSUME G!ConstantsOK, GossipInv,
         \/ \E p, q \in Nodes : G!Join(p, q) \/ G!doGossip(p, q)
         \/ G!Lose
         \/ \E p \in Nodes : \/ G!doProbe(p) \/ G!broadcastState(p) \/ G!Stop(p)
                             \/ G!Stopped(p) \/ G!Crash(p)
         \/ UNCHANGED G!vars
  PROVE  GossipInv' /\ UNCHANGED known
<1> USE DEF GossipInv, G!TypeOK
<1>1. ASSUME NEW p \in Nodes, NEW q \in Nodes, G!Join(p, q) \/ G!doGossip(p, q)
      PROVE  GossipInv' /\ UNCHANGED known
  <2>1. PICK type \in {"push", "push_pull"} : net' = net \cup {G!Message(type, p, q)}
    BY Zenon, <1>1 DEF G!Join, G!doGossip, G!Send
  <2>2. \A m \in net' : /\ m.type \in {"push", "push_pull", "reply"}
                        /\ m.from \in Nodes /\ m.to \in Nodes
                        /\ m.states \in [Nodes -> G!Entry \cup {None}]
    BY <2>1 DEF G!Message
  <2> QED BY Zenon, <1>1, <2>2 DEF G!Join, G!doGossip, G!local
<1>2. CASE G!Lose
  BY Zenon, <1>2 DEF G!Lose, G!local
<1>3. ASSUME NEW p \in Nodes, G!doProbe(p)
      PROVE  GossipInv' /\ UNCHANGED known
  BY <1>3, SMTT(40) DEF G!doProbe, G!Active
<1>4. ASSUME NEW p \in Nodes, \/ G!broadcastState(p) \/ G!Stop(p)
                              \/ G!Stopped(p) \/ G!Crash(p)
      PROVE  GossipInv' /\ UNCHANGED known
  BY ZenonT(30), <1>4 DEF G!broadcastState, G!Stop, G!Stopped, G!Crash, G!Unanswered
<1>5. CASE UNCHANGED G!vars
  BY Zenon, <1>5 DEF G!vars
<1> QED BY Zenon, <1>1, <1>2, <1>3, <1>4, <1>5

\* What a probe is about is a known member.
LEMMA ProbesKnown ==
  ASSUME GossipInv, NEW p \in Nodes
  PROVE  /\ known[p][p] # None
         /\ probing[p] # None => /\ probing[p] \in Nodes /\ probing[p] # p
                                 /\ known[p][probing[p]] # None
                                 /\ known[p][probing[p]] \in G!Entry
<1>1. probing[p] \in Nodes \cup {None}
  BY Zenon DEF GossipInv, G!TypeOK
<1>2. \A n \in Nodes : known[p][n] \in G!Entry \cup {None}
  BY DEF GossipInv, G!TypeOK
<1>3. /\ known[p][p] # None
      /\ probing[p] # None => probing[p] # p /\ known[p][probing[p]] # None
  BY Zenon DEF GossipInv
<1> QED BY Zenon, <1>1, <1>2, <1>3

\* HandleMessage, in whatever order messages arrive.
LEMMA GossipMerge ==
  ASSUME G!ConstantsOK, GossipInv, NEW m \in net, G!HandleMessage(m)
  PROVE  GossipInv' /\ G!NeverOlder
<1> DEFINE q == m.to
           merged == G!mergeStates(known[q], m.states)
           reply == [type |-> "reply", from |-> q, to |-> m.from, states |-> merged]
<1>1. q \in Nodes /\ m.from \in Nodes /\ known[q] \in Entries /\ m.states \in Entries
  BY Zenon DEF GossipInv, G!TypeOK, Entries
<1>2. merged \in Entries /\ \A n \in Nodes : known[q][n] # None => Follows(merged[n], known[q][n])
  BY Zenon, <1>1, MergeFollows
<1>3. /\ known' = [known EXCEPT ![q] = merged]
      /\ net' \subseteq net \cup {reply}
      /\ UNCHANGED <<running, incarnation, suspicions, mutex, probing, leaving, stopping>>
  BY Zenon DEF G!HandleMessage, G!local
<1>4. known' \in [Nodes -> Entries]
  BY Zenon, <1>1, <1>2, <1>3 DEF GossipInv, G!TypeOK, Entries
<1>5. \A p, n \in Nodes : known[p][n] # None =>
         known'[p][n] = known[p][n] \/ Follows(known'[p][n], known[p][n])
  BY Zenon, <1>1, <1>2, <1>3 DEF GossipInv, G!TypeOK
<1>6. \A p, n \in Nodes : known[p][n] # None => Follows(known'[p][n], known[p][n])
  <2>1. \A p, n \in Nodes : known[p][n] # None => Follows(known[p][n], known[p][n])
    BY DEF GossipInv, G!TypeOK, G!Entry, G!ConstantsOK, Follows
  <2> QED BY Zenon, <1>5, <2>1
<1>7. \A p, n \in Nodes : known[p][n] # None => known'[p][n] # None
  BY Zenon, <1>6 DEF Follows
<1>8. reply.type = "reply" /\ reply.from = q /\ reply.to = m.from /\ reply.states = merged
  BY Zenon
<1>9. \A x \in net' : /\ x.type \in {"push", "push_pull", "reply"}
                      /\ x.from \in Nodes /\ x.to \in Nodes /\ x.states \in Entries
  <2> HIDE DEF reply, merged, q
  <2> QED BY Zenon, <1>1, <1>2, <1>3, <1>8 DEF GossipInv, G!TypeOK, Entries
<1>10. G!TypeOK'
  BY Zenon, <1>3, <1>4, <1>9 DEF GossipInv, G!TypeOK, Entries
<1>11. GossipInv'
  <2>1. \A p \in Nodes : /\ known'[p][p] # None
                         /\ probing'[p] # None => /\ probing'[p] # p
                                                  /\ known'[p][probing'[p]] # None
    BY Zenon, <1>3, <1>7, ProbesKnown
  <2> QED BY Zenon, <1>10, <2>1 DEF GossipInv
<1>12. G!NeverOlder
  BY Zenon, <1>6 DEF G!NeverOlder, Follows
<1> QED BY Zenon, <1>11, <1>12

\* A probe that ends: the failure detector.
LEMMA GossipProbe ==
  ASSUME G!ConstantsOK, GossipInv, NEW p \in Nodes, G!clearSuspicion(p) \/ G!startSuspicion(p)
  PROVE  GossipInv' /\ G!NeverOlder
<1> DEFINE n == probing[p]
<1>1. n \in Nodes /\ n # p /\ known[p][n] \in G!Entry /\ known[p][n] # None
  <2>1. n # None
    BY Zenon DEF G!clearSuspicion, G!startSuspicion
  <2> QED BY Zenon, <2>1, ProbesKnown
<1>2. ASSUME NEW e \in G!Entry, known' = [known EXCEPT ![p][n] = e],
             e.incarnation = known[p][n].incarnation,
             known[p][n].state = "leaving" => e.state = "leaving",
             UNCHANGED <<running, incarnation, leaving, stopping, net>>,
             suspicions' \in [Nodes -> SUBSET Nodes],
             mutex' \in [Nodes -> {"free", "wedged"}],
             UNCHANGED probing \/ probing' = [probing EXCEPT ![p] = None]
      PROVE  GossipInv' /\ G!NeverOlder
  <2>1. e # None
    BY Zenon, <1>2 DEF G!ConstantsOK
  <2>2. known' \in [Nodes -> [Nodes -> G!Entry \cup {None}]]
    BY Zenon, <1>1, <1>2 DEF GossipInv, G!TypeOK
  <2>3. \A a, b \in Nodes : known[a][b] # None => known'[a][b] # None
    BY Zenon, <1>1, <1>2, <2>1 DEF GossipInv, G!TypeOK
  <2>4. probing' \in [Nodes -> Nodes \cup {None}]
    BY Zenon, <1>2 DEF GossipInv, G!TypeOK
  <2>5. \A a \in Nodes : probing'[a] # None => probing'[a] = probing[a]
    BY Zenon, <1>2 DEF GossipInv, G!TypeOK
  <2>6. GossipInv'
    <3>1. G!TypeOK'
      BY Zenon, <1>2, <2>2, <2>4 DEF GossipInv, G!TypeOK
    <3>2. \A a \in Nodes : /\ known'[a][a] # None
                           /\ probing'[a] # None => /\ probing'[a] # a
                                                    /\ known'[a][probing'[a]] # None
      BY <2>3, <2>5, ProbesKnown, SMTT(40)
    <3> QED BY Zenon, <3>1, <3>2 DEF GossipInv
  <2>7. \A a, b \in Nodes : known[a][b] # None =>
           \/ known'[a][b] = known[a][b]
           \/ a = p /\ b = n /\ known'[a][b] = e
    BY Zenon, <1>1, <1>2 DEF GossipInv, G!TypeOK
  <2>8. \A a, b \in Nodes : known[a][b] # None => known[a][b] \in G!Entry
    BY DEF GossipInv, G!TypeOK
  <2>9. G!NeverOlder
    BY <1>1, <1>2, <2>3, <2>7, <2>8 DEF G!NeverOlder, G!Entry
  <2> QED BY Zenon, <2>6, <2>9
<1>3. CASE G!clearSuspicion(p)
  <2> DEFINE e == IF known[p][n].state = "suspect"
                  THEN [known[p][n] EXCEPT !.state = "active"] ELSE known[p][n]
  <2>1. e \in G!Entry /\ e.incarnation = known[p][n].incarnation
    BY Zenon, <1>1 DEF G!Entry, G!States
  <2>2. known[p][n].state = "leaving" => e.state = "leaving"
    BY Zenon, <1>1
  <2>3. known' = [known EXCEPT ![p][n] = e]
    BY Zenon, <1>3 DEF G!clearSuspicion
  <2>4. suspicions' \in [Nodes -> SUBSET Nodes]
    BY Zenon, <1>3 DEF G!clearSuspicion, GossipInv, G!TypeOK
  <2> HIDE DEF e
  <2> QED BY Zenon, <1>2, <1>3, <2>1, <2>2, <2>3, <2>4 DEF G!clearSuspicion, GossipInv, G!TypeOK
<1>4. CASE G!startSuspicion(p) /\ UNCHANGED known
  <2>1. /\ suspicions' \in [Nodes -> SUBSET Nodes]
        /\ mutex' \in [Nodes -> {"free", "wedged"}]
    <3>1. \/ UNCHANGED <<suspicions, mutex>>
          \/ /\ suspicions' = [suspicions EXCEPT ![p] = @ \cup {n}]
             /\ mutex' = [mutex EXCEPT ![p] = "wedged"]
      BY Zenon, <1>4 DEF G!startSuspicion
    <3>2. suspicions \in [Nodes -> SUBSET Nodes] /\ mutex \in [Nodes -> {"free", "wedged"}]
      BY Zenon DEF GossipInv, G!TypeOK
    <3> HIDE DEF n
    <3> QED BY <1>1, <3>1, <3>2
  <2>2. known' = [known EXCEPT ![p][n] = known[p][n]]
    BY Zenon, <1>4 DEF GossipInv, G!TypeOK
  <2> QED BY Zenon, <1>1, <1>2, <1>4, <2>1, <2>2 DEF G!startSuspicion
<1>5. CASE G!startSuspicion(p) /\ known' # known
  <2> DEFINE e == [known[p][n] EXCEPT !.state = "suspect"]
  <2>1. known[p][n].state = "active" /\ known' = [known EXCEPT ![p][n].state = "suspect"]
    BY Zenon, <1>5 DEF G!startSuspicion
  <2>2. e \in G!Entry /\ e.incarnation = known[p][n].incarnation
    BY Zenon, <1>1 DEF G!Entry, G!States
  <2>3. known' = [known EXCEPT ![p][n] = e]
    BY Zenon, <2>1
  <2>4. /\ suspicions' \in [Nodes -> SUBSET Nodes]
        /\ mutex' \in [Nodes -> {"free", "wedged"}]
    <3>1. \/ UNCHANGED <<suspicions, mutex>>
          \/ /\ suspicions' = [suspicions EXCEPT ![p] = @ \cup {n}]
             /\ mutex' = [mutex EXCEPT ![p] = "wedged"]
      BY Zenon, <1>5 DEF G!startSuspicion
    <3>2. suspicions \in [Nodes -> SUBSET Nodes] /\ mutex \in [Nodes -> {"free", "wedged"}]
      BY Zenon DEF GossipInv, G!TypeOK
    <3> HIDE DEF n
    <3> QED BY <1>1, <3>1, <3>2
  <2> HIDE DEF e
  <2> QED BY Zenon, <1>2, <1>5, <2>1, <2>2, <2>3, <2>4 DEF G!startSuspicion
<1> QED BY Zenon, <1>3, <1>4, <1>5

\* A node's own new incarnation.
LEMMA GossipReincarnate ==
  ASSUME G!ConstantsOK, GossipInv, NEW p \in Nodes, G!SetMetadata(p) \/ G!Leave(p)
  PROVE  GossipInv' /\ G!NeverOlder
<1>1. known[p][p] # None /\ known[p][p] \in G!Entry
  <2>1. known[p][p] \in G!Entry \cup {None}
    BY DEF GossipInv, G!TypeOK
  <2> QED BY Zenon, <2>1, ProbesKnown
<1>2. PICK s \in G!States : G!Reincarnate(p, s)
  BY Zenon, <1>1 DEF G!SetMetadata, G!Leave, G!Entry, G!States
<1>3. /\ UNCHANGED <<running, suspicions, mutex, probing, stopping, net>>
      /\ leaving' \subseteq Nodes
  BY Zenon DEF G!SetMetadata, G!Leave, G!local, GossipInv, G!TypeOK
<1> DEFINE e == [state |-> s, incarnation |-> incarnation[p] + 1]
<1>4. incarnation[p] + 1 \in 1..MaxIncarnation
  BY <1>2 DEF G!Reincarnate, G!ConstantsOK, GossipInv, G!TypeOK
<1>5. e \in G!Entry /\ e # None
  <2>1. e \in G!Entry
    BY Zenon, <1>4 DEF G!Entry
  <2> HIDE DEF e
  <2> QED BY Zenon, <2>1 DEF G!ConstantsOK
<1>6. known' = [known EXCEPT ![p][p] = e] /\ incarnation' = [incarnation EXCEPT ![p] = @ + 1]
  BY Zenon, <1>2 DEF G!Reincarnate
<1> HIDE DEF e
<1>7. /\ known' \in [Nodes -> [Nodes -> G!Entry \cup {None}]]
      /\ incarnation' \in [Nodes -> 1..MaxIncarnation]
  BY Zenon, <1>4, <1>5, <1>6 DEF GossipInv, G!TypeOK
<1>8. \A a, b \in Nodes : a # b => known'[a][b] = known[a][b]
  BY <1>6 DEF GossipInv, G!TypeOK
<1>9. \A a \in Nodes : known'[a][a] # None
  BY Zenon, <1>5, <1>6, ProbesKnown DEF GossipInv, G!TypeOK
<1>10. G!TypeOK'
  BY Zenon, <1>3, <1>7 DEF GossipInv, G!TypeOK
<1>11. \A a \in Nodes : probing'[a] # None => probing'[a] # a /\ known'[a][probing'[a]] # None
  BY ZenonT(30), <1>3, <1>8, ProbesKnown
<1>12. \A a, b \in Nodes : known[a][b] # None => known[a][b].incarnation \in Nat
  BY SMTT(40) DEF GossipInv, G!TypeOK, G!Entry, G!ConstantsOK
<1>13. G!NeverOlder
  <2> SUFFICES ASSUME NEW a \in Nodes, NEW b \in Nodes, a # b, known[a][b] # None
               PROVE  /\ known'[a][b] # None
                      /\ known'[a][b].incarnation >= known[a][b].incarnation
                      /\ ~(known[a][b].state = "leaving" /\ known'[a][b].state = "active")
    BY Zenon DEF G!NeverOlder
  <2>1. known'[a][b] = known[a][b]
    BY Zenon, <1>8
  <2>2. known[a][b].incarnation \in Nat
    BY Zenon, <1>12
  <2> QED BY <2>1, <2>2
<1> QED BY Zenon, <1>9, <1>10, <1>11, <1>13 DEF GossipInv

\* A process that starts again knows only itself: nothing is claimed of it.
LEMMA GossipStart ==
  ASSUME G!ConstantsOK, GossipInv, NEW p \in Nodes, G!Start(p)
  PROVE  GossipInv' /\ G!NeverOlder
<1>1. G!NewGossiper(p) \in [Nodes -> G!Entry \cup {None}] /\ G!NewGossiper(p)[p] # None
  BY DEF G!NewGossiper, G!Entry, G!States, G!ConstantsOK
<1>2. known' = [known EXCEPT ![p] = G!NewGossiper(p)] /\ probing' = [probing EXCEPT ![p] = None]
  BY Zenon DEF G!Start
<1>3. G!TypeOK'
  <2>1. known' \in [Nodes -> [Nodes -> G!Entry \cup {None}]]
    BY Zenon, <1>1, <1>2 DEF GossipInv, G!TypeOK
  <2>2. /\ running' \subseteq Nodes /\ leaving' \subseteq Nodes /\ stopping' \subseteq running'
        /\ incarnation' \in [Nodes -> 1..MaxIncarnation]
    BY DEF G!Start, GossipInv, G!TypeOK, G!ConstantsOK
  <2>3. /\ suspicions' \in [Nodes -> SUBSET Nodes]
        /\ mutex' \in [Nodes -> {"free", "wedged"}]
        /\ probing' \in [Nodes -> Nodes \cup {None}]
    BY Zenon DEF G!Start, GossipInv, G!TypeOK
  <2> QED BY Zenon, <2>1, <2>2, <2>3 DEF G!Start, GossipInv, G!TypeOK
<1>4. \A a \in Nodes : /\ known'[a][a] # None
                       /\ probing'[a] # None => /\ probing'[a] # a
                                                /\ known'[a][probing'[a]] # None
  BY Zenon, <1>1, <1>2, ProbesKnown DEF GossipInv, G!TypeOK
<1>5. \A a, b \in Nodes : a # p => known'[a][b] = known[a][b]
  BY Zenon, <1>2 DEF GossipInv, G!TypeOK
<1>6. \A a, b \in Nodes : known[a][b] # None => known[a][b].incarnation \in Nat
  BY DEF GossipInv, G!TypeOK, G!Entry, G!ConstantsOK
<1>7. p \notin running
  BY Zenon DEF G!Start
<1>8. G!NeverOlder
  BY <1>5, <1>6, <1>7 DEF G!NeverOlder
<1> QED BY Zenon, <1>3, <1>4, <1>8 DEF GossipInv

LEMMA GossipStep ==
  ASSUME G!ConstantsOK, GossipInv, [G!Next]_G!vars
  PROVE  GossipInv' /\ [G!NeverOlder]_G!vars
<1>1. ASSUME GossipInv' /\ UNCHANGED known
      PROVE  GossipInv' /\ [G!NeverOlder]_G!vars
  <2>1. \A a, b \in Nodes : known[a][b] # None => known[a][b].incarnation \in Nat
    BY DEF GossipInv, G!TypeOK, G!Entry, G!ConstantsOK
  <2> QED BY <1>1, <2>1 DEF G!NeverOlder
<1>2. ASSUME NEW p \in Nodes, NEW q \in Nodes, G!Deliver(p, q)
      PROVE  GossipInv' /\ G!NeverOlder
  BY Zenon, <1>2, GossipMerge DEF G!Deliver
<1>3. ASSUME NEW p \in Nodes, \/ G!clearSuspicion(p) \/ G!startSuspicion(p)
                              \/ G!SetMetadata(p) \/ G!Leave(p) \/ G!Start(p)
      PROVE  GossipInv' /\ G!NeverOlder
  BY Zenon, <1>3, GossipProbe, GossipReincarnate, GossipStart
<1> QED BY Zenon, <1>1, <1>2, <1>3, GossipQuiet DEF G!Next

\* What a process knows of another member never goes back to an older incarnation,
\* or from leaving to active within one, for any number of nodes and messages, in
\* any order of delivery, with losses and restarts.
THEOREM GossipNeverOlder ==
  ASSUME G!ConstantsOK
  PROVE  G!Spec => []G!TypeOK /\ G!NewestWins
<1>1. G!Init => GossipInv
  BY Zenon, GossipInit
<1>2. GossipInv /\ [G!Next]_G!vars => GossipInv' /\ [G!NeverOlder]_G!vars
  BY Zenon, GossipStep
<1>3. GossipInv => G!TypeOK
  BY Zenon DEF GossipInv
<1> QED BY <1>1, <1>2, <1>3, PTL DEF G!Spec, G!NewestWins

-----------------------------------------------------------------------------
(* The coordinator.  Its steps come first; that round-robin gives a shard    *)
(* all its owners is a matter of counting, and comes last.                   *)

CONSTANTS Capacity, Local, Remotes, Joined, Callers, Position, Hashes, ShardCount, Replication, MaxCalls

VARIABLES members, ring, state, silent, shards, call, reporting, memberCh, stopped, overlapped,
          calls

C == INSTANCE Coordinator

\* A call that has changed the members and not yet the shards.
Pending(c, n) == call[c].at = "shards" /\ call[c].id = n

\* For a node on which no calls overlapped: at most one is between its two critical
\* sections, the members say what it wants, and without one the ring agrees with
\* the members.
InStep(n) ==
  /\ \A c, d \in Callers : Pending(c, n) /\ Pending(d, n) => c = d
  /\ \A c \in Callers : Pending(c, n) => (n \in members <=> call[c].type = "join")
  /\ (\A c \in Callers : ~Pending(c, n)) => (n \in ring <=> n \in members)

MemberEvent == [type: {"join", "leave", "failed"}, id: Remotes]

Call == [at: {"idle", "shards", "event"}, id: Remotes \cup {None}, type: {"join", "leave"}]

CoordinatorInv ==
  /\ C!TypeOK
  /\ memberCh \in Seq(MemberEvent)
  /\ call \in [Callers -> Call]
  /\ \A c \in Callers : call[c].at # "idle" => call[c].id \in Remotes
  /\ shards \in C!rebalanceShards[ring]
  /\ \A n \in Remotes \ overlapped : InStep(n)

\* Calls that begin.
LEMMA CallBegins ==
  ASSUME C!ConstantsOK, CoordinatorInv, NEW c \in Callers, NEW n \in Remotes,
         C!AddMember(c, n) \/ C!RemoveMember(c, n)
  PROVE  CoordinatorInv'
<1>1. PICK t \in {"join", "leave"} :
        /\ call[c].at = "idle"
        /\ call' = [call EXCEPT ![c] = [at |-> "shards", id |-> n, type |-> t]]
        /\ members' = IF t = "join" THEN members \cup {n} ELSE members \ {n}
        /\ overlapped' = C!Overlaps(c, n)
        /\ UNCHANGED <<ring, shards, reporting, memberCh>>
        /\ silent' \subseteq silent /\ state' \in [C!Everyone -> {"active", "suspect", "inactive"}]
  <2>1. state \in [C!Everyone -> {"active", "suspect", "inactive"}]
    BY Zenon DEF CoordinatorInv, C!TypeOK
  <2>2. CASE C!AddMember(c, n)
    BY Zenon, <2>1, <2>2 DEF C!AddMember
  <2>3. CASE C!RemoveMember(c, n)
    BY Zenon, <2>1, <2>3 DEF C!RemoveMember
  <2> QED BY Zenon, <2>2, <2>3
<1>2. call \in [Callers -> Call] /\ call' \in [Callers -> Call]
  BY Zenon, <1>1 DEF CoordinatorInv, Call
<1>3. \A d \in Callers :
        call'[d] = IF d = c THEN [at |-> "shards", id |-> n, type |-> t] ELSE call[d]
  BY Zenon, <1>1, <1>2
<1>4. \A d \in Callers : call'[d].at # "idle" => call'[d].id \in Remotes
  BY <1>3, SMTT(40) DEF CoordinatorInv
<1>5. C!TypeOK'
  BY Zenon, <1>1 DEF CoordinatorInv, C!TypeOK, C!ConstantsOK, C!Everyone
<1>6. overlapped \subseteq overlapped'
  BY Zenon, <1>1 DEF C!Overlaps
<1>7. ASSUME NEW m \in Remotes \ overlapped', m # n PROVE InStep(m)'
  <2>1. InStep(m)
    BY Zenon, <1>6 DEF CoordinatorInv
  <2>2. \A d \in Callers : Pending(d, m)' <=> Pending(d, m)
    BY <1>1, <1>3, <1>7, SMTT(40) DEF Pending
  <2>3. \A d \in Callers : Pending(d, m) => call'[d] = call[d]
    BY Zenon, <1>1, <1>3 DEF Pending
  <2>4. m \in members' <=> m \in members
    BY Zenon, <1>1, <1>7
  <2> QED BY Zenon, <1>1, <2>1, <2>2, <2>3, <2>4 DEF InStep
<1>8. ASSUME n \notin overlapped' PROVE InStep(n)'
  <2>1. \A d \in Callers \ {c} : ~Pending(d, n)
    BY Zenon, <1>1, <1>8 DEF C!Overlaps, Pending
  <2>2. \A d \in Callers : Pending(d, n)' <=> d = c
    BY <1>3, <2>1, SMTT(40) DEF Pending
  <2>3. n \in members' <=> call'[c].type = "join"
    BY <1>1, <1>3
  <2> QED BY Zenon, <2>2, <2>3 DEF InStep
<1> QED BY Zenon, <1>1, <1>2, <1>4, <1>5, <1>7, <1>8 DEF CoordinatorInv


LEMMA ShardsUpdated ==
  ASSUME C!ConstantsOK, CoordinatorInv, NEW c \in Callers, C!UpdateShards(c)
  PROVE  CoordinatorInv'
<1> DEFINE n == call[c].id
<1>1. /\ call[c].at = "shards" /\ call' = [call EXCEPT ![c].at = "event"]
      /\ ring' = IF call[c].type = "join" THEN ring \cup {n} ELSE ring \ {n}
      /\ shards' \in C!rebalanceShards[ring']
      /\ UNCHANGED <<members, state, silent, reporting, memberCh, overlapped>>
  BY Zenon DEF C!UpdateShards
<1>2. call \in [Callers -> Call] /\ call[c] \in Call /\ n \in Remotes
  BY Zenon, <1>1 DEF CoordinatorInv
<1>3. \A d \in Callers : call'[d] = IF d = c THEN [call[c] EXCEPT !.at = "event"] ELSE call[d]
  BY Zenon, <1>1, <1>2
<1>4. /\ call' \in [Callers -> Call]
      /\ \A d \in Callers : call'[d].at # "idle" => call'[d].id \in Remotes
  BY Zenon, <1>1, <1>2, <1>3 DEF Call, CoordinatorInv
<1>5. C!TypeOK'
  BY Zenon, <1>1, <1>2 DEF CoordinatorInv, C!TypeOK, C!ConstantsOK, C!Everyone
<1>6. \A d \in Callers, m \in Remotes : Pending(d, m)' <=> d # c /\ Pending(d, m)
  BY Zenon, <1>2, <1>3 DEF Pending, Call
<1>7. ASSUME NEW m \in Remotes \ overlapped PROVE InStep(m)'
  <2>1. InStep(m)
    BY Zenon DEF CoordinatorInv
  <2>2. \A d \in Callers : Pending(d, m)' => Pending(d, m) /\ call'[d] = call[d]
    BY Zenon, <1>3, <1>6
  <2>3. CASE m = n
    <3>1. Pending(c, m) /\ \A d \in Callers : Pending(d, m) => d = c
      BY Zenon, <1>1, <2>1, <2>3 DEF InStep, Pending
    <3>2. \A d \in Callers : ~Pending(d, m)'
      BY Zenon, <1>6, <3>1
    <3>3. m \in members <=> call[c].type = "join"
      BY Zenon, <2>1, <3>1 DEF InStep
    <3>4. m \in ring' <=> m \in members'
      BY Zenon, <1>1, <2>3, <3>3
    <3> QED BY Zenon, <3>2, <3>4 DEF InStep
  <2>4. CASE m # n
    <3>1. ~Pending(c, m)
      BY Zenon, <2>4 DEF Pending
    <3>2. m \in ring' <=> m \in ring
      BY Zenon, <1>1, <2>4
    <3>3. \A d \in Callers : Pending(d, m)' <=> Pending(d, m)
      BY Zenon, <1>6, <3>1
    <3> QED BY Zenon, <1>1, <2>1, <2>2, <3>2, <3>3 DEF InStep
  <2> QED BY Zenon, <2>3, <2>4
<1> QED BY Zenon, <1>1, <1>4, <1>5, <1>7 DEF CoordinatorInv

\* The steps that leave the membership and the ring alone.
LEMMA MembershipKept ==
  ASSUME CoordinatorInv, UNCHANGED <<members, ring, shards, overlapped>>,
         C!TypeOK', memberCh' \in Seq(MemberEvent), call' \in [Callers -> Call],
         \A c \in Callers : \/ call'[c] = call[c]
                            \/ call[c].at # "shards" /\ call'[c].at = "idle"
  PROVE  CoordinatorInv'
<1>1. \A c \in Callers : call'[c].at # "idle" => call'[c].id \in Remotes
  BY Zenon DEF CoordinatorInv
<1>2. ASSUME NEW n \in Remotes \ overlapped PROVE InStep(n)'
  <2>1. \A c \in Callers : Pending(c, n)' <=> Pending(c, n)
    BY Zenon DEF Pending
  <2>2. \A c \in Callers : Pending(c, n) => call'[c] = call[c]
    BY Zenon DEF Pending
  <2>3. InStep(n)
    BY Zenon DEF CoordinatorInv
  <2> QED BY Zenon, <2>1, <2>2, <2>3 DEF InStep
<1> QED BY Zenon, <1>1, <1>2 DEF CoordinatorInv

LEMMA CoordinatorStep ==
  ASSUME C!ConstantsOK, CoordinatorInv, [C!Next]_C!vars
  PROVE  CoordinatorInv'
<1>0. /\ memberCh \in Seq(MemberEvent) /\ call \in [Callers -> Call] /\ Len(memberCh) <= Capacity
      /\ Capacity \in Nat /\ C!TypeOK
  BY Zenon DEF CoordinatorInv, C!TypeOK, C!ConstantsOK
<1>1. ASSUME NEW c \in Callers, C!SendEvent(c) PROVE CoordinatorInv'
  <2>1. call[c] \in Call /\ call[c].at = "event" /\ call[c].id \in Remotes
    BY Zenon, <1>0, <1>1 DEF C!SendEvent, CoordinatorInv
  <2> DEFINE e == [type |-> call[c].type, id |-> call[c].id]
  <2>2. e \in MemberEvent
    BY Zenon, <2>1 DEF MemberEvent, Call
  <2>3. /\ memberCh' = Append(memberCh, e) /\ call' = [call EXCEPT ![c] = C!Idle]
        /\ Len(memberCh) < Capacity
        /\ UNCHANGED <<members, ring, state, silent, shards, reporting, overlapped>>
    BY Zenon, <1>1 DEF C!SendEvent
  <2> HIDE DEF e
  <2>4. memberCh' \in Seq(MemberEvent) /\ Len(memberCh') <= Capacity
    BY <1>0, <2>2, <2>3
  <2>5. C!TypeOK'
    BY Zenon, <1>0, <2>3, <2>4 DEF C!TypeOK
  <2>6. C!Idle \in Call /\ C!Idle.at = "idle"
    BY Zenon DEF C!Idle, Call
  <2>7. /\ call' \in [Callers -> Call]
        /\ \A d \in Callers : call'[d] = call[d] \/ (d = c /\ call'[d] = C!Idle)
    BY Zenon, <1>0, <2>3, <2>6
  <2> QED BY Zenon, <2>1, <2>3, <2>4, <2>5, <2>6, <2>7, MembershipKept
<1>2. CASE C!detectFailures
  <2>1. /\ state' \in [C!Everyone -> {"active", "suspect", "inactive"}]
        /\ reporting' \subseteq silent
    BY Zenon, <1>0, <1>2 DEF C!detectFailures, C!TypeOK
  <2>2. UNCHANGED <<members, ring, silent, shards, call, memberCh, overlapped>>
    BY Zenon, <1>2 DEF C!detectFailures
  <2> QED BY Zenon, <1>0, <2>1, <2>2, MembershipKept DEF C!TypeOK
<1>3. ASSUME NEW n \in Remotes, C!Elapse(n) PROVE CoordinatorInv'
  BY Zenon, <1>0, <1>3, MembershipKept DEF C!Elapse, C!TypeOK
<1>4. ASSUME NEW n \in Remotes, C!ReportFailure(n) PROVE CoordinatorInv'
  <2> DEFINE e == [type |-> "failed", id |-> n]
  <2>1. e \in MemberEvent
    BY Zenon DEF MemberEvent
  <2>2. /\ memberCh' = Append(memberCh, e) /\ Len(memberCh) < Capacity
        /\ reporting' \subseteq reporting
        /\ UNCHANGED <<members, ring, state, silent, shards, call, overlapped>>
    BY Zenon, <1>4 DEF C!ReportFailure
  <2> HIDE DEF e
  <2>3. memberCh' \in Seq(MemberEvent) /\ Len(memberCh') <= Capacity
    BY <1>0, <2>1, <2>2
  <2> QED BY Zenon, <1>0, <2>2, <2>3, MembershipKept DEF C!TypeOK
<1>5. CASE C!ReadEvent
  <2>1. /\ memberCh # <<>> /\ memberCh' = Tail(memberCh)
        /\ UNCHANGED <<members, ring, state, silent, shards, call, reporting, overlapped>>
    BY Zenon, <1>5 DEF C!ReadEvent
  <2>2. memberCh' \in Seq(MemberEvent) /\ Len(memberCh') <= Capacity
    BY <1>0, <2>1
  <2> QED BY Zenon, <1>0, <2>1, <2>2, MembershipKept DEF C!TypeOK
<1>6. CASE C!Stop
  BY Zenon, <1>0, <1>6, MembershipKept DEF C!Stop, C!TypeOK
<1>7. CASE UNCHANGED C!vars
  BY Zenon, <1>0, <1>7, MembershipKept DEF C!vars, C!TypeOK
<1> QED
  BY Zenon, <1>1, <1>2, <1>3, <1>4, <1>5, <1>6, <1>7, CallBegins, ShardsUpdated DEF C!Next

-----------------------------------------------------------------------------
(* The coordinator again.  Round-robin over the nodes gives a shard as many  *)
(* different owners as it asks for: these proofs count.                      *)

INSTANCE FiniteSetTheorems

LEMMA Products ==
  ASSUME NEW a \in Int, NEW b \in Int, NEW k \in Nat, a < b
  PROVE  k * a \in Int /\ k * b \in Int /\ k * a + k <= k * b
<1>1. b - a - 1 \in Nat /\ b = a + 1 + (b - a - 1)
  OBVIOUS
<1>2. PICK d \in Nat : b = a + 1 + d
  BY Zenon, <1>1
<1>3. k * (a + 1 + d) = k * a + k + k * d
  BY SMT
<1>4. k * a \in Int /\ k * b \in Int /\ k * d \in Nat
  BY SMT
<1> QED BY SMTT(30), <1>2, <1>3, <1>4

LEMMA Division ==
  ASSUME NEW n \in Nat \ {0}, NEW a \in Nat
  PROVE  a \div n \in Int /\ a % n \in 0..(n - 1) /\ a = n * (a \div n) + (a % n)
<1>1. a \div n \in Int
  BY SMT
<1>2. a % n \in 0..(n - 1)
  BY SMT
<1>3. a = n * (a \div n) + (a % n)
  BY SMT
<1> QED BY Zenon, <1>1, <1>2, <1>3

LEMMA SameRemainder ==
  ASSUME NEW n \in Nat \ {0}, NEW a \in Nat, NEW b \in Nat, a <= b, b < a + n, a % n = b % n
  PROVE  a = b
<1>1. /\ a \div n \in Int /\ b \div n \in Int /\ a % n \in 0..(n - 1)
      /\ a = n * (a \div n) + (a % n) /\ b = n * (b \div n) + (b % n)
  BY Zenon, Division
<1> DEFINE p == a \div n
           q == b \div n
<1>2. /\ p < q => n * p + n <= n * q
      /\ q < p => n * q + n <= n * p
      /\ n * p \in Int /\ n * q \in Int
  BY SMTT(30), <1>1, Products, SMT
<1>3. p = q
  <2>1. ~(p < q)
    BY SMTT(30), <1>1, <1>2
  <2>2. ~(q < p)
    BY SMTT(30), <1>1, <1>2
  <2> QED BY SMTT(30), <1>1, <2>1, <2>2
<1> QED BY Zenon, <1>1, <1>3

LEMMA CoordinatorCardinality == \A S : C!Cardinality(S) = Cardinality(S)
  BY Zenon DEF C!Cardinality, Cardinality

\* The owners of a shard under the nodes that the shard manager knows.
WellAssigned(list, nodes) ==
  LET owners == {list[i] : i \in DOMAIN list} IN
  /\ owners \subseteq nodes
  /\ Cardinality(owners) = Len(list)
  /\ Len(list) = IF Replication < Cardinality(nodes) THEN Replication ELSE Cardinality(nodes)

LEMMA RoundRobin ==
  ASSUME Replication \in Nat, NEW nodes, IsFiniteSet(nodes), nodes # {}, NEW s \in Nat,
         NEW order \in [1..Cardinality(nodes) -> nodes],
         \A i, j \in 1..Cardinality(nodes) : i # j => order[i] # order[j],
         NEW k, k = IF Replication < Cardinality(nodes) THEN Replication ELSE Cardinality(nodes)
  PROVE  WellAssigned([r \in 1..k |-> order[((s + r - 1) % Cardinality(nodes)) + 1]], nodes)
<1> DEFINE n == Cardinality(nodes)
           at(r) == ((s + r - 1) % n) + 1
           list == [r \in 1..k |-> order[at(r)]]
           owners == {list[i] : i \in DOMAIN list}
<1>1. n \in Nat /\ n # 0
  BY Zenon, FS_CardinalityType, FS_EmptySet
<1> HIDE DEF n
<1>2. k \in Nat /\ k <= n
  BY SMTT(30), <1>1 DEF n
<1>3. \A r \in 1..k : s + r - 1 \in Nat /\ at(r) \in 1..n
  BY SMTT(30), <1>1, <1>2, SMT
<1>4. ASSUME NEW q \in 1..k, NEW r \in 1..k, q < r PROVE at(q) # at(r)
  <2>1. /\ s + q - 1 \in Nat /\ s + r - 1 \in Nat /\ s + q - 1 # s + r - 1
        /\ s + q - 1 <= s + r - 1 /\ s + r - 1 < (s + q - 1) + n
    BY SMTT(30), <1>1, <1>2, <1>4
  <2>2. (s + q - 1) % n # (s + r - 1) % n
    BY ZenonT(30), <1>1, <2>1, SameRemainder
  <2>3. (s + q - 1) % n \in Int /\ (s + r - 1) % n \in Int
    BY SMTT(30), <1>1, <2>1, SMT
  <2> QED BY SMTT(30), <2>2, <2>3
<1>5. \A q, r \in 1..k : q # r => at(q) # at(r)
  <2> SUFFICES ASSUME NEW q \in 1..k, NEW r \in 1..k, q # r PROVE at(q) # at(r)
    OBVIOUS
  <2>1. q < r \/ r < q
    BY <1>2
  <2> QED BY <1>4, <2>1
<1> HIDE DEF at
<1>6. DOMAIN list = 1..k /\ \A r \in 1..k : list[r] \in nodes
  BY SMTT(30), <1>3 DEF n
<1>7. \A q, r \in 1..k : q # r => list[q] # list[r]
  BY SMTT(30), <1>3, <1>5 DEF n
<1>8. list \in Seq(nodes) /\ Len(list) = k
  BY SMTT(30), <1>2, <1>6
<1> HIDE DEF list
<1>9. list \in Bijection(1..k, owners)
  <2>1. list \in [1..k -> owners]
    BY SMTT(30), <1>6, <1>8
  <2>2. list \in Injection(1..k, owners)
    BY Zenon, <1>7, <2>1 DEF Injection, IsInjective
  <2>3. list \in Surjection(1..k, owners)
    BY Zenon, <1>6, <2>1 DEF Surjection
  <2> QED BY Zenon, <2>2, <2>3 DEF Bijection
<1>10. IsFiniteSet(1..k) /\ Cardinality(1..k) = k
  BY SMTT(30), <1>2, FS_Interval
<1>11. Cardinality(owners) = k
  <2>1. ExistsBijection(1..k, owners)
    BY ZenonT(30), <1>9 DEF ExistsBijection
  <2> QED BY ZenonT(30), <1>10, <2>1, FS_Bijection
<1> QED BY ZenonT(30), <1>6, <1>8, <1>11 DEF WellAssigned, list, at, n


LEMMA Rebalanced ==
  ASSUME C!ConstantsOK, NEW nodes \in SUBSET C!Everyone, nodes # {},
         NEW new \in C!rebalanceShards[nodes], NEW s \in DOMAIN new
  PROVE  WellAssigned(new[s], nodes)
<1>1. PICK order \in C!Orders(nodes) : new = C!Assigned(order)
  BY Zenon DEF C!rebalanceShards
<1>2. IsFiniteSet(nodes)
  <2>1. IsFiniteSet(Remotes)
    BY ZenonT(30) DEF C!ConstantsOK, C!IsFiniteSet, IsFiniteSet
  <2>2. IsFiniteSet(C!Everyone)
    BY ZenonT(30), <2>1, FS_AddElement DEF C!Everyone
  <2> QED BY ZenonT(30), <2>2, FS_Subset
<1> DEFINE n == Cardinality(nodes)
<1>3. n \in Nat
  BY ZenonT(30), <1>2, FS_CardinalityType
<1>4. order \in [1..n -> nodes] /\ \A i, j \in 1..n : i # j => order[i] # order[j]
  BY ZenonT(30), <1>1, CoordinatorCardinality DEF C!Orders
<1> HIDE DEF n
<1>5. Len(order) = n
  BY <1>3, <1>4, SMTT(40)
<1>6. s \in C!ShardIds
  BY ZenonT(30), <1>1 DEF C!Assigned
<1>7. s \in Nat /\ Replication \in Nat
  BY SMTT(30), <1>6 DEF C!ConstantsOK, C!ShardIds
<1> DEFINE k == IF Replication < n THEN Replication ELSE n
<1>8. new[s] = [r \in 1..k |-> order[((s + r - 1) % n) + 1]]
  BY ZenonT(30), <1>1, <1>5, <1>6 DEF C!Assigned
<1>9. k = IF Replication < n THEN Replication ELSE n
  BY Zenon
<1> HIDE DEF k
<1>10. WellAssigned([r \in 1..k |-> order[((s + r - 1) % n) + 1]], nodes)
  BY ZenonT(30), <1>2, <1>4, <1>7, <1>9, RoundRobin DEF n
<1> QED BY ZenonT(30), <1>8, <1>10

\* AddMember, RemoveMember and the failure detector: for any number of nodes,
\* shards and concurrent calls, between calls the ring has the members and every
\* shard its full number of different owners from the ring.
THEOREM ShardsFollow ==
  ASSUME C!ConstantsOK PROVE C!Spec => [](C!TypeOK /\ C!ShardsFollowMembers)
<1>1. C!ConstantsOK
  BY ZenonT(30)
<1>2. C!NewCoordinator => CoordinatorInv
  <2> SUFFICES ASSUME C!NewCoordinator PROVE CoordinatorInv
    BY Zenon
  <2>1. /\ members = {Local} \cup Joined /\ ring = members /\ shards \in C!rebalanceShards[ring]
        /\ state = [n \in C!Everyone |-> "active"] /\ silent = {} /\ reporting = {}
        /\ call = [c \in Callers |-> C!Idle] /\ memberCh = <<>>
    BY ZenonT(30) DEF C!NewCoordinator
  <2>2. C!TypeOK
    BY <1>1, <2>1, SMTT(40) DEF C!TypeOK, C!ConstantsOK, C!Everyone
  <2>3. call \in [Callers -> Call] /\ \A c \in Callers : call[c].at = "idle"
    BY ZenonT(30), <2>1 DEF C!Idle, Call
  <2>4. memberCh \in Seq(MemberEvent)
    BY SMTT(30), <2>1
  <2>5. \A n \in Remotes : InStep(n)
    BY ZenonT(30), <2>1, <2>3 DEF InStep, Pending
  <2> QED BY ZenonT(30), <2>1, <2>2, <2>3, <2>4, <2>5 DEF CoordinatorInv
<1>3. CoordinatorInv /\ [C!Next]_C!vars => CoordinatorInv'
  BY ZenonT(30), <1>1, CoordinatorStep
<1>4. CoordinatorInv => C!TypeOK /\ C!ShardsFollowMembers
  <2> SUFFICES ASSUME CoordinatorInv, \A c \in Callers : call[c].at # "shards"
               PROVE  /\ \A n \in Remotes \ overlapped : n \in ring <=> n \in members
                      /\ \A s \in DOMAIN shards : WellAssigned(shards[s], ring)
    BY ZenonT(30), CoordinatorCardinality DEF CoordinatorInv, C!ShardsFollowMembers, WellAssigned
  <2>1. \A n \in Remotes \ overlapped : n \in ring <=> n \in members
    BY Zenon DEF CoordinatorInv, InStep, Pending
  <2>2. ring \in SUBSET C!Everyone /\ ring # {} /\ shards \in C!rebalanceShards[ring]
    BY Zenon DEF CoordinatorInv, C!TypeOK
  <2> QED BY ZenonT(30), <1>1, <2>1, <2>2, Rebalanced
<1> QED BY SMTT(30), <1>2, <1>3, <1>4, PTL DEF C!Spec
=============================================================================
