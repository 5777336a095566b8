--------------------------- MODULE ServicesProofs ---------------------------
(***************************************************************************)
(* Theorems about the parts of the server that run goroutines of their     *)
(* own: streaming ingestion, the WebSocket hub, shard recovery and the     *)
(* webhook dispatcher.  They hold for every value of the constants.  The   *)
(* specification of ingestion is extended and each of the others is        *)
(* instantiated with its own names.                                        *)
(***************************************************************************)
EXTENDS Ingestion, FiniteSetTheorems, TLAPS

-----------------------------------------------------------------------------
(* Ingestion.  Its memory is bounded and Stop loses nothing, for any number   *)
(* of points, callers and workers and any limits.                             *)
(*                                                                            *)
(* Both rest on one account of the points: each is in at most one place       *)
(* (someone's hand, the current batch, a queued batch, or handed to onBatch), *)
(* and one that was accepted is in one of them until the process panics.      *)

\* Where a thread of each kind can be.
CallerSteps == {"idle", "pressing", "reserving", "adding", "flushing", "sending", "processing"}
WorkerSteps == {"idle", "processing", "returned"}
TimerSteps == {"idle", "flushing", "sending", "processing", "returned"}
StopperSteps == {"idle", "flushing", "sending", "processing", "closing", "waiting", "stopped"}
AllSteps == CallerSteps \cup WorkerSteps \cup TimerSteps \cup StopperSteps

\* A place for t.
Allowed(t, at) ==
  /\ t \in Callers => at \in CallerSteps
  /\ t \in Workers => at \in WorkerSteps
  /\ t = Timer => at \in TimerSteps
  /\ t = Stopper => at \in StopperSteps

Places == /\ pc \in [Threads -> AllSteps]
          /\ \A t \in Threads : Allowed(t, pc[t])

Types ==
  /\ hand \in [Threads -> SUBSET Points]
  /\ currentBatch \subseteq Points /\ currentMemory \in Int
  /\ batchQueue \in Seq(SUBSET Points) /\ Len(batchQueue) <= MaxPendingBatches
  /\ closed \in BOOLEAN /\ running \in BOOLEAN /\ cancelled \in BOOLEAN
  /\ panicked \in BOOLEAN
  /\ accepted \in SUBSET Points /\ IsFiniteSet(accepted)

\* Ingest has a point in hand that is not accepted yet.
Carrying(t) == pc[t] \in {"pressing", "reserving", "adding"}
Holding(t) == Carrying(t) \/ pc[t] \in {"sending", "processing"}

\* No point is in two places.
Apart ==
  /\ \A t, u \in Threads : t # u => hand[t] \cap hand[u] = {}
  /\ \A t \in Threads, i \in DOMAIN batchQueue : hand[t] \cap batchQueue[i] = {}
  /\ \A t \in Threads : hand[t] \cap currentBatch = {} /\ hand[t] \cap handed = {}
  /\ \A i, j \in DOMAIN batchQueue : i # j => batchQueue[i] \cap batchQueue[j] = {}
  /\ \A i \in DOMAIN batchQueue :
       batchQueue[i] \cap currentBatch = {} /\ batchQueue[i] \cap handed = {}
  /\ currentBatch \cap handed = {}

\* Only the points of callers that have not added them yet are not accepted.
Origin ==
  /\ \A t \in Threads :
       /\ ~Holding(t) => hand[t] = {}
       /\ Carrying(t) => hand[t] \cap accepted = {} /\ \E x \in Points : hand[t] = {x}
       /\ ~Carrying(t) => hand[t] \subseteq accepted
  /\ \A i \in DOMAIN batchQueue : batchQueue[i] \subseteq accepted
  /\ currentBatch \subseteq accepted /\ handed \subseteq accepted /\ before \subseteq accepted

\* An accepted point is somewhere, until the process panics.
Found ==
  ~panicked => \A x \in accepted :
    \/ x \in currentBatch \cup handed
    \/ \E t \in Threads : x \in hand[t]
    \/ \E i \in DOMAIN batchQueue : x \in batchQueue[i]

Adding == {c \in Callers : pc[c] = "adding"}

\* The counter is exact, and the limit counts the callers that were let through.
Memory ==
  /\ currentMemory = PointMemory * Cardinality(accepted \ handed)
  /\ currentMemory + PointMemory * Cardinality(Adding)
       <= MaxMemoryBytes + PointMemory * (Cardinality(Callers) - 1)

\* How far Stop is, and what that says about the others.
Stopping ==
  /\ running <=> pc[Stopper] = "idle"
  /\ closed <=> pc[Stopper] \in {"waiting", "stopped"}
  /\ pc[Stopper] \notin {"idle", "flushing"} => before \cap currentBatch = {}
  /\ pc[Stopper] = "stopped" => \A t \in Workers \cup {Timer} : pc[t] = "returned"
  /\ (\E w \in Workers : pc[w] = "returned") /\ ~cancelled => closed /\ batchQueue = <<>>

IngestionInv == Places /\ Types /\ Apart /\ Origin /\ Found /\ Memory /\ Stopping

-----------------------------------------------------------------------------
(* Places and types.                                                          *)

\* A thread that moves leaves the others where they are.
LEMMA Moves == ASSUME Places, NEW t \in Threads, NEW to \in AllSteps, Move(t, to)
               PROVE /\ pc' \in [Threads -> AllSteps]
                     /\ pc'[t] = to
                     /\ \A u \in Threads : u # t => pc'[u] = pc[u]
                     /\ Allowed(t, to) => Places'
  BY Zenon DEF Places, Move

LEMMA Roles == ASSUME ConstantsOK
               PROVE /\ \A c \in Callers : /\ c \in Threads /\ c \in Flushers /\ c \notin Workers
                                           /\ c # Timer /\ c # Stopper
                     /\ \A w \in Workers : /\ w \in Threads /\ w \notin Flushers
                                           /\ w \notin Callers /\ w # Timer /\ w # Stopper
                     /\ Timer \in Threads /\ Timer \in Flushers /\ Timer # Stopper
                     /\ Timer \notin Callers /\ Timer \notin Workers
                     /\ Stopper \in Threads /\ Stopper \in Flushers
                     /\ Stopper \notin Callers /\ Stopper \notin Workers
                     /\ \A t \in Flushers : /\ t \in Threads /\ t \notin Workers
                                            /\ t \in Callers \/ t = Timer \/ t = Stopper
                     /\ \A t \in Threads : t \in Flushers \/ t \in Workers
  BY Zenon DEF ConstantsOK, Threads, Flushers

\* The places that a step of each kind of thread may take it to.
LEMMA MayMove ==
  ASSUME ConstantsOK
  PROVE  /\ \A c \in Callers, to \in CallerSteps : Allowed(c, to) /\ to \in AllSteps
         /\ \A w \in Workers, to \in WorkerSteps : Allowed(w, to) /\ to \in AllSteps
         /\ \A to \in TimerSteps : Allowed(Timer, to) /\ to \in AllSteps
         /\ \A to \in StopperSteps : Allowed(Stopper, to) /\ to \in AllSteps
<1>1. \A to : to \in CallerSteps \cup WorkerSteps \cup TimerSteps \cup StopperSteps =>
        to \in AllSteps
  BY Zenon DEF AllSteps
<1>2. \A c \in Callers, to \in CallerSteps : Allowed(c, to)
  BY Zenon, Roles DEF Allowed
<1>3. \A w \in Workers, to \in WorkerSteps : Allowed(w, to)
  BY Zenon, Roles DEF Allowed
<1>4. /\ \A to \in TimerSteps : Allowed(Timer, to)
      /\ \A to \in StopperSteps : Allowed(Stopper, to)
  BY Zenon, Roles DEF Allowed
<1> QED
  BY Zenon, <1>1, <1>2, <1>3, <1>4

LEMMA PlacesStep == ASSUME ConstantsOK, IngestionInv, [Next]_vars PROVE Places'
<1>0. Places
  BY Zenon DEF IngestionInv
<1>1. CASE UNCHANGED vars
  BY Zenon, <1>0, <1>1 DEF Places, vars
<1>2. ASSUME NEW t \in Threads, NEW to \in AllSteps, Allowed(t, to), Move(t, to)
      PROVE Places'
  BY Zenon, <1>0, <1>2, Moves
<1>3. ASSUME NEW c \in Callers,
             Ingest(c) \/ checkBackpressure(c) \/ GiveUp(c) \/ Reserve(c) \/ Add(c)
      PROVE Places'
  <2>1. PICK to \in CallerSteps : Move(c, to)
    BY Zenon, <1>3 DEF Ingest, checkBackpressure, GiveUp, Reserve, Add, CallerSteps
  <2> QED
    BY Zenon, <2>1, <1>2, MayMove, Roles
<1>4. ASSUME NEW t \in Flushers,
             Move(t, "sending") \/ Move(t, "processing") \/ Flushed(t)
      PROVE Places'
  <2>1. t \in Callers => \E to \in CallerSteps : Move(t, to)
    BY Zenon, <1>4, Roles DEF Flushed, CallerSteps
  <2>2. t = Timer => \E to \in TimerSteps : Move(t, to)
    BY Zenon, <1>4, Roles DEF Flushed, TimerSteps
  <2>3. t = Stopper => \E to \in StopperSteps : Move(t, to)
    BY Zenon, <1>4, Roles DEF Flushed, StopperSteps
  <2> QED
    BY Zenon, <2>1, <2>2, <2>3, <1>2, MayMove, Roles
<1>5. ASSUME NEW t \in Flushers, TakeBatch(t) \/ Send(t)
      PROVE Places'
  BY Zenon, <1>4, <1>5 DEF TakeBatch, Send
<1>6. ASSUME NEW t \in Threads, processBatch(t)
      PROVE Places'
  <2>1. CASE t \in Workers
    BY Zenon, <2>1, <1>6, <1>2, MayMove DEF processBatch, WorkerSteps
  <2>2. CASE t \notin Workers
    BY Zenon, <2>2, <1>6, <1>4, Roles DEF processBatch
  <2> QED
    BY Zenon, <2>1, <2>2
<1>7. ASSUME NEW w \in Workers, Receive(w) \/ Return(w)
      PROVE Places'
  <2>1. PICK to \in WorkerSteps : Move(w, to)
    BY Zenon, <1>7 DEF Receive, Return, WorkerSteps
  <2> QED
    BY Zenon, <2>1, <1>2, MayMove, Roles
<1>8. CASE flushTimer
  <2>1. PICK to \in TimerSteps : Move(Timer, to)
    BY Zenon, <1>8 DEF flushTimer, TimerSteps
  <2> QED
    BY Zenon, <2>1, <1>2, MayMove, Roles
<1>9. CASE Cancel
  BY Zenon, <1>0, <1>9 DEF Cancel, Places
<1>10. CASE Stop \/ CloseQueue \/ Stopped
  <2>1. PICK to \in StopperSteps : Move(Stopper, to)
    BY Zenon, <1>10 DEF Stop, CloseQueue, Stopped, StopperSteps
  <2> QED
    BY Zenon, <2>1, <1>2, MayMove, Roles
<1> QED
  BY Zenon, <1>1, <1>3, <1>5, <1>6, <1>7, <1>8, <1>9, <1>10 DEF Next


\* What a send adds to the queue, and what a receive takes from it.
LEMMA QueueSend ==
  ASSUME NEW q \in Seq(SUBSET Points), NEW b \in SUBSET Points
  PROVE  /\ Append(q, b) \in Seq(SUBSET Points) /\ Len(Append(q, b)) = Len(q) + 1
         /\ DOMAIN Append(q, b) = DOMAIN q \cup {Len(q) + 1}
         /\ Len(q) + 1 \notin DOMAIN q
         /\ \A i \in DOMAIN q : Append(q, b)[i] = q[i]
         /\ Append(q, b)[Len(q) + 1] = b
  OBVIOUS

LEMMA QueueReceive ==
  ASSUME NEW q \in Seq(SUBSET Points), q # <<>>
  PROVE  /\ Tail(q) \in Seq(SUBSET Points) /\ Len(Tail(q)) = Len(q) - 1
         /\ 1 \in DOMAIN q /\ Head(q) = q[1] /\ q[1] \in SUBSET Points
         /\ \A i \in DOMAIN Tail(q) : /\ i + 1 \in DOMAIN q /\ i + 1 # 1
                                      /\ Tail(q)[i] = q[i + 1]
         /\ \A i \in DOMAIN q : i # 1 => i - 1 \in DOMAIN Tail(q) /\ Tail(q)[i - 1] = q[i]
  OBVIOUS

\* The steps that move no point.
Unmoved == UNCHANGED <<hand, currentBatch, currentMemory, batchQueue, accepted, handed, panicked>>

LEMMA Kinds ==
  ASSUME [Next]_vars
  PROVE  \/ Unmoved
         \/ ~panicked /\ \E c \in Callers : Ingest(c) \/ GiveUp(c) \/ Add(c)
         \/ ~panicked /\ \E t \in Flushers : TakeBatch(t) \/ Send(t)
         \/ ~panicked /\ \E t \in Threads : processBatch(t)
         \/ ~panicked /\ \E w \in Workers : Receive(w)
<1>1. CASE UNCHANGED vars
  BY Zenon, <1>1 DEF vars, Unmoved
<1>2. ASSUME NEW c \in Callers, checkBackpressure(c) \/ Reserve(c)
      PROVE Unmoved
  BY Zenon, <1>2 DEF checkBackpressure, Reserve, Unmoved
<1>3. ASSUME NEW w \in Workers, Return(w)
      PROVE Unmoved
  BY Zenon, <1>3 DEF Return, Unmoved
<1>4. CASE flushTimer \/ Cancel \/ Stop \/ CloseQueue \/ Stopped
  BY <1>4 DEF flushTimer, Cancel, Stop, CloseQueue, Stopped, Unmoved
<1> QED
  BY Zenon, <1>1, <1>2, <1>3, <1>4 DEF Next

LEMMA TypesStep == ASSUME ConstantsOK, IngestionInv, [Next]_vars PROVE Types'
<1>0. Types /\ MaxPendingBatches \in Nat /\ PointMemory \in Nat
  BY Zenon DEF IngestionInv, ConstantsOK
<1>1. CASE Unmoved
  <2>1. closed' \in BOOLEAN /\ running' \in BOOLEAN /\ cancelled' \in BOOLEAN
    BY ZenonT(30), <1>0 DEF Types, Next, vars, Ingest, checkBackpressure, GiveUp, Reserve, Add,
                TakeBatch, Send, processBatch, Receive, Return, flushTimer, Cancel, Stop,
                CloseQueue, Stopped
  <2> QED
    BY ZenonT(30), <1>0, <1>1, <2>1 DEF Types, Unmoved
<1>2. ASSUME NEW c \in Callers, Ingest(c) \/ GiveUp(c)
      PROVE Types'
  BY <1>0, <1>2, Roles DEF Types, Ingest, GiveUp, Fresh
<1>3. ASSUME NEW c \in Callers, Add(c)
      PROVE Types'
  <2>1. hand[c] \in SUBSET Points /\ IsFiniteSet(hand[c])
    <3>1. pc[c] = "adding" /\ c \in Threads
      BY Zenon, <1>3, Roles DEF Add
    <3>2. PICK x \in Points : hand[c] = {x}
      BY Zenon, <3>1 DEF IngestionInv, Origin, Carrying
    <3> QED
      BY Zenon, <3>2, FS_Singleton
  <2>2. IsFiniteSet(accepted \cup hand[c])
    BY Zenon, <1>0, <2>1, FS_Union DEF Types
  <2> QED
    BY <1>0, <1>3, <2>1, <2>2, Roles DEF Types, Add
<1>4. ASSUME NEW t \in Flushers, TakeBatch(t)
      PROVE Types'
  BY Zenon, <1>0, <1>4, Roles DEF Types, TakeBatch
<1>5. ASSUME NEW t \in Flushers, Send(t)
      PROVE Types'
  <2>1. hand[t] \in SUBSET Points /\ t \in Threads
    BY Zenon, <1>0, Roles DEF Types
  <2>2. /\ batchQueue' \in Seq(SUBSET Points)
        /\ Len(batchQueue') <= MaxPendingBatches
    <3>1. batchQueue' = batchQueue
            \/ (Len(batchQueue) < MaxPendingBatches /\ batchQueue' = Append(batchQueue, hand[t]))
      BY Zenon, <1>5 DEF Send
    <3> QED
      BY <1>0, <2>1, <3>1, QueueSend DEF Types
  <2> QED
    BY Zenon, <1>0, <1>5, <2>1, <2>2 DEF Types, Send
<1>6. ASSUME NEW t \in Threads, processBatch(t)
      PROVE Types'
  <2>1. currentMemory' \in Int
    <3>1. Cardinality(hand[t]) \in Nat
      <4>1. hand[t] \subseteq accepted
        BY Zenon, <1>6 DEF IngestionInv, Origin, Carrying, processBatch
      <4> QED
        BY Zenon, <1>0, <4>1, FS_Subset, FS_CardinalityType DEF Types
    <3> QED
      BY <1>0, <1>6, <3>1 DEF Types, processBatch
  <2> QED
    BY Zenon, <1>0, <1>6, <2>1 DEF Types, processBatch
<1>7. ASSUME NEW w \in Workers, Receive(w)
      PROVE Types'
  <2>1. /\ batchQueue' \in Seq(SUBSET Points)
        /\ Len(batchQueue') <= MaxPendingBatches
        /\ Head(batchQueue) \in SUBSET Points
    BY <1>0, <1>7, QueueReceive DEF Types, Receive
  <2> QED
    BY Zenon, <1>0, <1>7, <2>1, Roles DEF Types, Receive
<1> QED
  BY Zenon, <1>1, <1>2, <1>3, <1>4, <1>5, <1>6, <1>7, Kinds

-----------------------------------------------------------------------------
(* Every point is in one place.                                               *)

LEMMA ApartStep == ASSUME ConstantsOK, IngestionInv, [Next]_vars PROVE Apart'
<1>0. Types /\ Apart /\ Origin
  BY Zenon DEF IngestionInv
<1>1. CASE Unmoved
  BY Zenon, <1>0, <1>1 DEF Apart, Unmoved
<1>2. ASSUME NEW c \in Callers, Ingest(c)
      PROVE Apart'
  <2>1. PICK x \in Fresh : hand' = [hand EXCEPT ![c] = {x}]
    BY Zenon, <1>2 DEF Ingest
  <2>2. /\ \A t \in Threads : x \notin hand[t]
        /\ \A i \in DOMAIN batchQueue : x \notin batchQueue[i]
        /\ x \notin currentBatch /\ x \notin handed
    <3>1. /\ x \notin UNION {hand[t] : t \in Threads}
          /\ x \notin UNION {batchQueue[i] : i \in DOMAIN batchQueue}
          /\ x \notin currentBatch /\ x \notin handed
      BY Zenon, <2>1 DEF Fresh
    <3>2. \A t \in Threads : x \notin hand[t]
      BY <3>1, Zenon
    <3>3. \A i \in DOMAIN batchQueue : x \notin batchQueue[i]
      BY <3>1, Zenon
    <3> QED
      BY Zenon, <3>1, <3>2, <3>3
  <2>3. /\ hand'[c] = {x} /\ \A t \in Threads : t # c => hand'[t] = hand[t]
        /\ UNCHANGED <<currentBatch, batchQueue, handed>>
    BY <1>0, <1>2, <2>1, Roles DEF Types, Ingest
  <2> QED
    BY <1>0, <2>2, <2>3 DEF Apart
<1>3. ASSUME NEW c \in Callers, GiveUp(c)
      PROVE Apart'
  <2>1. /\ hand'[c] = {} /\ \A t \in Threads : t # c => hand'[t] = hand[t]
        /\ UNCHANGED <<currentBatch, batchQueue, handed>>
    BY Zenon, <1>0, <1>3, Roles DEF Types, GiveUp
  <2> QED
    BY Zenon, <1>0, <2>1 DEF Apart
<1>4. ASSUME NEW c \in Callers, Add(c)
      PROVE Apart'
  <2>1. /\ hand'[c] = {} /\ \A t \in Threads : t # c => hand'[t] = hand[t]
        /\ currentBatch' = currentBatch \cup hand[c] /\ c \in Threads
        /\ UNCHANGED <<batchQueue, handed>>
    BY Zenon, <1>0, <1>4, Roles DEF Types, Add
  <2> QED
    BY <1>0, <2>1 DEF Apart
<1>5. ASSUME NEW t \in Flushers, TakeBatch(t)
      PROVE Apart'
  <2>1. /\ hand'[t] = currentBatch /\ \A u \in Threads : u # t => hand'[u] = hand[u]
        /\ currentBatch' = {} /\ t \in Threads
        /\ UNCHANGED <<batchQueue, handed>>
    BY Zenon, <1>0, <1>5, Roles DEF Types, TakeBatch
  <2> QED
    BY <1>0, <2>1 DEF Apart
<1>6. ASSUME NEW t \in Flushers, Send(t)
      PROVE Apart'
  <2>1. UNCHANGED <<currentBatch, handed>> /\ t \in Threads
    BY Zenon, <1>6, Roles DEF Send
  <2>2. CASE UNCHANGED <<hand, batchQueue>>
    BY Zenon, <1>0, <2>1, <2>2 DEF Apart
  <2>3. ASSUME hand' = [hand EXCEPT ![t] = {}] PROVE Apart'
    <3>1. hand'[t] = {} /\ \A u \in Threads : u # t => hand'[u] = hand[u]
      BY Zenon, <1>0, <2>1, <2>3 DEF Types
    <3>2. CASE UNCHANGED batchQueue
      BY Zenon, <1>0, <2>1, <3>1, <3>2 DEF Apart
    <3>3. CASE batchQueue' = Append(batchQueue, hand[t])
      <4>1. /\ DOMAIN batchQueue' = DOMAIN batchQueue \cup {Len(batchQueue) + 1}
            /\ Len(batchQueue) + 1 \notin DOMAIN batchQueue
            /\ \A i \in DOMAIN batchQueue : batchQueue'[i] = batchQueue[i]
            /\ batchQueue'[Len(batchQueue) + 1] = hand[t]
        BY SMTT(30), <1>0, <2>1, <3>3, QueueSend DEF Types
      <4> QED
        BY <1>0, <2>1, <3>1, <4>1 DEF Apart
    <3> QED
      BY Zenon, <1>6, <2>3, <3>2, <3>3 DEF Send
  <2> QED
    BY Zenon, <1>6, <2>2, <2>3 DEF Send
<1>7. ASSUME NEW t \in Threads, processBatch(t)
      PROVE Apart'
  <2>1. /\ hand'[t] = {} /\ \A u \in Threads : u # t => hand'[u] = hand[u]
        /\ handed' = handed \cup hand[t]
        /\ UNCHANGED <<batchQueue, currentBatch>>
    BY Zenon, <1>0, <1>7 DEF Types, processBatch
  <2> QED
    BY <1>0, <2>1 DEF Apart
<1>8. ASSUME NEW w \in Workers, Receive(w)
      PROVE Apart'
  <2>1. /\ hand'[w] = batchQueue[1] /\ \A u \in Threads : u # w => hand'[u] = hand[u]
        /\ w \in Threads /\ UNCHANGED <<currentBatch, handed>>
        /\ 1 \in DOMAIN batchQueue
        /\ \A i \in DOMAIN batchQueue' : /\ i + 1 \in DOMAIN batchQueue /\ i + 1 # 1
                                         /\ batchQueue'[i] = batchQueue[i + 1]
    BY <1>0, <1>8, QueueReceive, Roles DEF Types, Receive
  <2>2. \A i, j \in DOMAIN batchQueue' : i # j => i + 1 # j + 1
    BY <1>0, <1>8, QueueReceive DEF Types, Receive
  <2> QED
    BY <1>0, <2>1, <2>2 DEF Apart
<1> QED
  BY Zenon, <1>1, <1>2, <1>3, <1>4, <1>5, <1>6, <1>7, <1>8, Kinds


LEMMA OriginStep == ASSUME ConstantsOK, IngestionInv, [Next]_vars PROVE Origin'
<1>0. Types /\ Places /\ Apart /\ Origin
  BY Zenon DEF IngestionInv
<1>2. ASSUME NEW t \in Threads, NEW to \in AllSteps, Move(t, to), Unmoved,
             before' \in {before, accepted},
             to \in {"pressing", "reserving", "adding"} <=> Carrying(t),
             hand[t] # {} => to \in {"pressing", "reserving", "adding", "sending", "processing"}
      PROVE Origin'
  BY <1>0, <1>2, Moves DEF Origin, Unmoved, Carrying, Holding
<1>3. CASE UNCHANGED vars \/ Cancel
  BY Zenon, <1>0, <1>3 DEF Origin, vars, Cancel, Carrying, Holding
<1>4. ASSUME NEW c \in Callers, checkBackpressure(c) \/ Reserve(c)
      PROVE Origin'
  <2>1. PICK to \in {"reserving", "adding"} : Move(c, to)
    BY Zenon, <1>4 DEF checkBackpressure, Reserve
  <2>2. Unmoved /\ before' = before /\ Carrying(c) /\ c \in Threads /\ to \in AllSteps
    BY Zenon, <1>4, Roles DEF checkBackpressure, Reserve, Unmoved, Carrying, AllSteps, CallerSteps
  <2> QED
    BY Zenon, <2>1, <2>2, <1>2
<1>5. ASSUME NEW w \in Workers, Return(w)
      PROVE Origin'
  <2>1. /\ hand[w] = {} /\ Unmoved /\ before' = before
        /\ ~Carrying(w) /\ w \in Threads /\ "returned" \in AllSteps
    BY Zenon, <1>0, <1>5, Roles DEF Return, Origin, Holding, Carrying, Unmoved, AllSteps, WorkerSteps
  <2> QED
    BY Zenon, <1>5, <2>1, <1>2 DEF Return
<1>6. CASE flushTimer
  <2>1. /\ hand[Timer] = {} /\ Unmoved /\ before' = before /\ ~Carrying(Timer) /\ Timer \in Threads
        /\ "flushing" \in AllSteps /\ "returned" \in AllSteps
    BY Zenon, <1>0, <1>6, Roles DEF flushTimer, Origin, Holding, Carrying, Unmoved, AllSteps, TimerSteps
  <2> QED
    BY Zenon, <1>6, <2>1, <1>2 DEF flushTimer
<1>7. CASE Stop \/ CloseQueue \/ Stopped
  <2>1. /\ Unmoved /\ before' \in {before, accepted} /\ Stopper \in Threads
        /\ "flushing" \in AllSteps /\ "waiting" \in AllSteps /\ "stopped" \in AllSteps
    BY Zenon, <1>7, Roles DEF Stop, CloseQueue, Stopped, Unmoved, AllSteps, StopperSteps
  <2>2. pc[Stopper] \in {"idle", "closing", "waiting"}
    BY Zenon, <1>7 DEF IngestionInv, Stopping, Stop, CloseQueue, Stopped
  <2>3. hand[Stopper] = {} /\ ~Carrying(Stopper)
    BY Zenon, <1>0, <2>1, <2>2 DEF Origin, Holding, Carrying
  <2> QED
    BY Zenon, <1>7, <2>1, <2>3, <1>2 DEF Stop, CloseQueue, Stopped

<1>8. ASSUME NEW t \in Threads, NEW to \in AllSteps, Move(t, to)
      PROVE /\ pc'[t] = to
            /\ \A u \in Threads : u # t => /\ Carrying(u)' <=> Carrying(u)
                                           /\ Holding(u)' <=> Holding(u)
  BY Zenon, <1>0, <1>8, Moves DEF Carrying, Holding
<1>9. ASSUME NEW t \in Threads, NEW to \in {"idle", "closing", "flushing"}, Move(t, to)
      PROVE /\ ~Holding(t)' /\ ~Carrying(t)'
            /\ \A u \in Threads : u # t => /\ Carrying(u)' <=> Carrying(u)
                                           /\ Holding(u)' <=> Holding(u)
  BY Zenon, <1>8, <1>9 DEF Carrying, Holding, AllSteps, CallerSteps, StopperSteps
<1>10. ASSUME NEW t \in Threads, NEW to \in {"sending", "processing"}, Move(t, to)
       PROVE /\ Holding(t)' /\ ~Carrying(t)'
             /\ \A u \in Threads : u # t => /\ Carrying(u)' <=> Carrying(u)
                                            /\ Holding(u)' <=> Holding(u)
  BY Zenon, <1>8, <1>10 DEF Carrying, Holding, AllSteps, CallerSteps
<1>11. ASSUME NEW c \in Callers, Ingest(c)
       PROVE Origin'
  <2>1. PICK x \in Fresh : hand' = [hand EXCEPT ![c] = {x}]
    BY Zenon, <1>11 DEF Ingest
  <2>2. x \in Points /\ x \notin accepted
    BY Zenon, <2>1 DEF Fresh
  <2>3. /\ hand'[c] = {x} /\ \A t \in Threads : t # c => hand'[t] = hand[t]
        /\ UNCHANGED <<currentBatch, batchQueue, handed, accepted, before>>
    BY Zenon, <1>0, <1>11, <2>1, Roles DEF Types, Ingest
  <2>4. /\ Holding(c)' /\ Carrying(c)'
        /\ \A u \in Threads : u # c => /\ Carrying(u)' <=> Carrying(u)
                                       /\ Holding(u)' <=> Holding(u)
    BY Zenon, <1>8, <1>11, Roles DEF Ingest, Carrying, Holding, AllSteps, CallerSteps
  <2> QED
    BY SMTT(30), <1>0, <2>2, <2>3, <2>4 DEF Origin
<1>12. ASSUME NEW c \in Callers, GiveUp(c)
       PROVE Origin'
  <2>1. /\ hand'[c] = {} /\ \A t \in Threads : t # c => hand'[t] = hand[t]
        /\ UNCHANGED <<currentBatch, batchQueue, handed, accepted, before>>
    BY Zenon, <1>0, <1>12, Roles DEF Types, GiveUp
  <2>2. /\ ~Holding(c)' /\ ~Carrying(c)'
        /\ \A u \in Threads : u # c => /\ Carrying(u)' <=> Carrying(u)
                                       /\ Holding(u)' <=> Holding(u)
    BY SMTT(30), <1>9, <1>12, Roles DEF GiveUp
  <2> QED
    BY Zenon, <1>0, <2>1, <2>2 DEF Origin
<1>13. ASSUME NEW c \in Callers, Add(c)
       PROVE Origin'
  <2>1. /\ hand'[c] = {} /\ \A t \in Threads : t # c => hand'[t] = hand[t]
        /\ currentBatch' = currentBatch \cup hand[c] /\ c \in Threads
        /\ accepted' = accepted \cup hand[c]
        /\ UNCHANGED <<batchQueue, handed, before>>
    BY Zenon, <1>0, <1>13, Roles DEF Types, Add
  <2>2. PICK to \in {"idle", "flushing"} : Move(c, to)
    BY Zenon, <1>13 DEF Add
  <2>3. /\ ~Holding(c)' /\ ~Carrying(c)'
        /\ \A u \in Threads : u # c => /\ Carrying(u)' <=> Carrying(u)
                                       /\ Holding(u)' <=> Holding(u)
    BY Zenon, <1>9, <2>2, Roles
  <2>4. \A t \in Threads : t # c => hand[t] \cap hand[c] = {}
    BY Zenon, <1>0, <2>1 DEF Apart
  <2> QED
    BY <1>0, <2>1, <2>3, <2>4 DEF Origin
<1>14. ASSUME NEW t \in Flushers, TakeBatch(t)
       PROVE Origin'
  <2>1. /\ hand'[t] = currentBatch /\ \A u \in Threads : u # t => hand'[u] = hand[u]
        /\ currentBatch' = {} /\ t \in Threads
        /\ UNCHANGED <<batchQueue, handed, accepted, before>>
    BY Zenon, <1>0, <1>14, Roles DEF Types, TakeBatch
  <2>2. /\ ~Holding(t)' => currentBatch = {}
        /\ ~Carrying(t)'
        /\ \A u \in Threads : u # t => /\ Carrying(u)' <=> Carrying(u)
                                       /\ Holding(u)' <=> Holding(u)
    BY <1>9, <1>10, <1>14, <2>1 DEF TakeBatch, Flushed
  <2> QED
    BY <1>0, <2>1, <2>2 DEF Origin
<1>15. ASSUME NEW t \in Flushers, Send(t)
       PROVE Origin'
  <2>1. UNCHANGED <<currentBatch, handed, accepted, before>> /\ t \in Threads
    BY <1>15, Roles DEF Send
  <2>2. hand[t] \subseteq accepted /\ hand[t] \in SUBSET Points
    BY Zenon, <1>0, <1>15, <2>1 DEF Origin, Types, Send, Carrying
  <2>3. CASE UNCHANGED <<hand, batchQueue>> /\ Move(t, "processing")
    BY <1>0, <1>10, <2>1, <2>2, <2>3 DEF Origin
  <2>4. ASSUME hand' = [hand EXCEPT ![t] = {}], Flushed(t) PROVE Origin'
    <3>1. hand'[t] = {} /\ \A u \in Threads : u # t => hand'[u] = hand[u]
      BY <1>0, <2>1, <2>4 DEF Types
    <3>2. /\ ~Holding(t)' /\ ~Carrying(t)'
          /\ \A u \in Threads : u # t => /\ Carrying(u)' <=> Carrying(u)
                                         /\ Holding(u)' <=> Holding(u)
      BY Zenon, <1>9, <2>1, <2>4 DEF Flushed
    <3>3. \A i \in DOMAIN batchQueue' : batchQueue'[i] \subseteq accepted
      <4>1. batchQueue' \in {batchQueue, Append(batchQueue, hand[t])}
        BY Zenon, <1>15 DEF Send
      <4> QED
        BY SMTT(30), <1>0, <2>2, <4>1, QueueSend DEF Types, Origin
    <3> QED
      BY Zenon, <1>0, <2>1, <3>1, <3>2, <3>3 DEF Origin
  <2> QED
    BY Zenon, <1>15, <2>3, <2>4 DEF Send
<1>16. ASSUME NEW t \in Threads, processBatch(t)
       PROVE Origin'
  <2>1. /\ hand'[t] = {} /\ \A u \in Threads : u # t => hand'[u] = hand[u]
        /\ handed' = handed \cup hand[t]
        /\ UNCHANGED <<batchQueue, currentBatch, accepted, before>>
    BY Zenon, <1>0, <1>16 DEF Types, processBatch
  <2>2. hand[t] \subseteq accepted
    BY Zenon, <1>0, <1>16 DEF Origin, processBatch, Carrying
  <2>3. /\ ~Holding(t)' /\ ~Carrying(t)'
        /\ \A u \in Threads : u # t => /\ Carrying(u)' <=> Carrying(u)
                                       /\ Holding(u)' <=> Holding(u)
    BY SMTT(30), <1>9, <1>16 DEF processBatch, Flushed
  <2> QED
    BY <1>0, <2>1, <2>2, <2>3 DEF Origin
<1>17. ASSUME NEW w \in Workers, Receive(w)
       PROVE Origin'
  <2>1. /\ hand'[w] = batchQueue[1] /\ \A u \in Threads : u # w => hand'[u] = hand[u]
        /\ w \in Threads /\ UNCHANGED <<currentBatch, handed, accepted, before>>
        /\ 1 \in DOMAIN batchQueue
        /\ \A i \in DOMAIN batchQueue' : /\ i + 1 \in DOMAIN batchQueue
                                         /\ batchQueue'[i] = batchQueue[i + 1]
    BY <1>0, <1>17, QueueReceive, Roles DEF Types, Receive
  <2>2. /\ Holding(w)' /\ ~Carrying(w)'
        /\ \A u \in Threads : u # w => /\ Carrying(u)' <=> Carrying(u)
                                       /\ Holding(u)' <=> Holding(u)
    BY Zenon, <1>10, <1>17, Roles DEF Receive
  <2> QED
    BY SMTT(30), <1>0, <2>1, <2>2 DEF Origin
<1> QED
  BY Zenon, <1>3, <1>4, <1>5, <1>6, <1>7, <1>11, <1>12, <1>13, <1>14, <1>15, <1>16, <1>17 DEF Next


LEMMA FoundStep == ASSUME ConstantsOK, IngestionInv, [Next]_vars PROVE Found'
<1>0. Types /\ Apart /\ Origin /\ Found
  BY Zenon DEF IngestionInv
<1>1. CASE Unmoved
  BY Zenon, <1>0, <1>1 DEF Found, Unmoved
<1>2. ASSUME NEW c \in Callers, ~panicked, Ingest(c) \/ GiveUp(c)
      PROVE Found'
  <2>1. /\ \A t \in Threads : t # c => hand'[t] = hand[t]
        /\ UNCHANGED <<currentBatch, batchQueue, handed, accepted, panicked>>
        /\ pc[c] \in {"idle", "pressing", "reserving"} /\ c \in Threads
    BY Zenon, <1>0, <1>2, Roles DEF Types, Ingest, GiveUp
  <2>2. hand[c] \cap accepted = {}
    BY Zenon, <1>0, <2>1 DEF Origin, Holding, Carrying
  <2> QED
    BY Zenon, <1>0, <2>1, <2>2 DEF Found
<1>3. ASSUME NEW c \in Callers, ~panicked, Add(c)
      PROVE Found'
  <2>1. /\ \A t \in Threads : t # c => hand'[t] = hand[t]
        /\ currentBatch' = currentBatch \cup hand[c] /\ c \in Threads
        /\ accepted' = accepted \cup hand[c]
        /\ UNCHANGED <<batchQueue, handed, panicked>>
    BY ZenonT(30), <1>0, <1>3, Roles DEF Types, Add
  <2> QED
    BY Zenon, <1>0, <2>1 DEF Found
<1>4. ASSUME NEW t \in Flushers, ~panicked, TakeBatch(t)
      PROVE Found'
  <2>1. /\ hand'[t] = currentBatch /\ \A u \in Threads : u # t => hand'[u] = hand[u]
        /\ t \in Threads /\ pc[t] = "flushing"
        /\ UNCHANGED <<batchQueue, handed, accepted, panicked>>
    BY Zenon, <1>0, <1>4, Roles DEF Types, TakeBatch
  <2>2. hand[t] = {}
    BY <1>0, <2>1 DEF Origin, Holding, Carrying
  <2> QED
    BY <1>0, <1>4, <2>1, <2>2 DEF Found
<1>5. ASSUME NEW t \in Flushers, ~panicked, Send(t)
      PROVE Found'
  <2>1. UNCHANGED <<currentBatch, handed, accepted>> /\ panicked' = closed /\ t \in Threads
    BY Zenon, <1>5, Roles DEF Send
  <2>2. CASE closed
    BY Zenon, <2>1, <2>2 DEF Found
  <2>3. CASE UNCHANGED <<hand, batchQueue>>
    BY SMTT(30), <1>0, <1>5, <2>1, <2>3 DEF Found
  <2>4. CASE /\ hand' = [hand EXCEPT ![t] = {}]
             /\ batchQueue' = Append(batchQueue, hand[t])
    <3>1. \A u \in Threads : u # t => hand'[u] = hand[u]
      BY Zenon, <1>0, <2>4 DEF Types
    <3>2. /\ DOMAIN batchQueue' = DOMAIN batchQueue \cup {Len(batchQueue) + 1}
          /\ \A i \in DOMAIN batchQueue : batchQueue'[i] = batchQueue[i]
          /\ batchQueue'[Len(batchQueue) + 1] = hand[t]
      BY <1>0, <2>1, <2>4, QueueSend DEF Types
    <3> QED
      BY SMTT(30), <1>0, <1>5, <2>1, <3>1, <3>2 DEF Found
  <2> QED
    BY Zenon, <1>5, <2>2, <2>3, <2>4 DEF Send
<1>6. ASSUME NEW t \in Threads, ~panicked, processBatch(t)
      PROVE Found'
  <2>1. /\ \A u \in Threads : u # t => hand'[u] = hand[u]
        /\ handed' = handed \cup hand[t]
        /\ UNCHANGED <<batchQueue, currentBatch, accepted, panicked>>
    BY Zenon, <1>0, <1>6 DEF Types, processBatch
  <2> QED
    BY Zenon, <1>0, <2>1 DEF Found
<1>7. ASSUME NEW w \in Workers, ~panicked, Receive(w)
      PROVE Found'
  <2>1. /\ hand'[w] = batchQueue[1] /\ \A u \in Threads : u # w => hand'[u] = hand[u]
        /\ w \in Threads /\ pc[w] = "idle"
        /\ UNCHANGED <<currentBatch, handed, accepted, panicked>>
        /\ \A i \in DOMAIN batchQueue :
             i # 1 => i - 1 \in DOMAIN batchQueue' /\ batchQueue'[i - 1] = batchQueue[i]
    BY SMTT(30), <1>0, <1>7, QueueReceive, Roles DEF Types, Receive
  <2>2. hand[w] = {}
    BY Zenon, <1>0, <2>1 DEF Origin, Holding, Carrying
  <2> QED
    BY SMTT(30), <1>0, <2>1, <2>2 DEF Found
<1> QED
  BY Zenon, <1>1, <1>2, <1>3, <1>4, <1>5, <1>6, <1>7, Kinds
-----------------------------------------------------------------------------
(* The memory counter.                                                        *)

\* Arithmetic of the bound.
LEMMA Times == ASSUME NEW m \in Nat
               PROVE /\ \A a, b \in Int : m * (a + b) = m * a + m * b
                     /\ \A a, b \in Int : m * (a - b) = m * a - m * b
                     /\ \A a, b \in Int : a <= b => m * a <= m * b
                     /\ \A a \in Int : m * a \in Int
                     /\ m * 0 = 0 /\ m * 1 = m
<1>1. /\ \A a, b \in Int : m * (a + b) = m * a + m * b
      /\ \A a, b \in Int : m * (a - b) = m * a - m * b
      /\ \A a \in Int : m * a \in Int
      /\ m * 0 = 0 /\ m * 1 = m
  OBVIOUS
<1>2. ASSUME NEW a \in Int, NEW b \in Int, a <= b PROVE m * a <= m * b
  <2>1. b - a \in Nat /\ b = a + (b - a)
    BY <1>2
  <2>2. m * (b - a) \in Nat
    BY <2>1
  <2> QED
    BY <1>1, <2>1, <2>2
<1> QED
  BY Zenon, <1>1, <1>2


LEMMA ExactStep ==
  ASSUME ConstantsOK, IngestionInv, [Next]_vars
  PROVE  currentMemory' = PointMemory * Cardinality(accepted' \ handed')
<1> DEFINE buffered == accepted \ handed
<1>0. Types /\ Apart /\ Origin /\ PointMemory \in Nat
  BY Zenon DEF IngestionInv, ConstantsOK
<1>1. /\ currentMemory = PointMemory * Cardinality(buffered)
      /\ IsFiniteSet(buffered) /\ Cardinality(buffered) \in Nat
  BY Zenon, <1>0, FS_Subset, FS_CardinalityType DEF IngestionInv, Memory, Types
<1>2. CASE UNCHANGED <<currentMemory, accepted, handed>>
  BY Zenon, <1>1, <1>2
<1>3. ASSUME NEW c \in Callers, Add(c)
      PROVE  currentMemory' = PointMemory * Cardinality(accepted' \ handed')
  <2>1. PICK x \in Points : hand[c] = {x} /\ x \notin accepted
    BY Zenon, <1>0, <1>3, Roles DEF Add, Origin, Carrying
  <2>2. accepted' \ handed' = buffered \cup {x} /\ x \notin buffered
    BY Zenon, <1>0, <1>3, <2>1 DEF Add, Origin
  <2>3. Cardinality(accepted' \ handed') = Cardinality(buffered) + 1
    BY Zenon, <1>1, <2>2, FS_AddElement
  <2>4. currentMemory' = currentMemory + PointMemory
    BY Zenon, <1>3 DEF Add
  <2> HIDE DEF buffered
  <2> QED
    BY <1>0, <1>1, <2>3, <2>4, Times
<1>4. ASSUME NEW t \in Threads, processBatch(t)
      PROVE  currentMemory' = PointMemory * Cardinality(accepted' \ handed')
  <2>1. hand[t] \subseteq buffered
    BY Zenon, <1>0, <1>4 DEF processBatch, Origin, Carrying, Apart
  <2>2. accepted' \ handed' = buffered \ hand[t] /\ buffered \cap hand[t] = hand[t]
    BY Zenon, <1>4, <2>1 DEF processBatch
  <2>3. /\ Cardinality(accepted' \ handed') = Cardinality(buffered) - Cardinality(hand[t])
        /\ Cardinality(hand[t]) \in Nat
    <3>1. IsFiniteSet(hand[t])
      BY Zenon, <1>1, <2>1, FS_Subset
    <3>2. Cardinality(hand[t]) \in Nat
      BY Zenon, <3>1, FS_CardinalityType
    <3>3. Cardinality(buffered \ hand[t]) = Cardinality(buffered) - Cardinality(buffered \cap hand[t])
      BY Zenon, <1>1, FS_Difference
    <3> QED BY Zenon, <2>2, <3>2, <3>3
  <2>4. currentMemory' = currentMemory - PointMemory * Cardinality(hand[t])
    BY Zenon, <1>4 DEF processBatch
  <2> HIDE DEF buffered
  <2> QED
    BY <1>0, <1>1, <2>3, <2>4, Times
<1>5. ASSUME NEW c \in Callers, Ingest(c) \/ GiveUp(c)
      PROVE UNCHANGED <<currentMemory, accepted, handed>>
  BY Zenon, <1>5 DEF Ingest, GiveUp
<1>6. ASSUME NEW t \in Flushers, TakeBatch(t) \/ Send(t)
      PROVE UNCHANGED <<currentMemory, accepted, handed>>
  BY Zenon, <1>6 DEF TakeBatch, Send
<1>7. ASSUME NEW w \in Workers, Receive(w)
      PROVE UNCHANGED <<currentMemory, accepted, handed>>
  BY Zenon, <1>7 DEF Receive
<1>8. Unmoved => UNCHANGED <<currentMemory, accepted, handed>>
  BY Zenon DEF Unmoved
<1> QED
  BY Zenon, <1>2, <1>3, <1>4, <1>5, <1>6, <1>7, <1>8, Kinds

LEMMA BoundStep ==
  ASSUME ConstantsOK, IngestionInv, [Next]_vars
  PROVE  currentMemory' + PointMemory * Cardinality(Adding')
           <= MaxMemoryBytes + PointMemory * (Cardinality(Callers) - 1)
<1> DEFINE Goal == currentMemory' + PointMemory * Cardinality(Adding')
                     <= MaxMemoryBytes + PointMemory * (Cardinality(Callers) - 1)
<1>0. /\ Places /\ Types /\ PointMemory \in Nat /\ MaxMemoryBytes \in Nat
      /\ currentMemory \in Int
  BY Zenon DEF IngestionInv, ConstantsOK, Types
<1>1. /\ IsFiniteSet(Callers) /\ Cardinality(Callers) \in Nat
      /\ IsFiniteSet(Adding) /\ Cardinality(Adding) \in Nat
  BY Zenon, FS_Subset, FS_CardinalityType DEF ConstantsOK, Adding
<1>2. currentMemory + PointMemory * Cardinality(Adding)
        <= MaxMemoryBytes + PointMemory * (Cardinality(Callers) - 1)
  BY Zenon DEF IngestionInv, Memory
<1>3. CASE UNCHANGED currentMemory /\ Adding' = Adding
  BY Zenon, <1>2, <1>3
<1>4. ASSUME NEW t \in Threads, NEW to \in AllSteps, Move(t, to), pc[t] # "adding", to # "adding"
      PROVE Adding' = Adding
  BY Zenon, <1>0, <1>4, Moves, Roles DEF Adding
<1>5. ASSUME NEW c \in Callers, Ingest(c) \/ checkBackpressure(c) \/ GiveUp(c)
      PROVE UNCHANGED currentMemory /\ Adding' = Adding
  <2>1. PICK to \in {"idle", "pressing", "reserving"} : Move(c, to)
    BY Zenon, <1>5 DEF Ingest, checkBackpressure, GiveUp
  <2>2. pc[c] # "adding" /\ UNCHANGED currentMemory
    BY Zenon, <1>5 DEF Ingest, checkBackpressure, GiveUp
  <2> QED
    BY Zenon, <2>1, <2>2, <1>4, Roles DEF AllSteps, CallerSteps
<1>6. ASSUME NEW c \in Callers, Reserve(c)
      PROVE Goal
  <2>1. Cardinality(Adding') <= Cardinality(Callers) /\ Cardinality(Adding') \in Nat
    BY Zenon, <1>1, FS_Subset, FS_CardinalityType DEF Adding
  <2>2. /\ currentMemory' = currentMemory
        /\ currentMemory + PointMemory <= MaxMemoryBytes
    BY Zenon, <1>6 DEF Reserve
  <2>3. PointMemory * Cardinality(Adding') <= PointMemory * Cardinality(Callers)
    BY SMTT(30), <1>0, <1>1, <2>1, Times
  <2>4. /\ PointMemory * (Cardinality(Callers) - 1)
             = PointMemory * Cardinality(Callers) - PointMemory
        /\ PointMemory * Cardinality(Callers) \in Int
        /\ PointMemory * Cardinality(Adding') \in Int
    BY SMTT(30), <1>0, <1>1, <2>1, Times
  <2> QED
    BY <1>0, <2>2, <2>3, <2>4
<1>7. ASSUME NEW c \in Callers, Add(c)
      PROVE Goal
  <2>1. PICK to \in {"idle", "flushing"} : Move(c, to)
    BY Zenon, <1>7 DEF Add
  <2>2. pc[c] = "adding" /\ currentMemory' = currentMemory + PointMemory
    BY Zenon, <1>7 DEF Add
  <2>3. Adding' = Adding \ {c} /\ c \in Adding
    <3>1. to \in AllSteps
      BY Zenon DEF AllSteps, CallerSteps
    <3> QED
      BY Zenon, <1>0, <2>1, <2>2, <3>1, Moves, Roles DEF Adding
  <2>4. Cardinality(Adding') = Cardinality(Adding) - 1
    BY Zenon, <1>1, <2>3, FS_RemoveElement
  <2>5. /\ PointMemory * Cardinality(Adding') = PointMemory * Cardinality(Adding) - PointMemory
        /\ PointMemory * Cardinality(Adding) \in Int
    BY SMTT(30), <1>0, <1>1, <2>4, Times
  <2>6. PointMemory * (Cardinality(Callers) - 1) \in Int
    BY <1>0, <1>1, Times
  <2> QED
    BY <1>0, <1>2, <2>2, <2>5, <2>6
<1>8. ASSUME NEW t \in Flushers, TakeBatch(t) \/ Send(t)
      PROVE UNCHANGED currentMemory /\ Adding' = Adding
  <2>1. PICK to \in {"idle", "sending", "processing", "closing"} : Move(t, to)
    BY Zenon, <1>8 DEF TakeBatch, Send, Flushed
  <2>2. pc[t] # "adding" /\ UNCHANGED currentMemory
    BY Zenon, <1>8 DEF TakeBatch, Send
  <2> QED
    BY Zenon, <2>1, <2>2, <1>4, Roles DEF AllSteps, CallerSteps, StopperSteps
<1>9. ASSUME NEW t \in Threads, processBatch(t)
      PROVE Goal
  <2>1. PICK to \in {"idle", "closing"} : Move(t, to)
    BY Zenon, <1>9 DEF processBatch, Flushed
  <2>2. Adding' = Adding
    BY Zenon, <2>1, <1>4, <1>9 DEF processBatch, AllSteps, CallerSteps, StopperSteps
  <2>3. hand[t] \subseteq accepted /\ IsFiniteSet(accepted)
    BY Zenon, <1>0, <1>9 DEF IngestionInv, Origin, Carrying, processBatch, Types
  <2>4. Cardinality(hand[t]) \in Nat
    BY Zenon, <2>3, FS_Subset, FS_CardinalityType
  <2>5. PointMemory * Cardinality(hand[t]) \in Nat
    BY <1>0, <2>4
  <2>6. currentMemory' = currentMemory - PointMemory * Cardinality(hand[t])
    BY Zenon, <1>9 DEF processBatch
  <2>7. /\ PointMemory * Cardinality(Adding) \in Int
        /\ PointMemory * (Cardinality(Callers) - 1) \in Int
    BY <1>0, <1>1, Times
  <2> QED
    BY SMTT(30), <1>0, <1>2, <2>2, <2>5, <2>6, <2>7
<1>10. ASSUME NEW w \in Workers, Receive(w) \/ Return(w)
       PROVE UNCHANGED currentMemory /\ Adding' = Adding
  <2>1. PICK to \in {"processing", "returned"} : Move(w, to)
    BY Zenon, <1>10 DEF Receive, Return
  <2>2. pc[w] # "adding" /\ UNCHANGED currentMemory
    BY Zenon, <1>10 DEF Receive, Return
  <2> QED
    BY Zenon, <2>1, <2>2, <1>4, Roles DEF AllSteps, WorkerSteps
<1>11. ASSUME flushTimer \/ Stop \/ CloseQueue \/ Stopped
       PROVE UNCHANGED currentMemory /\ Adding' = Adding
  <2>1. PICK t \in {Timer, Stopper}, to \in {"flushing", "returned", "waiting", "stopped"} :
          Move(t, to)
    BY Zenon, <1>11 DEF flushTimer, Stop, CloseQueue, Stopped
  <2>2. pc[t] # "adding"
    BY Zenon, <1>0, Roles DEF Places, Allowed, TimerSteps, StopperSteps
  <2>3. UNCHANGED currentMemory
    BY Zenon, <1>11 DEF flushTimer, Stop, CloseQueue, Stopped
  <2> QED
    BY Zenon, <2>1, <2>2, <2>3, <1>4, Roles DEF AllSteps, TimerSteps, StopperSteps
<1>12. ASSUME Cancel \/ UNCHANGED vars
       PROVE UNCHANGED currentMemory /\ Adding' = Adding
  BY <1>12 DEF Cancel, vars, Adding
<1> QED
  BY SMTT(30), <1>3, <1>5, <1>6, <1>7, <1>8, <1>9, <1>10, <1>11, <1>12 DEF Next

-----------------------------------------------------------------------------
(* Stop.                                                                      *)

LEMMA StoppingStep == ASSUME ConstantsOK, IngestionInv, [Next]_vars PROVE Stopping'
<1>0. Places /\ Types /\ Origin /\ Stopping
  BY Zenon DEF IngestionInv
\* A step of another thread, which does not return in it.
<1>1. ASSUME NEW t \in Threads, NEW to \in AllSteps, Move(t, to),
             t # Stopper, pc[t] # "returned", to # "returned",
             UNCHANGED <<running, closed, cancelled, before>>,
             before \cap currentBatch = {} => before \cap currentBatch' = {},
             closed /\ batchQueue = <<>> => batchQueue' = <<>>
      PROVE Stopping'
  <2>1. /\ pc'[Stopper] = pc[Stopper] /\ pc'[t] = to
        /\ \A u \in Threads : u # t => pc'[u] = pc[u]
    BY <1>0, <1>1, Moves, Roles
  <2>2. pc[Stopper] = "stopped" => \A u \in Workers \cup {Timer} : pc'[u] = "returned"
    BY Zenon, <1>0, <1>1, <2>1, Roles DEF Stopping
  <2>3. (\E w \in Workers : pc'[w] = "returned") => \E w \in Workers : pc[w] = "returned"
    BY Zenon, <1>1, <2>1, Roles
  <2> QED
    BY Zenon, <1>0, <1>1, <2>1, <2>2, <2>3 DEF Stopping
<1>2. ASSUME NEW c \in Callers, Ingest(c) \/ checkBackpressure(c) \/ GiveUp(c) \/ Reserve(c)
      PROVE Stopping'
  <2>1. PICK to \in {"idle", "pressing", "reserving", "adding"} : Move(c, to)
    BY <1>2 DEF Ingest, checkBackpressure, GiveUp, Reserve
  <2>2. /\ pc[c] # "returned" /\ to # "returned" /\ to \in AllSteps
        /\ UNCHANGED <<running, closed, cancelled, before, currentBatch, batchQueue>>
    BY Zenon, <1>2 DEF Ingest, checkBackpressure, GiveUp, Reserve, AllSteps, CallerSteps
  <2> QED
    BY ZenonT(30), <2>1, <2>2, <1>1, Roles
<1>3. ASSUME NEW c \in Callers, Add(c)
      PROVE Stopping'
  <2>1. PICK to \in {"idle", "flushing"} : Move(c, to)
    BY Zenon, <1>3 DEF Add
  <2>2. /\ pc[c] # "returned" /\ to # "returned" /\ to \in AllSteps
        /\ UNCHANGED <<running, closed, cancelled, before, batchQueue>>
    BY Zenon, <1>3 DEF Add, AllSteps, CallerSteps
  <2>3. before \cap currentBatch = {} => before \cap currentBatch' = {}
    BY Zenon, <1>0, <1>3, Roles DEF Add, Origin, Carrying
  <2> QED
    BY SMTT(30), <2>1, <2>2, <2>3, <1>1, Roles
<1>4. ASSUME NEW t \in Flushers, TakeBatch(t) \/ Send(t)
      PROVE Stopping'
  <2>1. PICK to \in {"idle", "sending", "processing", "closing"} :
          Move(t, to) /\ (t = Stopper => to # "idle")
    BY Zenon, <1>4 DEF TakeBatch, Send, Flushed
  <2>2. /\ pc[t] \in {"flushing", "sending"} /\ to # "returned" /\ to \in AllSteps
        /\ UNCHANGED <<running, closed, cancelled, before>>
        /\ t \in Threads
    BY Zenon, <1>4, Roles DEF TakeBatch, Send, AllSteps, CallerSteps, StopperSteps
  <2>3. /\ before \cap currentBatch = {} => before \cap currentBatch' = {}
        /\ closed => batchQueue' = batchQueue
    BY <1>4 DEF TakeBatch, Send
  <2>4. CASE t # Stopper
    BY Zenon, <2>1, <2>2, <2>3, <2>4, <1>1
  <2>5. CASE t = Stopper
    <3>1. /\ pc'[Stopper] = to /\ to \in {"sending", "processing", "closing"}
          /\ \A u \in Threads : u # Stopper => pc'[u] = pc[u]
      BY Zenon, <1>0, <2>1, <2>2, <2>5, Moves
    <3>2. \A w \in Workers : pc'[w] = pc[w]
      BY SMTT(30), <3>1, Roles
    <3>3. before \cap currentBatch' = {}
      BY Zenon, <1>0, <1>4, <2>3, <2>5 DEF TakeBatch, Send, Stopping
    <3>4. ~closed /\ ~running
      BY Zenon, <1>0, <2>2, <2>5 DEF Stopping
    <3> QED
      BY <1>0, <2>2, <3>1, <3>2, <3>3, <3>4 DEF Stopping
  <2> QED
    BY Zenon, <2>4, <2>5
<1>5. ASSUME NEW t \in Threads, processBatch(t)
      PROVE Stopping'
  <2>1. PICK to \in {"idle", "closing"} : Move(t, to) /\ (t = Stopper => to = "closing")
    BY Zenon, <1>5, Roles DEF processBatch, Flushed
  <2>2. /\ pc[t] = "processing" /\ to # "returned" /\ to \in AllSteps
        /\ UNCHANGED <<running, closed, cancelled, before, currentBatch, batchQueue>>
    BY Zenon, <1>5 DEF processBatch, AllSteps, CallerSteps, StopperSteps
  <2>3. CASE t # Stopper
    BY SMTT(30), <2>1, <2>2, <2>3, <1>1
  <2>4. CASE t = Stopper
    <3>1. /\ pc'[Stopper] = "closing"
          /\ \A u \in Threads : u # Stopper => pc'[u] = pc[u]
      BY Zenon, <1>0, <2>1, <2>2, <2>4, Moves
    <3>2. \A w \in Workers : pc'[w] = pc[w]
      BY Zenon, <3>1, Roles
    <3> QED
      BY Zenon, <1>0, <2>2, <2>4, <3>1, <3>2 DEF Stopping
  <2> QED
    BY Zenon, <2>3, <2>4
<1>6. ASSUME NEW w \in Workers, Receive(w)
      PROVE Stopping'
  <2>1. /\ pc[w] = "idle" /\ batchQueue # <<>> /\ Move(w, "processing")
        /\ UNCHANGED <<running, closed, cancelled, before, currentBatch>>
        /\ "processing" \in AllSteps
    BY Zenon, <1>6 DEF Receive, AllSteps, WorkerSteps
  <2> QED
    BY Zenon, <2>1, <1>1, Roles
<1>7. ASSUME NEW t \in Workers \cup {Timer}, Move(t, "returned"), pc[t] = "idle",
             UNCHANGED <<running, closed, cancelled, before, currentBatch, batchQueue>>,
             t \in Workers => cancelled \/ (closed /\ batchQueue = <<>>)
      PROVE Stopping'
  <2>1. /\ pc'[Stopper] = pc[Stopper] /\ pc'[t] = "returned"
        /\ \A u \in Threads : u # t => pc'[u] = pc[u]
    BY <1>0, <1>7, Moves, Roles DEF AllSteps, WorkerSteps
  <2>2. pc[Stopper] # "stopped"
    BY Zenon, <1>0, <1>7 DEF Stopping
  <2>3. (\E w \in Workers : pc'[w] = "returned") /\ ~cancelled => closed /\ batchQueue = <<>>
    BY Zenon, <1>0, <1>7, <2>1, Roles DEF Stopping
  <2> QED
    BY SMTT(30), <1>0, <1>7, <2>1, <2>2, <2>3 DEF Stopping
<1>8. ASSUME NEW w \in Workers, Return(w)
      PROVE Stopping'
  BY Zenon, <1>7, <1>8 DEF Return
<1>9. CASE flushTimer
  <2>1. /\ pc[Timer] = "idle"
        /\ UNCHANGED <<running, closed, cancelled, before, currentBatch, batchQueue>>
    BY Zenon, <1>9 DEF flushTimer
  <2>2. CASE Move(Timer, "flushing")
    BY <1>1, <2>1, <2>2, Roles DEF AllSteps, TimerSteps
  <2>3. CASE Move(Timer, "returned")
    BY Zenon, <1>7, <2>1, <2>3, Roles
  <2> QED
    BY Zenon, <1>9, <2>2, <2>3 DEF flushTimer
<1>10. CASE Cancel
  BY <1>0, <1>10 DEF Cancel, Stopping
<1>11. ASSUME NEW to \in {"flushing", "waiting", "stopped"}, Move(Stopper, to)
       PROVE /\ pc'[Stopper] = to
             /\ \A t \in Workers \cup {Timer} : pc'[t] = pc[t]
  BY <1>0, <1>11, Moves, Roles DEF AllSteps, StopperSteps
<1>12. CASE Stop
  <2>1. /\ pc'[Stopper] = "flushing" /\ ~running'
        /\ UNCHANGED <<closed, cancelled, batchQueue>> /\ running
        /\ \A w \in Workers : pc'[w] = pc[w]
    BY <1>11, <1>12 DEF Stop
  <2> QED
    BY Zenon, <1>0, <2>1 DEF Stopping
<1>13. CASE CloseQueue
  <2>1. /\ pc[Stopper] = "closing" /\ pc'[Stopper] = "waiting" /\ closed'
        /\ UNCHANGED <<running, cancelled, batchQueue, before, currentBatch>>
        /\ \A w \in Workers : pc'[w] = pc[w]
    BY Zenon, <1>11, <1>13 DEF CloseQueue
  <2> QED
    BY Zenon, <1>0, <2>1 DEF Stopping
<1>14. CASE Stopped
  <2>1. /\ pc[Stopper] = "waiting" /\ pc'[Stopper] = "stopped"
        /\ UNCHANGED <<running, closed, cancelled, batchQueue, before, currentBatch>>
        /\ \A t \in Workers \cup {Timer} : pc'[t] = pc[t] /\ pc[t] = "returned"
    BY Zenon, <1>11, <1>14 DEF Stopped
  <2> QED
    BY Zenon, <1>0, <2>1 DEF Stopping
<1>15. CASE UNCHANGED vars
  BY Zenon, <1>0, <1>15 DEF vars, Stopping
<1> QED
  BY SMTT(30), <1>2, <1>3, <1>4, <1>5, <1>6, <1>8, <1>9, <1>10, <1>12, <1>13, <1>14, <1>15 DEF Next

-----------------------------------------------------------------------------
(* The theorems.                                                              *)

LEMMA IngestionInitial == ASSUME ConstantsOK, Init PROVE IngestionInv
<1>1. Places
  BY Zenon, Roles DEF Init, Places, Allowed, AllSteps, CallerSteps, WorkerSteps, TimerSteps,
               StopperSteps
<1>2. Types
  <2>1. batchQueue \in Seq(SUBSET Points) /\ Len(batchQueue) <= MaxPendingBatches
    BY DEF Init, ConstantsOK
  <2>2. /\ hand \in [Threads -> SUBSET Points] /\ currentMemory \in Int
        /\ currentBatch \subseteq Points
    BY DEF Init
  <2>3. accepted \in SUBSET Points /\ IsFiniteSet(accepted)
    BY Zenon, FS_EmptySet DEF Init
  <2>4. /\ closed \in BOOLEAN /\ running \in BOOLEAN /\ cancelled \in BOOLEAN
        /\ panicked \in BOOLEAN
    BY Zenon DEF Init
  <2> QED
    BY Zenon, <2>1, <2>2, <2>3, <2>4 DEF Types
<1>3. Apart /\ Origin /\ Found
  BY DEF Init, Apart, Origin, Found, Carrying, Holding
<1>4. Memory
  <2>1. accepted \ handed = {} /\ Adding = {} /\ currentMemory = 0
    BY Zenon, Roles DEF Init, Adding
  <2>2. Cardinality(Callers) - 1 \in Nat
    BY FS_EmptySet, FS_CardinalityType DEF ConstantsOK
  <2>3. PointMemory \in Nat /\ MaxMemoryBytes \in Nat
    BY Zenon DEF ConstantsOK
  <2>4. PointMemory * (Cardinality(Callers) - 1) \in Nat
    BY <2>2, <2>3
  <2>5. Cardinality(accepted \ handed) = 0 /\ Cardinality(Adding) = 0
    BY Zenon, <2>1, FS_EmptySet
  <2> QED
    BY SMTT(30), <2>1, <2>3, <2>4, <2>5, Times DEF Memory
<1>5. Stopping
  BY Zenon, Roles DEF Init, Stopping
<1> QED
  BY Zenon, <1>1, <1>2, <1>3, <1>4, <1>5 DEF IngestionInv

LEMMA IngestionStep == ASSUME ConstantsOK, IngestionInv, [Next]_vars PROVE IngestionInv'
<1>1. Memory'
  BY Zenon, ExactStep, BoundStep DEF Memory
<1> QED
  BY Zenon, <1>1, PlacesStep, TypesStep, ApartStep, OriginStep, FoundStep, StoppingStep
     DEF IngestionInv

LEMMA IngestionTyped == ASSUME ConstantsOK, IngestionInv PROVE TypeOK
<1>1. Types /\ Places /\ Origin
  BY Zenon DEF IngestionInv
<1>2. pc \in [Threads -> {"idle", "pressing", "reserving", "adding", "flushing", "sending",
                          "processing", "returned", "closing", "waiting", "stopped"}]
  BY Zenon, <1>1 DEF Places, AllSteps, CallerSteps, WorkerSteps, TimerSteps, StopperSteps
<1> QED
  BY Zenon, <1>1, <1>2 DEF TypeOK, Types, Origin

LEMMA MemoryHolds == ASSUME ConstantsOK, IngestionInv PROVE MemoryBounded
<1> DEFINE callers == Cardinality(Callers)
           adding == Cardinality(Adding)
           buffered == Cardinality(accepted \ handed)
           batch == Cardinality(currentBatch)
<1>1. PointMemory \in Nat /\ MaxMemoryBytes \in Nat
  BY Zenon DEF ConstantsOK
<1>2. callers \in Nat /\ adding \in Nat
  BY Zenon, FS_Subset, FS_CardinalityType DEF ConstantsOK, Adding
<1>3. buffered \in Nat /\ batch \in Nat /\ batch <= buffered
  <2>1. currentBatch \subseteq accepted \ handed /\ IsFiniteSet(accepted)
    BY Zenon DEF IngestionInv, Apart, Origin, Types
  <2>2. IsFiniteSet(accepted \ handed)
    BY Zenon, <2>1, FS_Subset
  <2> QED
    BY Zenon, <2>1, <2>2, FS_Subset, FS_CardinalityType
<1>4. /\ currentMemory = PointMemory * buffered
      /\ currentMemory + PointMemory * adding <= MaxMemoryBytes + PointMemory * (callers - 1)
  BY Zenon DEF IngestionInv, Memory
<1> HIDE DEF callers, adding, buffered, batch
<1>5. PointMemory * batch <= PointMemory * buffered
  BY <1>1, <1>3, Times
<1>6. PointMemory * adding \in Nat /\ PointMemory * buffered \in Nat
  BY <1>1, <1>2, <1>3
<1>7. /\ PointMemory * (callers - 1) = (callers - 1) * PointMemory
      /\ PointMemory * (callers - 1) \in Int
  BY <1>1, <1>2
<1>8. /\ currentMemory <= MaxMemoryBytes + (callers - 1) * PointMemory
      /\ currentMemory >= PointMemory * batch
  <2>1. PointMemory * batch \in Int
    BY SMTT(30), <1>1, <1>3
  <2> QED
    BY <1>1, <1>4, <1>5, <1>6, <1>7, <2>1
<1> QED
  BY Zenon, <1>8 DEF MemoryBounded, callers, batch

LEMMA StopHolds == ASSUME ConstantsOK, IngestionInv PROVE StopLosesNothing
<1> SUFFICES ASSUME pc[Stopper] = "stopped", ~cancelled, ~panicked, NEW x \in before
             PROVE  x \in handed \/ \E c \in Callers : x \in hand[c]
  BY Zenon DEF StopLosesNothing
<1>1. batchQueue = <<>>
  <2>1. \E w \in Workers : pc[w] = "returned"
    BY Zenon DEF IngestionInv, Stopping, ConstantsOK
  <2> QED
    BY Zenon, <2>1 DEF IngestionInv, Stopping
<1>2. x \notin currentBatch
  BY Zenon DEF IngestionInv, Stopping
<1>3. \A t \in Threads : t \notin Callers => hand[t] = {}
  <2>1. \A t \in Threads : t \notin Callers => pc[t] \in {"returned", "stopped"}
    BY Zenon DEF IngestionInv, Stopping, Threads, Flushers
  <2> QED
    BY Zenon, <2>1 DEF IngestionInv, Origin, Holding, Carrying
<1>4. x \in accepted
  BY Zenon DEF IngestionInv, Origin
<1> QED
  BY <1>1, <1>2, <1>3, <1>4 DEF IngestionInv, Found

\* The state has its type and the queue never holds more than MaxPendingBatches.
THEOREM IngestionTypeCorrect == ASSUME ConstantsOK PROVE Spec => []TypeOK
<1>1. ConstantsOK
  BY Zenon
<1>2. Init => IngestionInv
  BY Zenon, <1>1, IngestionInitial
<1>3. IngestionInv /\ [Next]_vars => IngestionInv'
  BY <1>1, IngestionStep
<1>4. IngestionInv => TypeOK
  BY SMTT(30), <1>1, IngestionTyped
<1> QED
  BY <1>2, <1>3, <1>4, PTL DEF Spec

\* Ingest: however many callers read currentMemory before one of them adds its
\* point, the buffers exceed the limit by at most one point for each of the other
\* callers, and the counter never falls below what the current batch holds.
THEOREM IngestionMemoryBounded == ASSUME ConstantsOK PROVE Spec => []MemoryBounded
<1>1. ConstantsOK
  BY Zenon
<1>2. Init => IngestionInv
  BY Zenon, <1>1, IngestionInitial
<1>3. IngestionInv /\ [Next]_vars => IngestionInv'
  BY <1>1, IngestionStep
<1>4. IngestionInv => MemoryBounded
  BY ZenonT(30), <1>1, MemoryHolds
<1> QED
  BY <1>2, <1>3, <1>4, PTL DEF Spec

\* Stop: when it returns without a cancelled context or a panic, every point that
\* was accepted before it was called has been handed to onBatch, or is in a batch
\* that a caller of Ingest processes itself.
THEOREM StopLosesNoPoint == ASSUME ConstantsOK PROVE Spec => []StopLosesNothing
<1>1. ConstantsOK
  BY Zenon
<1>2. Init => IngestionInv
  BY Zenon, <1>1, IngestionInitial
<1>3. IngestionInv /\ [Next]_vars => IngestionInv'
  BY Zenon, <1>1, IngestionStep
<1>4. IngestionInv => StopLosesNothing
  BY ZenonT(30), <1>1, StopHolds
<1> QED
  BY <1>2, <1>3, <1>4, PTL DEF Spec

-----------------------------------------------------------------------------
(* The hub.  A send channel is closed by Run alone, when it has taken the   *)
(* client out of the map, and only for a readPump that has returned: once a  *)
(* channel is closed the client never comes back and never answers again.   *)

CONSTANTS Clients, Subscriptions, Events, AnyCollection, Vetoed, SendCapacity,
          BroadcastCapacity, MaxPublished, MaxMessages

VARIABLES clients, broadcast, reader, writer, connected, send, subscriptions,
          published, messages

H == INSTANCE Hub

ReaderStates == {"none", "registering", "reading", "answering", "leaving", "done"}

HubInv ==
  /\ reader \in [Clients -> ReaderStates]
  /\ clients \subseteq Clients
  /\ \A c \in clients : reader[c] \in {"reading", "answering", "leaving"}
  /\ \A c \in closed : c \in Clients /\ reader[c] = "done"

LEMMA HubInit == H!NewHub => HubInv
  BY Zenon DEF H!NewHub, HubInv, ReaderStates

LEMMA HubStep == HubInv /\ [H!Next]_H!vars => HubInv'
<1> SUFFICES ASSUME HubInv, [H!Next]_H!vars PROVE HubInv'
  BY Zenon
<1> USE DEF HubInv, ReaderStates
<1>1. CASE H!broadcastEvent \/ \E event \in Events : H!Publish(event)
  BY Zenon, <1>1 DEF H!broadcastEvent, H!Publish
<1>2. ASSUME NEW c \in Clients, H!ServeWS(c) \/ H!Register(c) \/ H!Unregister(c)
      PROVE  HubInv'
  BY ZenonT(30), <1>2 DEF H!ServeWS, H!Register, H!Unregister
<1>3. ASSUME NEW c \in Clients, H!handleSubscribe(c) \/ H!handleUnsubscribe(c) \/ H!handlePing(c)
      PROVE  HubInv'
  <2>1. PICK subs : H!Handle(c, subs)
    BY Zenon, <1>3 DEF H!handleSubscribe, H!handleUnsubscribe, H!handlePing
  <2> QED BY Zenon, <2>1 DEF H!Handle
<1>4. ASSUME NEW c \in Clients, H!Answer(c) \/ H!ReadFails(c)
      PROVE  HubInv'
  BY Zenon, <1>4 DEF H!Answer, H!ReadFails
<1>5. ASSUME NEW c \in Clients, H!WriteMessage(c) \/ H!WriterReturns(c)
      PROVE  HubInv'
  BY Zenon, <1>5 DEF H!WriteMessage, H!WriterReturns
<1>6. CASE UNCHANGED H!vars
  BY Zenon, <1>6 DEF H!vars
<1> QED BY ZenonT(30), <1>1, <1>2, <1>3, <1>4, <1>5, <1>6 DEF H!Next

LEMMA HubTypes ==
  ASSUME H!ConstantsOK, HubInv, H!TypeOK, [H!Next]_H!vars
  PROVE  H!TypeOK'
<1> USE DEF H!TypeOK, H!ConstantsOK
<1>1. CASE H!broadcastEvent
  <2>1. Len(broadcast') <= BroadcastCapacity
    <3>1. Len(Tail(broadcast)) = Len(broadcast) - 1 /\ Len(broadcast) \in Nat
      BY SMTT(30), <1>1 DEF H!broadcastEvent
    <3> QED BY SMTT(30), <1>1, <3>1 DEF H!broadcastEvent
  <2>2. send' \in [Clients -> 0..SendCapacity]
    BY SMTT(30), <1>1 DEF H!broadcastEvent
  <2> QED BY SMTT(30), <1>1, <2>1, <2>2 DEF H!broadcastEvent
<1>2. ASSUME NEW event \in Events, H!Publish(event)
      PROVE  H!TypeOK'
  <2>1. broadcast' \in Seq(Events) /\ Len(broadcast') = Len(broadcast) + 1
    BY SMTT(30), <1>2 DEF H!Publish
  <2> QED BY <1>2, <2>1 DEF H!Publish
<1>3. ASSUME NEW c \in Clients, H!ServeWS(c) \/ H!Register(c) \/ H!Unregister(c)
      PROVE  H!TypeOK'
  BY Zenon, <1>3 DEF H!ServeWS, H!Register, H!Unregister, HubInv
<1>4. ASSUME NEW c \in Clients, H!handleSubscribe(c) \/ H!handleUnsubscribe(c) \/ H!handlePing(c)
      PROVE  H!TypeOK'
  <2>1. PICK subs \in SUBSET Subscriptions : H!Handle(c, subs)
    BY Zenon, <1>4 DEF H!handleSubscribe, H!handleUnsubscribe, H!handlePing
  <2> QED BY Zenon, <2>1 DEF H!Handle
<1>5. ASSUME NEW c \in Clients, H!Answer(c) \/ H!ReadFails(c)
      PROVE  H!TypeOK'
  BY SMTT(30), <1>5 DEF H!Answer, H!ReadFails
<1>6. ASSUME NEW c \in Clients, H!WriteMessage(c) \/ H!WriterReturns(c)
      PROVE  H!TypeOK'
  BY SMTT(30), <1>6 DEF H!WriteMessage, H!WriterReturns
<1>7. CASE UNCHANGED H!vars
  BY Zenon, <1>7 DEF H!vars
<1> QED BY ZenonT(30), <1>1, <1>2, <1>3, <1>4, <1>5, <1>6, <1>7 DEF H!Next

\* Neither Run nor a readPump ever sends on a closed channel, for any number of
\* clients, events and messages and any capacity of the channels.
THEOREM HubNeverSendsOnClosed == H!Spec => []H!NoSendOnClosed
<1>1. HubInv => H!NoSendOnClosed
  BY Zenon DEF HubInv, ReaderStates, H!NoSendOnClosed
<1> QED BY <1>1, HubInit, HubStep, PTL DEF H!Spec

\* The channels never hold more than their capacities: a full buffer makes Run
\* drop the event and a readPump wait.
THEOREM HubTypeCorrect ==
  ASSUME H!ConstantsOK
  PROVE  H!Spec => []H!TypeOK
<1>1. H!NewHub => H!TypeOK
  BY DEF H!NewHub, H!TypeOK, H!ConstantsOK
<1>2. H!TypeOK /\ HubInv /\ [H!Next]_H!vars => H!TypeOK'
  BY ZenonT(30), HubTypes
<1> QED BY SMTT(30), <1>1, <1>2, HubInit, HubStep, PTL DEF H!Spec

-----------------------------------------------------------------------------
(* Shard recovery.  What a job compares is a checksum it took before, of    *)
(* data that other jobs and repairs go on changing.  The argument is that   *)
(* both owners' chunks only grow: what the source had at the start is still *)
(* there when its checksum is taken, and what the local checksum stood for  *)
(* is still there afterwards.                                               *)

CONSTANTS Lost, Own, Chunks, Initial, MaxConcurrentRecov, MaxJobs, MaxQueue

VARIABLES recoveryQueue, recovering, jobs, data, remote, repair

R == INSTANCE ShardRecovery

Job == [shard : R!Shards, status : {"streaming", "complete", "failed"},
        at : {"recv", "checksum", "compare", "end"},
        todo : SUBSET Chunks, sum : SUBSET Chunks, had : SUBSET Chunks]

Repair == [at : {"idle", "compare", "push"}, chunks : SUBSET Chunks]

JobOK(j, local, source) ==
  /\ j.had \subseteq source[j.shard]
  /\ j.at = "compare" => j.sum \subseteq local[j.shard]
  /\ j.status = "complete" => j.had \subseteq local[j.shard]

RecoveryInv ==
  /\ recoveryQueue \in Seq(R!Shards)
  /\ jobs \in Seq(Job)
  /\ recovering \in [R!Shards -> 0..Len(jobs)]
  /\ data \in [R!Shards -> SUBSET Chunks]
  /\ remote \in [R!Shards -> SUBSET Chunks]
  /\ repair \in [Own -> Repair]
  /\ \A j \in DOMAIN jobs : JobOK(jobs[j], data, remote)

LEMMA RecoveryInit ==
  ASSUME R!ConstantsOK PROVE R!Init => RecoveryInv
  BY DEF R!ConstantsOK, R!Init, R!Shards, RecoveryInv, Repair

\* Jobs that are left alone stay as they should be while the owners' chunks grow.
LEMMA ChunksGrow ==
  ASSUME RecoveryInv, UNCHANGED <<recoveryQueue, jobs, recovering>>,
         data' \in [R!Shards -> SUBSET Chunks],
         remote' \in [R!Shards -> SUBSET Chunks],
         repair' \in [Own -> Repair],
         \A s \in R!Shards : data[s] \subseteq data'[s] /\ remote[s] \subseteq remote'[s]
  PROVE  RecoveryInv'
<1>1. \A j \in DOMAIN jobs : jobs[j] \in Job
  BY DEF RecoveryInv
<1>2. \A j \in DOMAIN jobs : JobOK(jobs'[j], data', remote')
  BY Zenon, <1>1 DEF RecoveryInv, JobOK, Job
<1> QED BY Zenon, <1>2 DEF RecoveryInv

\* One job takes a step, and its shard may gain chunks.
LEMMA JobSteps ==
  ASSUME RecoveryInv, NEW j \in DOMAIN jobs, NEW job \in Job,
         UNCHANGED <<recoveryQueue, recovering, remote, repair>>,
         jobs' = [jobs EXCEPT ![j] = job], job.shard = jobs[j].shard,
         data' \in [R!Shards -> SUBSET Chunks],
         \A s \in R!Shards : data[s] \subseteq data'[s],
         JobOK(job, data', remote')
  PROVE  RecoveryInv'
<1>1. jobs' \in Seq(Job) /\ DOMAIN jobs' = DOMAIN jobs /\ Len(jobs') = Len(jobs)
  BY DEF RecoveryInv
<1>2. \A i \in DOMAIN jobs : jobs[i] \in Job
  BY DEF RecoveryInv
<1>3. \A i \in DOMAIN jobs : JobOK(jobs'[i], data', remote')
  BY Zenon, <1>2 DEF RecoveryInv, JobOK, Job
<1> QED BY Zenon, <1>1, <1>3 DEF RecoveryInv

LEMMA RecoveryStep ==
  ASSUME R!ConstantsOK, RecoveryInv, [R!Next]_R!vars
  PROVE  RecoveryInv'
<1>0. \A j \in DOMAIN jobs : jobs[j] \in Job
  BY SMTT(30) DEF RecoveryInv
<1>1. ASSUME NEW s \in Lost, R!RecoverShard(s)
      PROVE  RecoveryInv'
  BY <1>1 DEF R!RecoverShard, RecoveryInv, R!Shards, JobOK
<1>2. ASSUME NEW s \in Lost, R!RemoteWrite(s)
      PROVE  RecoveryInv'
  <2>1. PICK c \in Chunks : remote' = [remote EXCEPT ![s] = @ \cup {c}]
    BY Zenon, <1>2 DEF R!RemoteWrite
  <2>2. remote \in [R!Shards -> SUBSET Chunks] /\ data \in [R!Shards -> SUBSET Chunks]
    BY Zenon DEF RecoveryInv
  <2>3. /\ remote' \in [R!Shards -> SUBSET Chunks]
        /\ \A t \in R!Shards : remote[t] \subseteq remote'[t]
    BY ZenonT(30), <2>1, <2>2
  <2>4. UNCHANGED <<recoveryQueue, recovering, jobs, data, repair>>
    BY Zenon, <1>2 DEF R!RemoteWrite
  <2>5. repair' \in [Own -> Repair]
    BY Zenon, <2>4 DEF RecoveryInv
  <2> QED BY ZenonT(30), <2>2, <2>3, <2>4, <2>5, ChunksGrow
<1>3. ASSUME NEW s \in Own, R!repairShard(s) \/ R!CompareReplica(s)
      PROVE  RecoveryInv'
  <2> DEFINE free == [at |-> "idle", chunks |-> {}]
             at(a) == [at |-> a, chunks |-> data[s]]
  <2>1. free \in Repair /\ at("compare") \in Repair /\ at("push") \in Repair
    BY Zenon DEF RecoveryInv, R!Shards, Repair
  <2>2. \E r \in Repair : repair' = [repair EXCEPT ![s] = r]
    BY Zenon, <1>3, <2>1 DEF R!repairShard, R!CompareReplica
  <2>3. UNCHANGED <<recoveryQueue, recovering, jobs, data, remote>>
    BY Zenon, <1>3 DEF R!repairShard, R!CompareReplica
  <2> QED BY ZenonT(30), <2>2, <2>3 DEF RecoveryInv, JobOK
<1>4. ASSUME NEW s \in Own, R!pushDataToReplica(s)
      PROVE  RecoveryInv'
  <2>1. repair[s] \in Repair /\ repair[s].chunks \subseteq Chunks /\ s \in R!Shards
    BY Zenon DEF RecoveryInv, R!Shards, Repair
  <2>2. ASSUME NEW c \in repair[s].chunks,
               repair' = [repair EXCEPT ![s].chunks = @ \ {c}],
               remote' = [remote EXCEPT ![s] = @ \cup {c}]
        PROVE  RecoveryInv'
    <3>1. [repair[s] EXCEPT !.chunks = @ \ {c}] \in Repair
      BY Zenon, <2>1 DEF Repair
    <3>2. repair' \in [Own -> Repair]
      BY Zenon, <2>2, <3>1 DEF RecoveryInv
    <3>3. /\ remote' \in [R!Shards -> SUBSET Chunks]
          /\ \A t \in R!Shards : remote[t] \subseteq remote'[t]
      BY Zenon, <2>1, <2>2 DEF RecoveryInv
    <3> QED BY ZenonT(30), <1>4, <3>2, <3>3, ChunksGrow DEF R!pushDataToReplica, RecoveryInv
  <2>3. CASE repair' = [repair EXCEPT ![s] = [at |-> "idle", chunks |-> {}]] /\ UNCHANGED remote
    <3>1. repair' \in [Own -> Repair]
      BY Zenon, <2>3 DEF RecoveryInv, Repair
    <3> QED BY ZenonT(30), <1>4, <2>3, <3>1 DEF R!pushDataToReplica, RecoveryInv, JobOK
  <2> QED BY ZenonT(30), <1>4, <2>2, <2>3 DEF R!pushDataToReplica
<1>5. CASE R!processRecoveryQueue
  <2>1. Head(recoveryQueue) \in R!Shards /\ Tail(recoveryQueue) \in Seq(R!Shards)
    BY SMTT(30), <1>5 DEF R!processRecoveryQueue, RecoveryInv
  <2>2. CASE UNCHANGED <<recovering, jobs>>
    BY Zenon, <1>5, <2>1, <2>2 DEF R!processRecoveryQueue, RecoveryInv, JobOK
  <2>3. CASE /\ jobs' = Append(jobs, R!NewJob(Head(recoveryQueue)))
             /\ recovering' = [recovering EXCEPT ![Head(recoveryQueue)] = Len(jobs) + 1]
    <3> DEFINE job == R!NewJob(Head(recoveryQueue))
    <3>1. job \in Job /\ JobOK(job, data, remote)
      BY ZenonT(30), <2>1 DEF R!NewJob, RecoveryInv, Job, JobOK
    <3>2. jobs' \in Seq(Job) /\ Len(jobs') = Len(jobs) + 1
      BY SMTT(30), <2>3, <3>1 DEF RecoveryInv
    <3>3. \A j \in DOMAIN jobs' : JobOK(jobs'[j], data, remote)
      BY SMTT(30), <2>3, <3>1, <3>2 DEF RecoveryInv
    <3>4. \A j \in DOMAIN jobs' : JobOK(jobs'[j], data', remote')
      BY ZenonT(30), <1>5, <3>3 DEF R!processRecoveryQueue, JobOK
    <3>5. recovering' \in [R!Shards -> 0..Len(jobs')]
      BY SMTT(30), <2>1, <2>3, <3>2 DEF RecoveryInv
    <3> QED BY ZenonT(30), <1>5, <2>1, <3>2, <3>4, <3>5 DEF R!processRecoveryQueue, RecoveryInv
  <2> QED BY ZenonT(30), <1>5, <2>2, <2>3 DEF R!processRecoveryQueue
<1>6. CASE R!Stop
  BY Zenon, <1>6 DEF R!Stop, RecoveryInv, JobOK
<1>7. ASSUME NEW j \in DOMAIN jobs, R!Receive(j)
      PROVE  RecoveryInv'
  <2> DEFINE job == jobs[j]
  <2>1. ASSUME NEW c \in job.todo, jobs' = [jobs EXCEPT ![j].todo = @ \ {c}],
               data' = [data EXCEPT ![job.shard] = @ \cup {c}]
        PROVE  RecoveryInv'
    <3> DEFINE new == [job EXCEPT !.todo = @ \ {c}]
    <3>1. new \in Job /\ new.shard = job.shard /\ jobs' = [jobs EXCEPT ![j] = new]
      BY ZenonT(30), <1>0, <2>1 DEF Job, RecoveryInv
    <3>2. data' \in [R!Shards -> SUBSET Chunks] /\ \A s \in R!Shards : data[s] \subseteq data'[s]
      BY ZenonT(30), <1>0, <2>1 DEF Job, RecoveryInv
    <3>3. JobOK(new, data', remote')
      BY ZenonT(30), <1>0, <1>7, <3>1, <3>2 DEF Job, JobOK, RecoveryInv, R!Receive
    <3> QED BY ZenonT(30), <1>7, <3>1, <3>2, <3>3, JobSteps DEF R!Receive
  <2>2. CASE R!failRecovery(j) /\ UNCHANGED data
    <3> DEFINE new == [job EXCEPT !.status = "failed", !.at = "end"]
    <3>1. new \in Job /\ new.shard = job.shard /\ jobs' = [jobs EXCEPT ![j] = new]
      BY ZenonT(30), <1>0, <2>2 DEF Job, RecoveryInv, R!failRecovery
    <3>2. JobOK(new, data', remote')
      BY ZenonT(30), <1>0, <1>7, <2>2, <3>1 DEF Job, JobOK, RecoveryInv, R!Receive
    <3> QED BY ZenonT(30), <1>7, <2>2, <3>1, <3>2, JobSteps DEF R!Receive, RecoveryInv
  <2> QED BY ZenonT(30), <1>7, <2>1, <2>2 DEF R!Receive
<1>8. ASSUME NEW j \in DOMAIN jobs, R!EndOfStream(j)
      PROVE  RecoveryInv'
  <2> DEFINE new == [jobs[j] EXCEPT !.at = "checksum"]
  <2>1. new \in Job /\ new.shard = jobs[j].shard /\ jobs' = [jobs EXCEPT ![j] = new]
    BY Zenon, <1>0, <1>8 DEF Job, R!EndOfStream
  <2>2. JobOK(new, data', remote')
    BY Zenon, <1>0, <1>8 DEF Job, JobOK, RecoveryInv, R!EndOfStream
  <2> QED BY Zenon, <1>8, <2>1, <2>2, JobSteps DEF R!EndOfStream, RecoveryInv
<1>9. ASSUME NEW j \in DOMAIN jobs, R!LocalChecksum(j)
      PROVE  RecoveryInv'
  <2> DEFINE new == [jobs[j] EXCEPT !.at = "compare", !.sum = data[jobs[j].shard]]
  <2>0. data[jobs[j].shard] \in SUBSET Chunks
    BY ZenonT(30), <1>0 DEF Job, RecoveryInv
  <2>1. new \in Job /\ new.shard = jobs[j].shard
    BY Zenon, <1>0, <2>0 DEF Job
  <2>2. jobs' = [jobs EXCEPT ![j] = new]
    BY Zenon, <1>9 DEF R!LocalChecksum
  <2>3. /\ new.sum = data[new.shard] /\ new.had = jobs[j].had
        /\ new.status = jobs[j].status
    BY Zenon, <1>0 DEF Job
  <2>4. UNCHANGED <<recoveryQueue, recovering, data, remote, repair>>
    BY Zenon, <1>9 DEF R!LocalChecksum
  <2>5. JobOK(new, data', remote')
    BY Zenon, <2>1, <2>3, <2>4 DEF JobOK, RecoveryInv
  <2>6. data' \in [R!Shards -> SUBSET Chunks]
    BY Zenon, <2>4 DEF RecoveryInv
  <2> QED BY ZenonT(30), <2>1, <2>2, <2>4, <2>5, <2>6, JobSteps
<1>10. ASSUME NEW j \in DOMAIN jobs, R!CompareChecksum(j)
       PROVE  RecoveryInv'
  <2> DEFINE job == jobs[j]
  <2>1. CASE /\ job.sum = remote[job.shard]
             /\ jobs' = [jobs EXCEPT ![j].status = "complete", ![j].at = "end"]
    <3> DEFINE new == [job EXCEPT !.status = "complete", !.at = "end"]
    <3>1. new \in Job /\ new.shard = job.shard /\ new.had = job.had /\ new.at = "end"
      BY Zenon, <1>0 DEF Job
    <3>2. jobs' = [jobs EXCEPT ![j] = new]
      BY Zenon, <2>1
    <3>3. job.had \subseteq job.sum /\ job.sum \subseteq data[job.shard]
      BY Zenon, <1>10, <2>1 DEF JobOK, RecoveryInv, R!CompareChecksum
    <3>4. JobOK(new, data', remote')
      BY ZenonT(30), <1>10, <2>1, <3>1, <3>3 DEF JobOK, RecoveryInv, R!CompareChecksum
    <3> QED BY ZenonT(30), <1>10, <3>1, <3>2, <3>4, JobSteps DEF R!CompareChecksum, RecoveryInv
  <2>2. CASE R!failRecovery(j)
    <3> DEFINE new == [job EXCEPT !.status = "failed", !.at = "end"]
    <3>1. new \in Job /\ new.shard = job.shard /\ jobs' = [jobs EXCEPT ![j] = new]
      BY ZenonT(30), <1>0, <2>2 DEF Job, RecoveryInv, R!failRecovery
    <3>2. JobOK(new, data', remote')
      BY ZenonT(30), <1>0, <1>10, <3>1 DEF Job, JobOK, RecoveryInv, R!CompareChecksum
    <3> QED BY ZenonT(30), <1>10, <3>1, <3>2, JobSteps DEF R!CompareChecksum, RecoveryInv
  <2> QED BY ZenonT(30), <1>10, <2>1, <2>2 DEF R!CompareChecksum
<1>11. CASE UNCHANGED R!vars
  BY Zenon, <1>11 DEF R!vars, RecoveryInv, JobOK
<1> QED BY ZenonT(30), <1>1, <1>2, <1>3, <1>4, <1>5, <1>6, <1>7, <1>8, <1>9, <1>10, <1>11
        DEF R!Next, R!ExecuteRecovery

\* A complete recovery left every chunk that the source had when it started, for
\* any shards and chunks, any number of concurrent recoveries and repairs, and
\* wherever streams break.
THEOREM RecoveriesAreComplete ==
  ASSUME R!ConstantsOK
  PROVE  R!Spec => [](R!TypeOK /\ R!CompleteHasAll)
<1>1. R!Init => RecoveryInv
  BY Zenon, RecoveryInit
<1>2. RecoveryInv /\ [R!Next]_R!vars => RecoveryInv'
  BY Zenon, RecoveryStep
<1>3. RecoveryInv => R!TypeOK /\ R!CompleteHasAll
  <2> SUFFICES ASSUME RecoveryInv PROVE R!TypeOK /\ R!CompleteHasAll
    BY ZenonT(30)
  <2>1. \A j \in DOMAIN jobs : jobs[j] \in Job
    BY DEF RecoveryInv
  <2> QED BY Zenon, <2>1 DEF RecoveryInv, R!TypeOK, R!CompleteHasAll, Job, JobOK
<1> QED BY <1>1, <1>2, <1>3, PTL DEF R!Spec

-----------------------------------------------------------------------------
(* The webhook dispatcher.                                                  *)

CONSTANTS Collection, Hooks, Collections, Capacity, maxConcurrentWebhooks

VARIABLES eventCh, current, posting, posted, kept, dropped, due

D == INSTANCE Dispatcher

DispatcherInv ==
  /\ subscriptions \in [Collections -> Seq(Hooks)]
  /\ eventCh \in Seq(Events) /\ Len(eventCh) <= Capacity
  /\ current \in Seq(Events \X Hooks)
  /\ posting \subseteq Events \X Hooks /\ posted \subseteq Events \X Hooks
  /\ IsFiniteSet(posting) /\ Cardinality(posting) <= maxConcurrentWebhooks
  /\ kept \cap dropped = {}

LEMMA SameCardinality == \A S : D!Cardinality(S) = Cardinality(S)
  BY Zenon DEF D!Cardinality, Cardinality

LEMMA DispatcherStep ==
  ASSUME D!ConstantsOK, DispatcherInv, [D!Next]_D!vars
  PROVE  DispatcherInv'
<1> USE DEF D!ConstantsOK, DispatcherInv
<1>1. ASSUME NEW k \in Collections, NEW hook \in Hooks, D!Subscribe(k, hook)
      PROVE  DispatcherInv'
  <2>1. Append(subscriptions[k], hook) \in Seq(Hooks)
    OBVIOUS
  <2> QED BY SMTT(30), <1>1, <2>1 DEF D!Subscribe
<1>2. ASSUME NEW e \in Events, D!Publish(e)
      PROVE  DispatcherInv'
  <2>1. eventCh' \in Seq(Events) /\ Len(eventCh') <= Capacity
    <3>1. Append(eventCh, e) \in Seq(Events) /\ Len(Append(eventCh, e)) = Len(eventCh) + 1
      BY SMTT(30)
    <3>2. Len(eventCh) \in Nat
      OBVIOUS
    <3>3. eventCh' = eventCh \/ (eventCh' = Append(eventCh, e) /\ Len(eventCh) < Capacity)
      BY Zenon, <1>2 DEF D!Publish
    <3>4. CASE eventCh' = eventCh
      BY Zenon, <3>4
    <3>5. CASE eventCh' = Append(eventCh, e) /\ Len(eventCh) < Capacity
      <4>1. Len(eventCh) + 1 <= Capacity
        BY SMTT(30), <3>2, <3>5
      <4> QED BY ZenonT(30), <3>1, <3>5, <4>1
    <3> QED BY ZenonT(30), <3>3, <3>4, <3>5
  <2>2. kept' \cap dropped' = {}
    BY ZenonT(30), <1>2 DEF D!Publish
  <2> QED BY ZenonT(30), <1>2, <2>1, <2>2 DEF D!Publish
<1>3. CASE D!Take
  <2> DEFINE e == Head(eventCh)
             hooks == subscriptions[Collection[e]]
  <2>1. e \in Events /\ eventCh' \in Seq(Events) /\ Len(eventCh') <= Capacity
    BY SMTT(30), <1>3 DEF D!Take
  <2>2. hooks \in Seq(Hooks)
    BY ZenonT(30), <2>1
  <2>3. current' = [i \in 1..Len(hooks) |-> <<e, hooks[i]>>]
    BY SMTT(30), <1>3, <2>2 DEF D!Take
  <2>4. current' \in Seq(Events \X Hooks)
    <3>1. \A i \in 1..Len(hooks) : <<e, hooks[i]>> \in Events \X Hooks
      BY SMTT(30), <2>1, <2>2
    <3>2. Len(hooks) \in Nat
      BY <2>2
    <3> HIDE DEF e, hooks
    <3> QED BY SMTT(30), <2>3, <3>1, <3>2
  <2> QED BY ZenonT(30), <1>3, <2>1, <2>4 DEF D!Take
<1>4. CASE D!Spawn
  <2>1. Head(current) \in Events \X Hooks /\ current' \in Seq(Events \X Hooks)
    BY SMTT(30), <1>4 DEF D!Spawn
  <2>2. posting' = posting \cup {Head(current)} /\ Cardinality(posting) < maxConcurrentWebhooks
    BY ZenonT(30), <1>4, SameCardinality DEF D!Spawn
  <2>3. /\ IsFiniteSet(posting \cup {Head(current)}) /\ Cardinality(posting) \in Nat
        /\ Cardinality(posting \cup {Head(current)})
             \in {Cardinality(posting), Cardinality(posting) + 1}
    BY ZenonT(30), FS_AddElement, FS_CardinalityType
  <2>4. IsFiniteSet(posting') /\ Cardinality(posting') <= maxConcurrentWebhooks
    BY SMTT(30), <2>2, <2>3
  <2> QED BY ZenonT(30), <1>4, <2>1, <2>2, <2>4 DEF D!Spawn
<1>5. ASSUME NEW p \in Events \X Hooks, D!Post(p)
      PROVE  DispatcherInv'
  <2>1. posting' = posting \ {p} /\ p \in posting
    BY Zenon, <1>5 DEF D!Post
  <2>2. /\ IsFiniteSet(posting \ {p}) /\ Cardinality(posting) \in Nat
        /\ p \in posting => Cardinality(posting \ {p}) = Cardinality(posting) - 1
    BY ZenonT(30), FS_RemoveElement, FS_CardinalityType
  <2>3. IsFiniteSet(posting') /\ Cardinality(posting') <= maxConcurrentWebhooks
    BY SMTT(30), <2>1, <2>2
  <2> QED BY ZenonT(30), <1>5, <2>1, <2>3 DEF D!Post
<1>6. CASE UNCHANGED D!vars
  BY ZenonT(30), <1>6 DEF D!vars
<1> QED BY ZenonT(30), <1>1, <1>2, <1>3, <1>4, <1>5, <1>6 DEF D!Next

\* eventCh and the webhooks under way keep their limits, however slow the hooks
\* are: the worker waits for a slot and Publish drops what does not fit.
THEOREM DispatcherBounded ==
  ASSUME D!ConstantsOK
  PROVE  D!Spec => []D!TypeOK
<1>1. D!GetDispatcher => DispatcherInv
  BY SMTT(30), FS_EmptySet DEF D!GetDispatcher, D!ConstantsOK, DispatcherInv
<1>2. DispatcherInv /\ [D!Next]_D!vars => DispatcherInv'
  BY Zenon, DispatcherStep
<1>3. DispatcherInv => D!TypeOK
  <2> SUFFICES ASSUME DispatcherInv PROVE D!TypeOK
    BY Zenon
  <2>1. posting \cup posted \subseteq Events \X Hooks
    BY Zenon DEF DispatcherInv
  <2> QED BY ZenonT(30), <2>1, SameCardinality DEF DispatcherInv, D!TypeOK
<1> QED BY SMTT(30), <1>1, <1>2, <1>3, PTL DEF D!Spec
=============================================================================
