------------------------------ MODULE Ingestion ------------------------------
(* The ingestion engine of pkg/ingestion/ingestion.go: callers of Ingest fill *)
(* a batch, whoever fills it up, the flush timer and Stop move it to a        *)
(* bounded queue, and workers hand the batches to onBatch.                    *)
(*                                                                            *)
(* Every point takes the same memory.  A caller that waits may give up at any *)
(* time, since its context may be cancelled.                                  *)
EXTENDS Integers, Sequences, FiniteSets

CONSTANTS Points, Callers, Workers,
          Timer, Stopper,        \* the flush timer and the caller of Stop
          BatchSize, MaxPendingBatches, Threshold,
          PointMemory, MaxMemoryBytes

\* NewEngine and Start take the limits as they are configured; Start starts at
\* least one worker by default (NumCPU).
ConstantsOK ==
  /\ IsFiniteSet(Callers) /\ Callers # {} /\ Workers # {}
  /\ Callers \cap Workers = {} /\ Timer # Stopper
  /\ {Timer, Stopper} \cap (Callers \cup Workers) = {}
  /\ PointMemory \in Nat /\ MaxMemoryBytes \in Nat /\ MaxPendingBatches \in Nat

VARIABLES pc,             \* where each caller, worker, the timer and the stopper is
          hand,           \* the point, or the batch, that it has in hand
          currentBatch, currentMemory,
          batchQueue, closed,
          running, stopCh, cancelled,
          accepted,       \* points in a batch: Ingest returns no error for them
          before,         \* the ones accepted before Stop was called
          handed,         \* points that onBatch was called with
          panicked        \* a send on the closed queue

vars == <<pc, hand, currentBatch, currentMemory, batchQueue, closed, running, stopCh,
          cancelled, accepted, before, handed, panicked>>

Flushers == Callers \cup {Timer, Stopper}
Threads == Flushers \cup Workers
Move(t, to) == pc' = [pc EXCEPT ![t] = to]
\* The points are alike, so the next one may be any that was not ingested yet.
Fresh == Points \ (accepted \cup (UNION {hand[t] : t \in Threads}) \cup currentBatch
                     \cup (UNION {batchQueue[i] : i \in DOMAIN batchQueue}) \cup handed)

Init == /\ pc = [t \in Threads |-> "idle"]
        /\ hand = [t \in Threads |-> {}]
        /\ currentBatch = {} /\ currentMemory = 0
        /\ batchQueue = <<>> /\ closed = FALSE
        /\ running = TRUE /\ stopCh = FALSE /\ cancelled = FALSE
        /\ accepted = {} /\ before = {} /\ handed = {} /\ panicked = FALSE
------------------------------------------------------------------------------
(* Ingest.                                                                    *)

Ingest(c) ==
  /\ pc[c] = "idle" /\ running
  /\ Fresh # {}
  /\ hand' = [hand EXCEPT ![c] = {CHOOSE x \in Fresh : TRUE}]
  /\ Move(c, "pressing")
  /\ UNCHANGED <<currentBatch, currentMemory, batchQueue, closed, running, stopCh, cancelled,
                 accepted, before, handed, panicked>>

checkBackpressure(c) ==
  /\ pc[c] = "pressing"
  /\ Move(c, "reserving")
  /\ UNCHANGED <<hand, currentBatch, currentMemory, batchQueue, closed, running, stopCh,
                 cancelled, accepted, before, handed, panicked>>

\* A caller that waits for the queue or for memory returns an error.
GiveUp(c) ==
  /\ \/ pc[c] = "pressing" /\ Len(batchQueue) >= Threshold
     \/ pc[c] = "reserving" /\ currentMemory + PointMemory > MaxMemoryBytes
  /\ Move(c, "idle")
  /\ hand' = [hand EXCEPT ![c] = {}]
  /\ UNCHANGED <<currentBatch, currentMemory, batchQueue, closed, running, stopCh, cancelled,
                 accepted, before, handed, panicked>>

\* Mutant: the memory of the point itself is not counted.
ReserveLate(c) ==
  /\ pc[c] = "reserving" /\ currentMemory <= MaxMemoryBytes
  /\ Move(c, "adding")
  /\ UNCHANGED <<hand, currentBatch, currentMemory, batchQueue, closed, running, stopCh,
                 cancelled, accepted, before, handed, panicked>>

\* The load of currentMemory that lets a caller through.
Reserve(c) ==
  /\ pc[c] = "reserving" /\ currentMemory + PointMemory <= MaxMemoryBytes
  /\ Move(c, "adding")
  /\ UNCHANGED <<hand, currentBatch, currentMemory, batchQueue, closed, running, stopCh,
                 cancelled, accepted, before, handed, panicked>>

Add(c) ==
  /\ pc[c] = "adding"
  /\ Move(c, IF Cardinality(currentBatch) + 1 >= BatchSize THEN "flushing" ELSE "idle")
  /\ accepted' = accepted \cup hand[c]
  /\ currentBatch' = currentBatch \cup hand[c]
  /\ hand' = [hand EXCEPT ![c] = {}]
  /\ currentMemory' = currentMemory + PointMemory
  /\ UNCHANGED <<batchQueue, closed, running, stopCh, cancelled, before, handed, panicked>>
------------------------------------------------------------------------------
(* flush and processBatch.                                                    *)

\* flush is over: a caller's Ingest returns, and Stop closes the queue.
Flushed(t) == Move(t, IF t = Stopper THEN "closing" ELSE "idle")

TakeBatch(t) ==
  /\ pc[t] = "flushing"
  /\ IF currentBatch = {} THEN Flushed(t) ELSE Move(t, "sending")
  /\ hand' = [hand EXCEPT ![t] = currentBatch]
  /\ currentBatch' = {}
  /\ UNCHANGED <<currentMemory, batchQueue, closed, running, stopCh, cancelled, accepted,
                 before, handed, panicked>>

\* Mutant: a batch that does not fit into the queue is dropped.
SendOrDrop(t) ==
  /\ pc[t] = "sending"
  /\ Flushed(t)
  /\ batchQueue' = IF ~closed /\ Len(batchQueue) < MaxPendingBatches
                   THEN Append(batchQueue, hand[t]) ELSE batchQueue
  /\ hand' = [hand EXCEPT ![t] = {}]
  /\ panicked' = closed
  /\ UNCHANGED <<currentBatch, currentMemory, closed, running, stopCh, cancelled, accepted,
                 before, handed>>

Send(t) ==
  /\ pc[t] = "sending"
  /\ IF closed \/ Len(batchQueue) < MaxPendingBatches
     THEN /\ Flushed(t)
          /\ batchQueue' = IF closed THEN batchQueue ELSE Append(batchQueue, hand[t])
          /\ hand' = [hand EXCEPT ![t] = {}]
     ELSE Move(t, "processing") /\ UNCHANGED <<batchQueue, hand>>
  /\ panicked' = closed
  /\ UNCHANGED <<currentBatch, currentMemory, closed, running, stopCh, cancelled, accepted,
                 before, handed>>

\* onBatch returns, with or without an error.
processBatch(t) ==
  /\ pc[t] = "processing"
  /\ IF t \in Workers THEN Move(t, "idle") ELSE Flushed(t)
  /\ handed' = handed \cup hand[t]
  /\ currentMemory' = currentMemory - PointMemory * Cardinality(hand[t])
  /\ hand' = [hand EXCEPT ![t] = {}]
  /\ UNCHANGED <<currentBatch, batchQueue, closed, running, stopCh, cancelled, accepted,
                 before, panicked>>
------------------------------------------------------------------------------
(* The goroutines that Start starts, and Stop.                                *)

Receive(w) ==
  /\ pc[w] = "idle" /\ batchQueue # <<>>
  /\ hand' = [hand EXCEPT ![w] = Head(batchQueue)]
  /\ batchQueue' = Tail(batchQueue)
  /\ Move(w, "processing")
  /\ UNCHANGED <<currentBatch, currentMemory, closed, running, stopCh, cancelled, accepted,
                 before, handed, panicked>>

Return(w) ==
  /\ pc[w] = "idle"
  /\ cancelled \/ (closed /\ batchQueue = <<>>)
  /\ Move(w, "returned")
  /\ UNCHANGED <<hand, currentBatch, currentMemory, batchQueue, closed, running, stopCh,
                 cancelled, accepted, before, handed, panicked>>

flushTimer ==
  /\ pc[Timer] = "idle"
  /\ \/ Move(Timer, "flushing") /\ currentBatch # {}
     \/ Move(Timer, "returned") /\ (stopCh \/ cancelled)
  /\ UNCHANGED <<hand, currentBatch, currentMemory, batchQueue, closed, running, stopCh,
                 cancelled, accepted, before, handed, panicked>>

Cancel ==
  /\ ~cancelled /\ running
  /\ cancelled' = TRUE
  /\ UNCHANGED <<pc, hand, currentBatch, currentMemory, batchQueue, closed, running, stopCh,
                 accepted, before, handed, panicked>>

Stop ==
  /\ running
  /\ running' = FALSE /\ stopCh' = TRUE
  /\ before' = accepted
  /\ Move(Stopper, "flushing")
  /\ UNCHANGED <<hand, currentBatch, currentMemory, batchQueue, closed, cancelled, accepted,
                 handed, panicked>>

\* Mutant: the queue stays open.
LeaveQueueOpen ==
  /\ pc[Stopper] = "closing"
  /\ Move(Stopper, "waiting")
  /\ UNCHANGED <<hand, currentBatch, currentMemory, batchQueue, closed, running, stopCh,
                 cancelled, accepted, before, handed, panicked>>

CloseQueue ==
  /\ pc[Stopper] = "closing"
  /\ closed' = TRUE
  /\ Move(Stopper, "waiting")
  /\ UNCHANGED <<hand, currentBatch, currentMemory, batchQueue, running, stopCh, cancelled,
                 accepted, before, handed, panicked>>

Stopped ==
  /\ pc[Stopper] = "waiting"
  /\ \A t \in Workers \cup {Timer} : pc[t] = "returned"
  /\ Move(Stopper, "stopped")
  /\ UNCHANGED <<hand, currentBatch, currentMemory, batchQueue, closed, running, stopCh,
                 cancelled, accepted, before, handed, panicked>>

Next ==
  /\ ~panicked
  /\ \/ \E c \in Callers : \/ Ingest(c) \/ checkBackpressure(c) \/ GiveUp(c) \/ Reserve(c)
                           \/ Add(c)
     \/ \E t \in Flushers : TakeBatch(t) \/ Send(t)
     \/ \E t \in Threads : processBatch(t)
     \/ \E w \in Workers : Receive(w) \/ Return(w)
     \/ flushTimer \/ Cancel \/ Stop \/ CloseQueue \/ Stopped

\* Goroutines that can go on do so, onBatch returns and the ticker ticks.
Fairness ==
  /\ \A t \in Flushers : WF_vars(~panicked /\ (TakeBatch(t) \/ Send(t)))
  /\ \A t \in Threads : WF_vars(~panicked /\ processBatch(t))
  /\ \A w \in Workers : WF_vars(~panicked /\ (Receive(w) \/ Return(w)))
  /\ WF_vars(~panicked /\ flushTimer)
  /\ WF_vars(~panicked /\ (CloseQueue \/ Stopped))

Spec == Init /\ [][Next]_vars /\ Fairness
------------------------------------------------------------------------------
TypeOK == /\ pc \in [Threads -> {"idle", "pressing", "reserving", "adding", "flushing",
                                 "sending", "processing", "returned", "closing",
                                 "waiting", "stopped"}]
          /\ hand \in [Threads -> SUBSET Points]
          /\ currentBatch \subseteq Points
          /\ Len(batchQueue) <= MaxPendingBatches
          /\ handed \subseteq Points

\* The buffers exceed MaxMemoryBytes by at most one point for each further
\* caller that read currentMemory before the others added to it, and the
\* counter never falls below what is still buffered.
MemoryBounded ==
  /\ currentMemory <= MaxMemoryBytes + (Cardinality(Callers) - 1) * PointMemory
  /\ currentMemory >= PointMemory * Cardinality(currentBatch)

\* Stop loses no point that was accepted before it was called: when it returns,
\* onBatch has had the point or is about to, in a flush that a caller of Ingest
\* still processes itself.  (Such a flush may also find the queue closed, and
\* panic.)
StopLosesNothing ==
  pc[Stopper] = "stopped" /\ ~cancelled /\ ~panicked =>
    before \subseteq handed \cup (UNION {hand[c] : c \in Callers})

\* Stop returns, unless the process panics: nobody waits for a queue that is
\* never drained or never closed.
StopReturns == ~running ~> pc[Stopper] = "stopped" \/ panicked
==============================================================================
