----------------------------- MODULE WalReplay -----------------------------
(***************************************************************************)
(* WAL.Replay of pkg/storage/wal/wal.go over the log that module Wal       *)
(* builds: which records a restart applies, and in which order.            *)
(***************************************************************************)
EXTENDS Wal, SequencesExt

\* replaySegment over w.segments and then the current segment.
AllRecords ==
  [i \in 1..Cardinality(log) |->
     CHOOSE e \in log : Cardinality({f \in log : Precedes(f, e)}) = i - 1]

ReplayStart == [inBatch |-> FALSE, expected |-> 0, batchBuf |-> <<>>, applied |-> <<>>]

\* Mutant: the records of a batch are applied as they are met.
ReplayStepUnbuffered(st, r) ==
  IF r.kind = "rec" THEN [st EXCEPT !.applied = Append(@, r.id)] ELSE st

\* Mutant: the end marker does not leave batch mode.
ReplayStepStaysInBatch(st, r) ==
  CASE r.kind = "begin" -> [st EXCEPT !.inBatch = TRUE, !.expected = r.n, !.batchBuf = <<>>]
    [] r.kind = "end" -> [st EXCEPT !.applied = @ \o st.batchBuf, !.batchBuf = <<>>]
    [] OTHER -> IF st.inBatch THEN [st EXCEPT !.batchBuf = Append(@, r.id)]
                              ELSE [st EXCEPT !.applied = Append(@, r.id)]

\* One turn of the loop of Replay.  A record between markers waits in batchBuf
\* until the end marker finds as many as the begin marker announced.
ReplayStep(st, r) ==
  CASE r.kind = "begin" -> [st EXCEPT !.inBatch = TRUE, !.expected = r.n, !.batchBuf = <<>>]
    [] r.kind = "end" ->
         [st EXCEPT
            !.applied = IF st.inBatch /\ Len(st.batchBuf) = st.expected
                          THEN @ \o st.batchBuf ELSE @,
            !.inBatch = FALSE, !.batchBuf = <<>>]
    [] OTHER -> IF st.inBatch THEN [st EXCEPT !.batchBuf = Append(@, r.id)]
                              ELSE [st EXCEPT !.applied = Append(@, r.id)]

\* The identities Replay hands to its callback, in order.
Applied == FoldLeft(ReplayStep, ReplayStart, AllRecords).applied

\* decodeRecord returns io.ErrUnexpectedEOF inside a record, which
\* replaySegment does not take for the end of the file.
ReplayFails == torn # {}

---------------------------------------------------------------------------
Markers(kind) == {e \in log : e.kind = kind}

\* No batch on disk was cut short, by a crash or by an error.
BatchesClosed == Cardinality(Markers("begin")) = Cardinality(Markers("end"))

\* Replay applies a batch entirely or not at all, wherever a crash or a failed
\* rotation stopped WriteBatch, as long as no segment was truncated.
BatchAtomic ==
  dropped = {} => LET applied == ToSet(Applied)
                  IN  \A b \in batches : b \cap applied \in {{}, b}

\* When no batch was cut short and no segment truncated, Replay applies every
\* record on disk exactly once, in the order of the writes; with sync_on_write
\* every acknowledged record is among them.
AllApplied ==
  (dropped = {} /\ BatchesClosed) =>
    /\ Applied = LET recs == SelectSeq(AllRecords, LAMBDA r : r.kind = "rec")
                 IN  [i \in 1..Len(recs) |-> recs[i].id]
    /\ syncOnWrite => acked \subseteq ToSet(Applied)

\* An acknowledged record is applied by the next Replay: only the incomplete
\* batch itself is skipped.
AckedApplied ==
  (up /\ pc = "idle" /\ syncOnWrite /\ dropped = {}) => acked \subseteq ToSet(Applied)

\* A log that was opened after a crash can be replayed.
ReplaySucceeds == up => ~ReplayFails
=============================================================================
