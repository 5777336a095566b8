-------------------------------- MODULE Wal --------------------------------
(***************************************************************************)
(* The write-ahead log of pkg/storage/wal/wal.go: a sequence of segment    *)
(* files, a buffered writer on the last of them, and the sequence numbers  *)
(* that tie a restart to what earlier runs of the process left on disk.    *)
(*                                                                         *)
(* The log is the set of its entries, each at a place <<seg, pos>>: the    *)
(* pos-th record of segment seg.  A segment name is a creation time, so    *)
(* loadSegments, which sorts names, finds segments in the order of seg.    *)
(* A record takes one unit of segment space; its payload is its identity   *)
(* id, which no code reads: the properties follow records by it.           *)
(*                                                                         *)
(* The mutex w.mu is held through a whole Write or WriteBatch, so the      *)
(* steps of one operation interleave only with a crash.  They are separate *)
(* actions because a crash between two of them is what the log is for.     *)
(***************************************************************************)
EXTENDS Naturals, FiniteSets

CONSTANTS
  SegmentSize,  \* records that fit a segment (Config.SegmentSize)
  MaxBatch,     \* bound: records in one WriteBatch
  MaxRecords,   \* bound: records handed to the log over its life
  MaxRestarts   \* bound: times the log is opened again

ASSUME SegmentSizeAssumption == SegmentSize \in Nat \ {0}
ASSUME BoundsAssumption ==
  MaxBatch \in Nat /\ MaxRecords \in Nat /\ MaxRestarts \in Nat

VARIABLES
  log,          \* the entries of all segment files, the buffered tail included
  flushed,      \* the entries that have left the bufio.Writer
  durable,      \* the entries that an fsync has covered
  torn,         \* segments whose file ends in a part of a record
  seg,          \* the current segment
  len,          \* currentSegment.size
  info,         \* per segment, segmentInfo.lastSeqNum as the process knows it
  loaded,       \* segments that loadSegments scanned when the log was opened
  lastSeqNum,   \* w.lastSeqNum
  syncOnWrite,  \* w.syncOnWrite, set by the configuration
  up,           \* the log is open
  pc,           \* what the holder of w.mu is doing
  left,         \* records the running WriteBatch has still to append
  size,         \* records of the running operation
  issued,       \* history: identities given out so far
  acked,        \* history: identities whose write returned nil
  batches,      \* history: the identities of each WriteBatch, as sets
  dropped,      \* history: identities in files that Truncate removed
  powerLost,    \* history: the machine, not only the process, has failed
  restarts      \* history: number of times the log was opened again

disk == <<log, flushed, durable, torn>>
segment == <<seg, len, info, lastSeqNum>>
operation == <<pc, left, size>>
history == <<issued, acked, batches, dropped, powerLost, restarts>>
vars == <<disk, segment, loaded, syncOnWrite, up, operation, history>>

Kinds == {"rec", "begin", "end"}

\* wal.Record and its place.  n is the batch size a marker carries; the
\* identity of a marker is 0.
Entry == [seg: Nat, pos: Nat, seq: Nat, kind: Kinds, n: Nat, id: Nat]

Segments == 1..seg

InSegment(s) == {e \in log : e.seg = s}

\* Mutant: a loaded segment keeps the zero value of lastSeqNum.
ScanSegmentNothing(s) == 0

\* scanSegmentLastSeqNum: the largest number in a file, a cut-off record at
\* its end ignored.
ScanSegmentLastSeqNum(s) ==
  CHOOSE m \in {0} \cup {e.seq : e \in InSegment(s)} :
    \A e \in InSegment(s) : e.seq <= m

\* Mutant: loadSegments leaves w.lastSeqNum where a new WAL starts it.
StartsFromZero(m) == m = 0

\* loadSegments carries the largest number of all files over to w.lastSeqNum.
IsLoadedLastSeqNum(m) == \A e \in log : e.seq <= m

---------------------------------------------------------------------------
Init ==
  /\ log = {} /\ flushed = {} /\ durable = {} /\ torn = {}
  /\ seg = 1 /\ len = 0
  /\ info = [s \in {1} |-> 0]
  /\ loaded = {}
  /\ lastSeqNum = 0
  /\ syncOnWrite \in BOOLEAN
  /\ up = TRUE
  /\ pc = "idle" /\ left = 0 /\ size = 0
  /\ issued = 0 /\ acked = {} /\ batches = {} /\ dropped = {}
  /\ powerLost = FALSE /\ restarts = 0

\* Mutant: the test leaves out the record about to be written.
NeedsRotationLate == len > SegmentSize

\* The test before every append: currentSegment.size + len(data) > segmentSize.
NeedsRotation == len + 1 > SegmentSize

\* Put an entry at a place of the log.
Place(s, p, kind, n, id) ==
  log' = log \cup {[seg |-> s, pos |-> p, seq |-> lastSeqNum + 1,
                    kind |-> kind, n |-> n, id |-> id]}

\* Mutant: rotate closes the old segment without its Sync.
RotateUnsynced ==
  /\ seg' = seg + 1
  /\ flushed' = log /\ durable' = durable
  /\ info' = [s \in 1..(seg + 1) |-> IF s < seg THEN info[s] ELSE 0]

\* rotate: the old segment is flushed, synced and closed, its segmentInfo is
\* appended without a lastSeqNum, and a new segment is opened.
Rotate ==
  /\ seg' = seg + 1
  /\ flushed' = log /\ durable' = durable \cup InSegment(seg)
  /\ info' = [s \in 1..(seg + 1) |-> IF s < seg THEN info[s] ELSE 0]

\* The number is taken first, then the segment is rotated if need be, then
\* the record goes to the buffer.
AppendRecord(kind, n, id) ==
  /\ lastSeqNum' = lastSeqNum + 1
  /\ \/ NeedsRotation /\ Rotate /\ len' = 1 /\ Place(seg + 1, 1, kind, n, id)
     \/ /\ ~NeedsRotation
        /\ len' = len + 1
        /\ Place(seg, len + 1, kind, n, id)
        /\ UNCHANGED <<flushed, durable, seg, info>>
  /\ UNCHANGED torn

Idle == pc' = "idle" /\ left' = 0 /\ size' = 0

\* rotate returned an error at its Sync: the number is spent, what the
\* operation appended before stays in the segment, and the caller sees the
\* error.
RotateFails ==
  /\ NeedsRotation
  /\ lastSeqNum' = lastSeqNum + 1
  /\ flushed' = log
  /\ Idle
  /\ UNCHANGED <<log, durable, torn, seg, len, info>>

---------------------------------------------------------------------------
\* Write, up to the buffered write of the record.
Write ==
  /\ up /\ pc = "idle"
  /\ issued < MaxRecords
  /\ issued' = issued + 1
  /\ \/ /\ AppendRecord("rec", 0, issued + 1)
        /\ pc' = "write" /\ left' = 0 /\ size' = 1
     \/ RotateFails
  /\ UNCHANGED <<loaded, syncOnWrite, up, acked, batches, dropped, powerLost, restarts>>

\* WriteBatch, the RecordTypeBatchBegin marker that carries the batch size.
WriteBatchBegin(n) ==
  /\ up /\ pc = "idle"
  /\ issued + n <= MaxRecords
  /\ issued' = issued + n
  /\ batches' = batches \cup {(issued + 1)..(issued + n)}
  /\ \/ /\ AppendRecord("begin", n, 0)
        /\ pc' = "batch" /\ left' = n /\ size' = n
     \/ RotateFails
  /\ UNCHANGED <<loaded, syncOnWrite, up, acked, dropped, powerLost, restarts>>

\* WriteBatch, one turn of the loop over the records.
WriteBatchRecord ==
  /\ up /\ pc = "batch" /\ left > 0
  /\ \/ /\ AppendRecord("rec", 0, issued - left + 1)
        /\ pc' = "batch" /\ left' = left - 1 /\ size' = size
     \/ RotateFails
  /\ UNCHANGED <<loaded, syncOnWrite, up, history>>

\* WriteBatch, the RecordTypeBatchEnd marker.
WriteBatchEnd ==
  /\ up /\ pc = "batch" /\ left = 0
  /\ \/ /\ AppendRecord("end", size, 0)
        /\ pc' = "flush" /\ left' = 0 /\ size' = size
     \/ RotateFails
  /\ UNCHANGED <<loaded, syncOnWrite, up, history>>

\* Mutant: WriteBatch flushes only when it is going to sync.
FlushedOnlyToSync == IF syncOnWrite THEN log ELSE flushed

\* A batch is always flushed at its end, a single record only under syncOnWrite.
FlushedAtReturn == IF pc = "flush" \/ syncOnWrite THEN log ELSE flushed

\* The end of Write and of WriteBatch.  The fsync is made under syncOnWrite and
\* its failure is returned to the caller.
Return ==
  /\ up /\ pc \in {"write", "flush"}
  /\ flushed' = FlushedAtReturn
  /\ \/ /\ durable' = IF syncOnWrite THEN durable \cup InSegment(seg) ELSE durable
        /\ acked' = acked \cup ((issued - size + 1)..issued)
     \/ /\ syncOnWrite
        /\ UNCHANGED <<durable, acked>>
  /\ Idle
  /\ UNCHANGED <<log, torn, segment, loaded, syncOnWrite, up,
                 issued, batches, dropped, powerLost, restarts>>

\* Sync, and Close, which does the same and then closes the file.
Flush ==
  /\ flushed' = log /\ durable' = durable \cup InSegment(seg)
  /\ UNCHANGED <<log, torn, segment, loaded, syncOnWrite, operation, history>>

Sync == up /\ pc = "idle" /\ Flush /\ UNCHANGED up

Close == up /\ pc = "idle" /\ Flush /\ up' = FALSE

\* Truncate removes the files of w.segments, which holds every segment but
\* the open one, whose segmentInfo.lastSeqNum is below the argument.
Truncate(before) ==
  LET gone == {s \in 1..(seg - 1) : info[s] < before}
  IN  /\ up /\ pc = "idle"
      /\ log' = {e \in log : e.seg \notin gone}
      /\ flushed' = {e \in flushed : e.seg \notin gone}
      /\ durable' = {e \in durable : e.seg \notin gone}
      /\ torn' = torn \ gone
      /\ dropped' = dropped \cup {e.id : e \in {f \in log : f.seg \in gone}}
      /\ UNCHANGED <<segment, loaded, syncOnWrite, up, operation,
                     issued, acked, batches, powerLost, restarts>>

---------------------------------------------------------------------------
\* Every crash leaves a process that is down and remembers nothing.  What it
\* finds on disk later is what the operating system held.
Down ==
  /\ up' = FALSE
  /\ Idle
  /\ lastSeqNum' = 0
  /\ info' = [s \in Segments |-> 0]
  /\ loaded' = {}
  /\ flushed' = log'
  /\ UNCHANGED <<seg, len, syncOnWrite, issued, acked, batches, dropped, restarts>>

\* The process dies.  What left the bufio.Writer is with the operating system;
\* of the rest bufio may have written any part, possibly half a record.
ProcessCrash(k) ==
  /\ up
  /\ log' = {e \in log : e.seg = seg => e.pos <= k}
  /\ flushed \subseteq log'
  /\ \/ torn' = torn
     \/ log' # log /\ torn' = torn \cup {seg}
  /\ durable' = durable
  /\ powerLost' = powerLost
  /\ Down

\* Segments with entries no fsync has covered, those of an earlier run that
\* crashed included.
Unsynced == {e.seg : e \in log \ durable}

\* The machine fails.  Each file keeps what an fsync covered and any part of
\* the rest, possibly half a record.
PowerLoss(keep) ==
  /\ up \/ restarts < MaxRestarts
  /\ log' = {e \in log : e.seg \in Unsynced => e.pos <= keep[e.seg]}
  /\ durable \subseteq log'
  /\ durable' = log'
  /\ torn' \in SUBSET (torn \cup {e.seg : e \in log \ log'})
  /\ powerLost' = TRUE
  /\ Down

\* Open: loadSegments scans every file, so that lastSeqNum is the largest
\* number on disk, and openCurrentSegment starts a new segment.
Open(m) ==
  /\ ~up /\ restarts < MaxRestarts
  /\ restarts' = restarts + 1
  /\ IsLoadedLastSeqNum(m) /\ lastSeqNum' = m
  /\ info' = [s \in 1..(seg + 1) |-> IF s <= seg THEN ScanSegmentLastSeqNum(s) ELSE 0]
  /\ loaded' = Segments
  /\ seg' = seg + 1 /\ len' = 0
  /\ up' = TRUE
  /\ UNCHANGED <<disk, syncOnWrite, operation, issued, acked, batches, dropped, powerLost>>

Next ==
  \/ Write
  \/ \E n \in 1..MaxBatch : WriteBatchBegin(n)
  \/ WriteBatchRecord
  \/ WriteBatchEnd
  \/ Return
  \/ Sync
  \/ Close
  \/ \E before \in 1..(lastSeqNum + 1) : Truncate(before)
  \/ \E k \in 0..len : ProcessCrash(k)
  \/ \E keep \in [Unsynced -> 0..SegmentSize] : PowerLoss(keep)
  \/ \E m \in {0} \cup {e.seq : e \in log} : Open(m)

Spec == Init /\ [][Next]_vars

---------------------------------------------------------------------------
LogOK ==
  /\ log \subseteq Entry /\ flushed \subseteq log /\ durable \subseteq flushed
  /\ seg \in Nat \ {0} /\ len \in 0..SegmentSize
  /\ \A e \in log : e.pos \in 1..SegmentSize /\ e.seg \in Segments
  /\ up => \A e \in InSegment(seg) : e.pos <= len
  /\ \A e, f \in log : (e.seg = f.seg /\ e.pos = f.pos) => e = f
  /\ torn \subseteq Segments
  /\ info \in [Segments -> Nat]
  /\ lastSeqNum \in Nat

MemoryOK ==
  /\ loaded \subseteq Segments
  /\ syncOnWrite \in BOOLEAN /\ up \in BOOLEAN /\ powerLost \in BOOLEAN
  /\ pc \in {"idle", "write", "batch", "flush"}
  /\ left \in 0..size /\ size \in 0..issued
  /\ issued \in Nat /\ restarts \in Nat
  /\ acked \subseteq Nat /\ dropped \subseteq Nat
  /\ batches \subseteq SUBSET Nat

\* Every variable keeps its type, and no segment outgrows the size that Write
\* and WriteBatch test before each append.
TypeOK == LogOK /\ MemoryOK

\* The place of e comes before the place of f in the log.
Precedes(e, f) == e.seg < f.seg \/ (e.seg = f.seg /\ e.pos < f.pos)

\* Sequence numbers grow strictly along the whole log, over segment rotations,
\* failed writes, crashes and restarts: a reopened log never reuses a number
\* that is still on disk (the promise of the comment in loadSegments).
SeqNumsIncrease == \A e, f \in log : Precedes(e, f) => e.seq < f.seq

\* With sync_on_write, a record whose Write or WriteBatch returned nil is under
\* an fsync in some segment until Truncate removes that segment: neither a
\* process crash nor a power loss, at any step, takes it away.
AckedSynced ==
  syncOnWrite => \A id \in acked \ dropped : \E e \in durable : e.id = id

\* Without sync_on_write, an acknowledged batch has still left the process (the
\* Flush at the end of WriteBatch): only a power loss can take its records.
AckedBatchFlushed ==
  ~powerLost =>
    \A b \in batches : b \subseteq acked =>
      \A id \in b \ dropped : \E e \in flushed : e.id = id

\* Of the segments loadSegments scanned, Truncate(before) removes none that
\* holds a record numbered before or later.
TruncateKeepsNewer ==
  [][\A before \in 1..(lastSeqNum + 1) : Truncate(before) =>
       \A e \in log : (e.seg \in loaded /\ e.seq >= before) => e \in log']_vars
=============================================================================
