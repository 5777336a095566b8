----------------------------- MODULE WalProofs -----------------------------
(***************************************************************************)
(* Proofs about the write-ahead log of module Wal, for every segment size  *)
(* and every bound.                                                        *)
(***************************************************************************)
EXTENDS Wal, WellFoundedInduction, TLAPS

USE SegmentSizeAssumption, BoundsAssumption

\* What an append does to the log: one new entry e, at the end of the current
\* segment or at the start of a new one, with the next number.
AppendEffect(e, id) ==
  /\ log' = log \cup {e}
  /\ e.seg = seg' /\ e.pos = len' /\ e.id = id
  /\ e.seq = lastSeqNum + 1 /\ lastSeqNum' = lastSeqNum + 1
  /\ len' \in 1..SegmentSize
  /\ \/ seg' = seg /\ len' = len + 1 /\ UNCHANGED <<flushed, durable, info>>
     \/ /\ seg' = seg + 1 /\ len' = 1
        /\ flushed' = log /\ durable' = durable \cup InSegment(seg)
        /\ info' \in [Segments' -> Nat]
        /\ \A s \in 1..(seg - 1) : info'[s] = info[s]
  /\ torn' = torn

\* Every append has that effect.
LEMMA AppendRecordEffect ==
  ASSUME LogOK, up,
         NEW kind \in Kinds, NEW n \in Nat, NEW id \in Nat,
         AppendRecord(kind, n, id)
  PROVE  \E e \in Entry : AppendEffect(e, id)
<1>1. CASE /\ NeedsRotation /\ Rotate /\ len' = 1
           /\ Place(seg + 1, 1, kind, n, id)
  <2> DEFINE e == [seg |-> seg + 1, pos |-> 1, seq |-> lastSeqNum + 1,
                   kind |-> kind, n |-> n, id |-> id]
  <2>1. e \in Entry
    BY DEF LogOK, Entry
  <2>2. info' \in [Segments' -> Nat] /\ \A s \in 1..(seg - 1) : info'[s] = info[s]
    BY <1>1 DEF LogOK, Rotate, Segments
  <2>3. log' = log \cup {e}
    BY Zenon, <1>1 DEF Place
  <2> WITNESS e \in Entry
  <2> QED BY <1>1, <2>2, <2>3 DEF LogOK, AppendRecord, Rotate, AppendEffect
<1>2. CASE /\ ~NeedsRotation /\ len' = len + 1
           /\ Place(seg, len + 1, kind, n, id)
           /\ UNCHANGED <<flushed, durable, seg, info>>
  <2> DEFINE e == [seg |-> seg, pos |-> len + 1, seq |-> lastSeqNum + 1,
                   kind |-> kind, n |-> n, id |-> id]
  <2>1. e \in Entry
    BY DEF LogOK, Entry
  <2>3. log' = log \cup {e}
    BY Zenon, <1>2 DEF Place
  <2> WITNESS e \in Entry
  <2> QED BY <1>2, <2>3 DEF LogOK, AppendRecord, NeedsRotation, AppendEffect
<1> QED  BY Zenon, <1>1, <1>2 DEF AppendRecord

\* An append keeps the log well formed.
LEMMA AppendRecordOK ==
  ASSUME LogOK, up, UNCHANGED up,
         NEW kind \in Kinds, NEW n \in Nat, NEW id \in Nat,
         AppendRecord(kind, n, id)
  PROVE  LogOK' /\ Segments \subseteq Segments'
<1>1. PICK e \in Entry : AppendEffect(e, id)
  BY Zenon, AppendRecordEffect
<1> USE DEF AppendEffect
<1>2. /\ seg' \in Nat \ {0} /\ seg \in Nat /\ seg <= seg'
      /\ len' \in 0..SegmentSize /\ lastSeqNum' \in Nat
  BY <1>1 DEF LogOK
<1>3. /\ log' \subseteq Entry /\ flushed' \subseteq log' /\ durable' \subseteq flushed'
  BY Zenon, <1>1 DEF LogOK, InSegment
<1>4. \A f \in log' : f.pos \in 1..SegmentSize /\ f.seg \in Segments'
  BY <1>1, <1>2, SMTT(20) DEF LogOK, Segments
<1>5. \A f \in log' : f.seg = seg' => f.pos <= len'
  <2>1. \A f \in log : f.seg = seg' => f.pos <= len /\ f.pos \in Nat /\ seg' = seg
    BY <1>1, <1>2, SMTT(20) DEF LogOK, Segments, InSegment
  <2> QED BY <1>1, <1>2, <2>1 DEF LogOK
<1>6. \A f \in log : ~(f.seg = seg' /\ f.pos = len')
  BY <1>1, <1>2, SMTT(20) DEF LogOK, Segments, InSegment, Entry
<1>7. \A f, g \in log' : (f.seg = g.seg /\ f.pos = g.pos) => f = g
  BY <1>1, <1>6 DEF LogOK
<1>8. torn' \subseteq Segments' /\ Segments \subseteq Segments' /\ info' \in [Segments' -> Nat]
  BY <1>1, <1>2, SMTT(20) DEF LogOK, Segments
<1> QED  BY Zenon, <1>2, <1>3, <1>4, <1>5, <1>7, <1>8 DEF LogOK, InSegment


\* A failed rotation leaves the log as it was, but for the number it spent.
LEMMA RotateFailsOK ==
  ASSUME LogOK, UNCHANGED up, RotateFails
  PROVE  LogOK' /\ Segments' = Segments
BY SMTT(20) DEF LogOK, RotateFails, InSegment, Segments

\* Removing entries, in a crash or a truncation, keeps the log well formed.
LEMMA ShrinkOK ==
  ASSUME LogOK, log' \subseteq log, flushed' \subseteq log', durable' \subseteq flushed',
         seg' = seg, len' = len, torn' \subseteq Segments,
         info' \in [Segments -> Nat], lastSeqNum' \in Nat, up' => up
  PROVE  LogOK' /\ Segments' = Segments
BY SMTT(60) DEF LogOK, InSegment, Segments

\* A set of naturals with an upper bound has a largest element.
LEMMA MaxExists ==
  ASSUME NEW S \in SUBSET Nat, S # {}, NEW m \in Nat, \A x \in S : x <= m
  PROVE  \E x \in S : \A y \in S : y <= x
<1> DEFINE U == {k \in Nat : \A x \in S : x <= k}
<1>1. PICK u \in U : \A k \in U : u <= k
  <2>1. m \in U /\ U \subseteq Nat
    BY Zenon
  <2>2. PICK u \in U : \A k \in U : ~(<<k, u>> \in OpToRel(<, Nat))
    <3> HIDE DEF U
    <3> QED BY Zenon, <2>1, NatLessThanWellFounded, WFMin
  <2>3. \A k \in U : ~(k < u)
    BY Zenon, <2>1, <2>2 DEF OpToRel
  <2> QED BY <2>1, <2>3, SMTT(20)
<1>2. CASE u \in S
  BY Zenon, <1>2
<1>3. CASE u \notin S
  <2>1. \A x \in S : x < u
    BY <1>1, <1>3
  <2>2. u - 1 \in U
    <3>1. PICK x \in S : x \in Nat /\ x < u
      BY Zenon, <2>1
    <3>2. u \in Nat /\ u - 1 \in Nat
      BY <3>1
    <3> QED BY <2>1, <3>2
  <2> QED BY <1>1, <2>2
<1> QED  BY Zenon, <1>2, <1>3

\* What Open caches for a loaded segment is the largest number in its file.
LEMMA ScanIsMax ==
  ASSUME LogOK, NEW m \in Nat, IsLoadedLastSeqNum(m), NEW s \in Segments
  PROVE  /\ ScanSegmentLastSeqNum(s) \in Nat
         /\ \A e \in InSegment(s) : e.seq <= ScanSegmentLastSeqNum(s)
<1> DEFINE S == {0} \cup {e.seq : e \in InSegment(s)}
<1>1. S \in SUBSET Nat /\ S # {} /\ \A x \in S : x <= m
  BY DEF LogOK, Entry, InSegment, IsLoadedLastSeqNum
<1>2. \E x \in S : \A y \in S : y <= x
  BY Zenon, <1>1, MaxExists
<1>3. \E x \in S : \A e \in InSegment(s) : e.seq <= x
  BY Zenon, <1>2
<1> QED  BY Zenon, <1>1, <1>3 DEF ScanSegmentLastSeqNum
---------------------------------------------------------------------------
\* The running process knows a number no entry exceeds: what makes the next
\* one new.
SeqBound == up => \A e \in log : e.seq <= lastSeqNum

\* The cached number of a loaded segment bounds the numbers in its file.
LoadedInfo == \A s \in loaded : s < seg /\ \A e \in InSegment(s) : e.seq <= info[s]

OperationOK == (pc \in {"write", "flush"} => left = 0) /\ (~up => pc = "idle")

\* The records the running operation has appended are under an fsync, or still
\* in the current segment, which the operation will sync before it returns.
InFlight ==
  (syncOnWrite /\ pc # "idle") =>
    \A id \in (issued - size + 1)..(issued - left) :
      \E e \in durable \cup InSegment(seg) : e.id = id

\* The inductive invariant.
IndInv ==
  TypeOK /\ SeqNumsIncrease /\ SeqBound /\ LoadedInfo /\ OperationOK /\ InFlight /\ AckedSynced

\* IndInv holds of a new log.
LEMMA InitIndInv == Init => IndInv
<1> SUFFICES ASSUME Init PROVE IndInv
  BY Zenon
<1>1. LogOK
  <2>1. Segments = {1} /\ info \in [{1} -> Nat]
    BY DEF Init, Segments
  <2> QED BY <2>1 DEF Init, LogOK, InSegment
<1>2. MemoryOK
  <2>1. syncOnWrite \in BOOLEAN /\ up \in BOOLEAN /\ powerLost \in BOOLEAN
    BY Zenon DEF Init
  <2> QED BY <2>1 DEF Init, MemoryOK
<1>3. SeqNumsIncrease /\ SeqBound /\ LoadedInfo /\ OperationOK /\ InFlight /\ AckedSynced
  BY Zenon DEF Init, SeqNumsIncrease, SeqBound, LoadedInfo, OperationOK, InFlight, AckedSynced
<1> QED  BY Zenon, <1>1, <1>2, <1>3 DEF IndInv, TypeOK

\* The part of IndInv about the log that an append or a failed rotation can
\* disturb, for any operation.
LogInv == LogOK /\ SeqNumsIncrease /\ SeqBound /\ LoadedInfo /\ AckedSynced

\* An append preserves the invariants of the log and the records in flight.
LEMMA AppendRecordInv ==
  ASSUME LogInv, loaded \subseteq Segments, up, UNCHANGED <<up, loaded, syncOnWrite, acked, dropped>>,
         NEW kind \in Kinds, NEW n \in Nat, NEW id \in Nat,
         AppendRecord(kind, n, id)
  PROVE  /\ LogInv' /\ loaded' \subseteq Segments'
         /\ \A e \in durable \cup InSegment(seg) : e \in durable' \cup InSegment(seg)'
         /\ \E e \in InSegment(seg)' : e.id = id
<1>1. PICK e \in Entry : AppendEffect(e, id)
  BY Zenon, AppendRecordEffect DEF LogInv
<1> USE DEF AppendEffect
<1>2. LogOK' /\ Segments \subseteq Segments'
  BY Zenon, AppendRecordOK DEF LogInv
<1>3. \A f \in log : ~Precedes(e, f) /\ f.seq < e.seq
  <2> SUFFICES ASSUME NEW f \in log PROVE ~Precedes(e, f) /\ f.seq < e.seq
    BY Zenon
  <2>1. f \in Entry /\ seg \in Nat /\ len \in Nat /\ lastSeqNum \in Nat
    BY DEF LogInv, LogOK
  <2>2. f.seg \in Nat /\ f.pos \in Nat /\ f.seq \in Nat
    BY Zenon, <2>1 DEF Entry
  <2>3. f.seg <= seg /\ (f.seg = seg => f.pos <= len) /\ f.seq <= lastSeqNum
    BY <2>1 DEF LogInv, LogOK, SeqBound, Segments, InSegment
  <2> QED BY <1>1, <2>1, <2>2, <2>3 DEF Precedes
<1>4. SeqNumsIncrease'
  <2> SUFFICES ASSUME NEW f \in log', NEW g \in log', Precedes(f, g)
               PROVE  f.seq < g.seq
    BY Zenon DEF SeqNumsIncrease, Precedes
  <2>1. ~Precedes(e, e)
    BY DEF Precedes, Entry
  <2> QED BY Zenon, <1>1, <1>3, <2>1 DEF LogInv, SeqNumsIncrease
<1>5. SeqBound'
  BY <1>1 DEF LogInv, LogOK, SeqBound, Entry
<1>6. LoadedInfo'
  <2> SUFFICES ASSUME NEW s \in loaded
               PROVE  s < seg' /\ \A f \in InSegment(s)' : f.seq <= info'[s]
    BY Zenon DEF LoadedInfo
  <2>1. s \in Nat \ {0} /\ s < seg /\ seg \in Nat /\ seg <= seg'
    BY SMTT(30), <1>1 DEF LogInv, LogOK, LoadedInfo, Segments
  <2>2. InSegment(s)' = InSegment(s)
    BY <1>1, <2>1 DEF InSegment
  <2>3. info'[s] = info[s]
    BY <1>1, <2>1
  <2> QED BY <1>1, <2>1, <2>2, <2>3 DEF LogInv, LoadedInfo
<1>7. AckedSynced'
  BY Zenon, <1>1 DEF LogInv, AckedSynced
<1>8. \A f \in durable \cup InSegment(seg) : f \in durable' \cup InSegment(seg)'
  BY Zenon, <1>1 DEF InSegment
<1>9. e \in InSegment(seg)' /\ e.id = id
  BY Zenon, <1>1 DEF InSegment
<1> QED  BY Zenon, <1>2, <1>4, <1>5, <1>6, <1>7, <1>8, <1>9 DEF LogInv

\* A failed rotation preserves the invariants of the log.
LEMMA RotateFailsInv ==
  ASSUME LogInv, UNCHANGED <<up, loaded, syncOnWrite, acked, dropped>>, RotateFails
  PROVE  LogInv' /\ Segments' = Segments
<1>1. LogOK' /\ Segments' = Segments
  BY Zenon, RotateFailsOK DEF LogInv
<1>2. SeqNumsIncrease' /\ SeqBound' /\ LoadedInfo' /\ AckedSynced'
  BY DEF LogInv, RotateFails, SeqNumsIncrease, SeqBound, LoadedInfo, AckedSynced,
         InSegment, LogOK, Entry
<1> QED  BY Zenon, <1>1, <1>2 DEF LogInv

\* A crash of either kind preserves the invariants, as it takes nothing durable.
LEMMA CrashInv ==
  ASSUME LogInv, MemoryOK, Down, log' \subseteq log,
         durable \subseteq durable', durable' \subseteq log',
         torn' \subseteq Segments, powerLost' \in BOOLEAN
  PROVE  LogInv' /\ MemoryOK' /\ OperationOK' /\ InFlight'
<1>1. info' \in [Segments -> Nat]
  BY Zenon DEF Down
<1>2. LogOK' /\ Segments' = Segments
  BY Zenon, <1>1, ShrinkOK DEF LogInv, Down
<1>3. SeqNumsIncrease' /\ SeqBound' /\ LoadedInfo' /\ AckedSynced'
  BY Zenon DEF LogInv, Down, SeqNumsIncrease, SeqBound, LoadedInfo, AckedSynced
<1>4. /\ up' = FALSE /\ pc' = "idle" /\ left' = 0 /\ size' = 0 /\ loaded' = {}
      /\ UNCHANGED <<syncOnWrite, issued, acked, batches, dropped, restarts>>
  BY Zenon DEF Down, Idle
<1>5. MemoryOK'
  <2>1. syncOnWrite' \in BOOLEAN /\ up' \in BOOLEAN /\ powerLost' \in BOOLEAN
    BY <1>4, Zenon DEF MemoryOK
  <2> QED BY <1>4, <2>1 DEF MemoryOK
<1>6. OperationOK' /\ InFlight'
  BY Zenon, <1>4 DEF OperationOK, InFlight
<1> QED  BY Zenon, <1>2, <1>3, <1>5, <1>6 DEF LogInv

\* Open preserves the invariant: the numbers it scanned bound the files.
LEMMA OpenInv ==
  ASSUME LogInv, MemoryOK, OperationOK, InFlight, NEW m \in Nat, Open(m)
  PROVE  LogInv' /\ MemoryOK' /\ OperationOK' /\ InFlight'
<1>1. /\ UNCHANGED <<disk, syncOnWrite, operation, issued, acked, batches, dropped, powerLost>>
      /\ IsLoadedLastSeqNum(m) /\ lastSeqNum' = m
      /\ info' = [s \in 1..(seg + 1) |-> IF s <= seg THEN ScanSegmentLastSeqNum(s) ELSE 0]
      /\ loaded' = Segments /\ seg' = seg + 1 /\ len' = 0
      /\ ~up /\ up' = TRUE /\ restarts' = restarts + 1
  BY Zenon DEF Open
<1>2. /\ \A s \in Segments : ScanSegmentLastSeqNum(s) \in Nat
      /\ \A s \in Segments : \A e \in InSegment(s) : e.seq <= ScanSegmentLastSeqNum(s)
  BY Zenon, <1>1, ScanIsMax DEF LogInv
<1>3. Segments' = 1..(seg + 1) /\ Segments = 1..seg /\ seg \in Nat \ {0}
  BY Zenon, <1>1 DEF Segments, LogInv, LogOK
<1>4. \A s \in 1..(seg + 1) : (IF s <= seg THEN ScanSegmentLastSeqNum(s) ELSE 0) \in Nat
  BY <1>2, <1>3
<1>5. info' \in [Segments' -> Nat]
  BY Zenon, <1>1, <1>3, <1>4
<1>6. \A s \in Segments : info'[s] = ScanSegmentLastSeqNum(s)
  BY <1>1, <1>3
<1>7. \A e \in log' : e \in log /\ e.seg # seg'
  <2>1. \A e \in log : e.seg \in 1..seg
    BY Zenon, <1>3 DEF LogInv, LogOK
  <2> QED BY <1>1, <1>3, <2>1 DEF disk
<1>8. LogOK'
  <2>1. /\ log' \subseteq Entry /\ flushed' \subseteq log' /\ durable' \subseteq flushed'
        /\ \A e, f \in log' : (e.seg = f.seg /\ e.pos = f.pos) => e = f
    BY Zenon, <1>1 DEF LogInv, LogOK, disk
  <2>2. /\ torn' \subseteq Segments'
        /\ \A e \in log' : e.pos \in 1..SegmentSize /\ e.seg \in Segments'
    BY <1>1, <1>3 DEF LogInv, LogOK, disk
  <2>3. seg' \in Nat \ {0} /\ len' \in 0..SegmentSize /\ lastSeqNum' \in Nat
    BY <1>1, <1>3, SegmentSizeAssumption
  <2> QED BY Zenon, <1>5, <1>7, <2>1, <2>2, <2>3 DEF LogOK, InSegment
<1>9. SeqNumsIncrease' /\ SeqBound' /\ AckedSynced'
  BY Zenon, <1>1 DEF LogInv, SeqNumsIncrease, SeqBound, AckedSynced, IsLoadedLastSeqNum, disk
<1>10. LoadedInfo'
  <2>1. \A s \in Segments : s < seg' /\ \A e \in InSegment(s) : e.seq <= info'[s]
    BY <1>1, <1>2, <1>3, <1>6
  <2> QED BY Zenon, <1>1, <1>7, <2>1 DEF LoadedInfo, InSegment
<1>11. MemoryOK' /\ OperationOK' /\ InFlight'
  BY <1>1, <1>3 DEF MemoryOK, OperationOK, InFlight, operation
<1> QED BY Zenon, <1>8, <1>9, <1>10, <1>11 DEF LogInv

\* Every step preserves IndInv.
LEMMA NextIndInv == IndInv /\ [Next]_vars => IndInv'
<1> SUFFICES ASSUME IndInv, [Next]_vars PROVE IndInv'
  BY Zenon
<1>0. LogInv /\ MemoryOK /\ OperationOK /\ InFlight
  BY Zenon DEF IndInv, LogInv, TypeOK
<1> SUFFICES LogInv' /\ MemoryOK' /\ OperationOK' /\ InFlight'
  BY Zenon DEF IndInv, LogInv, TypeOK
<1>1. CASE Write
  <2>1. CASE /\ AppendRecord("rec", 0, issued + 1)
             /\ pc' = "write" /\ left' = 0 /\ size' = 1
    <3>1. /\ LogInv' /\ loaded' \subseteq Segments'
          /\ \E e \in InSegment(seg)' : e.id = issued + 1
      BY <1>0, <1>1, <2>1, AppendRecordInv DEF Write, MemoryOK, Kinds
    <3>2. MemoryOK' /\ OperationOK'
      BY <1>0, <1>1, <2>1, <3>1 DEF Write, MemoryOK, OperationOK
    <3>3. InFlight'
      BY <1>0, <1>1, <2>1, <3>1 DEF Write, MemoryOK, InFlight
    <3> QED BY Zenon, <3>1, <3>2, <3>3
  <2>2. CASE RotateFails
    <3>1. LogInv' /\ Segments' = Segments
      BY Zenon, <1>0, <1>1, <2>2, RotateFailsInv DEF Write
    <3>2. MemoryOK' /\ OperationOK' /\ InFlight'
      BY <1>0, <1>1, <2>2, <3>1 DEF Write, RotateFails, Idle, MemoryOK, OperationOK, InFlight
    <3> QED BY Zenon, <3>1, <3>2
  <2> QED BY Zenon, <1>1, <2>1, <2>2 DEF Write
<1>2. ASSUME NEW n \in 1..MaxBatch, WriteBatchBegin(n)
      PROVE  LogInv' /\ MemoryOK' /\ OperationOK' /\ InFlight'
  <2>0. batches' \subseteq SUBSET Nat
    BY <1>0, <1>2 DEF WriteBatchBegin, MemoryOK
  <2>1. CASE /\ AppendRecord("begin", n, 0)
             /\ pc' = "batch" /\ left' = n /\ size' = n
    <3>1. LogInv' /\ loaded' \subseteq Segments'
      BY <1>0, <1>2, <2>1, AppendRecordInv DEF WriteBatchBegin, MemoryOK, Kinds
    <3>2. MemoryOK' /\ OperationOK'
      BY <1>0, <1>2, <2>0, <2>1, <3>1 DEF WriteBatchBegin, MemoryOK, OperationOK
    <3>3. InFlight'
      BY <1>0, <1>2, <2>1 DEF WriteBatchBegin, MemoryOK, InFlight
    <3> QED BY Zenon, <3>1, <3>2, <3>3
  <2>2. CASE RotateFails
    <3>1. LogInv' /\ Segments' = Segments
      BY Zenon, <1>0, <1>2, <2>2, RotateFailsInv DEF WriteBatchBegin
    <3>2. MemoryOK' /\ OperationOK' /\ InFlight'
      BY <1>0, <1>2, <2>0, <2>2, <3>1
         DEF WriteBatchBegin, RotateFails, Idle, MemoryOK, OperationOK, InFlight
    <3> QED BY Zenon, <3>1, <3>2
  <2> QED BY Zenon, <1>2, <2>1, <2>2 DEF WriteBatchBegin
<1>3. CASE WriteBatchRecord
  <2>1. CASE /\ AppendRecord("rec", 0, issued - left + 1)
             /\ pc' = "batch" /\ left' = left - 1 /\ size' = size
    <3>0. issued - left + 1 \in Nat /\ left - 1 \in Nat
      BY <1>0, <1>3 DEF WriteBatchRecord, MemoryOK
    <3>1. /\ LogInv' /\ loaded' \subseteq Segments'
          /\ \A e \in durable \cup InSegment(seg) : e \in durable' \cup InSegment(seg)'
          /\ \E e \in InSegment(seg)' : e.id = issued - left + 1
      BY Zenon, <1>0, <1>3, <2>1, <3>0, AppendRecordInv DEF WriteBatchRecord, MemoryOK, Kinds, history
    <3>2. MemoryOK' /\ OperationOK'
      BY <1>0, <1>3, <2>1, <3>0, <3>1 DEF WriteBatchRecord, MemoryOK, OperationOK, history
    <3>3. InFlight'
      BY <1>0, <1>3, <2>1, <3>0, <3>1 DEF WriteBatchRecord, MemoryOK, InFlight, history
    <3> QED BY Zenon, <3>1, <3>2, <3>3
  <2>2. CASE RotateFails
    <3>1. LogInv' /\ Segments' = Segments
      BY Zenon, <1>0, <1>3, <2>2, RotateFailsInv DEF WriteBatchRecord, history
    <3>2. MemoryOK' /\ OperationOK' /\ InFlight'
      BY <1>0, <1>3, <2>2, <3>1
         DEF WriteBatchRecord, RotateFails, Idle, MemoryOK, OperationOK, InFlight, history
    <3> QED BY Zenon, <3>1, <3>2
  <2> QED BY Zenon, <1>3, <2>1, <2>2 DEF WriteBatchRecord
<1>4. CASE WriteBatchEnd
  <2>1. CASE /\ AppendRecord("end", size, 0)
             /\ pc' = "flush" /\ left' = 0 /\ size' = size
    <3>1. /\ LogInv' /\ loaded' \subseteq Segments'
          /\ \A e \in durable \cup InSegment(seg) : e \in durable' \cup InSegment(seg)'
      BY <1>0, <1>4, <2>1, AppendRecordInv DEF WriteBatchEnd, MemoryOK, Kinds, history
    <3>2. MemoryOK' /\ OperationOK'
      BY Zenon, <1>0, <1>4, <2>1, <3>1 DEF WriteBatchEnd, MemoryOK, OperationOK, history
    <3>3. InFlight'
      BY Zenon, <1>0, <1>4, <2>1, <3>1 DEF WriteBatchEnd, MemoryOK, InFlight, history
    <3> QED BY Zenon, <3>1, <3>2, <3>3
  <2>2. CASE RotateFails
    <3>1. LogInv' /\ Segments' = Segments
      BY Zenon, <1>0, <1>4, <2>2, RotateFailsInv DEF WriteBatchEnd, history
    <3>2. MemoryOK' /\ OperationOK' /\ InFlight'
      BY <1>0, <1>4, <2>2, <3>1
         DEF WriteBatchEnd, RotateFails, Idle, MemoryOK, OperationOK, InFlight, history
    <3> QED BY Zenon, <3>1, <3>2
  <2> QED BY Zenon, <1>4, <2>1, <2>2 DEF WriteBatchEnd
<1>5. CASE Return
  <2>1. LogOK'
    BY Zenon, <1>0, <1>5 DEF Return, FlushedAtReturn, LogInv, LogOK, InSegment, Segments, segment
  <2>2. SeqNumsIncrease' /\ SeqBound' /\ LoadedInfo'
    BY Zenon, <1>0, <1>5
       DEF Return, LogInv, SeqNumsIncrease, SeqBound, LoadedInfo, InSegment, segment
  <2>3. AckedSynced'
    <3> SUFFICES ASSUME syncOnWrite', NEW id \in acked' \ dropped'
                 PROVE  \E e \in durable' : e.id = id
      BY Zenon DEF AckedSynced
    <3>1. syncOnWrite /\ dropped' = dropped /\ durable \subseteq durable'
      BY Zenon, <1>5 DEF Return
    <3>2. CASE id \in acked
      BY Zenon, <1>0, <3>1, <3>2 DEF LogInv, AckedSynced
    <3>3. CASE id \notin acked
      <4>1. durable' = durable \cup InSegment(seg) /\ id \in (issued - size + 1)..issued
        BY Zenon, <1>5, <3>1, <3>3 DEF Return
      <4>2. left = 0 /\ pc # "idle" /\ issued - left = issued
        BY <1>0, <1>5 DEF Return, OperationOK, MemoryOK
      <4> QED BY Zenon, <1>0, <3>1, <4>1, <4>2 DEF InFlight
    <3> QED BY Zenon, <3>2, <3>3
  <2>4. (issued - size + 1)..issued \subseteq Nat
    BY <1>0 DEF MemoryOK
  <2>5. /\ acked' \subseteq Nat /\ pc' = "idle" /\ left' = 0 /\ size' = 0
        /\ UNCHANGED <<seg, loaded, syncOnWrite, up, powerLost, issued, restarts,
                       dropped, batches>>
    BY Zenon, <1>0, <1>5, <2>4 DEF Return, Idle, MemoryOK, segment
  <2>6. MemoryOK' /\ OperationOK' /\ InFlight'
    BY <1>0, <2>5 DEF MemoryOK, OperationOK, InFlight, Segments
  <2> QED BY Zenon, <2>1, <2>2, <2>3, <2>6 DEF LogInv
<1>6. CASE Sync \/ Close
  <2>1. pc = "idle" /\ Flush /\ (up' => up) /\ up' \in BOOLEAN
    BY Zenon, <1>0, <1>6 DEF Sync, Close, MemoryOK
  <2>2. LogOK'
    BY Zenon, <1>0, <2>1 DEF Flush, LogInv, LogOK, InSegment, Segments, segment
  <2>3. SeqNumsIncrease' /\ SeqBound' /\ LoadedInfo' /\ AckedSynced'
    BY Zenon, <1>0, <2>1 DEF Flush, LogInv, SeqNumsIncrease, SeqBound, LoadedInfo, AckedSynced,
                      InSegment, segment, history
  <2>4. MemoryOK' /\ OperationOK' /\ InFlight'
    BY Zenon, <1>0, <2>1 DEF Flush, MemoryOK, OperationOK, InFlight, Segments, segment,
                      operation, history
  <2> QED BY Zenon, <2>2, <2>3, <2>4 DEF LogInv
<1>7. ASSUME NEW before \in 1..(lastSeqNum + 1), Truncate(before)
      PROVE  LogInv' /\ MemoryOK' /\ OperationOK' /\ InFlight'
  <2> DEFINE gone == {s \in 1..(seg - 1) : info[s] < before}
  <2>1. /\ pc = "idle" /\ UNCHANGED <<segment, loaded, syncOnWrite, up, operation,
                     issued, acked, batches, powerLost, restarts>>
        /\ log' = {e \in log : e.seg \notin gone}
        /\ flushed' = {e \in flushed : e.seg \notin gone}
        /\ durable' = {e \in durable : e.seg \notin gone}
        /\ torn' = torn \ gone
        /\ dropped' = dropped \cup {e.id : e \in {f \in log : f.seg \in gone}}
    BY Zenon, <1>7 DEF Truncate
  <2> HIDE DEF gone
  <2>2. LogOK' /\ Segments' = Segments
    BY Zenon, <1>0, <2>1, ShrinkOK DEF LogInv, LogOK, segment
  <2>3. SeqNumsIncrease' /\ SeqBound' /\ LoadedInfo'
    BY Zenon, <1>0, <2>1 DEF LogInv, SeqNumsIncrease, SeqBound, LoadedInfo, InSegment, segment
  <2>4. AckedSynced'
    BY <1>0, <2>1 DEF LogInv, LogOK, AckedSynced
  <2>5. dropped' \subseteq Nat
    <3>1. dropped \subseteq Nat /\ \A e \in log : e.id \in Nat
      BY Zenon, <1>0 DEF LogInv, LogOK, Entry, MemoryOK
    <3>2. dropped' = dropped \cup {e.id : e \in {f \in log : f.seg \in gone}}
      BY Zenon, <2>1
    <3> QED BY Zenon, <3>1, <3>2
  <2>6. MemoryOK' /\ OperationOK' /\ InFlight'
    BY Zenon, <1>0, <2>1, <2>2, <2>5 DEF MemoryOK, OperationOK, InFlight, operation
  <2> QED BY Zenon, <2>2, <2>3, <2>4, <2>6 DEF LogInv
<1>8. ASSUME NEW k \in 0..len, ProcessCrash(k)
      PROVE  LogInv' /\ MemoryOK' /\ OperationOK' /\ InFlight'
  <2>1. log' \subseteq log /\ durable' = durable /\ flushed \subseteq log' /\ Down
    BY Zenon, <1>8 DEF ProcessCrash
  <2>2. torn' \subseteq Segments
    <3>1. torn \subseteq Segments
      BY Zenon, <1>0 DEF LogInv, LogOK
    <3>2. seg \in Segments
      BY <1>0 DEF LogInv, LogOK, Segments
    <3>3. torn' = torn \/ torn' = torn \cup {seg}
      BY Zenon, <1>8 DEF ProcessCrash
    <3> QED BY Zenon, <3>1, <3>2, <3>3
  <2>3. powerLost' \in BOOLEAN
    BY Zenon, <1>0, <1>8 DEF ProcessCrash, MemoryOK
  <2>4. durable' \subseteq log'
    BY Zenon, <1>0, <2>1 DEF LogInv, LogOK
  <2> QED BY Zenon, <1>0, <2>1, <2>2, <2>3, <2>4, CrashInv
<1>9. ASSUME NEW keep \in [Unsynced -> 0..SegmentSize], PowerLoss(keep)
      PROVE  LogInv' /\ MemoryOK' /\ OperationOK' /\ InFlight'
  <2>1. log' \subseteq log /\ durable' = log' /\ durable \subseteq log' /\ Down
    BY Zenon, <1>9 DEF PowerLoss
  <2>2. torn' \subseteq Segments
    <3>1. torn \subseteq Segments /\ \A e \in log : e.seg \in Segments
      BY Zenon, <1>0 DEF LogInv, LogOK
    <3>2. torn' \subseteq torn \cup {e.seg : e \in log \ log'}
      BY Zenon, <1>9 DEF PowerLoss
    <3>3. \A s \in {e.seg : e \in log \ log'} : s \in Segments
      BY Zenon, <3>1
    <3> QED BY Zenon, <3>1, <3>2, <3>3
  <2>3. powerLost' \in BOOLEAN
    BY Zenon, <1>9 DEF PowerLoss
  <2> QED BY Zenon, <1>0, <2>1, <2>2, <2>3, CrashInv
<1>10. ASSUME NEW m \in {0} \cup {e.seq : e \in log}, Open(m)
       PROVE  LogInv' /\ MemoryOK' /\ OperationOK' /\ InFlight'
  <2>1. m \in Nat
    BY <1>0 DEF LogInv, LogOK, Entry
  <2> QED BY Zenon, <1>0, <1>10, <2>1, OpenInv
<1>11. CASE UNCHANGED vars
  BY Zenon, <1>0, <1>11 DEF vars, disk, segment, operation, history, LogInv, LogOK, MemoryOK,
     SeqNumsIncrease, SeqBound, LoadedInfo, OperationOK, InFlight, AckedSynced,
     Segments, InSegment
<1> QED
  BY Zenon, <1>1, <1>2, <1>3, <1>4, <1>5, <1>6, <1>7, <1>8, <1>9, <1>10, <1>11 DEF Next

---------------------------------------------------------------------------
\* IndInv holds in every reachable state.
THEOREM Invariance == Spec => []IndInv
BY InitIndInv, NextIndInv, PTL DEF Spec

\* Every variable of the log keeps its type and every segment its size bound.
THEOREM TypeCorrect == Spec => []TypeOK
<1>1. IndInv => TypeOK
  BY Zenon DEF IndInv
<1> QED  BY Invariance, <1>1, PTL

\* A log never holds the same sequence number twice, however often the process
\* crashes and opens it again.
THEOREM SeqNumsAlwaysIncrease == Spec => []SeqNumsIncrease
<1>1. IndInv => SeqNumsIncrease
  BY Zenon DEF IndInv
<1> QED  BY Invariance, <1>1, PTL

\* Under sync_on_write no crash of the process or of the machine takes an
\* acknowledged record.
THEOREM AckedAlwaysSynced == Spec => []AckedSynced
<1>1. IndInv => AckedSynced
  BY Zenon DEF IndInv
<1> QED  BY Invariance, <1>1, PTL

\* Truncate keeps every loaded segment with a record at or above its argument.
THEOREM TruncateSafe == Spec => TruncateKeepsNewer
<1> DEFINE Kept == \A before \in 1..(lastSeqNum + 1) : Truncate(before) =>
                     \A e \in log : (e.seg \in loaded /\ e.seq >= before) => e \in log'
<1>1. IndInv => Kept
  <2> SUFFICES ASSUME IndInv, NEW before \in 1..(lastSeqNum + 1), Truncate(before),
                      NEW e \in log, e.seg \in loaded, e.seq >= before
               PROVE  e \in log'
    BY Zenon
  <2>1. e.seq <= info[e.seg]
    BY Zenon DEF IndInv, LoadedInfo, InSegment
  <2>2. e.seq \in Nat /\ info[e.seg] \in Nat /\ before \in Nat
    BY DEF IndInv, TypeOK, LogOK, Entry
  <2>3. ~(info[e.seg] < before)
    BY <2>1, <2>2
  <2> QED BY Zenon, <2>3 DEF Truncate
<1>2. IndInv /\ [Next]_vars => [Kept]_vars
  BY Zenon, <1>1
<1> QED  BY Invariance, <1>1, PTL DEF TruncateKeepsNewer


---------------------------------------------------------------------------
(* Acknowledged batches.  A second invariant, on top of IndInv, says which *)
(* identities a batch has and that those of the running one are in the log.*)

Current == (issued - size + 1)..issued

\* What is acknowledged or in a batch was issued.  A batch is the running one or
\* was over before it began, and a single record is in none.
Identities ==
  /\ acked \subseteq 1..issued
  /\ \A b \in batches : b \subseteq 1..issued
  /\ pc = "write" => size = 1 /\ \A b \in batches : issued \notin b
  /\ pc \in {"batch", "flush"} =>
       \A b \in batches : b = Current \/ \A id \in b : id \notin Current

\* The records that the running batch has appended are in the log.
Appended ==
  pc \in {"batch", "flush"} =>
    \A id \in (issued - size + 1)..(issued - left) : \E e \in log : e.id = id

BatchInv == Identities /\ Appended /\ AckedBatchFlushed

\* What the end of an append, or a failed rotation, leaves in the log.
LEMMA AppendGrows ==
  ASSUME LogOK, up, NEW kind \in Kinds, NEW n \in Nat, NEW id \in Nat, AppendRecord(kind, n, id)
  PROVE  log \subseteq log' /\ flushed \subseteq flushed' /\ \E e \in log' : e.id = id
<1>1. PICK e \in Entry : AppendEffect(e, id)
  BY Zenon, AppendRecordEffect
<1> QED BY Zenon, <1>1 DEF AppendEffect, LogOK

LEMMA RotateFailsGrows ==
  ASSUME LogOK, RotateFails PROVE log' = log /\ flushed \subseteq flushed' /\ pc' = "idle"
BY Zenon DEF RotateFails, Idle, LogOK

\* Batches stay flushed while no call is acknowledged and nothing leaves the files.
LEMMA StaysFlushed ==
  ASSUME AckedBatchFlushed, batches' = batches, acked' = acked, dropped \subseteq dropped',
         powerLost' = powerLost, flushed \subseteq flushed'
  PROVE  AckedBatchFlushed'
BY Zenon DEF AckedBatchFlushed

\* With nothing running, what was issued before still was.
LEMMA IdleIdentities ==
  ASSUME Identities, MemoryOK, acked' = acked, batches' = batches, pc' = "idle",
         issued' \in Nat, issued' >= issued
  PROVE  Identities' /\ Appended'
<1>1. issued \in Nat /\ 1..issued \subseteq 1..issued'
  BY DEF MemoryOK
<1> QED BY Zenon, <1>1 DEF Identities, Appended

LEMMA WriteBatches == ASSUME IndInv, BatchInv, Write PROVE BatchInv'
<1>1. /\ LogOK /\ MemoryOK /\ issued \in Nat /\ up /\ issued' = issued + 1
      /\ UNCHANGED <<acked, batches, dropped, powerLost>>
  BY Zenon DEF IndInv, TypeOK, MemoryOK, Write
<1>2. CASE AppendRecord("rec", 0, issued + 1) /\ pc' = "write" /\ left' = 0 /\ size' = 1
  <2>1. flushed \subseteq flushed'
    BY <1>1, <1>2, AppendGrows DEF Kinds
  <2>2. 1..issued \subseteq 1..issued' /\ issued' \notin 1..issued
    BY <1>1
  <2> QED
    BY Zenon, <1>1, <1>2, <2>1, <2>2, StaysFlushed DEF BatchInv, Identities, Appended
<1>3. CASE RotateFails
  BY <1>1, <1>3, RotateFailsGrows, StaysFlushed, IdleIdentities DEF BatchInv
<1> QED BY Zenon, <1>2, <1>3 DEF Write

LEMMA BeginBatches ==
  ASSUME IndInv, BatchInv, NEW n \in 1..MaxBatch, WriteBatchBegin(n) PROVE BatchInv'
<1> DEFINE new == (issued + 1)..(issued + n)
<1>1. /\ LogOK /\ MemoryOK /\ issued \in Nat /\ n \in Nat /\ n >= 1 /\ up /\ issued' = issued + n
      /\ batches' = batches \cup {new} /\ UNCHANGED <<acked, dropped, powerLost>>
  BY DEF IndInv, TypeOK, MemoryOK, WriteBatchBegin
<1>2. /\ 1..issued \subseteq 1..issued' /\ new \subseteq 1..issued' /\ issued + 1 \in new
      /\ \A id \in 1..issued : id \notin new
  BY <1>1
<1> HIDE DEF new
<1>3. acked' \subseteq 1..issued' /\ \A b \in batches' : b \subseteq 1..issued'
  BY Zenon, <1>1, <1>2 DEF BatchInv, Identities
<1>4. ~(new \subseteq acked)
  BY Zenon, <1>1, <1>2 DEF BatchInv, Identities
<1>5. ASSUME flushed \subseteq flushed' PROVE AckedBatchFlushed'
  BY Zenon, <1>1, <1>4, <1>5 DEF BatchInv, AckedBatchFlushed
<1>6. CASE AppendRecord("begin", n, 0) /\ pc' = "batch" /\ left' = n /\ size' = n
  <2>1. flushed \subseteq flushed'
    BY Zenon, <1>1, <1>6, AppendGrows DEF Kinds
  <2>2. Current' = new /\ issued' - left' = issued /\ issued' - size' + 1 = issued + 1
    BY <1>1, <1>6 DEF Current, new
  <2>3. Appended'
    BY <1>1, <2>2 DEF Appended
  <2>4. Identities'
    BY <1>1, <1>2, <1>3, <1>6, <2>2 DEF BatchInv, Identities
  <2> QED
    BY Zenon, <1>5, <2>1, <2>3, <2>4 DEF BatchInv
<1>7. CASE RotateFails
  BY Zenon, <1>1, <1>3, <1>5, <1>7, RotateFailsGrows DEF BatchInv, Identities, Appended
<1> QED BY Zenon, <1>6, <1>7 DEF WriteBatchBegin


LEMMA RecordBatches == ASSUME IndInv, BatchInv, WriteBatchRecord \/ WriteBatchEnd PROVE BatchInv'
<1>1. /\ LogOK /\ MemoryOK /\ up /\ pc = "batch" /\ issued \in Nat /\ size \in 0..issued
      /\ left \in 0..size /\ UNCHANGED <<issued, acked, batches, dropped, powerLost>>
  BY Zenon DEF IndInv, TypeOK, MemoryOK, WriteBatchRecord, WriteBatchEnd, history
<1>2. CASE RotateFails
  BY <1>1, <1>2, RotateFailsGrows, StaysFlushed, IdleIdentities DEF BatchInv
<1>3. ASSUME log \subseteq log', flushed \subseteq flushed', size' = size, pc' \in {"batch", "flush"},
             \/ left' = left
             \/ left' = left - 1 /\ \E e \in log' : e.id = issued - left + 1
      PROVE BatchInv'
  <2>1. Current' = Current
    BY Zenon, <1>1, <1>3 DEF Current
  <2>2. Identities'
    BY Zenon, <1>1, <1>3, <2>1 DEF BatchInv, Identities
  <2>3. Appended'
    <3> SUFFICES ASSUME NEW id \in (issued - size + 1)..(issued - left')
                 PROVE  \E e \in log' : e.id = id
      BY Zenon, <1>1, <1>3 DEF Appended
    <3>1. id = issued - left + 1 \/ id \in (issued - size + 1)..(issued - left) \/ left' = left
      BY <1>1, <1>3
    <3>2. \A i \in (issued - size + 1)..(issued - left) : \E e \in log : e.id = i
      BY Zenon, <1>1 DEF BatchInv, Appended
    <3>3. left' = left => id \in (issued - size + 1)..(issued - left)
      BY Zenon
    <3>4. id = issued - left + 1 => left' # left
      BY <1>1
    <3> QED BY Zenon, <1>3, <3>1, <3>2, <3>3, <3>4
  <2> QED
    BY Zenon, <1>1, <1>3, <2>2, <2>3, StaysFlushed DEF BatchInv
<1>4. CASE /\ AppendRecord("rec", 0, issued - left + 1)
           /\ pc' = "batch" /\ left' = left - 1 /\ size' = size
  <2>1. issued - left + 1 \in Nat
    BY <1>1
  <2> QED
    BY Zenon, <1>1, <1>3, <1>4, <2>1, AppendGrows DEF Kinds
<1>5. CASE left = 0 /\ AppendRecord("end", size, 0) /\ pc' = "flush" /\ left' = 0 /\ size' = size
  BY <1>1, <1>3, <1>5, AppendGrows DEF Kinds
<1> QED BY Zenon, <1>2, <1>4, <1>5 DEF WriteBatchRecord, WriteBatchEnd

LEMMA ReturnBatches == ASSUME IndInv, BatchInv, Return PROVE BatchInv'
<1>1. /\ LogOK /\ MemoryOK /\ pc \in {"write", "flush"} /\ left = 0 /\ issued \in Nat
      /\ size \in 0..issued /\ acked' \in {acked, acked \cup Current}
      /\ UNCHANGED <<log, issued, batches, dropped, powerLost>> /\ pc' = "idle"
      /\ flushed' = FlushedAtReturn
  BY Zenon DEF IndInv, TypeOK, MemoryOK, OperationOK, Return, Idle, Current
<1>2. flushed \subseteq flushed'
  BY Zenon, <1>1 DEF FlushedAtReturn, LogOK
<1>3. Current \subseteq 1..issued
  BY <1>1 DEF Current
<1>4. Identities' /\ Appended'
  BY Zenon, <1>1, <1>3 DEF BatchInv, Identities, Appended
<1>5. ASSUME NEW b \in batches, b \subseteq acked \cup Current, ~(b \subseteq acked)
      PROVE  pc = "flush" /\ b = Current
  <2>1. PICK id \in b : id \in Current /\ id \notin acked
    BY Zenon, <1>5
  <2>2. CASE pc = "write"
    <3>1. size = 1 /\ issued \notin b
      BY Zenon, <2>2 DEF BatchInv, Identities
    <3>2. id = issued
      BY <1>1, <2>1, <3>1 DEF Current
    <3> QED BY Zenon, <3>1, <3>2
  <2>3. CASE pc = "flush"
    BY Zenon, <2>1, <2>3 DEF BatchInv, Identities
  <2> QED BY Zenon, <1>1, <2>2, <2>3
<1>6. AckedBatchFlushed'
  <2> SUFFICES ASSUME ~powerLost, NEW b \in batches, b \subseteq acked \cup Current,
                      NEW id \in b \ dropped
               PROVE  \E e \in flushed' : e.id = id
    BY Zenon, <1>1 DEF AckedBatchFlushed
  <2>1. CASE b \subseteq acked
    BY Zenon, <1>2, <2>1 DEF BatchInv, AckedBatchFlushed
  <2>2. CASE ~(b \subseteq acked)
    <3>1. pc = "flush" /\ b = Current
      BY Zenon, <1>5, <2>2
    <3>2. id \in (issued - size + 1)..(issued - left)
      BY <1>1, <3>1 DEF Current
    <3>3. \E e \in log : e.id = id
      BY Zenon, <3>1, <3>2 DEF BatchInv, Appended
    <3>4. flushed' = log
      BY Zenon, <1>1, <3>1 DEF FlushedAtReturn
    <3> QED BY Zenon, <3>3, <3>4
  <2> QED BY Zenon, <2>1, <2>2
<1> QED BY Zenon, <1>4, <1>6 DEF BatchInv

LEMMA NextBatchInv == ASSUME IndInv, BatchInv, [Next]_vars PROVE BatchInv'
<1>1. LogOK /\ MemoryOK /\ issued \in Nat /\ flushed \subseteq log
  BY Zenon DEF IndInv, TypeOK, LogOK, MemoryOK
<1>2. CASE Sync \/ Close
  <2>1. /\ pc = "idle" /\ pc' = "idle" /\ flushed' = log
        /\ UNCHANGED <<issued, acked, batches, dropped, powerLost>>
    BY Zenon, <1>2 DEF Sync, Close, Flush, operation, history
  <2> QED
    BY <1>1, <2>1, StaysFlushed, IdleIdentities DEF BatchInv
<1>3. ASSUME NEW before \in 1..(lastSeqNum + 1), Truncate(before) PROVE BatchInv'
  <2> DEFINE gone == {s \in 1..(seg - 1) : info[s] < before}
  <2>1. /\ pc = "idle" /\ pc' = "idle" /\ UNCHANGED <<issued, acked, batches, powerLost>>
        /\ flushed' = {e \in flushed : e.seg \notin gone}
        /\ dropped' = dropped \cup {e.id : e \in {f \in log : f.seg \in gone}}
    BY Zenon, <1>3 DEF Truncate, operation
  <2> HIDE DEF gone
  <2>2. AckedBatchFlushed'
    <3> SUFFICES ASSUME ~powerLost, NEW b \in batches, b \subseteq acked, NEW id \in b \ dropped'
                 PROVE  \E e \in flushed' : e.id = id
      BY Zenon, <2>1 DEF AckedBatchFlushed
    <3>1. PICK e \in flushed : e.id = id
      BY Zenon, <2>1 DEF BatchInv, AckedBatchFlushed
    <3>2. e.seg \notin gone
      BY Zenon, <1>1, <2>1, <3>1
    <3> QED BY Zenon, <2>1, <3>1, <3>2
  <2> QED
    BY <1>1, <2>1, <2>2, IdleIdentities DEF BatchInv
<1>4. ASSUME NEW k \in 0..len, ProcessCrash(k) PROVE BatchInv'
  <2>1. /\ pc' = "idle" /\ flushed \subseteq flushed'
        /\ UNCHANGED <<issued, acked, batches, dropped, powerLost>>
    BY Zenon, <1>4 DEF ProcessCrash, Down, Idle
  <2> QED
    BY <1>1, <2>1, StaysFlushed, IdleIdentities DEF BatchInv
<1>5. ASSUME NEW keep \in [Unsynced -> 0..SegmentSize], PowerLoss(keep) PROVE BatchInv'
  <2>1. pc' = "idle" /\ powerLost' = TRUE /\ UNCHANGED <<issued, acked, batches>>
    BY Zenon, <1>5 DEF PowerLoss, Down, Idle
  <2>2. AckedBatchFlushed'
    BY Zenon, <2>1 DEF AckedBatchFlushed
  <2> QED
    BY <1>1, <2>1, <2>2, IdleIdentities DEF BatchInv
<1>6. ASSUME NEW m \in {0} \cup {e.seq : e \in log}, Open(m) PROVE BatchInv'
  <2>1. /\ UNCHANGED <<log, flushed, operation, issued, acked, batches, dropped, powerLost>>
    BY Zenon, <1>6 DEF Open, disk
  <2> QED
    BY Zenon, <2>1 DEF BatchInv, Identities, Appended, AckedBatchFlushed, Current, operation
<1>7. CASE UNCHANGED vars
  BY Zenon, <1>7 DEF vars, disk, operation, history, BatchInv, Identities, Appended,
              AckedBatchFlushed, Current
<1> QED
  BY Zenon, <1>2, <1>3, <1>4, <1>5, <1>6, <1>7, WriteBatches, BeginBatches, RecordBatches,
     ReturnBatches DEF Next

\* WriteBatch flushes before it returns, with or without sync_on_write: no crash
\* of the process takes a record of a batch it acknowledged.
THEOREM AckedBatchesFlushed == Spec => []AckedBatchFlushed
<1>1. Init => BatchInv
  BY Zenon DEF Init, BatchInv, Identities, Appended, AckedBatchFlushed
<1>2. IndInv /\ BatchInv /\ [Next]_vars => BatchInv'
  BY Zenon, NextBatchInv
<1>3. BatchInv => AckedBatchFlushed
  BY Zenon DEF BatchInv
<1> QED BY Invariance, <1>1, <1>2, <1>3, PTL DEF Spec
=============================================================================
