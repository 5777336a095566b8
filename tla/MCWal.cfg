SPECIFICATION Spec
CONSTANTS
  SegmentSize = 3
  MaxBatch = 2
  MaxRecords = 3
  MaxRestarts = 2
INVARIANTS
  TypeOK
  SeqNumsIncrease
  AckedSynced
  AckedBatchFlushed
  BatchAtomic
  
PROPERTIES
  TruncateKeepsNewer
CHECK_DEADLOCK FALSE
