SPECIFICATION Spec
CONSTANTS
  SegmentSize = 3
  MaxBatch = 2
  MaxRecords = 3
  MaxRestarts = 2
INVARIANTS
  AckedApplied
CHECK_DEADLOCK FALSE
