SPECIFICATION Spec
CONSTANTS
  None = None
  AnyCollection = AnyCollection
INVARIANTS
  TypeOK
  ShardsFollowMembers
  
  MemoryBounded
  StopLosesNothing
  NoSendOnClosed
PROPERTIES
  NewestWins
  
  Converges
  FailureReported
  
  StopReturns
  ClientsLeave
  HooksNotified
CHECK_DEADLOCK FALSE
