SPECIFICATION Spec
CONSTANTS
  None = None
  Unknown = Unknown
  Bare = Bare
  Torn = Torn
  NoOffset = NoOffset
  NoSparse = NoSparse
INVARIANTS
  TypeOK
  
  RestartKeepsCollections
  ListedIsWhole
  
  
  
  ScrollReturnsOnce
  
  HybridRanks
PROPERTIES
  KeepsPromise
CHECK_DEADLOCK FALSE
