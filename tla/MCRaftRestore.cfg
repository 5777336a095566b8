SPECIFICATION Spec
CONSTANTS
  Nodes = {"n1", "n2"}
  Ids = {"p"}
  First = "n1"
  RestAddr <- SameAddress
  Unknown = Unknown
  Outside = {}
  Compacting = {"n1"}
  TrailingLogs = 0
  Priors <- Written
  MaxWrites = 1
  MaxElections = 1
  MaxCrashes = 0
PROPERTIES
  CatchesUp
CHECK_DEADLOCK FALSE
