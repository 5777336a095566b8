SPECIFICATION Spec
CONSTANTS
  Clients = {c1, c2}
  Ids = {p}
  Values = {v, w}
  Absent = Absent
  Deleted = Deleted
  NoMeta = NoMeta
  MaxLog = 2
  MaxRestarts = 1
  MaxAsides = 0
SYMMETRY Symmetry
INVARIANTS
  ShutdownPreserves
CHECK_DEADLOCK FALSE
