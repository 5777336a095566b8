SPECIFICATION Spec
CONSTANTS
  Clients = {c1, c2}
  Ids = {p, q}
  Values = {v, w}
  Absent = Absent
  Deleted = Deleted
  NoMeta = NoMeta
  MaxLog = 2
  MaxRestarts = 2
  MaxAsides = 0
SYMMETRY Symmetry
INVARIANTS
  ReplayAgrees
  InsertDurable
CHECK_DEADLOCK FALSE
