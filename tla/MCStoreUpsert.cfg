SPECIFICATION Spec
CONSTANTS
  Clients = {c1, c2}
  Ids = {p}
  Values = {v, w}
  Absent = Absent
  Deleted = Deleted
  NoMeta = NoMeta
  MaxLog = 2
  MaxRestarts = 0
  MaxAsides = 0
SYMMETRY Symmetry
PROPERTIES
  UpsertReplaces
CHECK_DEADLOCK FALSE
