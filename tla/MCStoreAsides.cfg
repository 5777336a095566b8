SPECIFICATION Spec
CONSTANTS
  Clients = {c1, c2}
  Ids = {p}
  Values = {v}
  Absent = Absent
  Deleted = Deleted
  NoMeta = NoMeta
  MaxLog = 3
  MaxRestarts = 2
  MaxAsides = 1
SYMMETRY Symmetry
INVARIANTS
  TypeOK
  WriteAhead
  DeletedStayDeleted
CHECK_DEADLOCK FALSE
