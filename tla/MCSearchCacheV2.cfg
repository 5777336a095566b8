SPECIFICATION Spec
CONSTANTS
  Clients = {c1, c2}
  Ids = {p, q}
  Keys = {a, b}
  Capacity = 1
  MaxWrites = 2
SYMMETRY Symmetry
INVARIANTS
  SearchSeesAllWrites
CHECK_DEADLOCK FALSE
