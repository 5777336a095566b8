SPECIFICATION Spec
CONSTANTS
  Clients = {c1, c2}
  Ids = {p, q}
  Keys = {a, b}
  Capacity = 1
  MaxWrites = 3
SYMMETRY Symmetry
INVARIANTS
  TypeOK
  CacheCurrent
  SearchSeesWrites
