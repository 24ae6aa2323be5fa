SPECIFICATION Spec
CONSTANTS
  Bots = {b1}
  Bases = {k1, k2}
  Docs = {d1}
  Names = {n1, n2}
  Notes = {t1, t2}
  Clients = {c1, c2}
  Workers = {w1, w2}
  None = None
  Nowhere = Nowhere
  MaxRequests = 5
SYMMETRY Symmetry
INVARIANTS FoundWhereFiled
PROPERTIES BindingsResolve UnsentFieldsKept
CHECK_DEADLOCK FALSE
