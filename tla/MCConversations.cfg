SPECIFICATION Spec
CONSTANTS
  t1 = t1
  Sessions = {s1}
  Tenants = {t1}
  TenantOf <- MCTenantOf
  Clients = {c1, c2}
  Retention = 1
  Interval = 2
  Ops = {"create", "read", "close", "feedback", "send"}
  MaxTime = 4
  MaxRequests = 3
  MaxFaults = 1
SYMMETRY Symmetry
INVARIANTS NothingLeftBehind AnsweredIsKept
PROPERTIES ClosedForGood
CHECK_DEADLOCK FALSE
