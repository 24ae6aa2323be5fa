SPECIFICATION Spec
CONSTANTS
  Admins = {a1, a2}
  Callers = {c1, c2}
  NoRow = NoRow
  Nobody = Nobody
  Limits = {0, 1, 2}
  Scopes = {"rag"}
  NewKeys <- MCNewKeys
  Patches <- MCPatches
  TenantQps = 1
  TenantQuota = 0
  Grace = 1
  Day = 2
  QpsTtl = 1
  QuotaTtl = 2
  MaxTime = 1
  MaxKeys = 3
  MaxOps = 3
  MaxCalls = 2
  MaxFaults = 1
INVARIANTS KeysInForce AdmittedWithinLimit
PROPERTIES RevokedStaysShut
SYMMETRY Symmetry
CHECK_DEADLOCK FALSE
