SPECIFICATION Spec
CONSTANTS
  Procs = {p1, p2}
  Chosen = {"user", "permission", "api_key", "bot_kb"}
  Plan <- MCPlan
  NotInTable <- LeftToLater
  Databases <- MCDatabases
  MaxFaults = 1
  MaxOldWrites = 1
INVARIANTS TypeOK ServingIsComplete
PROPERTIES AloneNeverFails AllServe
CHECK_DEADLOCK FALSE
