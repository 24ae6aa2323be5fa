SPECIFICATION Spec
CONSTANTS
  Docs = {d1}
  Clients = {c1, c2}
  Workers = {w1}
  NoMessage = NoMessage
  MaxVersion = 2
  MaxChunks = 1
  MaxConfig = 2
  MaxRetries = 1
  BackoffBase = 500
  MaxDisruptions = 1
  MaxUnconfirmed = 1
  MaxFaults = 1
  Modes = {TRUE}
  Sources = {"file", "url"}
  Ops = {"upload", "reindex", "rollback", "delete"}
SYMMETRY Symmetry
INVARIANTS TypeOK CurrentVersionExists ServedUntilFault StrandedByLoss
CHECK_DEADLOCK FALSE
