SPECIFICATION Spec
CONSTANTS
  Docs = {d1}
  Clients = {c1, c2}
  Workers = {w1}
  NoMessage = NoMessage
  MaxVersion = 3
  MaxChunks = 1
  MaxConfig = 3
  MaxRetries = 1
  BackoffBase = 500
  MaxDisruptions = 0
  MaxUnconfirmed = 0
  MaxFaults = 2
  Modes = {TRUE, FALSE}
  Sources = {"file", "url"}
  Ops = {"upload", "reindex"}
SYMMETRY Symmetry
INVARIANTS SingleFlight RowsHavePoints OnlyLatestUntilFault
PROPERTY CurrentMonotone
CHECK_DEADLOCK FALSE
