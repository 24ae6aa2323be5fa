SPECIFICATION MCSpec
CONSTANTS
  Docs = {d1}
  Clients = {c1}
  Workers = {w1, w2}
  NoMessage = NoMessage
  MaxVersion = 2
  MaxChunks = 1
  MaxConfig = 2
  MaxRetries = 1
  BackoffBase = 500
  MaxDisruptions = 1
  MaxUnconfirmed = 0
  MaxFaults = 0
  Modes = {TRUE, FALSE}
  Sources = {"file", "url"}
  Ops = {"upload", "reindex"}
  Low = 2
  High = 4
  MaxTokens = {1, 3, 9}
  Overlaps = {0, 1, 9}
  Tokens <- MCTokens
  Names <- MCNames
  Documents <- MCDocuments
INVARIANTS ChunksFit ChunksCoverTheText ChunksKeepTheirPlace
PROPERTY DocumentSettles
CHECK_DEADLOCK FALSE
