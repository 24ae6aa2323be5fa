SPECIFICATION Spec
CONSTANTS
  k1 = k1
  k2 = k2
  c1 = c1
  c2 = c2
  c3 = c3
  c4 = c4
  Unknown = Unknown
  KBs <- MCKBs
  Chunks <- MCChunks
  KBOf <- MCKBOf
  DocOf <- MCDocOf
  TextOf <- MCTextOf
  Weight <- MCWeight
  Similarity <- MCSimilarity
  Overlap <- MCOverlap
  Orders <- OnceOrders
  CutInCharacter = {c4}
  RerankWeight = 30
  MaxContextBlocks = 2
  MaxBlocksPerDoc = 1
  TopKs = {2, 4}
  Thresholds = {20, 75}
  MaxChanges = 1
  MaxFailures = 1
INVARIANT NothingFoundIsNothingThere
INVARIANT BestEvidenceKept
INVARIANT RerankingNeverRescues
INVARIANT GroundedAtRest
CHECK_DEADLOCK FALSE
