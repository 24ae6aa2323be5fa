SPECIFICATION FairSpec
CONSTANTS
  Jobs = {j1, j2}
  Workers = {w1, w2}
  NoMessage = NoMessage
  MaxRetries = 1
  Backoffs = {0, 500}
  MaxDisruptions = 3
  j1 = j1
  j2 = j2
  w1 = w1
  w2 = w2
INVARIANT CopiesArePaidFor
PROPERTY SettlesInPeace
CHECK_DEADLOCK FALSE
