SPECIFICATION FairSpec
CONSTANTS
  Jobs = {j1, j2}
  Workers = {w1, w2}
  NoMessage = NoMessage
  MaxRetries = 1
  BackoffBase = 500
  MaxDisruptions = 2
  MaxUnconfirmed = 1
  j1 = j1
  j2 = j2
  w1 = w1
  w2 = w2
INVARIANTS TypeOK NoJobLost DeadLetterEarned
PROPERTIES DeliversAtLeastOnce JobsSettle
CHECK_DEADLOCK FALSE
