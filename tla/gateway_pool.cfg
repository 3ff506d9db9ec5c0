SPECIFICATION FairSpec
CONSTANTS
  w1 = w1
  w2 = w2
  w3 = w3
  None = None
  Calls = 4
  Worker = {w1, w2, w3}
  MaxAttempts = 3
  RetrySafe = {0, 2}
  FailFast = TRUE
INVARIANTS
  UnsafeRunsOnce
PROPERTIES
  NothingStartsAfterStop
  EveryCallIsAnswered
CHECK_DEADLOCK FALSE
