SPECIFICATION FairSpec
CONSTANTS
  Rows <- MCRows
  NoHandler <- MCNoHandler
  Poison <- MCPoison
  Workers = {w1, w2}
  BatchSize = 2
  MaxAttempts = 1
  MaxFaults = 1
CHECK_DEADLOCK FALSE
PROPERTY CrashedRowRunsAgain
