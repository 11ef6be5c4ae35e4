CONSTANTS
  w1 = w1
  w2 = w2
  Workers = {w1, w2}
  Target <- BothReadLogs
  MaxRuns = 2
  DataLens = {1, 2}
SPECIFICATION Spec
INVARIANT OwnInputRead
CHECK_DEADLOCK FALSE
