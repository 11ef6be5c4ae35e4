CONSTANTS
  w1 = w1
  w2 = w2
  Workers = {w1, w2}
  Target <- OnePerTarget
  MaxRuns = 3
  DataLens = {1, 2}
SPECIFICATION Spec
INVARIANT OwnInputRead
INVARIANT TraceFileRemoved
PROPERTY AllRunsFinish
CHECK_DEADLOCK FALSE
