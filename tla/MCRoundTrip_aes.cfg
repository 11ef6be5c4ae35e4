CONSTANTS
  Entries <- AesRoundtrip
  MaxData = 6
  MaxRuns = 1
SPECIFICATION Spec
INVARIANT FaultsReported
CHECK_DEADLOCK FALSE
