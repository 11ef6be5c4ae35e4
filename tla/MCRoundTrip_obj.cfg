CONSTANTS
  Entries <- ObjectRoundtrip
  MaxData = 12
  MaxRuns = 1
SPECIFICATION Spec
INVARIANT FaultsReported
CHECK_DEADLOCK FALSE
