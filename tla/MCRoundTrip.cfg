CONSTANTS
  Entries <- AllTargets
  MaxData = 12
  MaxRuns = 2
SPECIFICATION Spec
INVARIANT NoFalseAlarm
INVARIANT CheckedFaultsReported
INVARIANT StorageRoundTripsAfterInit
INVARIANT LongInputRoundTripped
CHECK_DEADLOCK FALSE
