CONSTANTS
  Entries <- AllEntries
  IntVals <- MCIntVals
  MaxInput = 8
  MaxRaw = 13
SPECIFICATION Spec
INVARIANT ContainerListsComplete
CHECK_DEADLOCK FALSE
