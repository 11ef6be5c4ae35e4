CONSTANTS
  Entries <- ParseEnvOnly
  IntVals <- MCIntVals
  MaxInput = 6
  MaxRaw = 13
SPECIFICATION Spec
INVARIANT ParseEnvGetsReadStrings
CHECK_DEADLOCK FALSE
