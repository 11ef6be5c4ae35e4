CONSTANTS
  Entries <- AllEntries
  MaxData = 11
  Excluded <- KnownBad
SPECIFICATION Spec
INVARIANT TypeOK
INVARIANT ValidationInputDispatched
PROPERTY ArgsFromInput
CHECK_DEADLOCK FALSE
