CONSTANTS
  Entries <- ValidationOnly
  MaxData = 11
  Excluded <- NothingExcluded
SPECIFICATION Spec
PROPERTY ArgsFromInput
CHECK_DEADLOCK FALSE
