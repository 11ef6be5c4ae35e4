CONSTANTS
  Bytes = {0, 1, 255}
  MaxLen = 8
  IntWidth = 2
  Shapes <- MCShapes
SPECIFICATION Spec
INVARIANT TypeOK
INVARIANT SliceLengthMatchesReference
PROPERTY ConsumerRefinesSpec
CHECK_DEADLOCK FALSE
