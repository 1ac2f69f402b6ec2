SPECIFICATION Spec
CONSTANTS
  Start = 1
  Length = 8
  HeadSize = 6
  HeadRead = 4
  MaxInt = 15
  PackedSizes <- MCPackedSizes
  Sizes <- MCSizes
INVARIANTS FillsBuffer
PROPERTIES Ends
CHECK_DEADLOCK FALSE
