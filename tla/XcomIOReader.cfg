SPECIFICATION SessionSpec
CONSTANTS
  a = a
  b = b
  Ints <- MCInts
  Strs <- MCStrs
  Wides = {TRUE, FALSE}
  Raws <- MCRaws
  Pads <- MCPads
  IntSize = 2
  InitialSize = 8
  MaxInt = 17
  Cuts = {0, 1, 2, 3}
  MaxItems = 4
INVARIANTS TypeOK EnsureMakesRoom RoundTrip NarrowLossIsNoticed
PROPERTY ImplementsLog
CHECK_DEADLOCK FALSE
