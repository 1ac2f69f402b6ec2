SPECIFICATION Spec
CONSTANTS
  a = a
  b = b
  IntSize = 1
  InitialSize = 1
  MaxInt = 1000
  Saves <- MCSmallTail
  EnemyUnknown = 15
  EnemyWithin = 16
  Android = 19
  HdrSize = 22
  MaxChunk = 40
  Overhead = 2
  Magic = 77
  Noise <- MCNoise
  MaxFaults = 0
INVARIANT WrittenIsReadable
CHECK_DEADLOCK FALSE
