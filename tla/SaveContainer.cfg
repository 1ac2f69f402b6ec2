SPECIFICATION Spec
CONSTANTS
  a = a
  b = b
  IntSize = 1
  InitialSize = 1
  MaxInt = 1000
  Saves <- MCSaves
  EnemyUnknown = 15
  EnemyWithin = 16
  Android = 19
  HdrSize = 22
  MaxChunk = 40
  Overhead = 2
  Magic = 77
  Noise <- MCNoise
  MaxFaults = 1
INVARIANTS UndamagedExact
PROPERTIES ImplementsChannel
CHECK_DEADLOCK FALSE
