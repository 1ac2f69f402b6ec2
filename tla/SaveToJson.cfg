SPECIFICATION WalkSpec
CONSTANTS
  MaxDepth = 17
  MaxFrames = 7
  MaxElements = 2
INVARIANTS TypeOK WellFormed FlagIsPosition DocumentComplete
PROPERTY CallsAreLegal
CHECK_DEADLOCK FALSE
