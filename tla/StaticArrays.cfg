SPECIFICATION Spec
CONSTANTS
  a = a
  b = b
  Names <- MCNames
  Files <- MCFiles
INVARIANTS OrderKept DenseExact NoCrash WrittenIsDense
CHECK_DEADLOCK FALSE
