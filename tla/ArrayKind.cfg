SPECIFICATION Spec
CONSTANTS
  None <- MCNone
  IntProperty <- MCIntProperty
  KindNames <- MCKindNames
  Arrays <- MCArrays
  Tails <- MCTails
INVARIANTS RecoversPlain RewriteExact SizeIsWritten
CHECK_DEADLOCK FALSE
