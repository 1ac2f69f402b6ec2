SPECIFICATION Spec
CONSTANTS
  None <- MCNone
  IntProperty <- MCIntProperty
  KindNames <- MCKindNames
  Arrays <- MCStrings
  Tails <- MCTails
INVARIANTS SizeAgrees
CHECK_DEADLOCK FALSE
