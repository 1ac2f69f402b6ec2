SPECIFICATION Spec
CONSTANTS
  Accented <- MCAccented
  Inputs <- MCInputs
INVARIANTS
  RewriteExact
  SizesAgree
  EndsRight
