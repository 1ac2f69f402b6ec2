CONSTANTS
  Jobs <- MCJobs
  Poly <- MCPoly
SPECIFICATION Spec
INVARIANTS StringsKept RefusedByReaderOnly HexKept CrcIsRemainder NamesKept
