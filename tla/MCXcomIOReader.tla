--------------------------- MODULE MCXcomIOReader ---------------------------
(***************************************************************************)
(* Small instance of XcomIOReader: 2-cell ints, a buffer of 8 cells that   *)
(* may grow once to 16 and then overflows (MaxInt = 17), every sequence of *)
(* up to MaxItems records, no request larger than the initial buffer.      *)
(***************************************************************************)
EXTENDS XcomIOReader

CONSTANTS a, b

MCInts == {0, 3}
MCStrs == {<< >>, <<a, b>>}
MCRaws == {<<b, b, b>>}
MCPads == {5}
=============================================================================
