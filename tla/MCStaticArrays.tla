--------------------------- MODULE MCStaticArrays ---------------------------
(***************************************************************************)
(* Small instance of StaticArrays: every list of up to three properties of *)
(* two names, four kinds and the indices 0 to 2, and every list of four    *)
(* int properties, so that an array may follow an array.                   *)
(***************************************************************************)
EXTENDS StaticArrays

CONSTANTS a, b

MCNames == {a, b}

Prop(kinds) == [name : MCNames, kind : kinds, index : 0..2]

MCFiles ==
  UNION {[1..n -> Prop(Kinds)] : n \in 0..3} \cup [1..4 -> Prop({"int"})]
=============================================================================
