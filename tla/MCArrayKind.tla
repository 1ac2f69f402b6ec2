---------------------------- MODULE MCArrayKind ----------------------------
(***************************************************************************)
(* Small arrays for ArrayKind: up to three elements of every kind, drawn   *)
(* from values that are ordinary or misleading.                            *)
(***************************************************************************)
EXTENDS ArrayKind

MCNone        == <<78, 111, 110, 101>>
MCIntProperty == <<73, 110, 116, 80, 114, 111, 112, 101, 114, 116, 121>>
MCKindNames   == {MCIntProperty}

ArraysOf(k, elements, n) == {[kind |-> k, elements |-> s] : s \in SeqOf(elements, n)}

s1 == <<101>>           \* three short names
s2 == <<233, 102>>
s3 == <<97, 98, 99>>

Strings ==
  {[str |-> str, wide |-> FALSE] : str \in {<< >>, s1, s2, s3, MCNone}}
  \cup {[str |-> str, wide |-> TRUE] : str \in {s1, <<1078, 8364>>}}

Enums(names, numbers) == [name : names, number : numbers]

IntProps == [name : {s1, s2}, value : {0, 2}]
Elements == SeqOf(IntProps, 1) \cup {<<[name |-> s1, value |-> 1], [name |-> s3, value |-> -1]>>}

Raws ==
  {[kind |-> "raw", bound |-> 0, data |-> << >>],
   [kind |-> "raw", bound |-> 1, data |-> <<1, 2, 3>>],
   [kind |-> "raw", bound |-> 2, data |-> <<2, 0, 0, 0, 65, 0, 0, 0, 0, 0, 0, 0, 7>>],
   [kind |-> "raw", bound |-> 1, data |-> <<2, 0, 0, 0, 65, 0, 247, 255, 255, 255, 66, 0>>],
   [kind |-> "raw", bound |-> 1, data |-> <<243, 255, 255, 255, 66>>],
   \* Half a surrogate pair, and a whole one.
   [kind |-> "raw", bound |-> 1, data |-> <<254, 255, 255, 255, 0, 216, 0, 0, 7>>],
   [kind |-> "raw", bound |-> 1, data |-> <<253, 255, 255, 255, 0, 216, 0, 220, 0, 0, 7>>]}

StringArrays == ArraysOf("string", Strings, 3)
\* The numbers of extended enums (xcom.h:230-232).
LongWarEnums == ArraysOf("enum", Enums({s1, s2}, {0, 1, 2, 600}), 2)
EnumArrays ==
  ArraysOf("enum", Enums({<< >>, MCNone, s1}, {0, 2, -1}), 3)
  \cup ArraysOf("enum", Enums({s2, MCIntProperty}, {0, 1, 2}), 2) \cup LongWarEnums

MCArrays ==
  [object |-> ArraysOf("object", {-1, 0, 5, 300}, 3),
   number |-> ArraysOf("number", {-1, 0, 2, 70000}, 3),
   string |-> StringArrays,
   enum   |-> EnumArrays,
   struct |-> ArraysOf("struct", Elements, 3),
   raw    |-> Raws]

\* Strings alone.
MCStrings == [string |-> StringArrays]

\* The properties after the array end; the template index of the checkpoint and empty
\* tables follow.  Or another property comes first.
Rest == Terminator \o Word(3) \o Word(0) \o Word(0)
MCTails == {Rest, IntPropertyBytes([name |-> s3, value |-> 9]) \o Rest}
=============================================================================
