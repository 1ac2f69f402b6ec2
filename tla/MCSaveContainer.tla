-------------------------- MODULE MCSaveContainer --------------------------
(***************************************************************************)
(* Small instances of SaveContainer: ints of one cell, a header area of 22 *)
(* cells, chunks of at most 40 bytes.  Payloads of one and two chunks; the *)
(* second chunk is as small as each question needs.                        *)
(***************************************************************************)
EXTENDS SaveContainer

CONSTANTS a, b

None  == [str |-> << >>, wide |-> FALSE]
Narrow == [str |-> <<a>>, wide |-> FALSE]
Wide   == [str |-> <<a, b>>, wide |-> TRUE]

Same(n) == [k \in 1..n |-> 1]
Mixed(n, r) == [k \in 1..n |-> IF k <= r THEN k % 2 ELSE 1]

Fields(v, desc, tactical) ==
  <<v, 0, 3, 4, desc, None, None, tactical, 1, 0, None, None>>
Save(v, desc, tactical, payload) ==
  [fields  |-> Fields(v, desc, tactical),
   profile |-> IF v = Android THEN <<7, Narrow>> ELSE << >>,
   payload |-> payload]

\* Saves whose header and output fit; on Android no chunk is tiny.
MCSaves ==
  {Save(EnemyWithin, Wide, 0, Same(41)), Save(EnemyWithin, Narrow, 1, Same(35)),
   Save(EnemyUnknown, Narrow, 0, Mixed(36, 4)), Save(Android, None, 0, Same(44))}

\* An Android save with a last chunk of one byte.
MCSmallTail == {Save(Android, None, 0, Same(41))}

MCNoise == {0, 19, 99}
=============================================================================
