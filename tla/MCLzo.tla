-------------------------------- MODULE MCLzo --------------------------------
(* Chunks made of repeated and fresh pieces, so that every match and literal encoding occurs at
   several distances and across blocks; incompressible chunks around every length the code
   tells apart; constant chunks; and a chunk with the two short matches that only the game's
   own compressor emits. *)
EXTENDS LzoFormat

\* The bytes 100, 101, ...
Fresh(n)  == [k \in 1..n |-> (100 + 7 * k) % 251]
Level(n)   == [k \in 1..n |-> 5]

Lengths == (1..5) \cup (19..22) \cup (30..35) \cup (53..54) \cup (73..77) \cup {238, 239, 290}

A == <<1, 2, 3, 4, 5>>
B == <<11, 12, 13, 14, 15, 16, 17, 18, 19, 20, 21, 22>>
Pieces == {A, B, <<31>>, <<41, 42>>, <<51, 52, 53, 54>>}

Pieced == {x \o y \o z : x \in Pieces, y \in Pieces, z \in Pieces}

MCInputs ==
  {Fresh(n) : n \in Lengths} \cup {Level(n) : n \in Lengths}
  \cup {p \o Fresh(22) : p \in Pieced}
  \cup {A \o Fresh(m) \o A \o Level(12) \o B \o Fresh(20) : m \in {9, 25, 35, 36, 37, 40, 60}}
  \cup {Fresh(k) \o A \o A \o Level(n) \o Fresh(3) \o Level(30) : k \in {0, 50, 51, 52, 53}, n \in {20, 60}}

MCGameMade ==
  {[text   |-> Fresh(12) \o SubSeq(Fresh(12), 4, 6) \o <<61, 62, 61, 62>>,
    stream |-> <<17 + 12>> \o Fresh(12) \o <<2, 0>> \o <<61, 62>> \o <<4, 0>> \o <<17, 0, 0>>]}

\* The places of the game's stream, in order: what the theorems assume of GameMade holds here.
GameWay == {<<"first", 0, 0, 0>>, <<"after", 13, 0, 12>>, <<"trailing", 15, 2, 15>>,
            <<"match", 17, 0, 17>>, <<"literals", 19, 0, 19>>, <<"match", 19, 0, 19>>}

ASSUME GameMadeAssumption ==
  /\ <<"first", 0, 0, 0>> \in GameWay /\ GameWay \subseteq Place
  /\ \A g \in GameMade : IsWay(g.stream, g.text, GameWay)
=============================================================================
