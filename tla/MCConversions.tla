--------------------------- MODULE MCConversions ----------------------------
(* All strings of up to three characters from each end of every range the code and UTF-8
   tell apart, blocks of up to two bytes, messages of up to three, and short actor names. *)
EXTENDS Conversions

UpTo(n, s) == UNION {[1..k -> s] : k \in 1..n}

\* 0x04c11db7
MCPoly == <<0,0,0,0,0,1,0,0, 1,1,0,0,0,0,0,1, 0,0,0,1,1,1,0,1, 1,0,1,1,0,1,1,1>>

Latin1Chars == {0, 1, 9, 10, 31, 34, 65, 92, 127, 128, 191, 192, 255}
Units       == {0, 1, 34, 127, 128, 2047, 2048, 55295, 55296, 56319, 56320, 57343, 57344, 65535}

Package == 80
NameParts == UpTo(2, {Package, Dot, Underscore})

MCJobs ==
  {[kind |-> "narrow", data |-> d] : d \in UpTo(3, Latin1Chars)}
  \cup {[kind |-> "wide", data |-> d] : d \in UpTo(3, Units)}
  \cup {[kind |-> "typed", data |-> d] : d \in UpTo(3, {9, 34, 65, 92, 110, 233})}
  \cup {[kind |-> "digits", data |-> d] : d \in UpTo(3, {48, 57, 65, 70, 97, 102, 103})}
  \cup {[kind |-> "hex", data |-> d] : d \in {<< >>} \cup UpTo(2, {0, 9, 10, 15, 16, 159, 160, 171, 255})}
  \cup {[kind |-> "crc", data |-> d] : d \in {<< >>} \cup UpTo(3, {0, 1, 84, 128, 255})}
  \cup {[kind |-> "name", data |-> [eu |-> FALSE, package |-> p, cls |-> c, instance |-> i]] :
           p \in NameParts, c \in NameParts, i \in {0, 1, 10, 11, 101}}
  \cup {[kind |-> "name", data |-> [eu |-> TRUE, package |-> << >>, cls |-> c, instance |-> i]] :
           c \in NameParts, i \in {0, 1, 10, 11, 101}}
=============================================================================
