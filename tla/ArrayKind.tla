----------------------------- MODULE ArrayKind -----------------------------
(***************************************************************************)
(* Dynamic arrays in a save, byte for byte.  The file gives an array's     *)
(* number of elements and its size but not what it holds: the reader       *)
(* (make_array_property, determine_array_property_kind, xcomreader.cpp)    *)
(* guesses that from the size and, failing that, from how the first bytes  *)
(* read when taken for strings.  Here the writer writes an array, other    *)
(* properties follow, and the reader guesses and reads.                    *)
(*                                                                         *)
(* The guess depends on the bytes, so strings are sequences of character   *)
(* codes and ints are four bytes, lowest first.  The elements of struct    *)
(* arrays hold int properties of index 0 only.                             *)
(***************************************************************************)
EXTENDS Integers, Sequences, SequencesExt

CONSTANTS
  None,         \* the characters of "None"
  IntProperty,  \* ... of the kind string of an int property
  KindNames,    \* ... of every property_kind_to_string(kind)
  Arrays,       \* the arrays to write, by kind: [kind, elements], raw ones [kind, bound, data]
  Tails         \* what may follow the array in the file

ASSUME ArrayAssumption ==
  /\ IntProperty \in KindNames
  /\ \A tail \in Tails : Len(tail) >= 5 /\ \A k \in 0..4 : tail[Len(tail) - k] = 0

VARIABLES
  arr,    \* the array written, fixed
  bytes,  \* the file from the array bound on, fixed
  pos,    \* the reader's cursor
  stage,  \* "bound", "first", "second", "third", "elements", "done", "thrown"
  kind,   \* the kind it decided on, "unknown" before
  got,    \* the elements read so far
  cur     \* the properties of the struct element being read

vars == <<arr, bytes, pos, stage, kind, got, cur>>

-----------------------------------------------------------------------------
(* Writing (xcomwriter.cpp: property_writer_visitor, write_property) *)

Word(v) == [k \in 1..4 |-> (v \div 256^(k - 1)) % 256]
Units(str) == FlattenSeq([k \in 1..Len(str) |-> <<str[k] % 256, str[k] \div 256>>])

UnicodeString(s) ==
  IF s.str = << >> THEN Word(0)
  ELSE IF s.wide THEN Word(-(Len(s.str) + 1)) \o Units(s.str) \o <<0, 0>>
  ELSE Word(Len(s.str) + 1) \o s.str \o <<0>>

String(str) == UnicodeString([str |-> str, wide |-> FALSE])

IntPropertyBytes(p) ==
  String(p.name) \o Word(0) \o String(IntProperty) \o Word(0) \o Word(4) \o Word(0) \o Word(p.value)
Terminator == String(None) \o Word(0)

Reference(actor) ==
  IF actor = -1 THEN Word(-1) \o Word(-1) ELSE Word(actor * 2 + 1) \o Word(actor * 2)

Mapped(F(_), s) == FlattenSeq([k \in 1..Len(s) |-> F(s[k])])

Body(a) ==
  CASE a.kind = "object" -> Mapped(Reference, a.elements)
    [] a.kind = "number" -> Mapped(Word, a.elements)
    [] a.kind = "string" -> Mapped(UnicodeString, a.elements)
    [] a.kind = "enum"   -> Mapped(LAMBDA e : String(e.name) \o Word(e.number), a.elements)
    [] a.kind = "struct" -> Mapped(LAMBDA e : Mapped(IntPropertyBytes, e) \o Terminator, a.elements)
    [] a.kind = "raw"    -> a.data

Bound(a) == IF a.kind = "raw" THEN a.bound ELSE Len(a.elements)
Encoded(a) == Word(Bound(a)) \o Body(a)

-----------------------------------------------------------------------------
(* Sizes, computed without the bytes (util.cpp, xcom.h) *)

Total(F(_), s) == FoldSeq(LAMBDA e, sum : F(e) + sum, 0, s)

StringSizeNoNul(s) ==  \* mutant: the second byte of the wide terminator is forgotten
  IF s.str = << >> THEN 4 ELSE IF s.wide THEN 5 + 2 * Len(s.str) ELSE Len(s.str) + 5

StringSize(s) ==
  IF s.str = << >> THEN 4 ELSE IF s.wide THEN 6 + 2 * Len(s.str) ELSE Len(s.str) + 5

EnumSize(e) == IF e.name = << >> THEN 8 ELSE 9 + Len(e.name)
FullSize(p) == 4 + (Len(p.name) + 5) + 4 + (Len(IntProperty) + 5) + 4 + 4 + 4

Size(a) ==
  4 + CASE a.kind = "object" -> 8 * Len(a.elements)
        [] a.kind = "number" -> 4 * Len(a.elements)
        [] a.kind = "string" -> Total(StringSize, a.elements)
        [] a.kind = "enum"   -> Total(EnumSize, a.elements)
        [] a.kind = "struct" -> 13 * Len(a.elements) + Total(LAMBDA e : Total(FullSize, e), a.elements)
        [] a.kind = "raw"    -> Len(a.data)

PropSize == Size(arr)  \* prop_size, which the reader finds before the array

-----------------------------------------------------------------------------
(* Reading (xcomio.cpp) *)

Fits(p, count) == count <= Len(bytes) - p

IntAt(p) ==
  LET high == IF bytes[p + 4] < 128 THEN bytes[p + 4] ELSE bytes[p + 4] - 256
  IN bytes[p + 1] + 256 * (bytes[p + 2] + 256 * (bytes[p + 3] + 256 * high))

Read(ok, val, at) == [ok |-> ok, val |-> val, pos |-> at]
Failed == Read(FALSE, 0, pos)  \* an exception

ReadInt(p) == IF Fits(p, 4) THEN Read(TRUE, IntAt(p), p + 4) ELSE Failed

\* The UTF-16 units from p to the first zero unit, whatever the length was.
Unit(p, k) == bytes[p + 2 * k + 1] + 256 * bytes[p + 2 * k + 2]
WideText(p) ==
  LET end == CHOOSE k \in 0..Len(bytes) : Unit(p, k) = 0 /\ \A j \in 0..(k - 1) : Unit(p, j) # 0
  IN [k \in 1..end |-> Unit(p, k - 1)]

\* utf16_to_utf8 throws on half a surrogate pair.
IsHigh(unit) == unit \in 55296..56319
IsLow(unit)  == unit \in 56320..57343
IsPaired(units) ==
  \A k \in 1..Len(units) :
    /\ IsHigh(units[k]) => k < Len(units) /\ IsLow(units[k + 1])
    /\ IsLow(units[k])  => k > 1 /\ IsHigh(units[k - 1])

IsTerminated(p, length) == \A k \in 1..length : bytes[p + k] = 0 <=> k = length

\* read_unicode_string(strict): a lenient read returns the empty string where a
\* strict one throws, and leaves the cursor behind the length it did not believe.
\* A conversion that fails throws in both.
ReadUnicodeString(p, strict) ==
  LET length == IntAt(p)
      Give(str, wide, at) == Read(TRUE, [str |-> str, wide |-> wide], at)
      Bad == IF strict THEN Failed ELSE Give(<< >>, FALSE, p + 4)
  IN CASE ~Fits(p, 4) -> Failed
       [] Fits(p, 4) /\ length = 0 -> Give(<< >>, FALSE, p + 4)
       [] Fits(p, 4) /\ length < 0 ->
            IF ~Fits(p + 4, -length) THEN Bad
            ELSE IF IsPaired(WideText(p + 4))
                 THEN Give(WideText(p + 4), TRUE, p + 4 - 2 * length) ELSE Failed
       [] Fits(p, 4) /\ length > 0 ->
            IF Fits(p + 4, length) /\ IsTerminated(p + 4, length)
            THEN Give(SubSeq(bytes, p + 5, p + 3 + length), FALSE, p + 4 + length) ELSE Bad

\* read_string(): no UTF-16.
ReadString(p) ==
  LET s == ReadUnicodeString(p, TRUE) IN
  IF s.ok /\ ~s.val.wide THEN Read(TRUE, s.val.str, s.pos) ELSE Failed

Unhalved(actor1) == actor1  \* mutant: the actor number is kept doubled

\* actor1 / 2, towards zero.
Half(actor1) == IF actor1 < 0 THEN -((-actor1) \div 2) ELSE actor1 \div 2

ReadActor(p) ==
  LET actor1 == IntAt(p)
      actor2 == IntAt(p + 4)
  IN CASE ~Fits(p, 8) -> Failed
       [] Fits(p, 8) /\ actor1 = -1 /\ actor2 = -1 -> Read(TRUE, -1, p + 8)
       [] Fits(p, 8) /\ actor1 = actor2 + 1 -> Read(TRUE, Half(actor1), p + 8)
       [] OTHER -> Failed

ReadEnum(p) ==
  LET name == ReadString(p)
      number == ReadInt(name.pos)
  IN IF name.ok /\ number.ok
     THEN Read(TRUE, [name |-> name.val, number |-> number.val], number.pos) ELSE Failed

-----------------------------------------------------------------------------
(* The reader's steps (xcomreader.cpp) *)

Init ==
  /\ \E k \in DOMAIN Arrays : arr \in Arrays[k]
  /\ \E tail \in Tails : bytes = Encoded(arr) \o tail
  /\ pos = 0 /\ stage = "bound" /\ kind = "unknown"
  /\ got = << >> /\ cur = << >>

ArrayBound == IntAt(0)
DataSize == PropSize - 4

Throw == stage' = "thrown" /\ UNCHANGED <<arr, bytes, pos, kind, got, cur>>
Sniff(next, p) == stage' = next /\ pos' = p /\ UNCHANGED <<arr, bytes, kind, got, cur>>

DecideHere(k) ==  \* mutant: the cursor is not taken back
  kind' = k /\ stage' = "elements" /\ UNCHANGED <<arr, bytes, pos, got, cur>>

\* The kind is known: reset_position took the cursor back to the first element.
Decide(k) ==
  kind' = k /\ stage' = "elements" /\ pos' = 4 /\ UNCHANGED <<arr, bytes, got, cur>>

\* make_array_property: object and number arrays are known by their size.
ReadBound ==
  /\ stage = "bound"
  /\ CASE DataSize = 0 -> Decide("raw")
       [] DataSize > 0 /\ ArrayBound * 8 = DataSize -> Decide("object")
       [] DataSize > 0 /\ ArrayBound * 4 = DataSize -> Decide("number")
       [] OTHER -> Sniff("first", 4)

\* determine_array_property_kind: a first string, skipping "None" and the int after it;
SniffFirst ==
  /\ stage = "first"
  /\ LET s == ReadUnicodeString(pos, FALSE) IN
     CASE ~s.ok -> Throw
       [] s.ok /\ s.val.str = << >> -> Decide("raw")
       [] s.ok /\ s.val.str = None ->
            IF Fits(s.pos, 4) THEN Sniff("first", s.pos + 4) ELSE Throw
       [] OTHER -> Sniff("second", s.pos)

\* another string right behind it, or an int;
SniffSecond ==
  /\ stage = "second"
  /\ LET s == ReadUnicodeString(pos, FALSE) IN
     CASE ~s.ok -> Throw
       [] s.ok /\ s.val.str # << >> -> Decide("string")
       [] OTHER -> Sniff("third", pos + 4)

\* and a string after that int.
SniffThird ==
  /\ stage = "third"
  /\ LET s == ReadUnicodeString(pos, FALSE) IN
     CASE ~s.ok -> Throw
       [] s.ok /\ s.val.str = << >> -> Decide("raw")
       [] s.ok /\ s.val.str \in KindNames -> Decide("struct")
       [] OTHER -> Decide("enum")

MoreElements == stage = "elements" /\ Len(got) < ArrayBound

ReadElement ==
  /\ MoreElements
  /\ kind \in {"object", "number", "string", "enum"}
  /\ LET r == CASE kind = "object" -> ReadActor(pos)
                [] kind = "number" -> ReadInt(pos)
                [] kind = "string" -> ReadUnicodeString(pos, TRUE)
                [] kind = "enum"   -> ReadEnum(pos)
     IN IF r.ok
        THEN pos' = r.pos /\ got' = Append(got, r.val) /\ UNCHANGED <<arr, bytes, stage, kind, cur>>
        ELSE Throw

\* One turn of the loop of read_properties: a property, or the end of the element.
ReadStructProperty ==
  /\ MoreElements /\ kind = "struct"
  /\ LET name == ReadString(pos)
         unknown1 == ReadInt(name.pos)
         type == ReadString(unknown1.pos)
         unknown2 == ReadInt(type.pos)
         begins == name.ok /\ unknown1.ok /\ unknown1.val = 0
         isEnd == begins /\ name.val = None
         isInt == /\ begins /\ name.val # None
                  /\ type.ok /\ type.val = IntProperty
                  /\ unknown2.ok /\ unknown2.val = 0 /\ Fits(unknown2.pos, 12)
     IN CASE isEnd -> /\ got' = Append(got, cur) /\ cur' = << >> /\ pos' = unknown1.pos
                      /\ UNCHANGED <<arr, bytes, stage, kind>>
          [] isInt -> /\ cur' = Append(cur, [name |-> name.val, value |-> IntAt(unknown2.pos + 8)])
                      /\ pos' = unknown2.pos + 12
                      /\ UNCHANGED <<arr, bytes, stage, kind, got>>
          [] OTHER -> Throw

ReadRaw ==
  /\ stage = "elements" /\ kind = "raw"
  /\ IF Fits(pos, DataSize)
     THEN /\ got' = SubSeq(bytes, pos + 1, pos + DataSize)
          /\ pos' = pos + DataSize /\ stage' = "done"
          /\ UNCHANGED <<arr, bytes, kind, cur>>
     ELSE Throw

Finish ==
  /\ stage = "elements" /\ kind # "raw" /\ Len(got) >= ArrayBound
  /\ stage' = "done"
  /\ UNCHANGED <<arr, bytes, pos, kind, got, cur>>

Next ==
  \/ ReadBound \/ SniffFirst \/ SniffSecond \/ SniffThird
  \/ ReadElement \/ ReadStructProperty \/ ReadRaw \/ Finish

Spec == Init /\ [][Next]_vars

\* The property make_array_property returns.
Result ==
  IF kind = "raw" THEN [kind |-> kind, bound |-> ArrayBound, data |-> got]
  ELSE [kind |-> kind, elements |-> got]

-----------------------------------------------------------------------------
(* Properties *)

Lead(names) == CHOOSE k \in 1..Len(names) : names[k] # None /\ \A j \in 1..(k - 1) : names[j] = None

\* Arrays without the features that mislead the guess (section 2 of the README).
Plain(a) ==
  /\ a.kind # "raw" /\ Len(a.elements) > 0
  /\ a.kind = "string" =>
       /\ Size(a) - 4 \notin {4 * Len(a.elements), 8 * Len(a.elements)}
       /\ a.elements[1].str \notin {<< >>, None}
       /\ Len(a.elements) > 1 => a.elements[2].str # << >>
  /\ a.kind = "enum" =>
       LET names == [k \in 1..Len(a.elements) |-> a.elements[k].name]
           lead == Lead(names)
       IN /\ \E k \in DOMAIN names : names[k] # None
          /\ names[lead] # << >>
          /\ a.elements[lead].number >= 0 /\ a.elements[lead].number # 2
          /\ lead < Len(names) => names[lead + 1] \notin KindNames \cup {<< >>}
  /\ a.kind = "struct" => \E k \in 1..Len(a.elements) : a.elements[k] # << >>

\* A plain array is recognised for what it is and read back element by element, to
\* its last byte, whatever follows it (xcomreader.cpp:177-338).
RecoversPlain ==
  Plain(arr) =>
    /\ stage # "thrown"
    /\ stage = "done" => kind = arr.kind /\ Result = arr /\ pos = PropSize

\* Actor numbers come in pairs 2k + 1, 2k: from another pair n + 1, n the reader keeps
\* too little to write it again (xcomreader.cpp:277-283).
PairsAreActors ==
  kind = "object" => \A k \in 1..ArrayBound :
    LET actor1 == IntAt(8 * k - 4)
        actor2 == IntAt(8 * k)
    IN (actor1 = -1 /\ actor2 = -1) \/ (actor2 >= 0 /\ actor2 % 2 = 0)

\* However an array was understood: if the reader left it where it ends, writing what
\* was read gives the bytes that were there (README.md:10, "almost entirely a 1:1
\* translation").
RewriteExact ==
  stage = "done" /\ pos = PropSize /\ PairsAreActors => Encoded(Result) = SubSeq(bytes, 1, PropSize)

\* The size written ahead of an array is the number of bytes written after it, of the
\* array that was written and of the one that was read (util.cpp:313-393, xcom.h:422-500).
SizeIsWritten ==
  /\ PropSize = Len(Encoded(arr))
  /\ stage = "done" => Size(Result) = Len(Encoded(Result))

\* assert(prop->size() == prop_size), xcomreader.cpp:445.
SizeAgrees == stage = "done" => Size(Result) = PropSize
=============================================================================
