----------------------------- MODULE XcomBuffer -----------------------------
(***************************************************************************)
(* class xcom_io (xcomio.h, xcomio.cpp) as operators: the growable byte    *)
(* buffer (start_, length_) with a cursor (ptr_), its write calls and its  *)
(* read calls.  XcomIO, XcomIOReader and SaveContainer build their state   *)
(* machines from them.                                                     *)
(*                                                                         *)
(* A byte is a cell <<tag, value, index>>: a cell of a 4-byte int carries  *)
(* the int and its byte index, a character cell the character.  The bytes  *)
(* of a UTF-16 character are two cells.  A buffer being written is a       *)
(* record with fields                                                      *)
(*   start    the cells, a function on 1..length                           *)
(*   length   the capacity, length_                                        *)
(*   ptr      the cursor as an offset, ptr_ - start_                       *)
(*   thrown   ensure() threw "save file overflow"                          *)
(*   reserved history: the largest offset up to which ensure() promised    *)
(*            room (xcomio.h:132); the code has no such field              *)
(* and a buffer being read is a record with start, length, ptr, thrown and *)
(*   noise    what an int is when it is read from bytes that never were    *)
(*            one (a damaged or misread buffer)                            *)
(***************************************************************************)
EXTENDS Integers, Sequences

CONSTANTS
  IntSize,     \* bytes in an int32_t: 4 in the code
  InitialSize, \* xcom_io::initial_size: 2^20 in the code
  MaxInt       \* the largest int32_t

ASSUME SizeAssumption ==
  /\ IntSize \in Nat \ {0}
  /\ InitialSize \in Nat \ {0}
  /\ MaxInt \in Nat
  /\ InitialSize <= MaxInt

-----------------------------------------------------------------------------
(* Cells and encodings *)

Zero == <<"zero", 0, 1>>       \* a zero byte, terminators included
Junk == <<"junk", 0, 1>>       \* a byte of new char[]: not initialised

IntCells(v)    == [k \in 1..IntSize |-> <<"int", v, k>>]
ByteCell(c)    == <<"chr", c, 1>>
NarrowCells(s) == [k \in 1..Len(s) |-> ByteCell(s[k])]
WideCells(s)   == [k \in 1..2*Len(s) |-> <<"chr16", s[(k + 1) \div 2], 2 - (k % 2)>>]

\* A text: a finite sequence of any characters, and whether it is written as UTF-16.
IsText(s) ==
  /\ s = [str |-> s.str, wide |-> s.wide]
  /\ s.str \in Seq({s.str[i] : i \in DOMAIN s.str})
  /\ s.wide \in BOOLEAN

\* Bytes write_unicode_string asks ensure for; an empty string is just an int.
StringSize(s) ==
  IF s.str = << >> THEN IntSize
  ELSE IF s.wide THEN 2 * (Len(s.str) + 1) + IntSize
  ELSE Len(s.str) + 1 + IntSize

\* The length field of a non-empty string: negative for UTF-16, terminator counted.
LengthField(s) == IF s.wide THEN -(Len(s.str) + 1) ELSE Len(s.str) + 1

\* Characters and terminator.
StringBody(s) ==
  IF s.wide THEN WideCells(s.str) \o <<Zero, Zero>> ELSE NarrowCells(s.str) \o <<Zero>>

EncString(s) ==
  IF s.str = << >> THEN IntCells(0) ELSE IntCells(LengthField(s)) \o StringBody(s)

-----------------------------------------------------------------------------
(* The buffer *)

Empty == [start |-> [i \in 1..InitialSize |-> Zero], length |-> InitialSize,
          ptr |-> 0, thrown |-> FALSE, reserved |-> 0]

\* The request fits behind the cursor.
HasRoomUnlessEmpty(b, count) == count <= b.length                     \* mutant
HasRoom(b, count) == b.ptr + count <= b.length

\* The doubled length is still an int32_t (cast and sign test of ensure).
MayGrowLate(b) == b.length <= MaxInt                                  \* mutant
MayGrow(b) == 2 * b.length <= MaxInt

\* new char[] of twice the length; only the cells before the cursor are copied.
GrownUncopied(b) ==                                                   \* mutant
  [b EXCEPT !.length = 2 * b.length, !.start = [i \in 1..2*b.length |-> Junk]]
Grown(b) ==
  [b EXCEPT !.length = 2 * b.length,
            !.start = [i \in 1..2*b.length |-> IF i <= b.ptr THEN b.start[i] ELSE Junk]]

\* ensure(count): at most one doubling, or an exception.
Ensure(b, count) ==
  LET r == [b EXCEPT !.reserved = IF @ < b.ptr + count THEN b.ptr + count ELSE @] IN
  IF HasRoom(b, count) THEN r
  ELSE IF MayGrow(b) THEN Grown(r)
  ELSE [b EXCEPT !.thrown = TRUE]

\* Store cells at the cursor and advance it.  Cells past the buffer's end are
\* not part of the object; the cursor moves all the same.
Put(b, cells) ==
  [b EXCEPT !.start = [i \in 1..b.length |-> IF b.ptr < i /\ i <= b.ptr + Len(cells)
                                             THEN cells[i - b.ptr] ELSE b.start[i]],
            !.ptr = b.ptr + Len(cells)]

EnsureAndPut(b, cells) ==
  LET e == Ensure(b, Len(cells)) IN IF e.thrown THEN e ELSE Put(e, cells)

IntWritten(b, v) == EnsureAndPut(b, IntCells(v))

\* write_unicode_string: room for the whole record first, then the length field
\* (with an ensure of its own), then characters and terminator with none.
StringWritten(b, s) ==
  IF s.str = << >> THEN IntWritten(b, 0)
  ELSE LET e == Ensure(b, StringSize(s)) IN
       IF e.thrown THEN e
       ELSE LET h == IntWritten(e, LengthField(s)) IN
            IF h.thrown THEN h ELSE Put(h, StringBody(s))

\* The bytes before the cursor: what was written.
Contents(b) == [i \in 1..b.ptr |-> b.start[i]]

\* A buffer object: the cells are those of the buffer of length_ bytes.
IsBuffer(b) ==
  /\ b = [start |-> b.start, length |-> b.length, ptr |-> b.ptr,
          thrown |-> b.thrown, reserved |-> b.reserved]
  /\ b.length \in Nat \ {0}
  /\ b.start = [i \in 1..b.length |-> b.start[i]]
  /\ b.ptr \in Nat
  /\ b.reserved \in Nat
  /\ b.thrown \in BOOLEAN

-----------------------------------------------------------------------------
(* The read calls.  Each returns the reader after the call and the value.  *)

Reader(cells, noise) ==
  [start |-> cells, length |-> Len(cells), ptr |-> 0, thrown |-> FALSE, noise |-> noise]

\* At least count bytes remain.
BoundsCheckSkewed(r, count) == r.length + 1 >= r.ptr + count          \* mutant
BoundsCheck(r, count) == r.length >= r.ptr + count

Eof(r) == r.ptr >= r.length

Throw(r)          == [rd |-> [r EXCEPT !.thrown = TRUE], val |-> << >>]
Skip(r, n, value) == [rd |-> [r EXCEPT !.ptr = @ + n], val |-> value]

\* The byte n after the cursor, and the int the cursor points to.
CellAt(r, n)   == r.start[r.ptr + 1 + n]
IntAtCursor(r) ==
  IF CellAt(r, 0)[1] \in {"int", "zero"} THEN CellAt(r, 0)[2] ELSE r.noise
IsNul(cell)    == cell = Zero \/ (cell[1] = "int" /\ cell[2] = 0)

ReadInt(r) == IF BoundsCheck(r, IntSize) THEN Skip(r, IntSize, IntAtCursor(r)) ELSE Throw(r)

ReadRaw(r, count) ==
  IF BoundsCheck(r, count)
  THEN Skip(r, count, [k \in 1..count |-> CellAt(r, k - 1)[2]])
  ELSE Throw(r)

\* strlen of the bytes at the cursor, in units of width bytes per character.
Terminators(r, width) ==
  {k \in 0..(r.length - r.ptr) \div width :
     r.ptr + k * width < r.length /\ IsNul(CellAt(r, k * width))}
Strlen(r, width) == CHOOSE k \in Terminators(r, width) : \A j \in Terminators(r, width) : k <= j

Text(r, width) == [k \in 1..Strlen(r, width) |-> CellAt(r, (k - 1) * width)[2]]

\* UTF-16: the length field counts characters; the bounds check counts it as bytes.
ReadWide(r, count) ==
  IF ~BoundsCheck(r, count) THEN Throw(r)
  ELSE Skip(r, 2 * count, [str |-> IF Terminators(r, 2) = {} THEN << >> ELSE Text(r, 2),
                           wide |-> TRUE])

\* Latin-1: the length field must agree with the position of the terminator.
ReadNarrow(r, count) ==
  IF ~BoundsCheck(r, count) \/ Terminators(r, 1) = {} \/ Strlen(r, 1) # count - 1 THEN Throw(r)
  ELSE Skip(r, count, [str |-> Text(r, 1), wide |-> FALSE])

ReadUnicodeString(r) ==
  LET n == ReadInt(r) IN
  IF n.rd.thrown THEN n
  ELSE IF n.val = 0 THEN Skip(n.rd, 0, [str |-> << >>, wide |-> FALSE])
  ELSE IF n.val < 0 THEN ReadWide(n.rd, -n.val)
  ELSE ReadNarrow(n.rd, n.val)

\* read_string: Latin-1 only.
ReadString(r) ==
  LET s == ReadUnicodeString(r) IN
  IF ~s.rd.thrown /\ s.val.wide THEN Throw(s.rd) ELSE s
=============================================================================
