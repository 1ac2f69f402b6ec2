------------------------------- MODULE XcomIO -------------------------------
(***************************************************************************)
(* The writing half of xcom_io as a state machine: any sequence of write   *)
(* calls until one of them throws.  Every write calls ensure() first,      *)
(* which doubles the buffer when the request does not fit, copies the      *)
(* cells before the cursor and leaves the rest uninitialised.              *)
(***************************************************************************)
EXTENDS XcomBuffer

CONSTANTS
  Ints,        \* values given to write_int, write_float, write_bool
  Strs,        \* character sequences given to write_unicode_string
  Wides,       \* the is_wide flags they come with
  Raws,        \* byte sequences given to write_raw
  Pads         \* pad sizes for which write_checkpoint calls ensure

\* Character sequences are finite sequences, of any characters.
ASSUME DataAssumption ==
  /\ \A s \in Strs : s \in Seq({s[i] : i \in DOMAIN s})
  /\ \A s \in Raws : s \in Seq({s[i] : i \in DOMAIN s})
  /\ Wides \subseteq BOOLEAN
  /\ Pads \subseteq Nat

XcomString == [str : Strs, wide : Wides]

VARIABLE io     \* the xcom_io object

-----------------------------------------------------------------------------
Init == io = Empty

WriteInt(v)           == ~io.thrown /\ io' = IntWritten(io, v)
WriteUnicodeString(s) == ~io.thrown /\ io' = StringWritten(io, s)
WriteByte(c)          == ~io.thrown /\ io' = EnsureAndPut(io, <<ByteCell(c)>>)
WriteRaw(s)           == ~io.thrown /\ io' = EnsureAndPut(io, NarrowCells(s))

\* write_checkpoint reserves the padding before it writes it byte by byte.
EnsurePad(n)          == ~io.thrown /\ io' = Ensure(io, n)

Bytes == UNION {{s[i] : i \in DOMAIN s} : s \in Raws}

Next ==
  \/ \E v \in Ints : WriteInt(v)
  \/ \E s \in XcomString : WriteUnicodeString(s)
  \/ \E c \in Bytes : WriteByte(c)
  \/ \E s \in Raws : WriteRaw(s)
  \/ \E n \in Pads : EnsurePad(n)

Spec == Init /\ [][Next]_io

-----------------------------------------------------------------------------
(* Properties *)

\* Type of the buffer object (xcomio.h:160-168), whose length is an int32_t.
TypeOK == IsBuffer(io) /\ io.length <= MaxInt

\* "Ensure enough space exists in the internal buffer to hold count bytes"
\* (xcomio.h:132): after ensure(count) the buffer reaches count bytes past the
\* cursor, and no write moves the cursor out of what was reserved.
EnsureMakesRoom == io.ptr <= io.reserved /\ io.reserved <= io.length

\* The buffer holds exactly the records written, in order, across any number
\* of growths: the abstract log is the part of the buffer before the cursor.
Records ==
  {IntCells(v) : v \in Ints} \cup {EncString(s) : s \in XcomString}
    \cup {<<ByteCell(c)>> : c \in Bytes} \cup {NarrowCells(s) : s \in Raws}

Log == INSTANCE ByteLog WITH log <- Contents(io), open <- ~io.thrown

\* xcom_io implements an append-only log (ensure copies every byte written so
\* far, xcomio.cpp:196-200, and a record is written whole or not at all).
ImplementsLog == Log!Spec

\* The requests a run makes, and the condition under which one doubling is enough:
\* none is larger than the initial buffer (1 MiB).
Requests == {IntSize, 1} \cup {StringSize(s) : s \in XcomString}
              \cup {Len(s) : s \in Raws} \cup Pads
SmallRequests == \A n \in Requests : n <= InitialSize
=============================================================================
