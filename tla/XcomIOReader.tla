---------------------------- MODULE XcomIOReader ----------------------------
(***************************************************************************)
(* The reading half of xcom_io, composed with the writing half: a session  *)
(* writes records, hands over the bytes before the cursor (compress() and  *)
(* decompress() carry exactly those from one process to another) and reads *)
(* them back with the matching read calls.  What the bytes mean is known   *)
(* to the reader only from the order of its calls, so one call that takes  *)
(* one byte too many or too few derails everything after it.               *)
(***************************************************************************)
EXTENDS XcomIO

CONSTANTS
  Cuts,      \* how many bytes may be missing at the end of what is read
  MaxItems   \* bound on the records of a session

ASSUME CutsAssumption == Cuts \subseteq Nat

VARIABLES
  items,    \* history: the records written, <<kind, value>>
  reading,  \* the buffer was handed over to a reader
  rd,       \* the reader's xcom_io: start, length, ptr, thrown
  got       \* the values its calls returned

vars == <<io, items, reading, rd, got>>

-----------------------------------------------------------------------------
(* The session *)

SessionInit ==
  /\ Init
  /\ items = << >> /\ got = << >>
  /\ reading = FALSE
  /\ rd = Reader(<< >>, 0)

Logged(kind, value) ==
  /\ ~reading /\ Len(items) < MaxItems
  /\ items' = IF io'.thrown THEN items ELSE Append(items, <<kind, value>>)
  /\ UNCHANGED <<reading, rd, got>>

\* ensure() without a write leaves no record behind.
Reserve(n) == ~reading /\ EnsurePad(n) /\ UNCHANGED <<items, reading, rd, got>>

Write ==
  \/ \E v \in Ints : WriteInt(v) /\ Logged("int", v)
  \/ \E s \in XcomString : WriteUnicodeString(s) /\ Logged("string", s)
  \/ \E c \in Bytes : WriteByte(c) /\ Logged("raw", <<c>>)
  \/ \E s \in Raws : WriteRaw(s) /\ Logged("raw", s)
  \/ \E n \in Pads : Reserve(n)

\* compress() takes the offset() bytes written; the reader gets them, or a file
\* that lost its last bytes.
HandOver(cut) ==
  /\ ~reading /\ ~io.thrown /\ cut <= io.ptr
  /\ reading' = TRUE
  /\ rd' = Reader(SubSeq(Contents(io), 1, io.ptr - cut), 0)
  /\ UNCHANGED <<io, items, got>>

\* The reader makes the call that matches the record written.
Result(item) ==
  CASE item[1] = "int"    -> ReadInt(rd)
    [] item[1] = "string" -> ReadUnicodeString(rd)
    [] item[1] = "raw"    -> ReadRaw(rd, Len(item[2]))

Read ==
  /\ reading /\ ~rd.thrown /\ Len(got) < Len(items)
  /\ LET res == Result(items[Len(got) + 1]) IN
       /\ rd' = res.rd
       /\ got' = IF res.rd.thrown THEN got ELSE Append(got, res.val)
  /\ UNCHANGED <<io, items, reading>>

SessionNext == Write \/ Read \/ \E cut \in Cuts : HandOver(cut)

SessionSpec == SessionInit /\ [][SessionNext]_vars

-----------------------------------------------------------------------------
(* Properties *)

\* What reading the record gives: the empty UTF-16 string comes back as the empty
\* Latin-1 string, everything else as it was.
Expected(item) ==
  IF item[1] = "string" /\ item[2].str = << >> THEN [item[2] EXCEPT !.wide = FALSE] ELSE item[2]

\* What was read so far is what was written, in order.
ReadsBack == \A k \in 1..Len(got) : got[k] = Expected(items[k])

\* Every value written is read back, no call throws on an undamaged buffer, and the
\* buffer ends exactly with the last record: the reader's do ... while (!eof())
\* loops neither stop early nor run on (xcomreader.cpp:585-614).
RoundTrip ==
  reading /\ rd.length = io.ptr =>
    /\ ReadsBack
    /\ ~rd.thrown
    /\ Eof(rd) <=> Len(got) = Len(items)

\* A buffer that lost bytes is noticed: what was read before is right, the cursor
\* stays in the buffer (xcomio.h:94, bounds_check) and not every record is returned.
LossIsNoticed ==
  reading /\ rd.length < io.ptr =>
    /\ ReadsBack
    /\ rd.ptr <= rd.length
    /\ Len(got) < Len(items)

IsWide(item) == item[1] = "string" /\ item[2].wide /\ item[2].str # << >>

\* Without UTF-16 text, whose bounds check is too weak (xcomio.cpp:119), every loss is
\* noticed.
NarrowLossIsNoticed == (\A k \in 1..Len(items) : ~IsWide(items[k])) => LossIsNoticed
=============================================================================
