------------------------- MODULE XcomIOReader_proofs -------------------------
(***************************************************************************)
(* Proofs about XcomIO and XcomIOReader for every alphabet, every set of   *)
(* requests and every size, under SmallRequests: no single request exceeds *)
(* the initial buffer.  Without that assumption ensure() does not make     *)
(* room and the theorems are false.                                        *)
(*                                                                         *)
(* First the writing half: the buffer object is well formed, ensure()      *)
(* makes room, and the buffer is an append-only log.  Then the session:    *)
(* what was written is read back, and a buffer that lost its last bytes is *)
(* noticed unless it holds UTF-16 text.                                    *)
(***************************************************************************)
EXTENDS XcomIOReader, XcomBuffer_proofs

\* The strings of a run are texts.
LEMMA StringsAreTexts == \A s \in XcomString : IsText(s)
BY DataAssumption DEF XcomString, IsText

-----------------------------------------------------------------------------
(* The specification *)

\* One write call: the invariant is kept; the record is appended or the call throws
\* without a trace.
LEMMA StepGood ==
  ASSUME SmallRequests, Good(io), Next
  PROVE  /\ Good(io')
         /\ \/ Contents(io') = Contents(io) /\ ~io.thrown /\ io'.thrown
            \/ Contents(io') = Contents(io) /\ io'.thrown = io.thrown
            \/ ~io.thrown /\ ~io'.thrown /\ \E rec \in Records : Contents(io') = Contents(io) \o rec
<1> USE SizeAssumption
<1>1. ASSUME NEW v \in Ints, WriteInt(v)
      PROVE  /\ Good(io')
             /\ \/ Contents(io') = Contents(io) /\ ~io.thrown /\ io'.thrown
                \/ ~io.thrown /\ ~io'.thrown /\ \E rec \in Records : Contents(io') = Contents(io) \o rec
  <2>1. PICK S : IntCells(v) \in Seq(S) /\ Len(IntCells(v)) = IntSize
    BY IntCellsSeq
  <2>2. IntSize <= InitialSize
    BY DEF SmallRequests, Requests
  <2>3. io' = EnsureAndPut(io, IntCells(v)) /\ ~io.thrown
    BY <1>1 DEF WriteInt, IntWritten
  <2>4. IntCells(v) \in Records
    BY DEF Records
  <2>5. io'.thrown \in BOOLEAN
    BY <2>1, <2>2, <2>3, EnsureAndPutGood DEF Good, IsBuffer
  <2> QED BY <2>1, <2>2, <2>3, <2>4, <2>5, EnsureAndPutGood
<1>2. ASSUME NEW s \in XcomString, WriteUnicodeString(s)
      PROVE  /\ Good(io')
             /\ \/ Contents(io') = Contents(io) /\ ~io.thrown /\ io'.thrown
                \/ ~io.thrown /\ ~io'.thrown /\ \E rec \in Records : Contents(io') = Contents(io) \o rec
  <2>1. StringSize(s) <= InitialSize
    BY DEF SmallRequests, Requests
  <2>2. io' = StringWritten(io, s) /\ ~io.thrown
    BY <1>2 DEF WriteUnicodeString
  <2>3. EncString(s) \in Records
    BY DEF Records
  <2>5. IsText(s)
    BY StringsAreTexts
  <2>4. io'.thrown \in BOOLEAN
    BY <2>1, <2>2, <2>5, StringWrittenGood DEF Good, IsBuffer
  <2> QED BY <2>1, <2>2, <2>3, <2>4, <2>5, StringWrittenGood
<1>3. ASSUME NEW c \in Bytes, WriteByte(c)
      PROVE  /\ Good(io')
             /\ \/ Contents(io') = Contents(io) /\ ~io.thrown /\ io'.thrown
                \/ ~io.thrown /\ ~io'.thrown /\ \E rec \in Records : Contents(io') = Contents(io) \o rec
  <2> DEFINE w == <<ByteCell(c)>>
  <2>1. w \in Seq({ByteCell(c)}) /\ Len(w) = 1
    OBVIOUS
  <2>2. 1 <= InitialSize
    OBVIOUS
  <2>3. io' = EnsureAndPut(io, w) /\ ~io.thrown
    BY <1>3 DEF WriteByte
  <2>4. w \in Records
    BY DEF Records
  <2> HIDE DEF w
  <2>5. io'.thrown \in BOOLEAN
    BY <2>1, <2>2, <2>3, EnsureAndPutGood DEF Good, IsBuffer
  <2> QED BY <2>1, <2>2, <2>3, <2>4, <2>5, EnsureAndPutGood
<1>4. ASSUME NEW s \in Raws, WriteRaw(s)
      PROVE  /\ Good(io')
             /\ \/ Contents(io') = Contents(io) /\ ~io.thrown /\ io'.thrown
                \/ ~io.thrown /\ ~io'.thrown /\ \E rec \in Records : Contents(io') = Contents(io) \o rec
  <2>1. PICK C : s \in Seq(C)
    BY DataAssumption
  <2>2. NarrowCells(s) \in Seq({ByteCell(c) : c \in C}) /\ Len(NarrowCells(s)) = Len(s)
    BY <2>1, NarrowCellsSeq
  <2>3. Len(s) <= InitialSize
    BY DEF SmallRequests, Requests
  <2>4. io' = EnsureAndPut(io, NarrowCells(s)) /\ ~io.thrown
    BY <1>4 DEF WriteRaw
  <2>5. NarrowCells(s) \in Records
    BY DEF Records
  <2> DEFINE w == NarrowCells(s)
             S == {ByteCell(c) : c \in C}
  <2>6. w \in Seq(S) /\ Len(w) <= InitialSize
    BY <2>2, <2>3
  <2> HIDE DEF w, S
  <2>7. io'.thrown \in BOOLEAN
    BY <2>6, <2>4, EnsureAndPutGood DEF Good, IsBuffer, w
  <2> QED BY <2>4, <2>5, <2>6, <2>7, EnsureAndPutGood DEF w
<1>5. ASSUME NEW n \in Pads, EnsurePad(n)
      PROVE  Good(io') /\ Contents(io') = Contents(io) /\ io.thrown = FALSE /\ io'.thrown \in BOOLEAN
  <2>1. n \in Nat /\ n <= InitialSize
    BY DataAssumption DEF SmallRequests, Requests
  <2>2. io' = Ensure(io, n) /\ ~io.thrown
    BY <1>5 DEF EnsurePad
  <2>3. io.thrown \in BOOLEAN
    BY DEF Good, IsBuffer
  <2>4. io'.thrown \in BOOLEAN
    BY <2>1, <2>2, EnsureGood DEF Good, IsBuffer
  <2> QED BY <2>1, <2>2, <2>3, <2>4, EnsureGood
<1> QED BY <1>1, <1>2, <1>3, <1>4, <1>5 DEF Next

LEMMA InitGood == Init => Good(io) /\ Contents(io) = << >> /\ ~io.thrown
<1> SUFFICES ASSUME Init PROVE Good(io) /\ Contents(io) = << >> /\ ~io.thrown
  OBVIOUS
<1>1. io = [start |-> [i \in 1..InitialSize |-> Zero], length |-> InitialSize,
            ptr |-> 0, thrown |-> FALSE, reserved |-> 0]
  BY DEF Init, Empty
<1>2. Good(io)
  <2>1. io.start = [i \in 1..io.length |-> io.start[i]]
    BY <1>1
  <2> DEFINE cells == [i \in 1..InitialSize |-> Zero]
  <2>2. io = [start |-> cells, length |-> InitialSize, ptr |-> 0, thrown |-> FALSE, reserved |-> 0]
    BY <1>1
  <2> HIDE DEF cells
  <2>3. IsBuffer(io)
    BY <2>1, <2>2, SizeAssumption DEF IsBuffer
  <2> QED BY <2>2, <2>3, SizeAssumption DEF Good
<1>3. Contents(io) = << >>
  <2>1. Contents(io) \in [1..0 -> {}]
    BY <1>1 DEF Contents
  <2>2. Contents(io) \in Seq({}) /\ Len(Contents(io)) = 0
    BY <2>1, FunctionIsSeq
  <2> QED BY <2>2, EmptySeq
<1> QED BY <1>1, <1>2, <1>3

\* The invariant behind the theorems below: the buffer object is well formed, never
\* smaller than initial_size, and its cursor never leaves the room ensure() promised.
LEMMA BufferInvariant == SmallRequests => (Spec => []Good(io))
<1> SUFFICES ASSUME SmallRequests PROVE Spec => []Good(io)
  OBVIOUS
<1>1. Init => Good(io)
  BY InitGood
<1>2. Good(io) /\ [Next]_io => Good(io)'
  BY StepGood DEF Good, IsBuffer
<1> QED BY <1>1, <1>2, PTL DEF Spec

\* Type correctness of xcom_io: the buffer is length_ bytes long, and length_ is a
\* positive int32_t, however often it was doubled (xcomio.cpp:187-202).
THEOREM TypeCorrect == SmallRequests => (Spec => []TypeOK)
<1>1. Good(io) => TypeOK
  BY DEF Good, TypeOK
<1> QED BY <1>1, BufferInvariant, PTL

\* ensure() keeps its word (xcomio.h:132) and no write leaves the buffer, as long as
\* no request exceeds the initial buffer.
THEOREM EnsureIsEnough == SmallRequests => (Spec => []EnsureMakesRoom)
<1>1. Good(io) => EnsureMakesRoom
  BY DEF Good, EnsureMakesRoom
<1> QED BY <1>1, BufferInvariant, PTL

\* The growable buffer is an append-only log: every call appends its whole encoding
\* or throws and leaves no trace, whatever the calls before it.
THEOREM RefinesLog == SmallRequests => (Spec => ImplementsLog)
<1> SUFFICES ASSUME SmallRequests PROVE Spec => ImplementsLog
  OBVIOUS
<1>1. Init => Log!Init
  BY InitGood DEF Log!Init
<1>2. Good(io) /\ [Next]_io => [Log!Next]_(Log!vars)
  <2> SUFFICES ASSUME Good(io), [Next]_io PROVE [Log!Next]_(Log!vars)
    OBVIOUS
  <2>1. CASE UNCHANGED io
    BY <2>1 DEF Log!vars, Contents
  <2>2. CASE Next
    BY <2>2, StepGood DEF Log!Next, Log!Fail, Log!Append1, Log!vars
  <2> QED BY <2>1, <2>2
<1> QED BY <1>1, <1>2, BufferInvariant, PTL DEF Spec, ImplementsLog, Log!Spec

-----------------------------------------------------------------------------
(* The session *)

\* The records of a session and the cells they are written as.
RawSeqs == Raws \cup {<<c>> : c \in Bytes}

Items ==
  {<<"int", v>> : v \in Ints} \cup {<<"string", s>> : s \in XcomString}
    \cup {<<"raw", s>> : s \in RawSeqs}

Code(item) ==
  CASE item[1] = "int"    -> IntCells(item[2])
    [] item[1] = "string" -> EncString(item[2])
    [] item[1] = "raw"    -> NarrowCells(item[2])

\* The record is these bytes.
IsRaw(item, s) ==
  item = <<"raw", s>> /\ Code(item) = NarrowCells(s) /\ \E C : s \in Seq(C)

\* Every kind of record.
LEMMA ItemCases ==
  ASSUME NEW item \in Items
  PROVE  \/ \E v \in Ints : item = <<"int", v>> /\ Code(item) = IntCells(v)
         \/ \E s \in XcomString : item = <<"string", s>> /\ Code(item) = EncString(s)
         \/ \E s \in RawSeqs : IsRaw(item, s)
<1>1. CASE item \in {<<"int", v>> : v \in Ints}
  BY <1>1 DEF Code
<1>2. CASE item \in {<<"string", s>> : s \in XcomString}
  BY <1>2 DEF Code
<1>3. CASE item \in {<<"raw", s>> : s \in RawSeqs}
  <2>1. PICK s \in RawSeqs : item = <<"raw", s>>
    BY <1>3
  <2>2. \E C : s \in Seq(C)
    <3>1. CASE s \in Raws
      BY <3>1, DataAssumption
    <3>2. CASE \E c \in Bytes : s = <<c>>
      <4>1. PICK c \in Bytes : s = <<c>>
        BY <3>2
      <4>2. s \in Seq({c})
        BY <4>1
      <4> QED BY <4>2
    <3> QED BY <3>1, <3>2 DEF RawSeqs
  <2>3. Code(item) = NarrowCells(s)
    BY <2>1 DEF Code
  <2> QED BY <2>1, <2>2, <2>3 DEF IsRaw
<1> QED BY <1>1, <1>2, <1>3 DEF Items

\* Every record has cells, unless it is an empty byte sequence.
LEMMA CodeSeq ==
  ASSUME NEW item \in Items
  PROVE  /\ \E S : Code(item) \in Seq(S)
         /\ Len(Code(item)) \in Nat
         /\ << >> \notin Raws => Len(Code(item)) >= 1
<1> USE SizeAssumption
<1>1. CASE \E v \in Ints : item = <<"int", v>> /\ Code(item) = IntCells(v)
  BY <1>1, IntCellsSeq
<1>2. CASE \E s \in XcomString : item = <<"string", s>> /\ Code(item) = EncString(s)
  <2>1. PICK s \in XcomString : item = <<"string", s>> /\ Code(item) = EncString(s)
    BY <1>2
  <2>2. CASE s.str = << >>
    BY <2>1, <2>2, IntCellsSeq DEF EncString
  <2>3. CASE s.str # << >>
    <3>1. PICK B : StringBody(s) \in Seq(B)
      BY StringsAreTexts, StringBodySeq
    <3>2. PICK H : IntCells(LengthField(s)) \in Seq(H) /\ Len(IntCells(LengthField(s))) = IntSize
      BY IntCellsSeq
    <3> DEFINE hd == IntCells(LengthField(s))
               body == StringBody(s)
               T == B \cup H
    <3>3. Code(item) = hd \o body
      BY <2>1, <2>3 DEF EncString
    <3>4. hd \in Seq(T) /\ body \in Seq(T)
      BY <3>1, <3>2
    <3>5. Len(hd) = IntSize
      BY <3>2
    <3> HIDE DEF hd, body, T
    <3>6. hd \o body \in Seq(T) /\ Len(hd \o body) = Len(hd) + Len(body)
      BY <3>4, ConcatProperties
    <3>7. Len(body) \in Nat
      BY <3>4
    <3> QED BY <3>3, <3>5, <3>6, <3>7
  <2> QED BY <2>2, <2>3
<1>3. CASE \E s \in RawSeqs : IsRaw(item, s)
  <2>0. PICK s \in RawSeqs : IsRaw(item, s)
    BY <1>3
  <2>1. PICK C : item = <<"raw", s>> /\ Code(item) = NarrowCells(s) /\ s \in Seq(C)
    BY <2>0 DEF IsRaw
  <2>2. Code(item) \in Seq({ByteCell(c) : c \in C}) /\ Len(Code(item)) = Len(s)
    BY <2>1, NarrowCellsSeq
  <2>3. ASSUME << >> \notin Raws PROVE Len(s) >= 1
    <3>1. s # << >>
      BY <2>3 DEF RawSeqs
    <3> QED BY <2>1, <3>1, EmptySeq, LenProperties
  <2>4. Len(s) \in Nat
    BY <2>1, LenProperties
  <2> QED BY <2>2, <2>3, <2>4
<1> QED BY <1>1, <1>2, <1>3, ItemCases

\* The call that matches a record returns it, or refuses a record that is cut short;
\* only UTF-16 text may be returned cut short.
LEMMA ResultGood ==
  ASSUME NEW item \in Items, IsReader(rd), ~rd.thrown, rd.ptr <= rd.length, At(rd, Code(item))
  PROVE  /\ Fits(rd, Code(item)) => /\ Result(item).rd = Moved(rd, Len(Code(item)))
                                    /\ Result(item).val = Expected(item)
         /\ ~Fits(rd, Code(item)) /\ ~IsWide(item) => Refused(rd, Result(item).rd)
<1>0. Refused(rd, Thrown(rd))
  BY MovedReader DEF Refused, IsReader
<1>1. CASE \E v \in Ints : item = <<"int", v>> /\ Code(item) = IntCells(v)
  <2>1. PICK v \in Ints : item = <<"int", v>> /\ Code(item) = IntCells(v)
    BY <1>1
  <2>2. Result(item) = ReadInt(rd) /\ Expected(item) = v
    BY <2>1 DEF Result, Expected
  <2>3. Len(Code(item)) = IntSize /\ \A i \in 1..IntSize : Code(item)[i] = <<"int", v, i>>
    BY <2>1, IntCellsAre
  <2>4. \A i \in 1..IntSize : rd.ptr + i <= rd.length => rd.start[rd.ptr + i] = <<"int", v, i>>
    BY <2>3 DEF At
  <2>5. IF rd.ptr + IntSize <= rd.length
        THEN ReadInt(rd).rd = Moved(rd, IntSize) /\ ReadInt(rd).val = v
        ELSE ReadInt(rd).rd = Thrown(rd)
    BY <2>4, ReadIntGood
  <2> QED BY <1>0, <2>2, <2>3, <2>5 DEF Fits
<1>2. CASE \E s \in XcomString : item = <<"string", s>> /\ Code(item) = EncString(s)
  <2>1. PICK s \in XcomString : item = <<"string", s>> /\ Code(item) = EncString(s)
    BY <1>2
  <2>2. Result(item) = ReadUnicodeString(rd)
    BY <2>1 DEF Result
  <2>3. s.wide \in BOOLEAN
    BY DataAssumption DEF XcomString
  <2>4. ~IsWide(item) => (s.wide => s.str = << >>)
    BY <2>1, <2>3 DEF IsWide
  <2>5. Expected(item) = ReadBack(s)
    BY <2>1 DEF Expected, ReadBack
  <2>6. IsText(s)
    BY StringsAreTexts
  <2> QED BY <2>1, <2>2, <2>4, <2>5, <2>6, ReadStringGood
<1>3. CASE \E s \in RawSeqs : IsRaw(item, s)
  <2>0. PICK s \in RawSeqs : IsRaw(item, s)
    BY <1>3
  <2>1. PICK C : item = <<"raw", s>> /\ Code(item) = NarrowCells(s) /\ s \in Seq(C)
    BY <2>0 DEF IsRaw
  <2>2. Result(item) = ReadRaw(rd, Len(s)) /\ Expected(item) = s
    BY <2>1 DEF Result, Expected
  <2>3. Len(Code(item)) = Len(s)
    BY <2>1, NarrowCellsSeq
  <2>4. IF Fits(rd, Code(item))
        THEN ReadRaw(rd, Len(s)).rd = Moved(rd, Len(s)) /\ ReadRaw(rd, Len(s)).val = s
        ELSE ReadRaw(rd, Len(s)).rd = Thrown(rd)
    BY <2>1, ReadRawGood
  <2> QED BY <1>0, <2>2, <2>3, <2>4
<1> QED BY <1>1, <1>2, <1>3, ItemCases

LEMMA ResultKeeps ==
  ASSUME NEW item \in Items, Shape(rd)
  PROVE  Shape(Result(item).rd) /\ Result(item).rd.length = rd.length
<1>1. ASSUME NEW r, Shape(r)
      PROVE  Shape(ReadInt(r).rd) /\ ReadInt(r).rd.length = r.length
  BY <1>1, CallKeeps DEF ReadInt
<1>2. ASSUME NEW n PROVE Shape(ReadRaw(rd, n).rd) /\ ReadRaw(rd, n).rd.length = rd.length
  BY CallKeeps DEF ReadRaw
<1>3. ASSUME NEW r, Shape(r), NEW n
      PROVE  /\ Shape(ReadWide(r, n).rd) /\ ReadWide(r, n).rd.length = r.length
             /\ Shape(ReadNarrow(r, n).rd) /\ ReadNarrow(r, n).rd.length = r.length
  <2> DEFINE t == [str |-> IF Terminators(r, 2) = {} THEN << >> ELSE Text(r, 2), wide |-> TRUE]
             u == [str |-> Text(r, 1), wide |-> FALSE]
             m == 2 * n
  <2>1. ReadWide(r, n) = Throw(r) \/ ReadWide(r, n) = Skip(r, m, t)
    BY DEF ReadWide
  <2>2. ReadNarrow(r, n) = Throw(r) \/ ReadNarrow(r, n) = Skip(r, n, u)
    BY DEF ReadNarrow
  <2> HIDE DEF t, u, m
  <2>3. /\ Shape(Throw(r).rd) /\ Throw(r).rd.length = r.length
        /\ Shape(Skip(r, m, t).rd) /\ Skip(r, m, t).rd.length = r.length
        /\ Shape(Skip(r, n, u).rd) /\ Skip(r, n, u).rd.length = r.length
    BY <1>3, CallKeeps
  <2> QED BY <2>1, <2>2, <2>3
<1>4. Shape(ReadUnicodeString(rd).rd) /\ ReadUnicodeString(rd).rd.length = rd.length
  <2> DEFINE n == ReadInt(rd)
             e == [str |-> << >>, wide |-> FALSE]
  <2>1. Shape(n.rd) /\ n.rd.length = rd.length
    BY <1>1
  <2>2. \/ ReadUnicodeString(rd) = n
        \/ ReadUnicodeString(rd) = Skip(n.rd, 0, e)
        \/ ReadUnicodeString(rd) = ReadWide(n.rd, -n.val)
        \/ ReadUnicodeString(rd) = ReadNarrow(n.rd, n.val)
    BY DEF ReadUnicodeString
  <2> HIDE DEF n, e
  <2>3. /\ Shape(ReadWide(n.rd, -n.val).rd) /\ ReadWide(n.rd, -n.val).rd.length = rd.length
        /\ Shape(ReadNarrow(n.rd, n.val).rd) /\ ReadNarrow(n.rd, n.val).rd.length = rd.length
    BY <2>1, <1>3
  <2>4. Shape(Skip(n.rd, 0, e).rd) /\ Skip(n.rd, 0, e).rd.length = rd.length
    BY SMTT(30), <2>1, CallKeeps
  <2> QED BY <2>1, <2>2, <2>3, <2>4
<1> QED BY <1>1, <1>2, <1>4, ItemCases DEF Result, IsRaw

-----------------------------------------------------------------------------
(* The session *)

\* off[k] cells stand before record k, and the buffer ends with the last record.
Layout(b, its, off) ==
  /\ off \in [1..Len(its) + 1 -> Nat]
  /\ off[1] = 0 /\ off[Len(its) + 1] = b.ptr
  /\ \A k \in 1..Len(its) :
       /\ off[k + 1] = off[k] + Len(Code(its[k])) /\ off[k + 1] <= b.ptr
       /\ \A i \in 1..Len(Code(its[k])) : b.start[off[k] + i] = Code(its[k])[i]
       /\ << >> \notin Raws => off[k] < b.ptr

\* The bytes a session can vouch for: all of them, or those without UTF-16 text.
Sound == rd.length = io.ptr \/ \A k \in 1..Len(items) : ~IsWide(items[k])

\* The reader stands before the record after those it returned.
Progress(off) ==
  /\ Shape(rd) /\ rd.length \in Nat /\ rd.length <= io.ptr
  /\ Sound =>
       /\ IsReader(rd) /\ rd.ptr <= rd.length
       /\ \A i \in 1..rd.length : rd.start[i] = io.start[i]
       /\ Len(got) <= Len(items)
       /\ \A k \in 1..Len(got) : got[k] = Expected(items[k])
       /\ ~rd.thrown => rd.ptr = off[Len(got) + 1]
       /\ rd.thrown => Len(got) < Len(items) /\ rd.length < io.ptr

\* The inductive invariant of a session.
SessionInv ==
  /\ Good(io)
  /\ items \in Seq(Items)
  /\ reading \in BOOLEAN
  /\ \E V : got \in Seq(V)
  /\ ~reading => got = << >>
  /\ \E off : Layout(io, items, off) /\ (reading => Progress(off))

LEMMA ContentsIs ==
  ASSUME NEW b, Good(b)
  PROVE  /\ b.ptr \in Nat /\ b.thrown \in BOOLEAN
         /\ Contents(b) \in Seq({b.start[i] : i \in 1..b.ptr})
         /\ Len(Contents(b)) = b.ptr
         /\ \A i \in 1..b.ptr : Contents(b)[i] = b.start[i]
<1> DEFINE S == {b.start[i] : i \in 1..b.ptr}
<1>1. b.ptr \in Nat /\ b.thrown \in BOOLEAN
  BY DEF Good, IsBuffer
<1>2. Contents(b) \in [1..b.ptr -> S]
  BY DEF Contents
<1>3. \A i \in 1..b.ptr : Contents(b)[i] = b.start[i]
  BY DEF Contents
<1> HIDE DEF S
<1>4. Contents(b) \in Seq(S) /\ Len(Contents(b)) = b.ptr
  BY <1>1, <1>2, FunctionIsSeq
<1> QED BY <1>1, <1>3, <1>4 DEF S

\* A call that appends nothing changes no record.
LEMMA LayoutKept ==
  ASSUME NEW b, Good(b), NEW p, Good(p), Contents(p) = Contents(b),
         NEW its \in Seq(Items), NEW off, Layout(b, its, off)
  PROVE  Layout(p, its, off)
<1>1. p.ptr = b.ptr /\ \A i \in 1..b.ptr : p.start[i] = b.start[i]
  <2>1. Len(Contents(p)) = p.ptr /\ Len(Contents(b)) = b.ptr
    BY ContentsIs
  <2>2. p.ptr = b.ptr
    BY <2>1
  <2>3. \A i \in 1..b.ptr : Contents(p)[i] = p.start[i] /\ Contents(b)[i] = b.start[i]
    BY <2>2, ContentsIs
  <2> QED BY <2>2, <2>3
<1>2. ASSUME NEW k \in 1..Len(its), NEW i \in 1..Len(Code(its[k]))
      PROVE  p.start[off[k] + i] = Code(its[k])[i]
  <2>1. its[k] \in Items /\ Len(its) \in Nat
    BY ElementOfSeq, LenProperties
  <2>2. Len(Code(its[k])) \in Nat
    BY <2>1, CodeSeq
  <2>5. k \in 1..Len(its) + 1
    BY <2>1
  <2>3. off[k] \in Nat /\ off[k] + Len(Code(its[k])) <= b.ptr /\ b.ptr \in Nat
    BY <2>5, ContentsIs DEF Layout
  <2>4. off[k] + i \in 1..b.ptr
    BY <2>2, <2>3
  <2> QED BY <1>1, <2>4 DEF Layout
<1> QED BY <1>1, <1>2 DEF Layout

\* A record appended is laid out behind the others.
LEMMA LayoutGrown ==
  ASSUME NEW b, Good(b), NEW p, Good(p), NEW item \in Items,
         Contents(p) = Contents(b) \o Code(item),
         NEW its \in Seq(Items), NEW off, Layout(b, its, off)
  PROVE  \E new : Layout(p, Append(its, item), new)
<1> DEFINE n == Len(its)
           c == Code(item)
           l == Len(c)
           m == Append(its, item)
           new == [k \in 1..n + 2 |-> IF k = n + 2 THEN p.ptr ELSE off[k]]
<1>1. PICK S : c \in Seq(S)
  BY CodeSeq
<1>2. l \in Nat /\ (<< >> \notin Raws => l >= 1) /\ n \in Nat
  BY CodeSeq, LenProperties
<1>3. /\ m \in Seq(Items) /\ Len(m) = n + 1 /\ m[n + 1] = item
      /\ \A k \in 1..n : m[k] = its[k]
  BY AppendProperties
<1>4. /\ b.ptr \in Nat /\ p.ptr \in Nat /\ p.ptr = b.ptr + l
      /\ \A i \in 1..b.ptr : p.start[i] = b.start[i]
      /\ \A i \in 1..l : p.start[b.ptr + i] = c[i]
  <2> DEFINE B == {b.start[i] : i \in 1..b.ptr}
             T == B \cup S
             u == Contents(b)
  <2>1. u \in Seq(B) /\ Len(u) = b.ptr /\ b.ptr \in Nat
    BY ContentsIs
  <2>2. Len(Contents(p)) = p.ptr /\ p.ptr \in Nat
    BY ContentsIs
  <2>3. u \in Seq(T) /\ c \in Seq(T)
    BY <1>1, <2>1
  <2> HIDE DEF c, B, T, u
  <2>4. /\ Len(u \o c) = Len(u) + Len(c)
        /\ \A i \in 1..Len(u) + Len(c) : (u \o c)[i] = IF i <= Len(u) THEN u[i] ELSE c[i - Len(u)]
    BY <2>3, ConcatProperties
  <2>5. Contents(p) = u \o c
    BY DEF u, c
  <2>6. p.ptr = b.ptr + l
    BY <2>1, <2>2, <2>4, <2>5
  <2>7. \A i \in 1..b.ptr + l : Contents(p)[i] = IF i <= b.ptr THEN u[i] ELSE c[i - b.ptr]
    BY <2>1, <2>4, <2>5
  <2>8. \A i \in 1..b.ptr + l : Contents(p)[i] = p.start[i]
    BY <2>6, ContentsIs
  <2>9. \A i \in 1..b.ptr : u[i] = b.start[i]
    BY ContentsIs DEF u
  <2> HIDE DEF l
  <2>10. \A i \in 1..b.ptr : p.start[i] = b.start[i]
    <3> SUFFICES ASSUME NEW i \in 1..b.ptr PROVE p.start[i] = b.start[i]
      OBVIOUS
    <3>1. i \in 1..b.ptr + l /\ i <= b.ptr
      BY <1>2, <2>1
    <3>2. Contents(p)[i] = u[i] /\ Contents(p)[i] = p.start[i]
      BY <2>7, <2>8, <3>1
    <3> QED BY <2>9, <3>2
  <2>11. \A i \in 1..l : p.start[b.ptr + i] = c[i]
    <3> SUFFICES ASSUME NEW i \in 1..l PROVE p.start[b.ptr + i] = c[i]
      OBVIOUS
    <3>1. b.ptr + i \in 1..b.ptr + l /\ ~(b.ptr + i <= b.ptr) /\ (b.ptr + i) - b.ptr = i
      BY <1>2, <2>1
    <3> QED BY <2>7, <2>8, <3>1
  <2> QED BY <2>1, <2>2, <2>6, <2>10, <2>11
<1>5. /\ off \in [1..n + 1 -> Nat] /\ off[1] = 0 /\ off[n + 1] = b.ptr
      /\ \A k \in 1..n : /\ off[k + 1] = off[k] + Len(Code(its[k])) /\ off[k + 1] <= b.ptr
                         /\ \A i \in 1..Len(Code(its[k])) : b.start[off[k] + i] = Code(its[k])[i]
                         /\ << >> \notin Raws => off[k] < b.ptr
  BY DEF Layout
<1>6. /\ new \in [1..n + 2 -> Nat] /\ new[n + 2] = p.ptr
      /\ \A k \in 1..n + 1 : new[k] = off[k] /\ off[k] \in Nat
  <2> HIDE DEF n
  <2>1. \A k \in 1..n + 1 : k \in 1..n + 2 /\ k # n + 2 /\ off[k] \in Nat
    BY <1>2, <1>5
  <2>2. n + 2 \in 1..n + 2
    BY <1>2
  <2>3. \A k \in 1..n + 2 : k \in 1..n + 1 \/ k = n + 2
    BY <1>2
  <2> QED BY <1>4, <2>1, <2>2, <2>3
<1> HIDE DEF l, n, m, c, new
<1>7. ASSUME NEW k \in 1..n + 1
      PROVE  /\ new[k + 1] = new[k] + Len(Code(m[k])) /\ new[k + 1] <= p.ptr
             /\ \A i \in 1..Len(Code(m[k])) : p.start[new[k] + i] = Code(m[k])[i]
             /\ << >> \notin Raws => new[k] < p.ptr
  <2>1. CASE k = n + 1
    <3>1. new[k] = b.ptr /\ new[k + 1] = p.ptr /\ Code(m[k]) = c
      BY <1>2, <1>3, <1>5, <1>6, <2>1 DEF c
    <3> QED BY <1>2, <1>4, <3>1 DEF l
  <2>2. CASE k \in 1..n
    <3>1. m[k] = its[k] /\ new[k] = off[k] /\ new[k + 1] = off[k + 1] /\ off[k] \in Nat
      <4>1. k \in 1..n + 1 /\ k + 1 \in 1..n + 1
        BY <1>2, <2>2
      <4> QED BY <1>3, <1>6, <2>2, <4>1
    <3>2. its[k] \in Items
      BY <2>2, ElementOfSeq DEF n
    <3>3. Len(Code(its[k])) \in Nat
      BY <3>2, CodeSeq
    <3>4. off[k + 1] = off[k] + Len(Code(its[k])) /\ off[k + 1] <= b.ptr
      BY <1>5, <2>2
    <3>5. \A i \in 1..Len(Code(its[k])) : off[k] + i \in 1..b.ptr
      <4>1. b.ptr \in Nat /\ off[k] \in Nat /\ off[k] + Len(Code(its[k])) <= b.ptr
        BY <1>4, <3>1, <3>4
      <4> QED BY ONLY <3>3, <4>1
    <3>6. \A i \in 1..Len(Code(its[k])) : p.start[off[k] + i] = Code(its[k])[i]
      BY <1>4, <1>5, <2>2, <3>5
    <3>7. off[k + 1] <= p.ptr /\ (<< >> \notin Raws => off[k] < p.ptr)
      <4>1. off[k + 1] \in Nat
        BY <1>2, <1>6, <2>2
      <4>2. << >> \notin Raws => off[k] < b.ptr
        BY <1>5, <2>2
      <4>3. b.ptr <= p.ptr /\ b.ptr \in Nat /\ p.ptr \in Nat
        BY <1>2, <1>4
      <4>4. off[k + 1] <= b.ptr /\ off[k] \in Nat
        BY <3>1, <3>4
      <4>5. off[k + 1] <= p.ptr
        BY ONLY <4>1, <4>3, <4>4
      <4>6. off[k] < b.ptr => off[k] < p.ptr
        BY ONLY <4>3, <4>4
      <4> QED BY <4>2, <4>5, <4>6, Zenon
    <3> QED BY <3>1, <3>4, <3>6, <3>7
  <2> QED BY <1>2, <2>1, <2>2
<1>8. Layout(p, m, new)
  <2>1. Len(m) = n + 1 /\ (n + 1) + 1 = n + 2 /\ 1 \in 1..n + 1
    BY <1>2, <1>3
  <2>2. new[1] = 0
    BY <1>5, <1>6, <2>1
  <2> QED BY <1>6, <1>7, <2>1, <2>2 DEF Layout
<1> QED BY <1>8 DEF m

LEMMA SessionStarts == SessionInit => SessionInv
<1> SUFFICES ASSUME SessionInit PROVE SessionInv
  OBVIOUS
<1>1. Good(io) /\ Contents(io) = << >> /\ io.ptr = 0
  BY InitGood DEF SessionInit, Init, Empty
<1>2. items = << >> /\ got = << >> /\ reading = FALSE
  BY DEF SessionInit
<1> DEFINE off == [k \in 1..1 |-> 0]
<1>3. Layout(io, << >>, off)
  BY <1>1 DEF Layout
<1>4. items \in Seq(Items) /\ got \in Seq({})
  BY <1>2
<1> QED BY <1>1, <1>2, <1>3, <1>4 DEF SessionInv

\* What a write call leaves: the record appended, or nothing.
Recorded(item) ==
  /\ Good(io')
  /\ io'.thrown => Contents(io') = Contents(io)
  /\ ~io'.thrown => Contents(io') = Contents(io) \o Code(item)

LEMMA IntRecorded ==
  ASSUME SmallRequests, Good(io), NEW v \in Ints, WriteInt(v)
  PROVE  <<"int", v>> \in Items /\ Recorded(<<"int", v>>)
<1> DEFINE c == IntCells(v)
<1>1. PICK S : c \in Seq(S) /\ Len(c) = IntSize
  BY IntCellsSeq
<1>2. Len(c) <= InitialSize
  BY <1>1 DEF SmallRequests, Requests
<1>3. Code(<<"int", v>>) = c /\ <<"int", v>> \in Items
  BY DEF Code, Items
<1>4. io' = EnsureAndPut(io, c)
  BY DEF WriteInt, IntWritten
<1> HIDE DEF c
<1> QED BY <1>1, <1>2, <1>3, <1>4, EnsureAndPutGood DEF Recorded

LEMMA StringRecorded ==
  ASSUME SmallRequests, Good(io), NEW s \in XcomString, WriteUnicodeString(s)
  PROVE  <<"string", s>> \in Items /\ Recorded(<<"string", s>>)
<1>1. StringSize(s) <= InitialSize
  BY DEF SmallRequests, Requests
<1>2. Code(<<"string", s>>) = EncString(s) /\ <<"string", s>> \in Items
  BY DEF Code, Items
<1>3. io' = StringWritten(io, s)
  BY DEF WriteUnicodeString
<1>4. IsText(s)
  BY StringsAreTexts
<1> QED BY <1>1, <1>2, <1>3, <1>4, StringWrittenGood DEF Recorded

LEMMA RawRecorded ==
  ASSUME SmallRequests, Good(io), NEW s \in Raws, WriteRaw(s)
  PROVE  <<"raw", s>> \in Items /\ Recorded(<<"raw", s>>)
<1> DEFINE c == NarrowCells(s)
<1>1. PICK C : s \in Seq(C)
  BY DataAssumption
<1>2. c \in Seq({ByteCell(x) : x \in C}) /\ Len(c) = Len(s)
  BY <1>1, NarrowCellsSeq
<1>3. Len(c) <= InitialSize
  BY <1>2 DEF SmallRequests, Requests
<1>4. Code(<<"raw", s>>) = c /\ <<"raw", s>> \in Items
  BY DEF Code, Items, RawSeqs
<1>5. io' = EnsureAndPut(io, c)
  BY DEF WriteRaw
<1> DEFINE S == {ByteCell(x) : x \in C}
<1> HIDE DEF c, S
<1>6. c \in Seq(S)
  BY <1>2 DEF S
<1> QED BY <1>3, <1>4, <1>5, <1>6, EnsureAndPutGood DEF Recorded

LEMMA ByteRecorded ==
  ASSUME SmallRequests, Good(io), NEW x \in Bytes, WriteByte(x)
  PROVE  <<"raw", <<x>>>> \in Items /\ Recorded(<<"raw", <<x>>>>)
<1> DEFINE c == <<ByteCell(x)>>
<1>1. c \in Seq({ByteCell(x)}) /\ Len(c) = 1 /\ 1 <= InitialSize
  BY SizeAssumption
<1>2. NarrowCells(<<x>>) = c
  <2>1. <<x>> \in Seq({x}) /\ Len(<<x>>) = 1
    OBVIOUS
  <2>2. NarrowCells(<<x>>) = [k \in 1..1 |-> ByteCell(<<x>>[k])]
    BY <2>1 DEF NarrowCells
  <2>3. NarrowCells(<<x>>) = [k \in 1..1 |-> ByteCell(x)]
    BY <2>2
  <2>4. <<ByteCell(x)>> = [k \in 1..1 |-> ByteCell(x)]
    OBVIOUS
  <2> QED BY <2>3, <2>4
<1>3. Code(<<"raw", <<x>>>>) = c /\ <<"raw", <<x>>>> \in Items
  BY <1>2 DEF Code, Items, RawSeqs
<1>4. io' = EnsureAndPut(io, c)
  BY DEF WriteByte
<1> DEFINE S == {ByteCell(x)}
<1>5. c \in Seq(S)
  BY <1>1
<1> HIDE DEF c, S
<1> QED BY <1>1, <1>3, <1>4, <1>5, EnsureAndPutGood DEF Recorded

LEMMA WriteKeeps ==
  ASSUME SmallRequests, SessionInv, Write
  PROVE  SessionInv'
<1>1. PICK off : Layout(io, items, off)
  BY DEF SessionInv
<1>2. items \in Seq(Items) /\ Good(io)
  BY DEF SessionInv
\* A record, or none, was written.
<1>3. ASSUME Good(io'), ~reading, reading' = reading, got' = got, items' \in Seq(Items),
             \E new : Layout(io', items', new)
      PROVE  SessionInv'
  <2>1. ~reading' /\ got' = << >> /\ got' \in Seq({})
    BY <1>3 DEF SessionInv
  <2> QED BY <1>3, <2>1 DEF SessionInv
<1>4. ASSUME NEW kind, NEW value, <<kind, value>> \in Items, Recorded(<<kind, value>>),
             Logged(kind, value)
      PROVE  SessionInv'
  <2> DEFINE item == <<kind, value>>
  <2>1. Good(io') /\ ~reading /\ reading' = reading /\ got' = got
    BY <1>4 DEF Recorded, Logged
  <2>2. CASE io'.thrown
    <3>1. items' = items /\ Contents(io') = Contents(io)
      BY <1>4, <2>2 DEF Recorded, Logged
    <3>2. Layout(io', items, off)
      BY <1>1, <1>2, <2>1, <3>1, LayoutKept
    <3> QED BY <1>2, <1>3, <2>1, <3>1, <3>2
  <2>3. CASE ~io'.thrown
    <3>1. items' = Append(items, item) /\ Contents(io') = Contents(io) \o Code(item)
      BY <1>4, <2>3 DEF Recorded, Logged
    <3>2. item \in Items
      BY <1>4
    <3> HIDE DEF item
    <3>3. \E new : Layout(io', Append(items, item), new)
      BY <1>1, <1>2, <2>1, <3>1, <3>2, LayoutGrown
    <3>4. items' \in Seq(Items)
      BY <1>2, <3>1, <3>2, AppendProperties
    <3> QED BY <1>3, <2>1, <3>1, <3>3, <3>4
  <2> QED BY <2>2, <2>3
<1>5. ASSUME NEW v \in Ints, WriteInt(v), Logged("int", v) PROVE SessionInv'
  BY <1>2, <1>4, <1>5, IntRecorded
<1>6. ASSUME NEW s \in XcomString, WriteUnicodeString(s), Logged("string", s) PROVE SessionInv'
  BY <1>2, <1>4, <1>6, StringRecorded
<1>7. ASSUME NEW x \in Bytes, WriteByte(x), Logged("raw", <<x>>) PROVE SessionInv'
  BY <1>2, <1>4, <1>7, ByteRecorded
<1>8. ASSUME NEW s \in Raws, WriteRaw(s), Logged("raw", s) PROVE SessionInv'
  BY <1>2, <1>4, <1>8, RawRecorded
<1>9. ASSUME NEW n \in Pads, Reserve(n) PROVE SessionInv'
  <2>1. n \in Nat /\ n <= InitialSize
    BY DataAssumption DEF SmallRequests, Requests
  <2>2. io' = Ensure(io, n) /\ ~reading /\ reading' = reading /\ got' = got /\ items' = items
    BY <1>9 DEF Reserve, EnsurePad
  <2>3. Good(io') /\ Contents(io') = Contents(io)
    BY <1>2, <2>1, <2>2, EnsureGood
  <2>4. Layout(io', items, off)
    BY <1>1, <1>2, <2>3, LayoutKept
  <2> QED BY <1>2, <1>3, <2>2, <2>3, <2>4
<1> QED BY <1>5, <1>6, <1>7, <1>8, <1>9 DEF Write

\* The reader starts before the first record, with what is left of the bytes written.
LEMMA HandOverKeeps ==
  ASSUME SessionInv, NEW cut \in Cuts, HandOver(cut)
  PROVE  SessionInv'
<1>1. PICK off : Layout(io, items, off)
  BY DEF SessionInv
<1> DEFINE n == io.ptr - cut
           cells == SubSeq(Contents(io), 1, n)
           S == {io.start[i] : i \in 1..io.ptr}
<1>2. /\ io' = io /\ items' = items /\ got' = got /\ reading' = TRUE /\ got = << >>
      /\ cut <= io.ptr /\ cut \in Nat /\ Good(io) /\ rd' = Reader(cells, 0)
      /\ items \in Seq(Items)
  BY CutsAssumption DEF HandOver, SessionInv
<1>3. /\ io.ptr \in Nat /\ Contents(io) \in Seq(S) /\ Len(Contents(io)) = io.ptr
      /\ \A i \in 1..io.ptr : Contents(io)[i] = io.start[i]
  BY <1>2, ContentsIs
<1>4. n \in Nat /\ n <= io.ptr
  BY <1>2, <1>3
<1> HIDE DEF n, S
<1>5. Len(cells) = n /\ \A i \in 1..n : cells[i] = io.start[i]
  BY <1>3, <1>4
<1>6. rd' = [start |-> cells, length |-> n, ptr |-> 0, thrown |-> FALSE, noise |-> 0]
  BY <1>2, <1>5 DEF Reader
<1> HIDE DEF cells
<1>7. /\ Shape(rd)' /\ rd'.length = n /\ rd'.ptr = 0 /\ rd'.start = cells
      /\ ~rd'.thrown /\ rd'.thrown \in BOOLEAN
  BY <1>6 DEF Shape
<1>8. IsReader(rd)'
  BY <1>4, <1>7 DEF IsReader, Shape
<1>9. Len(got') = 0 /\ Len(items) \in Nat
  BY <1>2, LenProperties
<1>10. Progress(off)'
  <2>1. off[Len(got') + 1] = 0
    BY <1>1, <1>9 DEF Layout
  <2> QED BY <1>2, <1>4, <1>5, <1>7, <1>8, <1>9, <2>1 DEF Progress
<1>11. got' \in Seq({})
  BY <1>2
<1> QED BY <1>1, <1>2, <1>10, <1>11 DEF SessionInv

\* One read call: it returns the next record, or the bytes it needs are missing.
LEMMA ReadKeeps ==
  ASSUME SessionInv, Read
  PROVE  SessionInv'
<1> DEFINE k == Len(got) + 1
           item == items[k]
           res == Result(item)
<1>1. PICK off : Layout(io, items, off) /\ Progress(off)
  BY DEF SessionInv, Read
<1>2. PICK V : got \in Seq(V)
  BY DEF SessionInv
<1>3. /\ io' = io /\ items' = items /\ reading' = reading /\ reading
      /\ ~rd.thrown /\ Len(got) < Len(items) /\ rd' = res.rd
      /\ got' = IF res.rd.thrown THEN got ELSE Append(got, res.val)
      /\ items \in Seq(Items) /\ Good(io) /\ reading \in BOOLEAN
  BY DEF Read, SessionInv
<1>4. Len(got) \in Nat /\ Len(items) \in Nat /\ k \in 1..Len(items) /\ k \in Nat
  BY <1>2, <1>3, LenProperties
<1>5. item \in Items
  BY <1>3, <1>4, ElementOfSeq
<1> HIDE DEF k, item, res
<1>6. Shape(rd') /\ rd'.length = rd.length /\ rd.length \in Nat /\ rd.length <= io.ptr
  BY <1>1, <1>3, <1>5, ResultKeeps DEF Progress, res
<1>7. Sound' <=> Sound
  BY <1>3, <1>6 DEF Sound
<1>8. \E W : got' \in Seq(W)
  <2>1. got \in Seq(V \cup {res.val})
    BY <1>2
  <2>2. Append(got, res.val) \in Seq(V \cup {res.val})
    BY <2>1, AppendProperties
  <2> QED BY <1>3, <2>1, <2>2
<1>9. Layout(io', items', off)
  BY <1>1, <1>3
\* What the call does when the reader is where it should be.
<1>10. ASSUME Sound
       PROVE  /\ IsReader(rd') /\ rd'.ptr <= rd'.length
              /\ \A i \in 1..rd'.length : rd'.start[i] = io'.start[i]
              /\ Len(got') <= Len(items')
              /\ \A j \in 1..Len(got') : got'[j] = Expected(items'[j])
              /\ ~rd'.thrown => rd'.ptr = off[Len(got') + 1]
              /\ rd'.thrown => Len(got') < Len(items') /\ rd'.length < io'.ptr
  <2> DEFINE c == Code(item)
             l == Len(c)
  <2>1. /\ IsReader(rd) /\ rd.ptr <= rd.length /\ rd.ptr = off[k]
        /\ \A i \in 1..rd.length : rd.start[i] = io.start[i]
        /\ \A j \in 1..Len(got) : got[j] = Expected(items[j])
    BY <1>1, <1>3, <1>10 DEF Progress, k
  <2>2. /\ off[k + 1] = off[k] + l /\ off[k + 1] <= io.ptr
        /\ \A i \in 1..l : io.start[off[k] + i] = c[i]
    BY <1>1, <1>4 DEF Layout, item
  <2>3. l \in Nat /\ rd.ptr \in Nat /\ rd.length \in Nat /\ io.ptr \in Nat
    BY <1>3, <1>5, <2>1, CodeSeq, ContentsIs DEF IsReader
  <2>4. At(rd, c)
    <3> SUFFICES ASSUME NEW i \in 1..l, rd.ptr + i <= rd.length
                 PROVE  rd.start[rd.ptr + i] = c[i]
      BY DEF At
    <3>1. rd.ptr + i \in 1..rd.length
      BY <2>3
    <3>2. io.start[rd.ptr + i] = c[i]
      BY <2>1, <2>2
    <3> QED BY <2>1, <3>1, <3>2
  <2>5. CASE Fits(rd, c)
    <3>1. rd' = Moved(rd, l) /\ res.val = Expected(item)
      BY <1>3, <1>5, <2>1, <2>4, <2>5, ResultGood DEF res
    <3>2. /\ IsReader(rd') /\ rd'.start = rd.start /\ rd'.length = rd.length
          /\ rd'.ptr = rd.ptr + l /\ rd'.thrown = rd.thrown
      BY <2>1, <2>3, <3>1, MovedReader
    <3>3. got' = Append(got, res.val)
      BY <1>3, <3>2
    <3>4. /\ Len(got') = k /\ got'[k] = res.val
          /\ \A j \in 1..Len(got) : got'[j] = got[j]
      <4>1. got \in Seq(V \cup {res.val})
        BY <1>2
      <4> QED BY <3>3, <4>1, AppendProperties DEF k
    <3>5. \A j \in 1..k : j \in 1..Len(got) \/ j = k
      BY <1>4 DEF k
    <3>6. \A j \in 1..Len(got') : got'[j] = Expected(items'[j])
      BY <1>3, <2>1, <3>1, <3>4, <3>5 DEF item
    <3>7. rd'.ptr <= rd'.length /\ rd'.ptr = off[Len(got') + 1]
      BY <2>1, <2>2, <2>5, <3>2, <3>4 DEF Fits
    <3>8. Len(got') <= Len(items')
      BY <1>3, <1>4, <3>4
    <3> QED BY <1>3, <2>1, <3>2, <3>6, <3>7, <3>8
  <2>6. CASE ~Fits(rd, c)
    <3>1. rd.length < io.ptr
      BY <2>1, <2>2, <2>3, <2>6 DEF Fits
    <3>2. ~IsWide(item)
      BY <1>4, <1>10, <3>1, <2>3 DEF Sound, item
    <3>3. Refused(rd, rd')
      BY <1>3, <1>5, <2>1, <2>4, <2>6, <3>2, ResultGood DEF res
    <3>4. /\ IsReader(rd') /\ rd'.thrown /\ rd'.start = rd.start /\ rd'.length = rd.length
          /\ rd'.ptr <= rd'.length
      BY <3>3 DEF Refused
    <3>5. got' = got
      BY <1>3, <3>4
    <3> QED BY <1>3, <1>4, <2>1, <3>1, <3>4, <3>5
  <2> QED BY <2>5, <2>6
<1>11. Progress(off)'
  BY <1>3, <1>6, <1>7, <1>10 DEF Progress
<1> QED BY <1>3, <1>8, <1>9, <1>11 DEF SessionInv

LEMMA SessionInvariant == SmallRequests => (SessionSpec => []SessionInv)
<1> SUFFICES ASSUME SmallRequests PROVE SessionSpec => []SessionInv
  OBVIOUS
<1>1. SessionInit => SessionInv
  BY SessionStarts
<1>2. SessionInv /\ [SessionNext]_vars => SessionInv'
  <2> SUFFICES ASSUME SessionInv, [SessionNext]_vars PROVE SessionInv'
    OBVIOUS
  <2>1. CASE Write
    BY <2>1, WriteKeeps
  <2>2. CASE Read
    BY <2>2, ReadKeeps
  <2>3. CASE \E cut \in Cuts : HandOver(cut)
    BY <2>3, HandOverKeeps
  <2>4. CASE UNCHANGED vars
    <3>1. PICK off : Layout(io, items, off) /\ (reading => Progress(off))
      BY DEF SessionInv
    <3>2. Layout(io, items, off)'
      BY <2>4, <3>1 DEF vars, Layout
    <3>3. reading' => Progress(off)'
      BY <2>4, <3>1 DEF vars, Progress, Sound
    <3>4. Good(io)' /\ items' \in Seq(Items) /\ reading' \in BOOLEAN
          /\ (\E V : got' \in Seq(V)) /\ (~reading' => got' = << >>)
      BY <2>4 DEF vars, SessionInv
    <3> QED BY <3>2, <3>3, <3>4 DEF SessionInv
  <2> QED BY <2>1, <2>2, <2>3, <2>4 DEF SessionNext
<1> QED BY <1>1, <1>2, PTL DEF SessionSpec

-----------------------------------------------------------------------------
(* What it is for *)

\* Every record written is read back by the matching call, none throws on an undamaged
\* buffer, and the buffer ends exactly with the last record, as the do ... while (!eof())
\* loops of the reader need.  A record without bytes would be one they never ask for.
THEOREM RecordsReturn == SmallRequests /\ << >> \notin Raws => (SessionSpec => []RoundTrip)
<1> SUFFICES ASSUME SmallRequests, << >> \notin Raws PROVE SessionSpec => []RoundTrip
  OBVIOUS
<1>1. SessionInv => RoundTrip
  <2> SUFFICES ASSUME SessionInv, reading, rd.length = io.ptr
               PROVE  ReadsBack /\ ~rd.thrown /\ (Eof(rd) <=> Len(got) = Len(items))
    BY DEF RoundTrip
  <2>1. PICK off : Layout(io, items, off) /\ Progress(off)
    BY DEF SessionInv
  <2>2. Sound
    BY DEF Sound
  <2>3. io.ptr \in Nat /\ rd.length \in Nat
    BY ContentsIs DEF SessionInv
  <2>4. /\ ReadsBack /\ ~rd.thrown /\ Len(got) <= Len(items) /\ rd.ptr = off[Len(got) + 1]
    BY <2>1, <2>2, <2>3 DEF Progress, ReadsBack
  <2>5. Len(got) \in Nat /\ Len(items) \in Nat
    BY LenProperties DEF SessionInv
  <2>6. CASE Len(got) = Len(items)
    BY <2>1, <2>3, <2>4, <2>6 DEF Layout, Eof
  <2>7. CASE Len(got) # Len(items)
    <3>1. Len(got) + 1 \in 1..Len(items)
      BY <2>4, <2>5, <2>7
    <3>2. off[Len(got) + 1] < io.ptr /\ off[Len(got) + 1] \in Nat
      BY <2>1, <2>5, <3>1 DEF Layout
    <3> QED BY <2>3, <2>4, <2>7, <3>2 DEF Eof
  <2> QED BY <2>4, <2>6, <2>7
<1> QED BY <1>1, SessionInvariant, PTL

\* Without UTF-16 text a buffer that lost its last bytes does not go unnoticed: the
\* cursor stays inside and not every record is returned.
THEOREM NarrowLoss == SmallRequests => (SessionSpec => []NarrowLossIsNoticed)
<1> SUFFICES ASSUME SmallRequests PROVE SessionSpec => []NarrowLossIsNoticed
  OBVIOUS
<1>1. SessionInv => NarrowLossIsNoticed
  <2> SUFFICES ASSUME SessionInv, reading, rd.length < io.ptr,
                      \A k \in 1..Len(items) : ~IsWide(items[k])
               PROVE  ReadsBack /\ rd.ptr <= rd.length /\ Len(got) < Len(items)
    BY DEF NarrowLossIsNoticed, LossIsNoticed
  <2>1. PICK off : Layout(io, items, off) /\ Progress(off)
    BY DEF SessionInv
  <2>2. Sound
    BY DEF Sound
  <2>3. /\ ReadsBack /\ rd.ptr <= rd.length /\ Len(got) <= Len(items)
        /\ ~rd.thrown => rd.ptr = off[Len(got) + 1]
        /\ rd.thrown => Len(got) < Len(items)
        /\ IsReader(rd)
    BY <2>1, <2>2 DEF Progress, ReadsBack
  <2>4. Len(got) \in Nat /\ Len(items) \in Nat /\ io.ptr \in Nat /\ rd.ptr \in Nat /\ rd.length \in Nat
    BY <2>3, LenProperties, ContentsIs DEF SessionInv, IsReader
  <2>5. ~rd.thrown => Len(got) # Len(items)
    BY <2>1, <2>3, <2>4 DEF Layout
  <2> QED BY <2>3, <2>4, <2>5
<1> QED BY <1>1, SessionInvariant, PTL
=============================================================================
