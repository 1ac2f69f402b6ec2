------------------------ MODULE SaveContainer_proofs ------------------------
(***************************************************************************)
(* Proofs about SaveContainer for saves of every content, every number of  *)
(* chunks, every size of header area and chunk, and every damage done to   *)
(* the file.  What is assumed of the saves is SavesAssumption; the theorem *)
(* that no good file is refused also needs NothingCut.                     *)
(***************************************************************************)
EXTENDS SaveContainer, XcomBuffer_proofs, FiniteSetTheorems

Fields == 1..12

LEMMA KindsAre ==
  /\ Len(FieldKinds) = 12
  /\ \A k \in Fields : FieldKinds[k] \in {"int", "unicode", "string"}
  /\ FieldKinds[1] = "int" /\ FieldKinds[8] = "int"
BY DEF FieldKinds, Fields

\* The cells of header field k.
FieldCode(s, k) ==
  IF FieldKinds[k] = "int" THEN IntCells(s.fields[k]) ELSE EncString(s.fields[k])

\* The cells c stand in f behind position p.
Placed(f, p, c) == \A i \in 1..Len(c) : f[p + i] = c[i]

\* No cell of a checksum; and what an int is read from is an int.
IntsAreInts(c) == c[1] \in {"int", "zero"} => c[2] \in Int
Plain(c) == c[1] # "crc" /\ IntsAreInts(c)

-----------------------------------------------------------------------------
(* The saves *)

LEMMA SaveIs ==
  ASSUME NEW s \in Saves
  PROVE  /\ s.fields = [k \in Fields |-> s.fields[k]]
         /\ \A k \in Fields : IsField(s.fields[k], FieldKinds[k])
         /\ Supports(Version(s))
         /\ IF Version(s) = Android THEN IsProfile(s.profile) ELSE s.profile = << >>
         /\ s.payload \in Seq({s.payload[i] : i \in DOMAIN s.payload}) /\ s.payload # << >>
         /\ TrailerFits(s)
BY SavesAssumption, KindsAre DEF Fields

AllPlain(c) == \A i \in 1..Len(c) : Plain(c[i])

LEMMA ConcatPlain ==
  ASSUME NEW S, NEW T, NEW c \in Seq(S), NEW d \in Seq(T), AllPlain(c), AllPlain(d)
  PROVE  /\ AllPlain(c \o d) /\ c \o d \in Seq(S \cup T)
         /\ Len(c \o d) = Len(c) + Len(d)
<1> DEFINE U == S \cup T
<1>1. c \in Seq(U) /\ d \in Seq(U)
  OBVIOUS
<1> HIDE DEF U
<1>2. /\ c \o d \in Seq(U)
      /\ Len(c \o d) = Len(c) + Len(d) /\ Len(c) \in Nat /\ Len(d) \in Nat
      /\ \A i \in 1..Len(c) + Len(d) : (c \o d)[i] = IF i <= Len(c) THEN c[i] ELSE d[i - Len(c)]
  BY <1>1, ConcatProperties, LenProperties
<1>3. ASSUME NEW i \in 1..Len(c) + Len(d) PROVE Plain((c \o d)[i])
  <2>1. CASE i <= Len(c)
    BY <1>2, <2>1 DEF AllPlain
  <2>2. CASE ~(i <= Len(c))
    <3>1. i - Len(c) \in 1..Len(d)
      BY <1>2, <2>2
    <3> QED BY <1>2, <2>2, <3>1 DEF AllPlain
  <2> QED BY <2>1, <2>2
<1> QED BY <1>2, <1>3 DEF AllPlain, U

LEMMA IntPlain ==
  ASSUME NEW v \in Int
  PROVE  /\ AllPlain(IntCells(v)) /\ Len(IntCells(v)) = IntSize
         /\ \E S : IntCells(v) \in Seq(S)
<1>1. Len(IntCells(v)) = IntSize /\ \A i \in 1..IntSize : IntCells(v)[i] = <<"int", v, i>>
  BY IntCellsAre
<1>2. \E S : IntCells(v) \in Seq(S)
  BY IntCellsSeq
<1>3. Plain(<<"int", v, 1>>) /\ \A i \in 1..IntSize : Plain(<<"int", v, i>>)
  BY DEF Plain, IntsAreInts
<1> QED BY <1>1, <1>2, <1>3 DEF AllPlain

LEMMA BodyPlain ==
  ASSUME NEW s, IsText(s)
  PROVE  AllPlain(StringBody(s))
<1> DEFINE C == {s.str[i] : i \in DOMAIN s.str}
           z == <<Zero>>
           zz == <<Zero, Zero>>
<1>1. s.str \in Seq(C) /\ s.wide \in BOOLEAN
  BY DEF IsText
<1> HIDE DEF C
<1>2. /\ z \in Seq({Zero}) /\ AllPlain(z) /\ zz \in Seq({Zero}) /\ AllPlain(zz)
  BY DEF AllPlain, Plain, IntsAreInts, Zero
<1>3. CASE s.wide
  <2>1. PICK S : WideCells(s.str) \in Seq(S) /\ Len(WideCells(s.str)) = 2 * Len(s.str)
    BY <1>1, WideCellsSeq
  <2>2. \A k \in 1..2*Len(s.str) :
          WideCells(s.str)[k] = <<"chr16", s.str[(k + 1) \div 2], 2 - (k % 2)>>
    BY DEF WideCells
  <2>3. AllPlain(WideCells(s.str))
    BY <2>1, <2>2 DEF AllPlain, Plain, IntsAreInts
  <2> HIDE DEF zz
  <2>4. AllPlain(WideCells(s.str) \o zz)
    BY <1>2, <2>1, <2>3, ConcatPlain
  <2> QED BY <1>3, <2>4 DEF StringBody, zz
<1>4. CASE ~s.wide
  <2>1. /\ Len(NarrowCells(s.str)) = Len(s.str)
        /\ \A i \in 1..Len(s.str) : NarrowCells(s.str)[i] = ByteCell(s.str[i])
    BY <1>1, NarrowCellsAre
  <2>2. NarrowCells(s.str) \in Seq({ByteCell(c) : c \in C})
    BY <1>1, NarrowCellsSeq
  <2>3. AllPlain(NarrowCells(s.str))
    BY <2>1 DEF AllPlain, Plain, IntsAreInts, ByteCell
  <2> HIDE DEF z
  <2>4. AllPlain(NarrowCells(s.str) \o z)
    BY <1>2, <2>2, <2>3, ConcatPlain
  <2> QED BY <1>4, <2>4 DEF StringBody, z
<1> QED BY <1>1, <1>3, <1>4

LEMMA ReadableIs ==
  ASSUME NEW s, Readable(s)
  PROVE  /\ IsText(s) /\ s.wide \in BOOLEAN
         /\ StringSize(s) \in Nat /\ StringSize(s) >= IntSize
         /\ Len(EncString(s)) = StringSize(s)
         /\ \E S : EncString(s) \in Seq(S)
         /\ ReadBack(s) = s
         /\ AllPlain(EncString(s))
<1> DEFINE C == {s.str[i] : i \in DOMAIN s.str}
           n == Len(s.str)
<1> USE SizeAssumption
<1>1. /\ IsText(s) /\ s.wide \in BOOLEAN /\ s.str \in Seq(C) /\ s = [str |-> s.str, wide |-> s.wide]
      /\ s.str = << >> => ~s.wide
  BY DEF Readable, IsText
<1> HIDE DEF C
<1>2. n \in Nat
  BY <1>1
<1> HIDE DEF n
<1>3. ReadBack(s) = s
  <2>1. CASE s.str = << >>
    <3>1. s = [str |-> << >>, wide |-> FALSE]
      BY <1>1, <2>1
    <3> DEFINE f == FALSE
    <3>2. [s EXCEPT !.wide = f] = [str |-> << >>, wide |-> f]
      <4> HIDE DEF f
      <4> QED BY <1>1, <2>1
    <3> QED BY <2>1, <3>1, <3>2 DEF ReadBack
  <2>2. CASE s.str # << >>
    BY <2>2 DEF ReadBack
  <2> QED BY <2>1, <2>2
<1>4. CASE s.str = << >>
  BY <1>1, <1>3, <1>4, IntPlain DEF StringSize, EncString
<1>5. CASE s.str # << >>
  <2> DEFINE hd == IntCells(LengthField(s))
             body == StringBody(s)
  <2>1. LengthField(s) \in Int
    BY <1>2 DEF LengthField, n
  <2>2. AllPlain(hd) /\ Len(hd) = IntSize /\ \E S : hd \in Seq(S)
    BY <2>1, IntPlain
  <2>3. AllPlain(body)
    BY <1>1, BodyPlain
  <2>4. PICK T : body \in Seq(T) /\ IntSize + Len(body) =
            IF s.wide THEN 2 * (Len(s.str) + 1) + IntSize ELSE Len(s.str) + 1 + IntSize
    BY <1>1, StringBodySeq
  <2>5. EncString(s) = hd \o body
    BY <1>5 DEF EncString
  <2>6. IntSize + Len(body) = StringSize(s)
    BY <1>5, <2>4 DEF StringSize
  <2>7. StringSize(s) \in Nat /\ StringSize(s) >= IntSize
    BY <1>1, <1>2, <1>5 DEF StringSize, n
  <2> HIDE DEF hd, body
  <2>8. PICK S : hd \in Seq(S)
    BY <2>2
  <2>9. /\ AllPlain(hd \o body) /\ hd \o body \in Seq(S \cup T)
        /\ Len(hd \o body) = Len(hd) + Len(body)
    <3>1. hd \in Seq(S) /\ body \in Seq(T) /\ AllPlain(hd) /\ AllPlain(body)
      BY <2>2, <2>3, <2>4, <2>8
    <3>2. AllPlain(hd \o body)
      BY ONLY <3>1, ConcatPlain, Zenon
    <3>3. Len(hd \o body) = Len(hd) + Len(body)
      <4> DEFINE U == S \cup T
      <4>1. hd \in Seq(U) /\ body \in Seq(U)
        BY <3>1
      <4> HIDE DEF U
      <4> QED BY ONLY <4>1, ConcatProperties
    <3>4. hd \o body \in Seq(S \cup T)
      BY ONLY <3>1, ConcatPlain, Zenon
    <3> QED BY <3>2, <3>3, <3>4
  <2> QED BY <1>1, <1>3, <2>2, <2>5, <2>6, <2>7, <2>9
<1> QED BY <1>4, <1>5

\* Every header field is written as cells of the size FieldSize says.
LEMMA FieldCodeIs ==
  ASSUME NEW s \in Saves, NEW k \in Fields
  PROVE  /\ FieldSize(s, k) \in Nat \ {0}
         /\ Len(FieldCode(s, k)) = FieldSize(s, k)
         /\ \E S : FieldCode(s, k) \in Seq(S)
         /\ AllPlain(FieldCode(s, k))
<1> USE SizeAssumption
<1>1. IsField(s.fields[k], FieldKinds[k])
  BY SaveIs
<1>2. CASE FieldKinds[k] = "int"
  BY <1>1, <1>2, IntPlain DEF IsField, FieldSize, FieldCode
<1>3. CASE FieldKinds[k] # "int"
  <2>1. Readable(s.fields[k])
    BY <1>1, <1>3 DEF IsField
  <2> QED BY <1>3, <2>1, ReadableIs DEF FieldSize, FieldCode
<1> QED BY <1>2, <1>3

LEMMA FieldsEndIs ==
  ASSUME NEW s \in Saves
  PROVE  /\ FieldsEnd(s, 0) = 0
         /\ \A k \in 0..12 : FieldsEnd(s, k) \in Nat
         /\ \A j, k \in 0..12 : j <= k => FieldsEnd(s, j) <= FieldsEnd(s, k)
         /\ \A k \in 0..11 : FieldsEnd(s, k + 1) = FieldsEnd(s, k) + FieldSize(s, k + 1)
<1> DEFINE z(j) == FieldSize(s, j)
<1>1. /\ z(1) \in Nat /\ z(2) \in Nat /\ z(3) \in Nat /\ z(4) \in Nat /\ z(5) \in Nat /\ z(6) \in Nat
      /\ z(7) \in Nat /\ z(8) \in Nat /\ z(9) \in Nat /\ z(10) \in Nat /\ z(11) \in Nat /\ z(12) \in Nat
  BY FieldCodeIs DEF Fields
<1> HIDE DEF z
<1>2. \A k \in 0..12 : FieldsEnd(s, k) =
        (IF 1 <= k THEN z(1) ELSE 0) + (IF 2 <= k THEN z(2) ELSE 0) + (IF 3 <= k THEN z(3) ELSE 0)
        + (IF 4 <= k THEN z(4) ELSE 0) + (IF 5 <= k THEN z(5) ELSE 0) + (IF 6 <= k THEN z(6) ELSE 0)
        + (IF 7 <= k THEN z(7) ELSE 0) + (IF 8 <= k THEN z(8) ELSE 0) + (IF 9 <= k THEN z(9) ELSE 0)
        + (IF 10 <= k THEN z(10) ELSE 0) + (IF 11 <= k THEN z(11) ELSE 0)
        + (IF 12 <= k THEN z(12) ELSE 0)
  BY DEF FieldsEnd, z
<1>3. \A k \in 0..12 : FieldsEnd(s, k) \in Nat
  BY SMTT(60), <1>1, <1>2
<1>6. ASSUME NEW j \in 0..12, NEW k \in 0..12, j <= k PROVE FieldsEnd(s, j) <= FieldsEnd(s, k)
  BY SMTT(60), <1>1, <1>2, <1>6
<1>4. FieldsEnd(s, 0) = 0
  BY <1>1, <1>2
<1>5. ASSUME NEW k \in 0..11 PROVE FieldsEnd(s, k + 1) = FieldsEnd(s, k) + z(k + 1)
  <2>1. k = 0 \/ k = 1 \/ k = 2 \/ k = 3 \/ k = 4 \/ k = 5 \/ k = 6 \/ k = 7 \/ k = 8 \/ k = 9
        \/ k = 10 \/ k = 11
    OBVIOUS
  <2> QED BY SMTT(60), <1>1, <1>2, <2>1
<1> QED BY <1>3, <1>4, <1>5, <1>6 DEF z

-----------------------------------------------------------------------------
(* Writing inside the buffer *)

IsOut(b) == IsBuffer(b) /\ ~b.thrown

\* p is b with the cells c written at the cursor.
Overwritten(p, b, c) ==
  /\ IsOut(p)
  /\ p.length = b.length /\ p.ptr = b.ptr + Len(c)
  /\ \A i \in 1..b.length :
       p.start[i] = IF b.ptr < i /\ i <= b.ptr + Len(c) THEN c[i - b.ptr] ELSE b.start[i]

\* ensure() has nothing to do when the request fits.
LEMMA EnsureInside ==
  ASSUME NEW b, IsOut(b), NEW n \in Nat, b.ptr + n <= b.length
  PROVE  LET e == Ensure(b, n) IN
         IsOut(e) /\ e.length = b.length /\ e.ptr = b.ptr /\ e.start = b.start
<1> DEFINE res == IF b.reserved < b.ptr + n THEN b.ptr + n ELSE b.reserved
           e == Ensure(b, n)
<1>1. /\ b = [start |-> b.start, length |-> b.length, ptr |-> b.ptr,
              thrown |-> b.thrown, reserved |-> b.reserved]
      /\ b.length \in Nat \ {0} /\ b.ptr \in Nat /\ b.reserved \in Nat /\ b.thrown \in BOOLEAN
      /\ b.start = [i \in 1..b.length |-> b.start[i]]
      /\ ~b.thrown
  BY DEF IsOut, IsBuffer
<1>2. HasRoom(b, n)
  BY DEF HasRoom
<1>3. e = [b EXCEPT !.reserved = res]
  BY <1>2 DEF Ensure
<1>4. res \in Nat
  BY <1>1
<1> HIDE DEF res, e
<1>5. e = [start |-> b.start, length |-> b.length, ptr |-> b.ptr,
           thrown |-> b.thrown, reserved |-> res]
  BY <1>1, <1>3
<1> QED BY <1>1, <1>4, <1>5 DEF IsOut, IsBuffer, e

LEMMA PutInside ==
  ASSUME NEW b, IsOut(b), NEW S, NEW c \in Seq(S), b.ptr + Len(c) <= b.length
  PROVE  Overwritten(Put(b, c), b, c)
<1> DEFINE p == Put(b, c)
           n == b.ptr + Len(c)
           cells == [i \in 1..b.length |-> IF b.ptr < i /\ i <= n THEN c[i - b.ptr] ELSE b.start[i]]
<1>1. /\ b = [start |-> b.start, length |-> b.length, ptr |-> b.ptr,
              thrown |-> b.thrown, reserved |-> b.reserved]
      /\ b.length \in Nat \ {0} /\ b.ptr \in Nat /\ b.reserved \in Nat /\ b.thrown \in BOOLEAN
      /\ ~b.thrown /\ Len(c) \in Nat
  BY DEF IsOut, IsBuffer
<1>2. p = [b EXCEPT !.start = cells, !.ptr = n]
  BY DEF Put
<1>3. cells = [i \in 1..b.length |-> cells[i]]
  OBVIOUS
<1>4. \A i \in 1..b.length : cells[i] = IF b.ptr < i /\ i <= n THEN c[i - b.ptr] ELSE b.start[i]
  OBVIOUS
<1>5. n \in Nat
  BY <1>1
<1> HIDE DEF cells, n, p
<1>6. p = [start |-> cells, length |-> b.length, ptr |-> n,
           thrown |-> b.thrown, reserved |-> b.reserved]
  BY <1>1, <1>2
<1>7. IsOut(p)
  <2>1. p.start = cells /\ p.length = b.length /\ p.ptr = n /\ p.thrown = b.thrown
        /\ p.reserved = b.reserved
    BY <1>6
  <2>2. p = [start |-> p.start, length |-> p.length, ptr |-> p.ptr,
             thrown |-> p.thrown, reserved |-> p.reserved]
    BY <1>6
  <2> QED BY <1>1, <1>3, <1>5, <2>1, <2>2 DEF IsOut, IsBuffer
<1>8. p.length = b.length /\ p.ptr = n /\ p.start = cells
  BY <1>6
<1> QED BY <1>4, <1>7, <1>8 DEF Overwritten, p, n

LEMMA EnsureAndPutInside ==
  ASSUME NEW b, IsOut(b), NEW S, NEW c \in Seq(S), b.ptr + Len(c) <= b.length
  PROVE  Overwritten(EnsureAndPut(b, c), b, c)
<1> DEFINE e == Ensure(b, Len(c))
<1>1. IsOut(e) /\ e.length = b.length /\ e.ptr = b.ptr /\ e.start = b.start
  BY EnsureInside
<1>2. EnsureAndPut(b, c) = Put(e, c)
  BY <1>1 DEF EnsureAndPut, IsOut
<1> HIDE DEF e
<1>3. Overwritten(Put(e, c), e, c)
  BY <1>1, PutInside
<1> QED BY <1>1, <1>2, <1>3 DEF Overwritten

\* Two writes in a row.
LEMMA OverwrittenTwice ==
  ASSUME NEW b, IsOut(b), NEW S, NEW c \in Seq(S), NEW T, NEW d \in Seq(T), NEW p, NEW q,
         Overwritten(p, b, c), Overwritten(q, p, d)
  PROVE  Overwritten(q, b, c \o d)
<1> DEFINE U == S \cup T
<1>1. c \in Seq(U) /\ d \in Seq(U)
  OBVIOUS
<1> HIDE DEF U
<1>2. /\ Len(c \o d) = Len(c) + Len(d) /\ Len(c) \in Nat /\ Len(d) \in Nat
      /\ \A i \in 1..Len(c) + Len(d) : (c \o d)[i] = IF i <= Len(c) THEN c[i] ELSE d[i - Len(c)]
  BY <1>1, ConcatProperties, LenProperties
<1> DEFINE cd == c \o d
<1> HIDE DEF cd
<1>3. b.length \in Nat /\ b.ptr \in Nat /\ p.ptr = b.ptr + Len(c) /\ p.length = b.length
  BY DEF Overwritten, IsOut, IsBuffer
<1>4. ASSUME NEW i \in 1..b.length
      PROVE  q.start[i] = IF b.ptr < i /\ i <= b.ptr + Len(cd) THEN cd[i - b.ptr] ELSE b.start[i]
  <2>1. q.start[i] = IF p.ptr < i /\ i <= p.ptr + Len(d) THEN d[i - p.ptr] ELSE p.start[i]
    BY <1>3 DEF Overwritten
  <2>2. p.start[i] = IF b.ptr < i /\ i <= b.ptr + Len(c) THEN c[i - b.ptr] ELSE b.start[i]
    BY DEF Overwritten
  <2>3. CASE p.ptr < i /\ i <= p.ptr + Len(d)
    <3>1. /\ i - b.ptr \in 1..Len(c) + Len(d) /\ ~(i - b.ptr <= Len(c))
          /\ (i - b.ptr) - Len(c) = i - p.ptr
      <4>1. Len(c) \in Nat /\ Len(d) \in Nat /\ i \in 1..b.length
        BY <1>2
      <4> QED BY ONLY <4>1, <1>3, <2>3
    <3>2. cd[i - b.ptr] = d[i - p.ptr]
      BY <1>2, <3>1 DEF cd
    <3> QED BY <1>2, <1>3, <2>1, <2>3, <3>2 DEF cd
  <2>4. CASE ~(p.ptr < i) /\ b.ptr < i
    <3>1. i - b.ptr \in 1..Len(c) + Len(d) /\ i - b.ptr <= Len(c)
      BY <1>2, <1>3, <2>4
    <3>2. cd[i - b.ptr] = c[i - b.ptr]
      BY <1>2, <3>1 DEF cd
    <3> QED BY <1>2, <1>3, <2>1, <2>2, <2>4, <3>2 DEF cd
  <2>5. CASE ~(b.ptr < i) \/ ~(i <= p.ptr + Len(d))
    BY <1>2, <1>3, <2>1, <2>2, <2>5 DEF cd
  <2> QED BY <2>3, <2>4, <2>5
<1>5. IsOut(q) /\ q.length = b.length /\ q.ptr = b.ptr + Len(cd)
  BY <1>2, <1>3 DEF Overwritten, IsOut, IsBuffer, cd
<1> QED BY <1>4, <1>5 DEF Overwritten, cd

LEMMA StringInside ==
  ASSUME NEW b, IsOut(b), NEW s, Readable(s), b.ptr + StringSize(s) <= b.length
  PROVE  Overwritten(StringWritten(b, s), b, EncString(s))
<1> USE SizeAssumption
<1>0. /\ IsText(s) /\ StringSize(s) \in Nat /\ StringSize(s) >= IntSize
      /\ Len(EncString(s)) = StringSize(s)
      /\ b.ptr \in Nat /\ b.length \in Nat
  BY ReadableIs DEF IsOut, IsBuffer
<1>1. CASE s.str = << >>
  <2>1. StringWritten(b, s) = EnsureAndPut(b, IntCells(0)) /\ EncString(s) = IntCells(0)
    BY <1>1 DEF StringWritten, IntWritten, EncString
  <2>2. PICK S : IntCells(0) \in Seq(S)
    BY IntCellsSeq
  <2> QED BY <1>0, <2>1, <2>2, EnsureAndPutInside
<1>2. CASE s.str # << >>
  <2> DEFINE hd == IntCells(LengthField(s))
             body == StringBody(s)
             e == Ensure(b, StringSize(s))
             h == EnsureAndPut(e, hd)
  <2>1. PICK H : hd \in Seq(H) /\ Len(hd) = IntSize
    BY IntCellsSeq
  <2>2. PICK B : body \in Seq(B) /\ IntSize + Len(body) = StringSize(s)
    BY <1>0, <1>2, StringBodySeq DEF StringSize
  <2>3. EncString(s) = hd \o body
    BY <1>2 DEF EncString
  <2>4. IsOut(e) /\ e.length = b.length /\ e.ptr = b.ptr /\ e.start = b.start
    BY <1>0, EnsureInside
  <2>5. StringWritten(b, s) = IF h.thrown THEN h ELSE Put(h, body)
    BY <1>2, <2>4 DEF StringWritten, IntWritten, IsOut
  <2> HIDE DEF hd, body, e
  <2>6. Overwritten(h, e, hd)
    <3>1. e.ptr + Len(hd) <= e.length
      BY <1>0, <2>1, <2>4
    <3> QED BY <2>1, <2>4, <3>1, EnsureAndPutInside
  <2> HIDE DEF h
  <2>7. Overwritten(h, b, hd)
    BY <2>4, <2>6 DEF Overwritten
  <2>8. IsOut(h) /\ h.length = b.length /\ h.ptr = b.ptr + IntSize
    BY <2>1, <2>7 DEF Overwritten
  <2>9. Overwritten(Put(h, body), h, body)
    <3>1. Len(body) \in Nat
      BY <2>2
    <3>2. h.ptr + Len(body) <= h.length
      BY <1>0, <2>2, <2>8, <3>1
    <3> QED BY <2>2, <2>8, <3>2, PutInside
  <2>10. StringWritten(b, s) = Put(h, body)
    BY <2>5, <2>8 DEF IsOut
  <2> QED BY <2>1, <2>2, <2>3, <2>7, <2>9, <2>10, OverwrittenTwice
<1> QED BY <1>1, <1>2

\* The next header field, written at the cursor.
LEMMA FieldInside ==
  ASSUME NEW b, IsOut(b), NEW s \in Saves, NEW k \in Fields, b.ptr + FieldSize(s, k) <= b.length
  PROVE  Overwritten(IF FieldKinds[k] = "int" THEN IntWritten(b, s.fields[k])
                                              ELSE StringWritten(b, s.fields[k]),
                     b, FieldCode(s, k))
<1>1. IsField(s.fields[k], FieldKinds[k])
  BY SaveIs
<1>2. CASE FieldKinds[k] = "int"
  <2>1. PICK S : IntCells(s.fields[k]) \in Seq(S) /\ Len(IntCells(s.fields[k])) = IntSize
    BY IntCellsSeq
  <2>2. b.ptr + Len(IntCells(s.fields[k])) <= b.length
    BY <1>2, <2>1 DEF FieldSize
  <2> QED BY <1>2, <2>1, <2>2, EnsureAndPutInside DEF IntWritten, FieldCode
<1>3. CASE FieldKinds[k] # "int"
  <2>1. Readable(s.fields[k])
    BY <1>1, <1>3 DEF IsField
  <2> QED BY <1>3, <2>1, StringInside DEF FieldSize, FieldCode
<1> QED BY <1>2, <1>3

-----------------------------------------------------------------------------
(* Compressed chunks *)

\* e is c and then d.
Concatenated(e, c, d) ==
  /\ \E S : e \in Seq(S)
  /\ Len(c) \in Nat /\ Len(d) \in Nat /\ Len(e) = Len(c) + Len(d)
  /\ \A i \in 1..Len(c) : e[i] = c[i]
  /\ \A i \in 1..Len(d) : e[Len(c) + i] = d[i]

LEMMA ConcatIs ==
  ASSUME NEW S, NEW T, NEW c \in Seq(S), NEW d \in Seq(T)
  PROVE  Concatenated(c \o d, c, d)
<1> DEFINE U == S \cup T
<1>1. c \in Seq(U) /\ d \in Seq(U)
  OBVIOUS
<1> HIDE DEF U
<1>2. /\ c \o d \in Seq(U)
      /\ Len(c \o d) = Len(c) + Len(d) /\ Len(c) \in Nat /\ Len(d) \in Nat
      /\ \A i \in 1..Len(c) + Len(d) : (c \o d)[i] = IF i <= Len(c) THEN c[i] ELSE d[i - Len(c)]
  BY <1>1, ConcatProperties, LenProperties
<1>3. \A i \in 1..Len(c) : (c \o d)[i] = c[i]
  BY <1>2
<1>4. ASSUME NEW i \in 1..Len(d) PROVE (c \o d)[Len(c) + i] = d[i]
  <2>1. Len(c) + i \in 1..Len(c) + Len(d) /\ ~(Len(c) + i <= Len(c)) /\ (Len(c) + i) - Len(c) = i
    BY <1>2
  <2> QED BY <1>2, <2>1
<1> QED BY <1>2, <1>3, <1>4 DEF U, Concatenated

\* The cells c are a sequence of n plain cells.
PlainCells(c, n) == AllPlain(c) /\ Len(c) = n /\ n \in Nat /\ \E S : c \in Seq(S)

\* e is c, which is m cells long, and then d.
Joined(e, c, m, d, n) ==
  /\ PlainCells(e, m + n)
  /\ \A i \in 1..m : e[i] = c[i]
  /\ \A i \in 1..n : e[m + i] = d[i]

LEMMA PlainConcat ==
  ASSUME NEW c, NEW m, PlainCells(c, m), NEW d, NEW n, PlainCells(d, n)
  PROVE  Joined(c \o d, c, m, d, n)
<1>1. PICK S : c \in Seq(S)
  BY DEF PlainCells
<1>2. PICK T : d \in Seq(T)
  BY DEF PlainCells
<1>3. AllPlain(c) /\ AllPlain(d) /\ Len(c) = m /\ Len(d) = n /\ m \in Nat /\ n \in Nat
  BY DEF PlainCells
<1>4. AllPlain(c \o d)
  BY <1>1, <1>2, <1>3, ConcatPlain
<1> DEFINE cd == c \o d
<1>5. Concatenated(cd, c, d)
  BY <1>1, <1>2, ConcatIs
<1>6. PlainCells(cd, m + n)
  <2> HIDE DEF cd
  <2>1. m + n \in Nat /\ AllPlain(cd) /\ Len(cd) = m + n /\ \E U : cd \in Seq(U)
    BY <1>3, <1>4, <1>5 DEF cd, Concatenated
  <2> QED BY <2>1 DEF PlainCells
<1> HIDE DEF cd
<1>7. Joined(cd, c, m, d, n)
  BY <1>3, <1>5, <1>6 DEF Joined, Concatenated
<1> QED BY <1>7 DEF cd

LEMMA IntIsPlain == \A v \in Int : PlainCells(IntCells(v), IntSize) /\ IntCells(v)[1] = <<"int", v, 1>>
<1> SUFFICES ASSUME NEW v \in Int
             PROVE  PlainCells(IntCells(v), IntSize) /\ IntCells(v)[1] = <<"int", v, 1>>
  OBVIOUS
<1>1. IntSize \in Nat /\ 1 \in 1..IntSize
  BY SizeAssumption
<1> QED BY <1>1, IntPlain, IntCellsAre DEF PlainCells

\* The chunk header: magic, flags, packed size, size, and both sizes again.
LEMMA ChunkHeaderIs ==
  ASSUME NEW p \in Nat, NEW n \in Nat
  PROVE  LET c == ChunkHeader(p, n) IN
         /\ PlainCells(c, 6 * IntSize)
         /\ c[1] = <<"int", Magic, 1>>
         /\ c[2 * IntSize + 1] = <<"int", p, 1>>
         /\ c[3 * IntSize + 1] = <<"int", n, 1>>
<1> DEFINE i1 == IntCells(Magic)
           i2 == IntCells(MaxChunk)
           i3 == IntCells(p)
           i4 == IntCells(n)
           c2 == i1 \o i2
           c3 == c2 \o i3
           c4 == c3 \o i4
           c5 == c4 \o i3
           c6 == c5 \o i4
<1>1. /\ PlainCells(i1, IntSize) /\ PlainCells(i2, IntSize)
      /\ PlainCells(i3, IntSize) /\ PlainCells(i4, IntSize)
      /\ i1[1] = <<"int", Magic, 1>> /\ i3[1] = <<"int", p, 1>> /\ i4[1] = <<"int", n, 1>>
  BY ContainerAssumption, IntIsPlain
<1>2. IntSize \in Nat /\ IntSize >= 1
  BY SizeAssumption
<1> HIDE DEF i1, i2, i3, i4
<1> DEFINE n1 == IntSize
           n2 == n1 + n1
           n3 == n2 + n1
           n4 == n3 + n1
           n5 == n4 + n1
           n6 == n5 + n1
<1>20. Joined(c2, i1, n1, i2, n1)
  BY <1>1, PlainConcat
<1> HIDE DEF c2
<1>3. PlainCells(c2, IntSize + IntSize) /\ \A i \in 1..IntSize : c2[i] = i1[i]
  BY <1>20 DEF Joined
<1>21. Joined(c3, c2, n2, i3, n1)
  BY <1>1, <1>3, PlainConcat
<1> HIDE DEF c3
<1>4. /\ PlainCells(c3, IntSize + IntSize + IntSize)
      /\ \A i \in 1..IntSize + IntSize : c3[i] = c2[i]
      /\ \A i \in 1..IntSize : c3[IntSize + IntSize + i] = i3[i]
  BY <1>21 DEF Joined
<1>22. Joined(c4, c3, n3, i4, n1)
  BY <1>1, <1>4, PlainConcat
<1> HIDE DEF c4
<1>5. /\ PlainCells(c4, IntSize + IntSize + IntSize + IntSize)
      /\ \A i \in 1..IntSize + IntSize + IntSize : c4[i] = c3[i]
      /\ \A i \in 1..IntSize : c4[IntSize + IntSize + IntSize + i] = i4[i]
  BY <1>22 DEF Joined
<1>23. Joined(c5, c4, n4, i3, n1)
  BY <1>1, <1>5, PlainConcat
<1> HIDE DEF c5
<1>6. /\ PlainCells(c5, IntSize + IntSize + IntSize + IntSize + IntSize)
      /\ \A i \in 1..IntSize + IntSize + IntSize + IntSize : c5[i] = c4[i]
  BY <1>23 DEF Joined
<1>24. Joined(c6, c5, n5, i4, n1)
  BY <1>1, <1>6, PlainConcat
<1>7. /\ PlainCells(c6, IntSize + IntSize + IntSize + IntSize + IntSize + IntSize)
      /\ \A i \in 1..IntSize + IntSize + IntSize + IntSize + IntSize : c6[i] = c5[i]
  <2> HIDE DEF c6
  <2> QED BY <1>24 DEF Joined
<1>8. ChunkHeader(p, n) = c6
  BY DEF ChunkHeader, c6, c5, c4, c3, c2, i1, i2, i3, i4
<1> HIDE DEF c6
<1>9. /\ 6 * IntSize = IntSize + IntSize + IntSize + IntSize + IntSize + IntSize
      /\ 2 * IntSize + 1 = IntSize + IntSize + 1 /\ 3 * IntSize + 1 = IntSize + IntSize + IntSize + 1
      /\ 1 \in 1..IntSize
  BY <1>2
<1>10. c6[1] = <<"int", Magic, 1>>
  BY <1>1, <1>2, <1>3, <1>4, <1>5, <1>6, <1>7
<1>11. c6[2 * IntSize + 1] = <<"int", p, 1>>
  <2>1. c3[IntSize + IntSize + 1] = i3[1]
    BY <1>4, <1>9
  <2>2. c6[IntSize + IntSize + 1] = c3[IntSize + IntSize + 1]
    BY <1>2, <1>5, <1>6, <1>7
  <2> QED BY <1>1, <1>9, <2>1, <2>2
<1>12. c6[3 * IntSize + 1] = <<"int", n, 1>>
  <2>1. c4[IntSize + IntSize + IntSize + 1] = i4[1]
    BY <1>5, <1>9
  <2>2. c6[IntSize + IntSize + IntSize + 1] = c4[IntSize + IntSize + IntSize + 1]
    BY <1>2, <1>6, <1>7
  <2> QED BY <1>1, <1>9, <2>1, <2>2
<1> QED BY <1>7, <1>8, <1>9, <1>10, <1>11, <1>12

LEMMA PackedSizeIs ==
  ASSUME NEW S, NEW c \in Seq(S), c # << >>
  PROVE  PackedSize(c) \in Nat \ {0}
<1> DEFINE R == {k \in 1..Len(c) : k = 1 \/ c[k] # c[k - 1]}
<1>1. Len(c) \in Nat \ {0}
  BY LenProperties, EmptySeq
<1>2. R \subseteq 1..Len(c) /\ 1 \in R
  BY <1>1
<1>3. IsFiniteSet(1..Len(c))
  BY <1>1, FS_Interval
<1> HIDE DEF R
<1>4. IsFiniteSet(R)
  BY <1>2, <1>3, FS_Subset
<1>5. Cardinality(R) \in Nat /\ Cardinality(R) # 0
  BY <1>2, <1>4, FS_CardinalityType, FS_EmptySet
<1>6. PackedSize(c) = Overhead + Cardinality(R)
  BY DEF PackedSize, Runs, R
<1> QED BY <1>5, <1>6, ContainerAssumption

\* The bytes of the save between two positions.
Piece(s, from, to) == SubSeq(s.payload, from + 1, to)

LEMMA PieceIs ==
  ASSUME NEW s \in Saves, NEW from \in Nat, NEW to \in Nat, from < to, to <= Len(s.payload)
  PROVE  /\ Len(Piece(s, from, to)) = to - from
         /\ Piece(s, from, to) # << >>
         /\ \E S : Piece(s, from, to) \in Seq(S)
         /\ \A i \in 1..to - from : Piece(s, from, to)[i] = s.payload[from + i]
<1> DEFINE S == {s.payload[i] : i \in DOMAIN s.payload}
           c == Piece(s, from, to)
<1>1. s.payload \in Seq(S)
  BY SaveIs
<1> HIDE DEF S
<1>2. Len(s.payload) \in Nat /\ from + 1 \in 1..Len(s.payload) /\ to \in (from + 1) - 1..Len(s.payload)
  BY <1>1
<1>3. /\ c \in Seq(S) /\ Len(c) = to - (from + 1) + 1
      /\ \A i \in 1..to - (from + 1) + 1 : c[i] = s.payload[from + 1 + i - 1]
  BY <1>1, <1>2, SubSeqProperties DEF Piece
<1> HIDE DEF c
<1>4. to - (from + 1) + 1 = to - from /\ to - from \in Nat \ {0}
      /\ \A i \in 1..to - from : from + 1 + i - 1 = from + i
  OBVIOUS
<1>5. Len(c) = to - from /\ \A i \in 1..to - from : c[i] = s.payload[from + i]
  BY <1>3, <1>4
<1>6. c # << >>
  BY <1>3, <1>4, <1>5, EmptySeq
<1> QED BY <1>3, <1>5, <1>6 DEF c

\* The cells c are the first n of the chunk as this codec compresses it.
IsPacked(c, n, codec, chunk) ==
  /\ PlainCells(c, n)
  /\ \A k \in 1..n : c[k] = <<codec, chunk, k>>

LEMMA CompressOneChunkIs ==
  ASSUME NEW v, NEW S, NEW chunk \in Seq(S), chunk # << >>, NEW room \in Nat
  PROVE  LET c == CompressOneChunk(v, chunk, room)
             n == IF v = Android /\ room < PackedSize(chunk) THEN room ELSE PackedSize(chunk)
         IN  IsPacked(c, n, Codec(v), chunk)
<1> DEFINE c == CompressOneChunk(v, chunk, room)
           size == PackedSize(chunk)
           codec == Codec(v)
           p == [k \in 1..size |-> <<codec, chunk, k>>]
           n == IF v = Android /\ room < size THEN room ELSE size
           T == {<<codec, chunk, k>> : k \in 1..size}
<1>1. size \in Nat
  BY PackedSizeIs
<1>2. codec # "crc" /\ codec \notin {"int", "zero"}
  BY DEF Codec
<1>3. Packed(codec, chunk) = p
  BY DEF Packed
<1> HIDE DEF size, codec
<1>4. p \in [1..size -> T]
  OBVIOUS
<1>5. \A k \in 1..size : p[k] = <<codec, chunk, k>>
  OBVIOUS
<1> HIDE DEF p, T
<1>6. p \in Seq(T) /\ Len(p) = size
  BY <1>1, <1>4, FunctionIsSeq
<1>7. c = IF v = Android /\ room < size THEN SubSeq(p, 1, room) ELSE p
  BY <1>3, <1>6 DEF CompressOneChunk, codec
<1>8. n \in Nat /\ n <= size
  BY <1>1
<1> HIDE DEF c
<1>9. c \in Seq(T) /\ Len(c) = n /\ \A k \in 1..n : c[k] = p[k]
  <2>1. CASE v = Android /\ room < size
    <3>1. 1 \in 1..Len(p) + 1 /\ room \in 1 - 1..Len(p)
      BY <1>1, <1>6, <2>1
    <3>2. SubSeq(p, 1, room) \in Seq(T) /\ Len(SubSeq(p, 1, room)) = room - 1 + 1
          /\ \A i \in 1..room - 1 + 1 : SubSeq(p, 1, room)[i] = p[1 + i - 1]
      BY <1>1, <1>6, <2>1, <3>1, SubSeqProperties
    <3>3. room - 1 + 1 = room /\ \A i \in 1..room : 1 + i - 1 = i
      OBVIOUS
    <3>4. c = SubSeq(p, 1, room) /\ n = room
      BY <1>7, <2>1
    <3> DEFINE q == SubSeq(p, 1, room)
    <3> HIDE DEF q
    <3>5. q \in Seq(T) /\ Len(q) = room /\ \A i \in 1..room : q[i] = p[i]
      BY <3>2, <3>3 DEF q
    <3> QED BY <3>4, <3>5 DEF q
  <2>2. CASE ~(v = Android /\ room < size)
    BY <1>6, <1>7, <2>2
  <2> QED BY <2>1, <2>2
<1> HIDE DEF n
<1>10. \A k \in 1..n : c[k] = <<codec, chunk, k>>
  BY <1>5, <1>8, <1>9, <1>1
<1>11. AllPlain(c)
  BY <1>2, <1>9, <1>10 DEF AllPlain, Plain, IntsAreInts
<1> QED BY <1>8, <1>9, <1>10, <1>11 DEF IsPacked, PlainCells, n, c, size, codec

\* Behind position o of f stands a compressed chunk of n bytes, the bytes of the save
\* between two positions; only zlib ever leaves out the end of it.
Chunk(s, f, o, n, from, to) ==
  /\ from < to /\ to <= Len(s.payload)
  /\ f[o + 1] = <<"int", Magic, 1>>
  /\ f[o + (2 * IntSize + 1)] = <<"int", n, 1>>
  /\ f[o + (3 * IntSize + 1)] = <<"int", to - from, 1>>
  /\ \A k \in 1..n : f[o + (6 * IntSize + k)] = <<Codec(Version(s)), Piece(s, from, to), k>>
  /\ n <= PackedSize(Piece(s, from, to))
  /\ n = PackedSize(Piece(s, from, to)) \/ (Version(s) = Android /\ ~NothingCut)

\* The cells of f up to len are the header area and chunks with the first end bytes of
\* the save: chunk j stands behind off[j] and starts with byte pos[j].
Chunked(s, f, len, J, off, pos, end) ==
  /\ J \in Nat /\ off \in [0..J -> Nat] /\ pos \in [0..J -> Nat]
  /\ off[0] = HdrSize /\ pos[0] = 0 /\ off[J] = len /\ pos[J] = end
  /\ \A j \in 0..J - 1 :
       \E n \in Nat :
         /\ HdrSize <= off[j] /\ off[j + 1] = off[j] + (6 * IntSize + n) /\ off[j + 1] <= len
         /\ Chunk(s, f, off[j], n, pos[j], pos[j + 1])

Packs(s, f, len, end) == \E J, off, pos : Chunked(s, f, len, J, off, pos, end)

\* Cells inside the area of a chunk.
LEMMA ChunkPlace ==
  ASSUME NEW o \in Nat, NEW n \in Nat, HdrSize <= o
  PROVE  /\ o + 1 \in HdrSize + 1..o + (6 * IntSize + n)
         /\ o + (2 * IntSize + 1) \in HdrSize + 1..o + (6 * IntSize + n)
         /\ o + (3 * IntSize + 1) \in HdrSize + 1..o + (6 * IntSize + n)
         /\ \A k \in 1..n : o + (6 * IntSize + k) \in HdrSize + 1..o + (6 * IntSize + n)
BY SizeAssumption, ContainerAssumption

\* Chunks do not depend on the header area.
LEMMA ChunkedSame ==
  ASSUME NEW s, NEW f, NEW g, NEW len \in Nat, NEW J, NEW off, NEW pos, NEW end,
         Chunked(s, f, len, J, off, pos, end),
         \A i \in HdrSize + 1..len : g[i] = f[i]
  PROVE  Chunked(s, g, len, J, off, pos, end)
<1>1. J \in Nat /\ off \in [0..J -> Nat]
  BY DEF Chunked
<1>2. ASSUME NEW j \in 0..J - 1
      PROVE  \E n \in Nat :
         /\ HdrSize <= off[j] /\ off[j + 1] = off[j] + (6 * IntSize + n) /\ off[j + 1] <= len
         /\ Chunk(s, g, off[j], n, pos[j], pos[j + 1])
  <2>1. PICK n \in Nat :
         /\ HdrSize <= off[j] /\ off[j + 1] = off[j] + (6 * IntSize + n) /\ off[j + 1] <= len
         /\ Chunk(s, f, off[j], n, pos[j], pos[j + 1])
    BY DEF Chunked
  <2> DEFINE o == off[j]
  <2>2. o \in Nat
    BY <1>1
  <2> HIDE DEF o
  <2>3. /\ o + 1 \in HdrSize + 1..o + (6 * IntSize + n)
        /\ o + (2 * IntSize + 1) \in HdrSize + 1..o + (6 * IntSize + n)
        /\ o + (3 * IntSize + 1) \in HdrSize + 1..o + (6 * IntSize + n)
        /\ \A k \in 1..n : o + (6 * IntSize + k) \in HdrSize + 1..o + (6 * IntSize + n)
    BY <2>1, <2>2, ChunkPlace DEF o
  <2>4. \A i \in HdrSize + 1..o + (6 * IntSize + n) : i \in HdrSize + 1..len
    BY <2>1, <2>2, SizeAssumption, ContainerAssumption DEF o
  <2>5. /\ g[o + 1] = f[o + 1] /\ g[o + (2 * IntSize + 1)] = f[o + (2 * IntSize + 1)]
        /\ g[o + (3 * IntSize + 1)] = f[o + (3 * IntSize + 1)]
        /\ \A k \in 1..n : g[o + (6 * IntSize + k)] = f[o + (6 * IntSize + k)]
    BY <2>3, <2>4
  <2>6. Chunk(s, g, o, n, pos[j], pos[j + 1])
    BY <2>1, <2>5 DEF Chunk, o
  <2> QED BY <2>1, <2>6 DEF o
<1> QED BY <1>2 DEF Chunked

\* One more chunk behind them.
LEMMA ChunkedGrown ==
  ASSUME NEW s \in Saves, NEW f, NEW g, NEW len \in Nat, NEW end \in Nat, Packs(s, f, len, end),
         HdrSize <= len, \A i \in HdrSize + 1..len : g[i] = f[i],
         NEW n \in Nat, NEW to \in Nat, Chunk(s, g, len, n, end, to)
  PROVE  Packs(s, g, len + (6 * IntSize + n), to)
<1> USE SizeAssumption, ContainerAssumption
<1>1. PICK J, off, pos : Chunked(s, f, len, J, off, pos, end)
  BY DEF Packs
<1> DEFINE len2 == len + (6 * IntSize + n)
           off2 == [j \in 0..J + 1 |-> IF j <= J THEN off[j] ELSE len2]
           pos2 == [j \in 0..J + 1 |-> IF j <= J THEN pos[j] ELSE to]
<1>2. J \in Nat /\ off \in [0..J -> Nat] /\ pos \in [0..J -> Nat]
      /\ off[0] = HdrSize /\ pos[0] = 0 /\ off[J] = len /\ pos[J] = end
  BY <1>1 DEF Chunked
<1>3. Chunked(s, g, len, J, off, pos, end)
  BY <1>1, ChunkedSame
<1>4. len2 \in Nat /\ len <= len2
  OBVIOUS
<1> HIDE DEF len2
<1>5. /\ off2 \in [0..J + 1 -> Nat] /\ pos2 \in [0..J + 1 -> Nat]
      /\ \A j \in 0..J : off2[j] = off[j] /\ pos2[j] = pos[j]
      /\ off2[J + 1] = len2 /\ pos2[J + 1] = to
  BY <1>2, <1>4
<1> HIDE DEF off2, pos2
<1>6. ASSUME NEW j \in 0..(J + 1) - 1
      PROVE  \E m \in Nat :
         /\ HdrSize <= off2[j] /\ off2[j + 1] = off2[j] + (6 * IntSize + m) /\ off2[j + 1] <= len2
         /\ Chunk(s, g, off2[j], m, pos2[j], pos2[j + 1])
  <2>1. CASE j \in 0..J - 1
    <3>1. PICK m \in Nat :
         /\ HdrSize <= off[j] /\ off[j + 1] = off[j] + (6 * IntSize + m) /\ off[j + 1] <= len
         /\ Chunk(s, g, off[j], m, pos[j], pos[j + 1])
      BY <1>3, <2>1 DEF Chunked
    <3>2. j \in 0..J /\ j + 1 \in 0..J
      BY <1>2, <2>1
    <3>3. off2[j] = off[j] /\ off2[j + 1] = off[j + 1] /\ pos2[j] = pos[j] /\ pos2[j + 1] = pos[j + 1]
      BY <1>5, <3>2
    <3>4. off[j + 1] <= len2
      <4>1. off[j + 1] \in Nat /\ off[j + 1] <= len
        BY <1>2, <3>1, <3>2
      <4> QED BY ONLY <4>1, <1>4, len \in Nat
    <3> QED BY <3>1, <3>3, <3>4
  <2>2. CASE j = J
    <3>1. off2[j] = len /\ pos2[j] = end /\ off2[j + 1] = len2 /\ pos2[j + 1] = to
      BY <1>2, <1>5, <2>2
    <3>2. len2 = len + (6 * IntSize + n) /\ len2 <= len2
      BY <1>4 DEF len2
    <3> QED BY <3>1, <3>2
  <2> QED BY <1>2, <2>1, <2>2
<1>7. J + 1 \in Nat /\ 0 \in 0..J
  BY <1>2
<1>8. Chunked(s, g, len2, J + 1, off2, pos2, to)
  BY <1>2, <1>5, <1>6, <1>7 DEF Chunked
<1> QED BY <1>8 DEF Packs, len2

-----------------------------------------------------------------------------
(* Writing *)

\* The first k header fields stand where they belong.
FieldsPlaced(s, f, k) == \A j \in 0..k - 1 : Placed(f, FieldsEnd(s, j), FieldCode(s, j + 1))

\* The compressed data: everything behind the header area.
Data(b) == SubSeq(b.start, HdrSize + 1, b.length)

HeaderEnd(s) == FieldsEnd(s, 12)

\* What write_header leaves behind, except for what ends the header area.
Written(s, b) ==
  /\ IsOut(b) /\ HdrSize <= b.length
  /\ Packs(s, b.start, b.length, Len(s.payload))
  /\ FieldsPlaced(s, b.start, 12)
  /\ b.ptr = HeaderEnd(s) + IntSize
  /\ Placed(b.start, HeaderEnd(s), CrcCells(Data(b)))
  /\ \A i \in 1..b.length :
       \/ Plain(b.start[i])
       \/ i <= HdrSize /\ b.start[i][1] = "crc" /\ b.start[i][2] = Data(b)

\* The inductive invariant of the writer.
WriterInv ==
  /\ save \in Saves
  /\ stage = "compress" =>
       /\ PlainCells(w.start, w.length) /\ HdrSize <= w.length /\ w.ptr = 0 /\ IsOut(w)
       /\ left \in 1..Len(save.payload) /\ done = 0
       /\ \E m \in Nat : Len(save.payload) - left = m * MaxChunk
       /\ Packs(save, w.start, w.length, Len(save.payload) - left)
  /\ stage \in {"fields", "data_crc"} =>
       /\ PlainCells(w.start, w.length) /\ HdrSize <= w.length /\ IsOut(w)
       /\ done \in 0..12 /\ (stage = "fields" <=> done < 12)
       /\ w.ptr = FieldsEnd(save, done) /\ FieldsPlaced(save, w.start, done)
       /\ Packs(save, w.start, w.length, Len(save.payload))
  /\ stage \notin {"compress", "fields", "data_crc"} => Written(save, w)

LEMMA OutputIs ==
  ASSUME NEW c, NEW n \in Nat \ {0}, PlainCells(c, n)
  PROVE  /\ IsOut(Output(c)) /\ Output(c).ptr = 0
         /\ Output(c).start = c /\ Output(c).length = n
<1>1. PICK S : c \in Seq(S)
  BY DEF PlainCells
<1>2. Len(c) = n
  BY DEF PlainCells
<1> DEFINE f == FALSE
           o == [start |-> c, length |-> n, ptr |-> 0, thrown |-> f, reserved |-> 0]
<1>3. Output(c) = o
  BY <1>2 DEF Output
<1> HIDE DEF f
<1>4. /\ o.start = c /\ o.length = n /\ o.ptr = 0 /\ o.thrown = f /\ o.reserved = 0
      /\ o = [start |-> o.start, length |-> o.length, ptr |-> o.ptr,
              thrown |-> o.thrown, reserved |-> o.reserved]
  OBVIOUS
<1>5. c = [i \in 1..n |-> c[i]]
  BY <1>1, <1>2
<1> HIDE DEF o
<1>6. IsOut(o)
  <2>1. o.thrown \in BOOLEAN /\ ~o.thrown
    BY <1>4 DEF f
  <2>2. o.start = [i \in 1..o.length |-> o.start[i]]
    BY <1>4, <1>5
  <2> QED BY <1>4, <2>1, <2>2 DEF IsOut, IsBuffer
<1> QED BY <1>3, <1>4, <1>6

LEMMA WriterStarts == Init => WriterInv
<1> SUFFICES ASSUME Init PROVE WriterInv
  OBVIOUS
<1> USE SizeAssumption, ContainerAssumption
<1> DEFINE z == [k \in 1..HdrSize |-> Zero]
<1>1. PlainCells(z, HdrSize)
  <2>1. z \in [1..HdrSize -> {Zero}]
    OBVIOUS
  <2>2. z \in Seq({Zero}) /\ Len(z) = HdrSize
    BY <2>1, FunctionIsSeq
  <2>3. AllPlain(z)
    BY <2>2 DEF AllPlain, Plain, IntsAreInts, Zero
  <2> QED BY <2>2, <2>3 DEF PlainCells
<1>2. w = Output(z) /\ save \in Saves /\ stage = "compress" /\ left = Len(save.payload) /\ done = 0
  BY DEF Init
<1> HIDE DEF z
<1>3. IsOut(w) /\ w.ptr = 0 /\ w.start = z /\ w.length = HdrSize
  BY <1>1, <1>2, OutputIs
<1>4. Len(save.payload) \in Nat \ {0}
  BY <1>2, SaveIs, LenProperties, EmptySeq
<1>5. Len(save.payload) - left = 0 * MaxChunk /\ Len(save.payload) - left = 0
  BY <1>2, <1>4
<1>6. Packs(save, w.start, HdrSize, 0)
  <2> DEFINE off == [j \in 0..0 |-> HdrSize]
             pos == [j \in 0..0 |-> 0]
  <2>1. off \in [0..0 -> Nat] /\ pos \in [0..0 -> Nat] /\ off[0] = HdrSize /\ pos[0] = 0
        /\ 0 \in Nat /\ 0..0 - 1 = {}
    OBVIOUS
  <2> HIDE DEF off, pos
  <2>2. Chunked(save, w.start, HdrSize, 0, off, pos, 0)
    BY <2>1 DEF Chunked
  <2> QED BY <2>2 DEF Packs
<1>7. \E m \in Nat : Len(save.payload) - left = m * MaxChunk
  BY <1>5
<1> QED BY <1>1, <1>2, <1>3, <1>4, <1>5, <1>6, <1>7 DEF WriterInv

\* The size of a chunk, and what zlib can be short of.
LEMMA NothingCutIs ==
  ASSUME NEW s \in Saves, Version(s) = Android, NothingCut, NEW m \in Nat, NEW pos \in Nat,
         pos = m * MaxChunk, pos < Len(s.payload), NEW size,
         size = (IF Len(s.payload) - pos < MaxChunk THEN Len(s.payload) - pos ELSE MaxChunk)
  PROVE  ~(Len(s.payload) - pos < PackedSize(Piece(s, pos, pos + size)))
<1> DEFINE L == Len(s.payload)
<1>1. L \in Nat
  BY SaveIs, LenProperties
<1>2. m \in 0..L
  <2>1. MaxChunk \in Nat /\ MaxChunk >= 1
    BY ContainerAssumption
  <2>2. m <= m * MaxChunk
    BY <2>1
  <2> QED BY <1>1, <2>2
<1>3. PackedSize(SubSeq(s.payload, pos + 1, pos + size)) <= L - pos
  BY <1>2, Zenon DEF NothingCut, L
<1>4. PackedSize(Piece(s, pos, pos + size)) <= L - pos
  BY <1>3 DEF Piece
<1>5. PackedSize(Piece(s, pos, pos + size)) \in Int
  <2>1. pos + size \in Nat /\ pos < pos + size /\ pos + size <= L
    <3>1. MaxChunk \in Nat \ {0} /\ pos \in Nat /\ pos < L
          /\ size = IF L - pos < MaxChunk THEN L - pos ELSE MaxChunk
      BY ContainerAssumption
    <3> HIDE DEF L
    <3> QED BY ONLY <1>1, <3>1
  <2>2. PICK S : Piece(s, pos, pos + size) \in Seq(S) /\ Piece(s, pos, pos + size) # << >>
    BY <2>1, PieceIs
  <2> QED BY <2>2, PackedSizeIs
<1> QED BY <1>1, <1>4, <1>5

\* A chunk header and the compressed chunk, behind the cells f.
LEMMA ChunkAppended ==
  ASSUME NEW s \in Saves, NEW f, NEW len \in Nat, PlainCells(f, len), HdrSize <= len,
         NEW from \in Nat, NEW to \in Nat, from < to, to <= Len(s.payload),
         NEW packed, NEW n \in Nat, IsPacked(packed, n, Codec(Version(s)), Piece(s, from, to)),
         n <= PackedSize(Piece(s, from, to)),
         n = PackedSize(Piece(s, from, to)) \/ (Version(s) = Android /\ ~NothingCut),
         Packs(s, f, len, from)
  PROVE  LET g == f \o ChunkHeader(n, to - from) \o packed IN
         PlainCells(g, len + (6 * IntSize + n)) /\ Packs(s, g, len + (6 * IntSize + n), to)
<1> DEFINE head == ChunkHeader(n, to - from)
           fh == f \o head
           g == fh \o packed
           m == 6 * IntSize
<1>1. IntSize \in Nat \ {0} /\ m \in Nat
  BY SizeAssumption
<1>2. /\ PlainCells(head, m)
      /\ head[1] = <<"int", Magic, 1>>
      /\ head[2 * IntSize + 1] = <<"int", n, 1>>
      /\ head[3 * IntSize + 1] = <<"int", to - from, 1>>
  BY ChunkHeaderIs
<1>3. PlainCells(packed, n) /\ \A k \in 1..n : packed[k] = <<Codec(Version(s)), Piece(s, from, to), k>>
  BY DEF IsPacked
<1> HIDE DEF head
<1>4. Joined(fh, f, len, head, m)
  BY <1>2, PlainConcat
<1> HIDE DEF fh
<1>5. PlainCells(fh, len + m)
  BY <1>4 DEF Joined
<1>6. Joined(g, fh, len + m, packed, n)
  BY <1>3, <1>5, PlainConcat
<1> HIDE DEF g
<1>7. PlainCells(g, len + (m + n))
  <2>1. len + m + n = len + (m + n)
    BY <1>1
  <2> QED BY <1>6, <2>1 DEF Joined
<1>8. /\ \A i \in 1..len : g[i] = f[i]
      /\ \A i \in 1..m : g[len + i] = head[i]
      /\ \A i \in 1..n : g[len + (m + i)] = packed[i]
  <2>1. /\ \A i \in 1..len + m : g[i] = fh[i]
        /\ \A i \in 1..n : g[len + m + i] = packed[i]
        /\ \A i \in 1..len : fh[i] = f[i]
        /\ \A i \in 1..m : fh[len + i] = head[i]
    BY <1>4, <1>6 DEF Joined
  <2>2. /\ \A i \in 1..len : i \in 1..len + m
        /\ \A i \in 1..m : len + i \in 1..len + m
        /\ \A i \in 1..n : len + m + i = len + (m + i)
    BY <1>1
  <2> QED BY <2>1, <2>2
<1>9. 1 \in 1..m /\ 2 * IntSize + 1 \in 1..m /\ 3 * IntSize + 1 \in 1..m
  BY <1>1
<1>10. Chunk(s, g, len, n, from, to)
  BY <1>2, <1>3, <1>8, <1>9 DEF Chunk, m
<1>11. \A i \in HdrSize + 1..len : g[i] = f[i]
  BY <1>8, ContainerAssumption
<1> HIDE DEF m
<1>12. Packs(s, g, len + (6 * IntSize + n), to)
  BY <1>10, <1>11, ChunkedGrown
<1> QED BY <1>7, <1>12 DEF m, g, fh, head

LEMMA CompressKeeps ==
  ASSUME WriterInv, CompressChunk
  PROVE  WriterInv'
<1> USE SizeAssumption, ContainerAssumption
<1> DEFINE L == Len(save.payload)
           pos == L - left
           to == pos + ChunkSize
           packed == CompressOneChunk(Version(save), SubSeq(save.payload, pos + 1, to), left)
           n == Len(packed)
           g == w.start \o ChunkHeader(n, ChunkSize) \o packed
<1>1. /\ stage = "compress" /\ save \in Saves
      /\ PlainCells(w.start, w.length) /\ HdrSize <= w.length /\ w.ptr = 0 /\ IsOut(w)
      /\ left \in 1..L /\ done = 0
      /\ \E m \in Nat : pos = m * MaxChunk
      /\ Packs(save, w.start, w.length, pos)
  BY DEF WriterInv, CompressChunk
<1>2. L \in Nat /\ w.length \in Nat /\ left \in Nat
  <2>1. L \in Nat
    BY <1>1, SaveIs, LenProperties
  <2>2. w.length \in Nat
    BY <1>1 DEF IsOut, IsBuffer
  <2>3. left \in Nat
    BY ONLY <1>1, <2>1
  <2> QED BY <2>1, <2>2, <2>3
<1>3. ChunkSize \in Nat \ {0} /\ ChunkSize <= left
  BY <1>1, <1>2 DEF ChunkSize
<1>4. pos \in Nat /\ to \in Nat /\ pos < to /\ to <= L /\ pos < L
  BY <1>1, <1>2, <1>3
<1>5. /\ w' = Output(g)
      /\ left' = left - ChunkSize
      /\ stage' = IF left' > 0 THEN "compress" ELSE "fields"
      /\ save' = save /\ done' = done
  BY DEF CompressChunk
<1>6. PICK S : Piece(save, pos, to) \in Seq(S) /\ Piece(save, pos, to) # << >>
  <2>1. to <= Len(save.payload)
    BY <1>4
  <2>2. save \in Saves /\ pos \in Nat /\ to \in Nat /\ pos < to
    BY <1>1, <1>4
  <2> HIDE DEF pos, to, L, packed, n, g
  <2> QED BY ONLY <2>1, <2>2, PieceIs
<1> DEFINE size == PackedSize(Piece(save, pos, to))
           k == IF Version(save) = Android /\ left < size THEN left ELSE size
<1>7. size \in Nat
  BY <1>6, PackedSizeIs
<1>8. IsPacked(packed, k, Codec(Version(save)), Piece(save, pos, to))
  <2>1. left \in Nat
    BY <1>2
  <2>2. packed = CompressOneChunk(Version(save), Piece(save, pos, to), left)
    BY DEF Piece
  <2> HIDE DEF packed
  <2> QED BY <1>6, <2>1, <2>2, CompressOneChunkIs
<1>9. n = k
  BY <1>8 DEF IsPacked, PlainCells
<1>10. n \in Nat /\ n <= size /\ (n = size \/ (Version(save) = Android /\ ~NothingCut))
  <2>1. ASSUME NothingCut, Version(save) = Android PROVE ~(left < size)
    <3>1. PICK m \in Nat : pos = m * MaxChunk
      BY <1>1
    <3>2. L - pos = left
      BY <1>2
    <3>3. ChunkSize = IF L - pos < MaxChunk THEN L - pos ELSE MaxChunk
      BY <3>2 DEF ChunkSize
    <3> HIDE DEF pos, size
    <3> QED BY <1>1, <1>4, <2>1, <3>1, <3>2, <3>3, NothingCutIs DEF size
  <2> HIDE DEF size, n
  <2> QED BY <1>2, <1>7, <1>9, <2>1
<1>11. to - pos = ChunkSize
  BY <1>3, <1>4
<1>12. PlainCells(g, w.length + (6 * IntSize + n)) /\ Packs(save, g, w.length + (6 * IntSize + n), to)
  <2>1. IsPacked(packed, n, Codec(Version(save)), Piece(save, pos, to))
    BY <1>8, <1>9
  <2> DEFINE h == w.start \o ChunkHeader(n, to - pos) \o packed
  <2>2. h = g
    BY <1>11
  <2> HIDE DEF pos, to, packed, n, size, g
  <2>3. PlainCells(h, w.length + (6 * IntSize + n)) /\ Packs(save, h, w.length + (6 * IntSize + n), to)
    BY <1>1, <1>2, <1>4, <1>10, <2>1, ChunkAppended DEF size
  <2> QED BY <2>2, <2>3
<1> HIDE DEF packed, n, g
<1>13. /\ w.length + (6 * IntSize + n) \in Nat \ {0} /\ HdrSize <= w.length + (6 * IntSize + n)
  BY <1>1, <1>2, <1>10
<1>14. /\ IsOut(w') /\ w'.ptr = 0 /\ w'.start = g /\ w'.length = w.length + (6 * IntSize + n)
  BY <1>5, <1>12, <1>13, OutputIs
<1>15. L' = L /\ L - left' = to /\ left' \in Nat /\ left' < left
  <2>1. L' = L
    BY <1>5
  <2> HIDE DEF L
  <2>2. L - left' = to /\ left' \in Nat /\ left' < left
    BY <1>2, <1>3, <1>5
  <2> QED BY <2>1, <2>2
<1>16. CASE left' > 0
  <2>1. stage' = "compress" /\ left' \in 1..L
    <3> HIDE DEF L
    <3> QED BY <1>1, <1>2, <1>5, <1>15, <1>16
  <2>2. \E m \in Nat : L - left' = m * MaxChunk
    <3>1. PICK m \in Nat : pos = m * MaxChunk
      BY <1>1
    <3>2. ChunkSize = MaxChunk
      BY <1>2, <1>5, <1>16 DEF ChunkSize
    <3>3. L - left' = (m + 1) * MaxChunk /\ m + 1 \in Nat
      BY <1>15, <3>1, <3>2
    <3> QED BY <3>3
  <2> QED BY <1>1, <1>5, <1>12, <1>13, <1>14, <1>15, <2>1, <2>2 DEF WriterInv
<1>17. CASE ~(left' > 0)
  <2>1. stage' = "fields" /\ left' = 0
    BY <1>2, <1>3, <1>5, <1>17
  <2>2. FieldsPlaced(save, w'.start, 0) /\ FieldsEnd(save, 0) = 0
    BY <1>1, FieldsEndIs DEF FieldsPlaced
  <2>3. to = L
    BY <1>2, <1>15, <2>1
  <2> QED BY <1>1, <1>5, <1>12, <1>13, <1>14, <1>15, <2>1, <2>2, <2>3 DEF WriterInv
<1> QED BY <1>16, <1>17

LEMMA OverwrittenPlain ==
  ASSUME NEW b, IsOut(b), PlainCells(b.start, b.length), NEW c, NEW n, PlainCells(c, n),
         b.ptr + n <= b.length, NEW p, Overwritten(p, b, c)
  PROVE  PlainCells(p.start, p.length)
<1>1. b.length \in Nat /\ b.ptr \in Nat /\ Len(c) = n /\ n \in Nat /\ p.length = b.length
  BY DEF IsOut, IsBuffer, PlainCells, Overwritten
<1>2. ASSUME NEW i \in 1..b.length PROVE Plain(p.start[i])
  <2>1. p.start[i] = IF b.ptr < i /\ i <= b.ptr + Len(c) THEN c[i - b.ptr] ELSE b.start[i]
    BY DEF Overwritten
  <2>2. CASE b.ptr < i /\ i <= b.ptr + Len(c)
    <3>1. i - b.ptr \in 1..Len(c)
      BY <1>1, <2>2
    <3> QED BY <2>1, <2>2, <3>1 DEF PlainCells, AllPlain
  <2>3. CASE ~(b.ptr < i /\ i <= b.ptr + Len(c))
    BY <1>1, <2>1, <2>3 DEF PlainCells, AllPlain
  <2> QED BY <2>2, <2>3
<1>3. p.start = [i \in 1..b.length |-> p.start[i]]
  BY <1>1 DEF Overwritten, IsOut, IsBuffer
<1> DEFINE S == {p.start[i] : i \in 1..b.length}
<1>4. p.start \in [1..b.length -> S]
  BY <1>3
<1> HIDE DEF S
<1>5. p.start \in Seq(S) /\ Len(p.start) = b.length
  BY <1>1, <1>4, FunctionIsSeq
<1> QED BY <1>1, <1>2, <1>5 DEF PlainCells, AllPlain

LEMMA HeaderFits ==
  ASSUME NEW s \in Saves
  PROVE  /\ HeaderEnd(s) \in Nat
         /\ HeaderEnd(s) + 4 * IntSize <= HdrSize
         /\ Version(s) = Android =>
              HeaderEnd(s) + 5 * IntSize + StringSize(s.profile[2]) <= HdrSize
<1>1. HeaderEnd(s) \in Nat
  BY FieldsEndIs DEF HeaderEnd
<1>2. TrailerFits(s) /\ Len(FieldKinds) = 12
  BY SaveIs, KindsAre
<1>3. CASE Version(s) = Android
  <2>1. HeaderEnd(s) + 5 * IntSize + StringSize(s.profile[2]) <= HdrSize
    BY <1>2, <1>3 DEF TrailerFits, HeaderEnd
  <2>2. StringSize(s.profile[2]) \in Nat
    BY <1>3, SaveIs, ReadableIs DEF IsProfile
  <2> QED BY <1>1, <2>1, <2>2, SizeAssumption, ContainerAssumption
<1>4. CASE Version(s) # Android
  BY <1>1, <1>2, <1>4 DEF TrailerFits, HeaderEnd
<1> QED BY <1>3, <1>4, <1>1

\* The buffers agree behind the header area.
SameBehind(p, b) == \A i \in HdrSize + 1..b.length : p.start[i] = b.start[i]

\* A write inside the header area changes nothing behind it.
LEMMA PacksKept ==
  ASSUME NEW s, NEW b, IsOut(b), NEW end, Packs(s, b.start, b.length, end),
         NEW c, NEW p, Overwritten(p, b, c), b.ptr + Len(c) <= HdrSize, Len(c) \in Nat
  PROVE  Packs(s, p.start, p.length, end) /\ SameBehind(p, b)
<1>1. b.length \in Nat /\ b.ptr \in Nat /\ p.length = b.length
  BY DEF IsOut, IsBuffer, Overwritten
<1>2. \A i \in HdrSize + 1..b.length : p.start[i] = b.start[i]
  BY <1>1, ContainerAssumption DEF Overwritten
<1>3. PICK J, off, pos : Chunked(s, b.start, b.length, J, off, pos, end)
  BY DEF Packs
<1>4. Chunked(s, p.start, b.length, J, off, pos, end)
  BY <1>1, <1>2, <1>3, ChunkedSame
<1> QED BY <1>1, <1>2, <1>4 DEF Packs, SameBehind

\* The fields written so far stay when something is written behind them.
LEMMA FieldsKept ==
  ASSUME NEW s \in Saves, NEW k \in 0..12, NEW f, NEW g, FieldsPlaced(s, f, k),
         \A i \in 1..FieldsEnd(s, k) : g[i] = f[i]
  PROVE  FieldsPlaced(s, g, k)
<1> SUFFICES ASSUME NEW j \in 0..k - 1, NEW i \in 1..Len(FieldCode(s, j + 1))
             PROVE  g[FieldsEnd(s, j) + i] = FieldCode(s, j + 1)[i]
  BY DEF FieldsPlaced, Placed
<1>1. j \in 0..11 /\ j \in 0..12 /\ j + 1 \in Fields /\ j + 1 \in 0..12 /\ j + 1 <= k
  BY DEF Fields
<1>2. Len(FieldCode(s, j + 1)) = FieldSize(s, j + 1) /\ FieldSize(s, j + 1) \in Nat
  BY <1>1, FieldCodeIs
<1>3. FieldsEnd(s, j) \in Nat /\ FieldsEnd(s, k) \in Nat
      /\ FieldsEnd(s, j + 1) = FieldsEnd(s, j) + FieldSize(s, j + 1)
      /\ FieldsEnd(s, j + 1) <= FieldsEnd(s, k)
  BY <1>1, FieldsEndIs
<1>4. FieldsEnd(s, j) + i \in 1..FieldsEnd(s, k)
  BY <1>2, <1>3
<1>5. f[FieldsEnd(s, j) + i] = FieldCode(s, j + 1)[i]
  BY DEF FieldsPlaced, Placed
<1> QED BY <1>4, <1>5

LEMMA FieldKeeps ==
  ASSUME WriterInv, WriteField
  PROVE  WriterInv'
<1> DEFINE k == done + 1
           code == FieldCode(save, k)
           L == Len(save.payload)
<1>1. /\ stage = "fields" /\ save \in Saves
      /\ PlainCells(w.start, w.length) /\ HdrSize <= w.length /\ IsOut(w)
      /\ done \in 0..12 /\ done < 12
      /\ w.ptr = FieldsEnd(save, done) /\ FieldsPlaced(save, w.start, done)
      /\ Packs(save, w.start, w.length, L)
  BY DEF WriterInv, WriteField
<1>2. k \in Fields /\ k \in 0..12 /\ done \in 0..11 /\ w.length \in Nat
  BY <1>1 DEF Fields, IsOut, IsBuffer
<1>3. /\ FieldSize(save, k) \in Nat /\ Len(code) = FieldSize(save, k)
      /\ PlainCells(code, FieldSize(save, k))
  BY <1>1, <1>2, FieldCodeIs DEF PlainCells
<1>4. /\ FieldsEnd(save, done) \in Nat
      /\ FieldsEnd(save, k) = FieldsEnd(save, done) + FieldSize(save, k)
      /\ FieldsEnd(save, k) <= HdrSize
  <2>1. 12 \in 0..12 /\ k <= 12
    BY <1>2
  <2>2. FieldsEnd(save, k) = FieldsEnd(save, done) + FieldSize(save, k)
        /\ FieldsEnd(save, done) \in Nat /\ FieldsEnd(save, k) \in Nat
        /\ FieldsEnd(save, k) <= HeaderEnd(save)
    BY <1>1, <1>2, <2>1, FieldsEndIs DEF HeaderEnd
  <2>3. HeaderEnd(save) <= HdrSize /\ HeaderEnd(save) \in Nat
    BY <1>1, HeaderFits, SizeAssumption, ContainerAssumption
  <2> QED BY <2>2, <2>3, ContainerAssumption
<1>5. /\ w' = IF FieldKinds[k] = "int" THEN IntWritten(w, save.fields[k])
                                       ELSE StringWritten(w, save.fields[k])
      /\ done' = k /\ stage' = Advance(k, "data_crc") /\ save' = save
  BY DEF WriteField
<1> HIDE DEF k, code
<1>6. Overwritten(w', w, code)
  <2>1. w.ptr + FieldSize(save, k) <= w.length
    BY <1>1, <1>2, <1>3, <1>4, ContainerAssumption
  <2> QED BY <1>1, <1>2, <1>5, <2>1, FieldInside DEF code
<1>7. w.ptr + Len(code) <= HdrSize /\ w.ptr \in Nat
  BY <1>1, <1>3, <1>4
<1>8. /\ Packs(save, w'.start, w'.length, L)
      /\ IsOut(w') /\ w'.length = w.length /\ w'.ptr = FieldsEnd(save, k)
  BY <1>1, <1>3, <1>4, <1>6, <1>7, PacksKept DEF Overwritten
<1>9. PlainCells(w'.start, w'.length)
  <2>1. w.ptr + FieldSize(save, k) <= w.length
    BY <1>1, <1>2, <1>3, <1>4, ContainerAssumption
  <2> QED BY <1>1, <1>3, <1>6, <2>1, OverwrittenPlain
<1>10. \A i \in 1..w.length :
         w'.start[i] = IF w.ptr < i /\ i <= w.ptr + Len(code) THEN code[i - w.ptr] ELSE w.start[i]
  BY <1>6 DEF Overwritten
<1>11. FieldsPlaced(save, w'.start, k)
  <2>1. \A i \in 1..FieldsEnd(save, done) : w'.start[i] = w.start[i]
    BY <1>1, <1>2, <1>3, <1>4, <1>10, ContainerAssumption
  <2>2. FieldsPlaced(save, w'.start, done)
    BY <1>1, <2>1, FieldsKept
  <2>3. Placed(w'.start, FieldsEnd(save, done), code)
    <3> SUFFICES ASSUME NEW i \in 1..Len(code) PROVE w'.start[w.ptr + i] = code[i]
      BY <1>1 DEF Placed
    <3>1. w.ptr + i \in 1..w.length /\ w.ptr < w.ptr + i /\ w.ptr + i <= w.ptr + Len(code)
          /\ (w.ptr + i) - w.ptr = i
      BY <1>1, <1>2, <1>3, <1>7, ContainerAssumption
    <3> QED BY <1>10, <3>1
  <2>4. \A j \in 0..k - 1 : j \in 0..done - 1 \/ j = done
    BY <1>1 DEF k
  <2> QED BY <2>2, <2>3, <2>4 DEF FieldsPlaced, k, code
<1>12. k \in 0..12 /\ (stage' = "fields" <=> k < 12) /\ stage' \in {"fields", "data_crc"}
  BY <1>1, <1>2, <1>5, KindsAre DEF Advance
<1>13. L' = L /\ save' \in Saves
  BY <1>1, <1>5
<1> HIDE DEF L
<1> QED BY <1>1, <1>5, <1>8, <1>9, <1>11, <1>12, <1>13 DEF WriterInv, L

\* What SubSeq picks depends only on what it picks.
LEMMA SubSeqIs ==
  ASSUME NEW S, NEW f \in Seq(S), NEW m \in Nat \ {0}, NEW n \in Nat, n <= Len(f), m <= n + 1
  PROVE  /\ SubSeq(f, m, n) \in Seq(S) /\ Len(SubSeq(f, m, n)) = n - m + 1
         /\ \A i \in 1..n - m + 1 : SubSeq(f, m, n)[i] = f[m + i - 1]
<1>1. Len(f) \in Nat /\ m \in 1..Len(f) + 1 /\ n \in m - 1..Len(f)
  OBVIOUS
<1> QED BY <1>1, SubSeqProperties

LEMMA SubSeqSame ==
  ASSUME NEW S, NEW f \in Seq(S), NEW T, NEW g \in Seq(T),
         NEW m \in Nat \ {0}, NEW n \in Nat, n <= Len(f), n <= Len(g), m <= n + 1,
         \A i \in m..n : g[i] = f[i]
  PROVE  SubSeq(g, m, n) = SubSeq(f, m, n)
<1> DEFINE a == SubSeq(f, m, n)
           b == SubSeq(g, m, n)
           l == n - m + 1
           U == S \cup T
<1>1. f \in Seq(U) /\ g \in Seq(U)
  OBVIOUS
<1> HIDE DEF U
<1>2. /\ a \in Seq(U) /\ Len(a) = l /\ b \in Seq(U) /\ Len(b) = l
      /\ \A i \in 1..l : a[i] = f[m + i - 1] /\ b[i] = g[m + i - 1]
  BY <1>1, SubSeqIs
<1> HIDE DEF a, b
<1>3. \A i \in 1..Len(a) : b[i] = a[i]
  <2> SUFFICES ASSUME NEW i \in 1..l PROVE b[i] = a[i]
    BY <1>2
  <2>1. m + i - 1 \in m..n
    OBVIOUS
  <2> QED BY <1>2, <2>1
<1>4. b = a
  BY <1>2, <1>3, SeqEqual
<1> QED BY <1>4 DEF a, b

LEMMA OutIsSeq ==
  ASSUME NEW b, IsOut(b)
  PROVE  b.start \in Seq({b.start[i] : i \in 1..b.length}) /\ Len(b.start) = b.length
         /\ b.length \in Nat /\ b.ptr \in Nat
<1> DEFINE S == {b.start[i] : i \in 1..b.length}
<1>1. b.start = [i \in 1..b.length |-> b.start[i]] /\ b.length \in Nat /\ b.ptr \in Nat
  BY DEF IsOut, IsBuffer
<1>2. b.start \in [1..b.length -> S]
  BY <1>1
<1> HIDE DEF S
<1>3. b.start \in Seq(S) /\ Len(b.start) = b.length
  BY <1>1, <1>2, FunctionIsSeq
<1> QED BY <1>1, <1>3 DEF S

LEMMA DataSame ==
  ASSUME NEW b, IsOut(b), NEW p, IsOut(p), p.length = b.length, HdrSize <= b.length,
         \A i \in HdrSize + 1..b.length : p.start[i] = b.start[i]
  PROVE  Data(p) = Data(b)
<1> DEFINE S == {b.start[i] : i \in 1..b.length}
           T == {p.start[i] : i \in 1..p.length}
<1>1. /\ b.start \in Seq(S) /\ Len(b.start) = b.length /\ b.length \in Nat
      /\ p.start \in Seq(T) /\ Len(p.start) = b.length
  BY OutIsSeq
<1> HIDE DEF S, T
<1>2. HdrSize + 1 \in Nat \ {0} /\ HdrSize + 1 <= b.length + 1
  BY <1>1, ContainerAssumption
<1>3. SubSeq(p.start, HdrSize + 1, b.length) = SubSeq(b.start, HdrSize + 1, b.length)
  <2> DEFINE f == b.start
             g == p.start
             m == HdrSize + 1
             n == b.length
  <2>1. /\ f \in Seq(S) /\ g \in Seq(T) /\ m \in Nat \ {0} /\ n \in Nat /\ n <= Len(f)
        /\ n <= Len(g) /\ m <= n + 1 /\ \A i \in m..n : g[i] = f[i]
    BY <1>1, <1>2
  <2> HIDE DEF f, g, m, n
  <2>2. SubSeq(g, m, n) = SubSeq(f, m, n)
    BY <2>1, SubSeqSame
  <2> QED BY <2>2 DEF f, g, m, n
<1> QED BY <1>1, <1>3 DEF Data

LEMMA CrcCellsAre ==
  ASSUME NEW x
  PROVE  /\ \E S : CrcCells(x) \in Seq(S)
         /\ Len(CrcCells(x)) = IntSize
         /\ \A i \in 1..IntSize : CrcCells(x)[i] = <<"crc", x, i>>
<1> DEFINE S == {<<"crc", x, k>> : k \in 1..IntSize}
           c == [k \in 1..IntSize |-> <<"crc", x, k>>]
<1>1. c \in [1..IntSize -> S]
  OBVIOUS
<1>2. \A i \in 1..IntSize : c[i] = <<"crc", x, i>>
  OBVIOUS
<1>3. CrcCells(x) = c
  BY DEF CrcCells
<1> HIDE DEF S, c
<1>4. IntSize \in Nat
  BY SizeAssumption
<1> QED BY <1>1, <1>2, <1>3, <1>4, FunctionIsSeq

LEMMA DataCrcKeeps ==
  ASSUME WriterInv, WriteDataCrc
  PROVE  WriterInv'
<1> DEFINE X == Data(w)
           code == CrcCells(X)
           L == Len(save.payload)
           end == HeaderEnd(save)
<1>1. /\ save \in Saves
      /\ PlainCells(w.start, w.length) /\ HdrSize <= w.length /\ IsOut(w)
      /\ w.ptr = end /\ FieldsPlaced(save, w.start, 12)
      /\ Packs(save, w.start, w.length, L)
  BY DEF WriterInv, WriteDataCrc, HeaderEnd
<1>2. w' = EnsureAndPut(w, code) /\ stage' = "trailer" /\ save' = save
  BY DEF WriteDataCrc, CrcOf, Data
<1>3. /\ \E S : code \in Seq(S)
      /\ Len(code) = IntSize /\ \A i \in 1..IntSize : code[i] = <<"crc", X, i>>
  BY CrcCellsAre
<1>4. end \in Nat /\ end + IntSize <= HdrSize /\ IntSize \in Nat /\ w.length \in Nat
  <2>1. end \in Nat /\ end + 4 * IntSize <= HdrSize
    BY <1>1, HeaderFits
  <2>2. w.length \in Nat
    BY <1>1 DEF IsOut, IsBuffer
  <2> HIDE DEF end
  <2> QED BY ONLY <2>1, <2>2, SizeAssumption, ContainerAssumption
<1> HIDE DEF code, end
<1>5. Overwritten(w', w, code)
  BY <1>1, <1>2, <1>3, <1>4, EnsureAndPutInside, ContainerAssumption
<1>6. /\ Packs(save, w'.start, w'.length, L)
      /\ \A i \in HdrSize + 1..w.length : w'.start[i] = w.start[i]
      /\ IsOut(w') /\ w'.length = w.length /\ w'.ptr = end + IntSize
  <2>1. Len(code) \in Nat /\ w.ptr + Len(code) <= HdrSize
    BY <1>1, <1>3, <1>4
  <2> HIDE DEF L
  <2>2. /\ Packs(save, w'.start, w'.length, L)
        /\ \A i \in HdrSize + 1..w.length : w'.start[i] = w.start[i]
    <3> DEFINE p == w'
    <3>1. Overwritten(p, w, code) /\ IsOut(w) /\ Packs(save, w.start, w.length, L)
      BY <1>1, <1>5 DEF L
    <3> HIDE DEF p
    <3>2. Packs(save, p.start, p.length, L) /\ SameBehind(p, w)
      BY ONLY <2>1, <3>1, PacksKept
    <3> QED BY <3>2 DEF p, SameBehind
  <2>3. IsOut(w') /\ w'.length = w.length /\ w'.ptr = end + IntSize
    BY <1>1, <1>3, <1>5 DEF Overwritten
  <2> QED BY <2>2, <2>3
<1>7. Data(w)' = X
  <2> DEFINE v == w'
  <2>1. IsOut(v) /\ v.length = w.length /\ \A i \in HdrSize + 1..w.length : v.start[i] = w.start[i]
    BY <1>6
  <2> HIDE DEF v
  <2>2. Data(v) = Data(w)
    BY <1>1, <2>1, DataSame
  <2> QED BY <2>2 DEF v, Data
<1>8. \A i \in 1..w.length :
        w'.start[i] = IF w.ptr < i /\ i <= w.ptr + Len(code) THEN code[i - w.ptr] ELSE w.start[i]
  BY <1>5 DEF Overwritten
<1> HIDE DEF X
<1>9. FieldsPlaced(save, w'.start, 12)
  <2>1. \A i \in 1..FieldsEnd(save, 12) : w'.start[i] = w.start[i]
    BY <1>1, <1>4, <1>8, ContainerAssumption DEF end, HeaderEnd
  <2> DEFINE g == w'.start
             f == w.start
  <2>2. FieldsPlaced(save, f, 12) /\ 12 \in 0..12 /\ \A i \in 1..FieldsEnd(save, 12) : g[i] = f[i]
    BY <1>1, <2>1
  <2> HIDE DEF f, g
  <2>3. FieldsPlaced(save, g, 12)
    BY <1>1, <2>2, FieldsKept
  <2> QED BY <2>3 DEF g
<1>10. Placed(w'.start, end, code)
  <2> SUFFICES ASSUME NEW i \in 1..Len(code) PROVE w'.start[end + i] = code[i]
    BY DEF Placed
  <2>1. end + i \in 1..w.length /\ end < end + i /\ end + i <= end + Len(code) /\ (end + i) - end = i
    BY <1>1, <1>3, <1>4, ContainerAssumption
  <2> QED BY <1>1, <1>8, <2>1
<1>11. ASSUME NEW i \in 1..w.length
       PROVE  \/ Plain(w'.start[i])
              \/ i <= HdrSize /\ w'.start[i][1] = "crc" /\ w'.start[i][2] = X
  <2>1. CASE w.ptr < i /\ i <= w.ptr + Len(code)
    <3>1. i - w.ptr \in 1..IntSize /\ i <= HdrSize
      BY <1>1, <1>3, <1>4, <2>1, ContainerAssumption
    <3>2. w'.start[i] = <<"crc", X, i - w.ptr>>
      BY <1>3, <1>8, <2>1, <3>1
    <3> QED BY <3>1, <3>2
  <2>2. CASE ~(w.ptr < i /\ i <= w.ptr + Len(code))
    BY <1>1, <1>8, <2>2 DEF PlainCells, AllPlain
  <2> QED BY <2>1, <2>2
<1>12. HdrSize <= w'.length
  BY <1>1, <1>6
<1> DEFINE v == w'
<1>13. Written(save, v)
  <2>1. Data(v) = X
    BY <1>7 DEF Data
  <2>2. /\ Packs(save, v.start, v.length, L) /\ IsOut(v) /\ v.length = w.length /\ v.ptr = end + IntSize
        /\ FieldsPlaced(save, v.start, 12) /\ Placed(v.start, end, code) /\ HdrSize <= v.length
    BY <1>6, <1>9, <1>10, <1>12
  <2>3. \A i \in 1..w.length :
          \/ Plain(v.start[i])
          \/ i <= HdrSize /\ v.start[i][1] = "crc" /\ v.start[i][2] = X
    BY <1>11
  <2> HIDE DEF v
  <2> QED BY <2>1, <2>2, <2>3 DEF Written, code, end, X
<1>14. Written(save', w')
  BY <1>2, <1>13
<1> QED BY <1>1, <1>2, <1>14 DEF WriterInv

\* Every other step leaves the output alone.
LEMMA WriterKeeps ==
  ASSUME WriterInv, [Next]_vars
  PROVE  WriterInv'
<1>1. CASE CompressChunk
  BY <1>1, CompressKeeps
<1>2. CASE WriteField
  BY <1>2, FieldKeeps
<1>3. CASE WriteDataCrc
  BY <1>3, DataCrcKeeps
<1>4. ASSUME save' = save, w' = w, stage \notin {"compress", "fields", "data_crc"},
             stage' \notin {"compress", "fields", "data_crc"}
      PROVE  WriterInv'
  <2>1. save' \in Saves /\ Written(save', w')
    BY <1>4 DEF WriterInv
  <2> QED BY <1>4, <2>1 DEF WriterInv
<1>5. CASE UNCHANGED vars
  BY <1>5 DEF WriterInv, vars, wvars
<1>6. CASE WriteTrailer
  BY <1>4, <1>6 DEF WriteTrailer, wvars
<1>7. CASE (\E n \in Noise : OpenFile(n)) \/ Fault
  BY <1>4, <1>7 DEF OpenFile, Fault, Damage, Truncate, wvars
<1>8. CASE ReadHeaderField \/ ReadDataCrc \/ ReadProfile
  BY <1>4, <1>8, KindsAre DEF ReadHeaderField, ReadDataCrc, ReadProfile, Refuse, Advance, wvars
<1>9. CASE CheckHeader \/ ScanChunk \/ InflateChunk
  BY <1>4, <1>9 DEF CheckHeader, ScanChunk, InflateChunk, Refuse, wvars
<1> QED BY <1>1, <1>2, <1>3, <1>5, <1>6, <1>7, <1>8, <1>9 DEF Next, Program

-----------------------------------------------------------------------------
(* The file as it was written *)

\* The cells the header's checksum covers.
Covered(s, b) == SubSeq(b.start, 1, HeaderEnd(s) + 2 * IntSize)

ProfileCode(s) == IntCells(s.profile[1]) \o EncString(s.profile[2])

\* The contents o of the file before anything happens to it.
IsOriginal(s, b, o) ==
  /\ (\E S : o \in Seq(S)) /\ Len(o) = b.length
  /\ Packs(s, o, b.length, Len(s.payload))
  /\ SubSeq(o, HdrSize + 1, b.length) = Data(b)
  /\ FieldsPlaced(s, o, 12)
  /\ Placed(o, HeaderEnd(s), CrcCells(Data(b)))
  /\ \A i \in 1..b.length :
       /\ IntsAreInts(o[i])
       /\ o[i][1] = "crc" => i <= HdrSize /\ o[i][2] \in {Data(b), Covered(s, b)}
  /\ Version(s) = Android => Placed(o, HeaderEnd(s) + 4 * IntSize, ProfileCode(s))
  /\ Version(s) # Android =>
       /\ SubSeq(o, 1, HeaderEnd(s) + 2 * IntSize) = Covered(s, b)
       /\ o[HdrSize - 2 * IntSize + 1] = <<"int", HeaderEnd(s) + 2 * IntSize, 1>>
       /\ Placed(o, HdrSize - IntSize, CrcCells(Covered(s, b)))

LEMMA SeekIs ==
  ASSUME NEW b, IsOut(b), NEW n \in Nat
  PROVE  LET p == SeekTo(b, n) IN
         IsOut(p) /\ p.start = b.start /\ p.length = b.length /\ p.ptr = n
<1> DEFINE p == SeekTo(b, n)
<1>1. /\ b = [start |-> b.start, length |-> b.length, ptr |-> b.ptr,
              thrown |-> b.thrown, reserved |-> b.reserved]
      /\ b.length \in Nat \ {0} /\ b.ptr \in Nat /\ b.reserved \in Nat /\ b.thrown \in BOOLEAN
      /\ b.start = [i \in 1..b.length |-> b.start[i]]
      /\ ~b.thrown
  BY DEF IsOut, IsBuffer
<1>2. p = [start |-> b.start, length |-> b.length, ptr |-> n,
           thrown |-> b.thrown, reserved |-> b.reserved]
  <2>1. b = [start |-> b.start, length |-> b.length, ptr |-> b.ptr,
             thrown |-> b.thrown, reserved |-> b.reserved]
    BY <1>1
  <2> QED BY ONLY <2>1 DEF SeekTo
<1> HIDE DEF p
<1> QED BY <1>1, <1>2 DEF IsOut, IsBuffer, p

\* o is what b holds with the cells c written into the header area, behind the fields
\* and the CRC of the data.
Trailed(s, b, o, at, c) ==
  /\ (\E U : o \in Seq(U)) /\ Len(o) = b.length
  /\ Packs(s, o, b.length, Len(s.payload))
  /\ SubSeq(o, HdrSize + 1, b.length) = Data(b)
  /\ FieldsPlaced(s, o, 12)
  /\ Placed(o, HeaderEnd(s), CrcCells(Data(b)))
  /\ Placed(o, at, c)
  /\ \A i \in 1..at : o[i] = b.start[i]
  /\ \A i \in 1..b.length :
       o[i] = b.start[i] \/ (i <= HdrSize /\ \E k \in 1..Len(c) : o[i] = c[k])

LEMMA TrailerIs ==
  ASSUME NEW s \in Saves, NEW b, Written(s, b), NEW S, NEW c \in Seq(S), NEW at \in Nat,
         HeaderEnd(s) + IntSize <= at, at + Len(c) <= HdrSize
  PROVE  Trailed(s, b, EnsureAndPut(SeekTo(b, at), c).start, at, c)
<1> USE SizeAssumption, ContainerAssumption
<1> DEFINE q == SeekTo(b, at)
           p == EnsureAndPut(q, c)
           o == p.start
           L == Len(s.payload)
<1>1. /\ IsOut(b) /\ HdrSize <= b.length
      /\ Packs(s, b.start, b.length, L)
      /\ FieldsPlaced(s, b.start, 12)
      /\ Placed(b.start, HeaderEnd(s), CrcCells(Data(b)))
  BY DEF Written
<1>2. b.length \in Nat /\ Len(c) \in Nat
  <2>1. Len(c) \in Nat
    OBVIOUS
  <2> QED BY <1>1, <2>1, OutIsSeq
<1>3. IsOut(q) /\ q.start = b.start /\ q.length = b.length /\ q.ptr = at
  BY <1>1, SeekIs
<1> HIDE DEF q
<1>4. Overwritten(p, q, c)
  <2>1. q.ptr + Len(c) <= q.length
    BY <1>1, <1>2, <1>3
  <2> QED BY <1>3, <2>1, EnsureAndPutInside
<1> HIDE DEF p, L
<1>5. /\ IsOut(p) /\ p.length = b.length
      /\ \A i \in 1..b.length : o[i] = IF at < i /\ i <= at + Len(c) THEN c[i - at] ELSE b.start[i]
  BY <1>3, <1>4 DEF Overwritten
<1>6. Packs(s, p.start, p.length, L) /\ SameBehind(p, q)
  <2>1. q.ptr + Len(c) <= HdrSize /\ Packs(s, q.start, q.length, L)
    BY <1>1, <1>3
  <2> QED BY ONLY <1>2, <1>3, <1>4, <2>1, PacksKept
<1>7. /\ o \in Seq({p.start[i] : i \in 1..p.length}) /\ Len(o) = b.length
  BY <1>5, OutIsSeq
<1>8. Data(p) = Data(b)
  <2>1. \A i \in HdrSize + 1..b.length : p.start[i] = b.start[i]
    BY <1>3, <1>6 DEF SameBehind
  <2> QED BY <1>1, <1>5, <2>1, DataSame
<1>9. HeaderEnd(s) \in Nat
  BY HeaderFits
<1>10. \A i \in 1..at : o[i] = b.start[i]
  BY <1>1, <1>2, <1>5
<1> HIDE DEF o
<1>11. FieldsPlaced(s, o, 12)
  <2> DEFINE f == b.start
  <2>1. FieldsPlaced(s, f, 12) /\ 12 \in 0..12 /\ \A i \in 1..FieldsEnd(s, 12) : o[i] = f[i]
    BY <1>1, <1>9, <1>10 DEF HeaderEnd
  <2> HIDE DEF f
  <2> QED BY <2>1, FieldsKept
<1>12. Placed(o, HeaderEnd(s), CrcCells(Data(b)))
  <2>1. Len(CrcCells(Data(b))) = IntSize
    BY CrcCellsAre
  <2>2. \A i \in 1..IntSize : HeaderEnd(s) + i \in 1..at
    BY <1>9
  <2> QED BY <1>1, <1>10, <2>1, <2>2 DEF Placed
<1>13. Placed(o, at, c)
  <2> SUFFICES ASSUME NEW i \in 1..Len(c) PROVE o[at + i] = c[i]
    BY DEF Placed
  <2>1. at + i \in 1..b.length /\ at < at + i /\ at + i <= at + Len(c) /\ (at + i) - at = i
    BY <1>1, <1>2
  <2> QED BY <1>5, <2>1
<1>14. ASSUME NEW i \in 1..b.length
       PROVE  o[i] = b.start[i] \/ (i <= HdrSize /\ \E k \in 1..Len(c) : o[i] = c[k])
  <2>1. CASE at < i /\ i <= at + Len(c)
    <3>1. i - at \in 1..Len(c) /\ i <= HdrSize
      BY <1>2, <2>1
    <3> QED BY <1>5, <2>1, <3>1
  <2>2. CASE ~(at < i /\ i <= at + Len(c))
    BY <1>5, <2>2
  <2> QED BY <2>1, <2>2
<1>15. Packs(s, o, b.length, L) /\ SubSeq(o, HdrSize + 1, b.length) = Data(b)
  BY <1>5, <1>6, <1>8 DEF o, Data
<1>16. Trailed(s, b, o, at, c)
  BY <1>7, <1>10, <1>11, <1>12, <1>13, <1>14, <1>15 DEF Trailed, L
<1> QED BY <1>16 DEF o, p, q

\* Nothing the trailer adds is a checksum of anything but what is covered.
LEMMA TrailedCells ==
  ASSUME NEW s \in Saves, NEW b, Written(s, b), NEW o, NEW at, NEW c, Trailed(s, b, o, at, c),
         \A k \in 1..Len(c) :
           IntsAreInts(c[k]) /\ (c[k][1] = "crc" => c[k][2] = Covered(s, b))
  PROVE  \A i \in 1..b.length :
           /\ IntsAreInts(o[i])
           /\ o[i][1] = "crc" => i <= HdrSize /\ o[i][2] \in {Data(b), Covered(s, b)}
<1> SUFFICES ASSUME NEW i \in 1..b.length
             PROVE  /\ IntsAreInts(o[i])
                    /\ o[i][1] = "crc" => i <= HdrSize /\ o[i][2] \in {Data(b), Covered(s, b)}
  OBVIOUS
<1>1. CASE o[i] = b.start[i]
  <2>1. \/ Plain(b.start[i])
        \/ i <= HdrSize /\ b.start[i][1] = "crc" /\ b.start[i][2] = Data(b)
    BY DEF Written
  <2> QED BY <1>1, <2>1 DEF Plain, IntsAreInts
<1>2. CASE i <= HdrSize /\ \E k \in 1..Len(c) : o[i] = c[k]
  BY <1>2
<1> QED BY <1>1, <1>2 DEF Trailed

\* The contents the writer gives the file.
Original == (IF Version(save) = Android THEN WriteProfile ELSE WriteHeaderCrc).start

LEMMA OriginalIs ==
  ASSUME save \in Saves, Written(save, w)
  PROVE  IsOriginal(save, w, Original)
<1> USE SizeAssumption, ContainerAssumption
<1> DEFINE end == HeaderEnd(save)
           n == end + 2 * IntSize
           X == Covered(save, w)
<1>1. /\ end \in Nat /\ end + 4 * IntSize <= HdrSize
      /\ Version(save) = Android => end + 5 * IntSize + StringSize(save.profile[2]) <= HdrSize
  BY HeaderFits
<1>2. w.ptr = end + IntSize /\ IsOut(w) /\ HdrSize <= w.length /\ w.length \in Nat
  BY OutIsSeq DEF Written
<1> HIDE DEF end
<1>3. ASSUME Version(save) = Android PROVE IsOriginal(save, w, Original)
  <2> DEFINE p1 == IntCells(save.profile[1])
             p2 == EncString(save.profile[2])
             c == p1 \o p2
             at == end + 4 * IntSize
  <2>1. IsProfile(save.profile)
    BY <1>3, SaveIs
  <2>2. PlainCells(p1, IntSize)
    BY <2>1, IntIsPlain DEF IsProfile
  <2>3. PlainCells(p2, StringSize(save.profile[2]))
    BY <2>1, ReadableIs DEF IsProfile, PlainCells
  <2> HIDE DEF p1, p2
  <2>4. PlainCells(c, IntSize + StringSize(save.profile[2]))
    BY <2>2, <2>3, PlainConcat DEF Joined
  <2>5. Original = EnsureAndPut(SeekTo(w, at), c).start
    <3>1. w.ptr + 3 * IntSize = at
      BY <1>1, <1>2
    <3> QED BY <1>3, <3>1 DEF Original, WriteProfile, AtProfile, c, p1, p2
  <2> HIDE DEF c
  <2>6. PICK S : c \in Seq(S)
    BY <2>4 DEF PlainCells
  <2>7. Len(c) = IntSize + StringSize(save.profile[2]) /\ AllPlain(c)
    BY <2>4 DEF PlainCells
  <2>8. StringSize(save.profile[2]) \in Nat
    BY <2>3 DEF PlainCells
  <2>9. at \in Nat /\ end + IntSize <= at /\ at + Len(c) <= HdrSize
    BY <1>1, <1>3, <2>7, <2>8
  <2> HIDE DEF at
  <2>10. Trailed(save, w, Original, at, c)
    BY <2>5, <2>6, <2>9, TrailerIs DEF end
  <2>11. \A k \in 1..Len(c) :
           IntsAreInts(c[k]) /\ (c[k][1] = "crc" => c[k][2] = Covered(save, w))
    BY <2>7 DEF AllPlain, Plain
  <2>12. \A i \in 1..w.length :
           /\ IntsAreInts(Original[i])
           /\ Original[i][1] = "crc" => i <= HdrSize /\ Original[i][2] \in {Data(w), Covered(save, w)}
    BY <2>10, <2>11, TrailedCells
  <2>13. Placed(Original, HeaderEnd(save) + 4 * IntSize, ProfileCode(save))
    BY <2>10 DEF Trailed, at, c, p1, p2, end, ProfileCode
  <2> HIDE DEF Original
  <2> QED BY <1>3, <2>10, <2>12, <2>13 DEF Trailed, IsOriginal
<1>4. ASSUME Version(save) # Android PROVE IsOriginal(save, w, Original)
  <2> DEFINE p1 == IntCells(n)
             p2 == CrcCells(X)
             c == p1 \o p2
             at == HdrSize - 2 * IntSize
  <2>1. n \in Nat /\ at \in Nat /\ end + IntSize <= at /\ n <= at /\ n <= w.length /\ n \in Int
    BY <1>1, <1>2
  <2>2. PlainCells(p1, IntSize) /\ p1[1] = <<"int", n, 1>>
    BY <2>1, IntIsPlain
  <2>3. /\ \E S : p2 \in Seq(S)
        /\ Len(p2) = IntSize /\ \A i \in 1..IntSize : p2[i] = <<"crc", X, i>>
    BY CrcCellsAre
  <2>4. Original = EnsureAndPut(SeekTo(w, at), c).start
    <3>1. w.ptr + IntSize = n
      BY <1>1, <1>2
    <3>2. CrcOf(w, 0, n) = CrcCells(SubSeq(w.start, 1, n))
      BY DEF CrcOf
    <3> QED BY <1>4, <3>1, <3>2 DEF Original, WriteHeaderCrc, c, p1, p2, Covered, end
  <2> HIDE DEF p1, p2
  <2>5. PICK S1 : p1 \in Seq(S1)
    BY <2>2 DEF PlainCells
  <2>6. PICK S2 : p2 \in Seq(S2)
    BY <2>3
  <2>17. Concatenated(c, p1, p2)
    BY <2>5, <2>6, ConcatIs
  <2> HIDE DEF c
  <2>7. /\ \E S : c \in Seq(S)
        /\ Len(c) = Len(p1) + Len(p2) /\ Len(p1) = IntSize
        /\ \A i \in 1..Len(p1) : c[i] = p1[i]
        /\ \A i \in 1..Len(p2) : c[Len(p1) + i] = p2[i]
    BY <2>2, <2>17 DEF PlainCells, Concatenated
  <2>8. Len(c) = 2 * IntSize /\ at + Len(c) <= HdrSize
    BY <1>1, <2>3, <2>7
  <2>9. Trailed(save, w, Original, at, c)
    BY <2>1, <2>4, <2>7, <2>8, TrailerIs DEF end
  <2>10. ASSUME NEW k \in 1..Len(c)
         PROVE  IntsAreInts(c[k]) /\ (c[k][1] = "crc" => c[k][2] = X)
    <3>1. CASE k <= IntSize
      BY <2>2, <2>7, <3>1 DEF PlainCells, AllPlain, Plain
    <3>2. CASE ~(k <= IntSize)
      <4>1. k - IntSize \in 1..Len(p2) /\ Len(p1) + (k - IntSize) = k
        <5>1. k \in 1..2 * IntSize /\ Len(p2) = IntSize /\ Len(p1) = IntSize /\ IntSize \in Nat
          BY <2>3, <2>7, <2>8
        <5> QED BY ONLY <3>2, <5>1
      <4>2. c[k] = p2[k - IntSize]
        BY <2>7, <4>1
      <4>3. c[k] = <<"crc", X, k - IntSize>>
        BY <2>3, <4>1, <4>2
      <4> HIDE DEF X
      <4> QED BY <4>3 DEF IntsAreInts
    <3> QED BY <3>1, <3>2
  <2>11. \A i \in 1..w.length :
           /\ IntsAreInts(Original[i])
           /\ Original[i][1] = "crc" => i <= HdrSize /\ Original[i][2] \in {Data(w), Covered(save, w)}
    BY <2>9, <2>10, TrailedCells
  <2> HIDE DEF Original, at
  <2>12. /\ Placed(Original, at, c) /\ \A i \in 1..at : Original[i] = w.start[i]
         /\ Len(Original) = w.length /\ \E U : Original \in Seq(U)
    BY <2>9 DEF Trailed
  <2>13. SubSeq(Original, 1, n) = X
    <3>1. PICK U : Original \in Seq(U)
      BY <2>12
    <3>2. w.start \in Seq({w.start[i] : i \in 1..w.length}) /\ Len(w.start) = w.length
      BY <1>2, OutIsSeq
    <3> DEFINE f == w.start
               T == {w.start[i] : i \in 1..w.length}
    <3>3. /\ f \in Seq(T) /\ Original \in Seq(U) /\ 1 \in Nat \ {0} /\ n \in Nat /\ n <= Len(f)
          /\ n <= Len(Original) /\ 1 <= n + 1 /\ \A i \in 1..n : Original[i] = f[i]
      BY <2>1, <2>12, <3>1, <3>2 DEF at
    <3> HIDE DEF f, T, n
    <3>4. SubSeq(Original, 1, n) = SubSeq(f, 1, n)
      BY <3>3, SubSeqSame
    <3> QED BY <3>4 DEF f, n, Covered, end
  <2>14. Original[at + 1] = <<"int", n, 1>>
    <3>1. 1 \in 1..Len(c) /\ 1 \in 1..Len(p1)
      BY <2>7, <2>8
    <3> QED BY <2>2, <2>7, <2>12, <3>1 DEF Placed
  <2>15. Placed(Original, HdrSize - IntSize, p2)
    <3> SUFFICES ASSUME NEW i \in 1..Len(p2) PROVE Original[HdrSize - IntSize + i] = p2[i]
      BY DEF Placed
    <3>1. IntSize + i \in 1..Len(c) /\ at + (IntSize + i) = HdrSize - IntSize + i
      BY <1>1, <2>3, <2>8 DEF at
    <3>2. Original[at + (IntSize + i)] = c[IntSize + i]
      BY <2>12, <3>1 DEF Placed
    <3>3. c[IntSize + i] = p2[i]
      BY <2>7
    <3> QED BY <3>1, <3>2, <3>3
  <2>16. /\ SubSeq(Original, 1, HeaderEnd(save) + 2 * IntSize) = Covered(save, w)
         /\ Original[HdrSize - 2 * IntSize + 1] = <<"int", HeaderEnd(save) + 2 * IntSize, 1>>
         /\ Placed(Original, HdrSize - IntSize, CrcCells(Covered(save, w)))
    BY <2>13, <2>14, <2>15 DEF n, X, at, p2, end
  <2> HIDE DEF n, X
  <2> QED BY <1>4, <2>9, <2>11, <2>16 DEF Trailed, IsOriginal, X
<1> QED BY <1>3, <1>4

-----------------------------------------------------------------------------
(* The file at rest *)

\* A damaged byte is an int; the rest of the file is what was written.
FileInv ==
  /\ faults \in Nat
  /\ stage \in Writing => faults = 0
  /\ stage \notin Writing =>
       /\ \E S : file \in Seq(S)
       /\ Len(file) <= w.length
       /\ \A i \in 1..Len(file) : file[i] = Original[i] \/ \E n \in Noise : file[i] = <<"int", n, 1>>
       /\ faults = 0 => file = Original

LEMMA FileStarts == Init => FileInv
BY DEF Init, FileInv, Writing

LEMMA DamageKeeps ==
  ASSUME WriterInv, FileInv, NEW i \in DOMAIN file, NEW n \in Noise, Damage(i, n)
  PROVE  FileInv'
<1> DEFINE c == <<"int", n, 1>>
<1>1. /\ stage' = stage /\ w' = w /\ save' = save /\ stage \notin Writing
      /\ file' = [file EXCEPT ![i] = c] /\ faults' = faults + 1
  BY DEF Damage, Writing, wvars
<1>2. PICK S : file \in Seq(S)
  BY <1>1 DEF FileInv
<1> HIDE DEF c
<1>3. /\ file' \in Seq(S \cup {c}) /\ Len(file') = Len(file)
      /\ \A k \in 1..Len(file) : file'[k] = IF k = i THEN c ELSE file[k]
  <2> DEFINE T == S \cup {c}
  <2>1. file \in Seq(T) /\ c \in T /\ DOMAIN file = 1..Len(file) /\ Len(file) \in Nat
    BY <1>2
  <2> HIDE DEF T
  <2>2. file' \in [1..Len(file) -> T]
    BY <1>1, <2>1
  <2>3. file' \in Seq(T) /\ Len(file') = Len(file)
    BY <2>1, <2>2, FunctionIsSeq
  <2>4. \A k \in 1..Len(file) : file'[k] = IF k = i THEN c ELSE file[k]
    BY <1>1, <2>1
  <2> QED BY <2>3, <2>4 DEF T
<1>4. Original' = Original
  BY <1>1 DEF Original, WriteProfile, WriteHeaderCrc, AtProfile
<1>5. faults \in Nat /\ faults' # 0 /\ faults' \in Nat
  BY <1>1 DEF FileInv
<1>6. \A k \in 1..Len(file) : file'[k] = Original[k] \/ \E m \in Noise : file'[k] = <<"int", m, 1>>
  BY <1>1, <1>3 DEF FileInv, c
<1> HIDE DEF Original
<1>7. \E T : file' \in Seq(T)
  BY <1>3
<1>8. Len(file') <= w.length
  BY <1>1, <1>3 DEF FileInv
<1> QED BY <1>1, <1>3, <1>4, <1>5, <1>6, <1>7, <1>8 DEF FileInv

LEMMA TruncateKeeps ==
  ASSUME WriterInv, FileInv, NEW n \in 0..Len(file) - 1, Truncate(n)
  PROVE  FileInv'
<1>1. /\ stage' = stage /\ w' = w /\ save' = save /\ stage \notin Writing
      /\ file' = SubSeq(file, 1, n) /\ faults' = faults + 1
  BY DEF Truncate, Writing, wvars
<1>2. PICK S : file \in Seq(S)
  BY <1>1 DEF FileInv
<1>3. Len(file) \in Nat /\ n \in Nat /\ n <= Len(file)
  BY <1>2
<1>4. /\ file' \in Seq(S) /\ Len(file') = n
      /\ \A k \in 1..n : file'[k] = file[k]
  <2>1. /\ SubSeq(file, 1, n) \in Seq(S) /\ Len(SubSeq(file, 1, n)) = n - 1 + 1
        /\ \A i \in 1..n - 1 + 1 : SubSeq(file, 1, n)[i] = file[1 + i - 1]
    BY <1>2, <1>3, SubSeqIs
  <2>2. n - 1 + 1 = n /\ \A i \in 1..n : 1 + i - 1 = i
    BY <1>3
  <2> DEFINE f == SubSeq(file, 1, n)
  <2> HIDE DEF f
  <2>3. f \in Seq(S) /\ Len(f) = n /\ \A k \in 1..n : f[k] = file[k]
    BY <2>1, <2>2 DEF f
  <2> QED BY <1>1, <2>3 DEF f
<1>5. Original' = Original
  BY <1>1 DEF Original, WriteProfile, WriteHeaderCrc, AtProfile
<1>6. faults \in Nat /\ faults' # 0 /\ faults' \in Nat
  BY <1>1 DEF FileInv
<1> HIDE DEF Original
<1>7. \A k \in 1..n : k \in 1..Len(file)
  BY <1>3
<1>8. \A k \in 1..n : file'[k] = Original[k] \/ \E m \in Noise : file'[k] = <<"int", m, 1>>
  BY <1>1, <1>4, <1>7 DEF FileInv
<1>9. Len(file') <= w.length
  <2>1. w.length \in Nat
    BY <1>1, OutIsSeq DEF WriterInv, Written, Writing
  <2> QED BY <1>1, <1>3, <1>4, <2>1 DEF FileInv
<1>10. \E T : file' \in Seq(T)
  BY <1>4
<1> QED BY <1>1, <1>4, <1>5, <1>6, <1>8, <1>9, <1>10 DEF FileInv

LEMMA TrailerKeeps ==
  ASSUME WriterInv, FileInv, WriteTrailer
  PROVE  FileInv'
<1>1. /\ stage = "trailer" /\ stage' = "file" /\ w' = w /\ save' = save
      /\ file' = Original /\ faults' = faults
  BY DEF WriteTrailer, wvars, Original
<1>2. Original' = Original
  BY <1>1 DEF Original, WriteProfile, WriteHeaderCrc, AtProfile
<1>3. IsOriginal(save, w, Original)
  BY <1>1, OriginalIs DEF WriterInv
<1> HIDE DEF Original
<1>4. w.length \in Nat
  BY <1>1, OutIsSeq DEF WriterInv, Written
<1> QED BY <1>1, <1>2, <1>3, <1>4 DEF FileInv, Writing, IsOriginal

LEMMA FileKeeps ==
  ASSUME WriterInv, FileInv, [Next]_vars
  PROVE  FileInv'
<1>1. ASSUME UNCHANGED <<save, file, faults>>, stage \in Writing, stage' \in Writing
      PROVE  FileInv'
  BY <1>1 DEF FileInv
<1>2. ASSUME UNCHANGED <<save, w, file, faults>>, stage \notin Writing, stage' \notin Writing
      PROVE  FileInv'
  <2>1. Original' = Original
    BY <1>2 DEF Original, WriteProfile, WriteHeaderCrc, AtProfile
  <2> HIDE DEF Original
  <2> QED BY <1>2, <2>1 DEF FileInv
<1>3. CASE CompressChunk \/ WriteField \/ WriteDataCrc
  BY <1>1, <1>3, KindsAre DEF CompressChunk, WriteField, WriteDataCrc, Advance, Writing
<1>4. CASE UNCHANGED vars
  <2>1. CASE stage \in Writing
    BY <1>1, <1>4, <2>1 DEF vars, wvars
  <2>2. CASE stage \notin Writing
    BY <1>2, <1>4, <2>2 DEF vars, wvars
  <2> QED BY <2>1, <2>2
<1>5. CASE WriteTrailer
  BY <1>5, TrailerKeeps
<1>6. CASE Fault
  BY <1>6, DamageKeeps, TruncateKeeps DEF Fault
<1>7. CASE \E n \in Noise : OpenFile(n)
  BY <1>2, <1>7 DEF OpenFile, wvars, Writing
<1>8. CASE ReadHeaderField \/ ReadDataCrc \/ ReadProfile
  BY <1>2, <1>8, KindsAre DEF ReadHeaderField, ReadDataCrc, ReadProfile, Refuse, Advance, wvars, Writing
<1>9. CASE CheckHeader \/ ScanChunk \/ InflateChunk
  BY <1>2, <1>9 DEF CheckHeader, ScanChunk, InflateChunk, Refuse, wvars, Writing
<1> QED BY <1>3, <1>4, <1>5, <1>6, <1>7, <1>8, <1>9 DEF Next, Program

\* What an int is read from in the file is an int; and a checksum found in the file is
\* one of the two that were written, in the header area.
LEMMA FileCells ==
  ASSUME WriterInv, FileInv, stage \notin Writing
  PROVE  \A i \in 1..Len(file) :
           /\ IntsAreInts(file[i])
           /\ file[i][1] = "crc" => i <= HdrSize /\ file[i][2] \in {Data(w), Covered(save, w)}
<1> SUFFICES ASSUME NEW i \in 1..Len(file)
             PROVE  /\ IntsAreInts(file[i])
                    /\ file[i][1] = "crc" => i <= HdrSize /\ file[i][2] \in {Data(w), Covered(save, w)}
  OBVIOUS
<1>1. IsOriginal(save, w, Original) /\ w.length \in Nat
  BY OriginalIs, OutIsSeq DEF WriterInv, Writing, Written
<1> HIDE DEF Original
<1>2. i \in 1..w.length
  <2>1. Len(file) <= w.length /\ \E S : file \in Seq(S)
    BY DEF FileInv
  <2> QED BY <1>1, <2>1
<1>3. CASE file[i] = Original[i]
  BY <1>1, <1>2, <1>3 DEF IsOriginal
<1>4. CASE \E n \in Noise : file[i] = <<"int", n, 1>>
  BY <1>4, ContainerAssumption DEF IntsAreInts
<1> QED BY <1>3, <1>4 DEF FileInv

-----------------------------------------------------------------------------
(* Reading the file: the reader stays a reader over the same cells *)

IntCellsOnly(f) == Len(f) \in Nat /\ \A i \in 1..Len(f) : IntsAreInts(f[i])

\* A reader over the cells f that has not thrown.
Over(f, r) ==
  /\ IsReader(r) /\ r.start = f /\ r.length = Len(f) /\ r.noise \in Int /\ ~r.thrown

\* The call v threw, or its reader is still one over f.
Went(f, v) == v.rd.thrown \/ Over(f, v.rd)

LEMMA SeekOver ==
  ASSUME NEW f, NEW r, Over(f, r), NEW p \in Nat
  PROVE  Over(f, SeekTo(r, p)) /\ SeekTo(r, p).ptr = p
<1> DEFINE q == SeekTo(r, p)
<1>1. /\ r = [start |-> r.start, length |-> r.length, ptr |-> r.ptr,
              thrown |-> r.thrown, noise |-> r.noise]
      /\ r.length \in Nat /\ r.thrown \in BOOLEAN /\ ~r.thrown
      /\ r.start = f /\ r.length = Len(f) /\ r.noise \in Int
  BY DEF Over, IsReader
<1>2. q = [start |-> r.start, length |-> r.length, ptr |-> p,
           thrown |-> r.thrown, noise |-> r.noise]
  BY <1>1 DEF SeekTo
<1> HIDE DEF q
<1>3. IsReader(q)
  BY <1>1, <1>2 DEF IsReader
<1> QED BY <1>1, <1>2, <1>3 DEF Over, q

LEMMA SkipOver ==
  ASSUME NEW f, NEW r, Over(f, r), NEW n \in Nat, NEW v
  PROVE  Went(f, Skip(r, n, v)) /\ ~Skip(r, n, v).rd.thrown /\ Skip(r, n, v).val = v
<1>1. r.ptr \in Nat
  BY DEF Over, IsReader
<1>2. Skip(r, n, v).rd = SeekTo(r, r.ptr + n) /\ Skip(r, n, v).val = v
  BY DEF Skip, SeekTo
<1>3. Over(f, SeekTo(r, r.ptr + n))
  BY <1>1, SeekOver
<1> QED BY <1>2, <1>3 DEF Went, Over

LEMMA ThrowThrows ==
  ASSUME NEW f, NEW r, Over(f, r)
  PROVE  Throw(r).rd.thrown /\ Went(f, Throw(r))
BY MovedReader, ThrowIs DEF Over, Went

LEMMA IntOver ==
  ASSUME NEW f, IntCellsOnly(f), NEW r, Over(f, r)
  PROVE  /\ Went(f, ReadInt(r))
         /\ ~ReadInt(r).rd.thrown => ReadInt(r).val \in Int
<1>1. r.ptr \in Nat /\ r.length \in Nat /\ r.length = Len(f) /\ r.start = f /\ r.noise \in Int
      /\ IntSize \in Nat \ {0}
  BY SizeAssumption DEF Over, IsReader
<1>2. CASE BoundsCheck(r, IntSize)
  <2>1. r.ptr + 1 + 0 = r.ptr + 1 /\ r.ptr + 1 \in 1..Len(f)
    BY <1>1, <1>2 DEF BoundsCheck
  <2>2. IntsAreInts(CellAt(r, 0))
    BY <1>1, <2>1 DEF CellAt, IntCellsOnly
  <2>3. IntAtCursor(r) \in Int
    BY <1>1, <2>2 DEF IntAtCursor, IntsAreInts
  <2>4. ReadInt(r) = Skip(r, IntSize, IntAtCursor(r))
    BY <1>2 DEF ReadInt
  <2> QED BY <1>1, <2>3, <2>4, SkipOver
<1>3. CASE ~BoundsCheck(r, IntSize)
  BY <1>3, ThrowThrows DEF ReadInt
<1> QED BY <1>2, <1>3

LEMMA TextOver ==
  ASSUME NEW f, NEW r, Over(f, r), NEW n \in Nat
  PROVE  Went(f, ReadNarrow(r, n)) /\ Went(f, ReadWide(r, n))
<1>1. 2 * n \in Nat
  OBVIOUS
<1>2. Went(f, Throw(r))
  BY ThrowThrows
<1>3. \A v : Went(f, Skip(r, n, v)) /\ Went(f, Skip(r, 2 * n, v))
  BY <1>1, SkipOver
<1> QED BY <1>2, <1>3 DEF ReadNarrow, ReadWide

LEMMA UnicodeOver ==
  ASSUME NEW f, IntCellsOnly(f), NEW r, Over(f, r)
  PROVE  Went(f, ReadUnicodeString(r))
<1> DEFINE n == ReadInt(r)
<1>1. Went(f, n) /\ (~n.rd.thrown => n.val \in Int)
  BY IntOver
<1>2. ReadUnicodeString(r) =
        IF n.rd.thrown THEN n
        ELSE IF n.val = 0 THEN Skip(n.rd, 0, [str |-> << >>, wide |-> FALSE])
        ELSE IF n.val < 0 THEN ReadWide(n.rd, -n.val)
        ELSE ReadNarrow(n.rd, n.val)
  BY DEF ReadUnicodeString
<1> DEFINE z == [str |-> << >>, wide |-> FALSE]
           l == n.val
<1> HIDE DEF n, z
<1>3. CASE n.rd.thrown
  BY <1>1, <1>2, <1>3
<1>4. CASE ~n.rd.thrown
  <2>1. Over(f, n.rd) /\ l \in Int
    BY <1>1, <1>4 DEF Went
  <2>2. CASE l = 0
    <3>1. ReadUnicodeString(r) = Skip(n.rd, 0, z)
      BY <1>2, <1>4, <2>2 DEF z
    <3> QED BY <2>1, <3>1, SkipOver
  <2>3. CASE l < 0
    <3>1. ReadUnicodeString(r) = ReadWide(n.rd, -l) /\ -l \in Nat
      BY <1>2, <1>4, <2>1, <2>3
    <3> QED BY <2>1, <3>1, TextOver
  <2>4. CASE l > 0
    <3>1. ReadUnicodeString(r) = ReadNarrow(n.rd, l) /\ l \in Nat
      BY <1>2, <1>4, <2>1, <2>4
    <3> QED BY <2>1, <3>1, TextOver
  <2> QED BY <2>1, <2>2, <2>3, <2>4
<1> QED BY <1>3, <1>4

LEMMA KindOver ==
  ASSUME NEW f, IntCellsOnly(f), NEW r, Over(f, r), NEW k \in Fields
  PROVE  Went(f, ReadKind(r, FieldKinds[k]))
<1>1. CASE FieldKinds[k] = "int"
  BY <1>1, IntOver DEF ReadKind
<1>2. CASE FieldKinds[k] = "unicode"
  BY <1>2, UnicodeOver DEF ReadKind
<1>3. CASE FieldKinds[k] = "string"
  <2> DEFINE s == ReadUnicodeString(r)
  <2>1. Went(f, s)
    BY UnicodeOver
  <2>2. ReadKind(r, FieldKinds[k]) = IF ~s.rd.thrown /\ s.val.wide THEN Throw(s.rd) ELSE s
    BY <1>3 DEF ReadKind, ReadString
  <2> HIDE DEF s
  <2>3. CASE ~s.rd.thrown /\ s.val.wide
    BY <2>1, <2>2, <2>3, ThrowThrows DEF Went
  <2>4. CASE ~(~s.rd.thrown /\ s.val.wide)
    BY <2>1, <2>2, <2>4
  <2> QED BY <2>3, <2>4
<1> QED BY <1>1, <1>2, <1>3, KindsAre

-----------------------------------------------------------------------------
(* Reading the header *)

LEMMA MovedIs ==
  ASSUME NEW r, IsReader(r), NEW n \in Nat
  PROVE  Moved(r, n).ptr = r.ptr + n /\ (Moved(r, n).thrown <=> r.thrown)
BY MovedReader

\* Reading what stands at the cursor gives it back.
LEMMA TextRead ==
  ASSUME NEW f, NEW r, Over(f, r), NEW s, Readable(s),
         r.ptr + StringSize(s) <= Len(f), Placed(f, r.ptr, EncString(s))
  PROVE  LET v == ReadUnicodeString(r) IN
         ~v.rd.thrown /\ v.val = s /\ v.rd.ptr = r.ptr + StringSize(s)
<1> DEFINE v == ReadUnicodeString(r)
<1>1. IsReader(r) /\ ~r.thrown /\ r.start = f /\ r.length = Len(f) /\ r.ptr \in Nat /\ r.length \in Nat
  BY DEF Over, IsReader
<1>2. IsText(s) /\ Len(EncString(s)) = StringSize(s) /\ StringSize(s) \in Nat
  BY ReadableIs
<1>3. At(r, EncString(s)) /\ Fits(r, EncString(s)) /\ r.ptr <= r.length
  BY <1>1, <1>2 DEF At, Fits, Placed
<1>4. v.rd = Moved(r, StringSize(s)) /\ v.val = ReadBack(s)
  BY <1>1, <1>2, <1>3, ReadStringGood
<1>5. ReadBack(s) = s
  <2>1. CASE s.str = << >>
    <3>1. s.wide = FALSE /\ s = [str |-> s.str, wide |-> s.wide]
      BY <2>1, <1>2 DEF Readable, IsText
    <3> DEFINE n == FALSE
    <3>2. s.wide = n /\ ReadBack(s) = [s EXCEPT !.wide = n]
      BY <2>1, <3>1 DEF ReadBack
    <3> HIDE DEF n
    <3> QED BY <3>1, <3>2
  <2>2. CASE s.str # << >>
    BY <2>2 DEF ReadBack
  <2> QED BY <2>1, <2>2
<1>6. ~v.rd.thrown /\ v.rd.ptr = r.ptr + StringSize(s)
  <2> HIDE DEF v
  <2> QED BY <1>1, <1>2, <1>4, MovedIs
<1> QED BY <1>4, <1>5, <1>6

LEMMA IntRead ==
  ASSUME NEW f, NEW r, Over(f, r), NEW n,
         r.ptr + IntSize <= Len(f), Placed(f, r.ptr, IntCells(n))
  PROVE  LET v == ReadInt(r) IN
         ~v.rd.thrown /\ v.val = n /\ v.rd.ptr = r.ptr + IntSize
<1> DEFINE v == ReadInt(r)
<1>1. IsReader(r) /\ ~r.thrown /\ r.start = f /\ r.length = Len(f) /\ r.ptr \in Nat
      /\ r.length \in Nat /\ IntSize \in Nat
  BY SizeAssumption DEF Over, IsReader
<1>2. \A i \in 1..IntSize : r.start[r.ptr + i] = <<"int", n, i>>
  BY <1>1, IntCellsAre DEF Placed
<1>3. v.rd = Moved(r, IntSize) /\ v.val = n
  BY <1>1, <1>2, ReadIntGood
<1>4. Moved(r, IntSize).ptr = r.ptr + IntSize /\ ~Moved(r, IntSize).thrown
  BY <1>1, MovedIs
<1> HIDE DEF v
<1> QED BY <1>3, <1>4 DEF v

LEMMA FieldRead ==
  ASSUME NEW s \in Saves, NEW f, NEW r, Over(f, r), NEW k \in Fields,
         r.ptr + FieldSize(s, k) <= Len(f), Placed(f, r.ptr, FieldCode(s, k))
  PROVE  LET v == ReadKind(r, FieldKinds[k]) IN
         ~v.rd.thrown /\ v.val = s.fields[k] /\ v.rd.ptr = r.ptr + FieldSize(s, k)
<1>1. IsField(s.fields[k], FieldKinds[k])
  BY SaveIs
<1>2. CASE FieldKinds[k] = "int"
  BY <1>2, IntRead DEF ReadKind, FieldSize, FieldCode
<1>3. CASE FieldKinds[k] # "int"
  <2> DEFINE u == ReadUnicodeString(r)
             x == s.fields[k]
  <2>1. Readable(x) /\ (FieldKinds[k] = "string" => ~x.wide)
    BY <1>1, <1>3 DEF IsField
  <2>2. FieldSize(s, k) = StringSize(x) /\ FieldCode(s, k) = EncString(x)
    BY <1>3 DEF FieldSize, FieldCode
  <2> HIDE DEF x
  <2>3. ~u.rd.thrown /\ u.val = x /\ u.rd.ptr = r.ptr + StringSize(x)
    BY <2>1, <2>2, TextRead
  <2> HIDE DEF u
  <2>4. ReadKind(r, FieldKinds[k]) = u
    <3>1. CASE FieldKinds[k] = "unicode"
      BY <3>1 DEF ReadKind, u
    <3>2. CASE FieldKinds[k] = "string"
      <4>1. ReadKind(r, FieldKinds[k]) = IF ~u.rd.thrown /\ u.val.wide THEN Throw(u.rd) ELSE u
        BY <3>2 DEF ReadKind, ReadString, u
      <4> QED BY <2>1, <2>3, <3>2, <4>1
    <3> QED BY <1>3, <3>1, <3>2, KindsAre
  <2> QED BY <2>2, <2>3, <2>4 DEF x
<1> QED BY <1>2, <1>3

\* The fields and the CRC of the data are those that were written.
Intact ==
  /\ HeaderEnd(save) + IntSize <= Len(file)
  /\ \A i \in 1..HeaderEnd(save) + IntSize : file[i] = Original[i]

LEMMA UndamagedIntact ==
  ASSUME WriterInv, FileInv, stage \notin Writing, faults = 0
  PROVE  Intact /\ file = Original /\ Len(file) = w.length
<1>1. IsOriginal(save, w, Original) /\ HdrSize <= w.length /\ w.length \in Nat /\ save \in Saves
  BY OriginalIs, OutIsSeq DEF WriterInv, Writing, Written
<1> HIDE DEF Original
<1>2. file = Original /\ Len(file) = w.length
  BY <1>1 DEF FileInv, IsOriginal
<1>3. HeaderEnd(save) + IntSize <= Len(file)
  BY <1>1, <1>2, HeaderFits, SizeAssumption, ContainerAssumption
<1> QED BY <1>2, <1>3 DEF Intact

LEMMA IntactFields ==
  ASSUME WriterInv, FileInv, stage \notin Writing, Intact, NEW k \in 0..11
  PROVE  /\ Placed(file, FieldsEnd(save, k), FieldCode(save, k + 1))
         /\ FieldsEnd(save, k) + FieldSize(save, k + 1) <= Len(file)
<1> DEFINE o == FieldsEnd(save, k)
           n == FieldSize(save, k + 1)
           end == HeaderEnd(save)
           c == FieldCode(save, k + 1)
<1>1. IsOriginal(save, w, Original) /\ save \in Saves
  BY OriginalIs DEF WriterInv, Writing, Written
<1> HIDE DEF Original
<1>2. k + 1 \in Fields /\ k \in 0..12 /\ k + 1 \in 0..12 /\ 12 \in 0..12 /\ k + 1 <= 12
  BY DEF Fields
<1>3. o \in Nat /\ n \in Nat /\ end \in Nat /\ Len(c) = n /\ o + n <= end
  <2>1. o \in Nat /\ end \in Nat /\ FieldsEnd(save, k + 1) <= end /\ FieldsEnd(save, k + 1) = o + n
    BY <1>1, <1>2, FieldsEndIs DEF HeaderEnd
  <2>2. n \in Nat /\ Len(c) = n
    BY <1>1, <1>2, FieldCodeIs
  <2> QED BY <2>1, <2>2
<1>4. Placed(Original, o, c)
  <2>1. k \in 0..12 - 1
    OBVIOUS
  <2> QED BY <1>1, <2>1 DEF IsOriginal, FieldsPlaced
<1>5. end + IntSize <= Len(file) /\ \A i \in 1..end + IntSize : file[i] = Original[i]
  BY DEF Intact
<1> HIDE DEF o, n, end, c
<1>6. \E S : file \in Seq(S)
  BY DEF FileInv
<1>7. Len(file) \in Nat /\ IntSize \in Nat
  BY <1>6, SizeAssumption
<1>8. \A i \in 1..n : o + i \in 1..end + IntSize
  BY <1>3, <1>7
<1>9. Placed(file, o, c)
  BY <1>3, <1>4, <1>5, <1>8 DEF Placed
<1>10. o + n <= Len(file)
  BY <1>3, <1>5, <1>7
<1> QED BY <1>9, <1>10 DEF o, n, c

LEMMA IntactCrc ==
  ASSUME WriterInv, FileInv, stage \notin Writing, Intact
  PROVE  /\ HeaderEnd(save) \in Nat /\ HeaderEnd(save) + IntSize <= Len(file)
         /\ \A i \in 1..IntSize : file[HeaderEnd(save) + i] = <<"crc", Data(w), i>>
<1> DEFINE X == Data(w)
           end == HeaderEnd(save)
<1>1. IsOriginal(save, w, Original) /\ save \in Saves
  BY OriginalIs DEF WriterInv, Writing, Written
<1> HIDE DEF Original
<1>2. end \in Nat /\ IntSize \in Nat
  BY <1>1, HeaderFits, SizeAssumption
<1>3. \A i \in 1..IntSize : Original[end + i] = <<"crc", X, i>>
  <2>1. Placed(Original, end, CrcCells(X))
    BY <1>1 DEF IsOriginal
  <2> HIDE DEF end, X
  <2> QED BY <2>1, CrcCellsAre DEF Placed
<1> HIDE DEF X
<1>4. end + IntSize <= Len(file) /\ \A i \in 1..end + IntSize : file[i] = Original[i]
  BY DEF Intact
<1> HIDE DEF end
<1>5. \A i \in 1..IntSize : end + i \in 1..end + IntSize
  BY <1>2
<1>6. \A i \in 1..IntSize : file[end + i] = <<"crc", X, i>>
  BY <1>3, <1>4, <1>5
<1> QED BY <1>2, <1>4, <1>6 DEF end, X

Reading == {"header", "data_crc_read", "profile", "checks", "scan", "inflate", "delivered"}

Known == \A k \in 1..Len(hdr.fields) : hdr.fields[k] = save.fields[k]

\* The stored CRC of the data is four bytes of the file.
CrcRead ==
  /\ \E i \in 1..Len(file) : hdr.crc[1] = file[i]
  /\ Intact => hdr.crc = CrcCells(Data(w))

\* What the reader has of the header, and where it stands.
HeaderInv ==
  /\ hdr = [fields |-> hdr.fields, crc |-> hdr.crc, profile |-> hdr.profile]
  /\ \E V : hdr.fields \in Seq(V)
  /\ stage \in Writing \cup {"file"} => hdr.fields = << >>
  /\ stage \in Writing \cup {"file", "header", "data_crc_read", "profile"} => hdr.profile = << >>
  /\ stage \in Reading => Over(file, rd) /\ (Intact => Known)
  /\ stage = "header" =>
       Len(hdr.fields) < 12 /\ (Intact => rd.ptr = FieldsEnd(save, Len(hdr.fields)))
  /\ stage \in Reading \ {"header"} => Len(hdr.fields) = 12
  /\ stage = "data_crc_read" /\ Intact => rd.ptr = HeaderEnd(save)
  /\ stage \in {"profile", "checks"} => CrcRead
  /\ stage = "profile" =>
       Version(hdr) = Android /\ (Intact => rd.ptr = HeaderEnd(save) + IntSize)
  /\ stage \in {"checks", "scan", "inflate", "delivered"} /\ faults = 0 =>
       hdr.profile = save.profile

LEMMA HeaderStarts == Init => HeaderInv
<1> SUFFICES ASSUME Init PROVE HeaderInv
  OBVIOUS
<1>1. stage = "compress" /\ hdr = [fields |-> << >>, crc |-> << >>, profile |-> << >>]
  BY DEF Init
<1>2. hdr.fields = << >> /\ hdr.profile = << >> /\ hdr.fields \in Seq({})
  BY <1>1
<1>3. hdr = [fields |-> hdr.fields, crc |-> hdr.crc, profile |-> hdr.profile]
  BY <1>1
<1> QED BY <1>1, <1>2, <1>3 DEF HeaderInv, Reading

\* Nothing of what was written changes any more.
Settled == UNCHANGED <<save, w, file, faults>>

LEMMA SettledKeeps == Settled => Original' = Original /\ (Intact' <=> Intact)
<1> SUFFICES ASSUME Settled PROVE Original' = Original /\ (Intact' <=> Intact)
  OBVIOUS
<1>1. save' = save /\ w' = w /\ file' = file
  BY DEF Settled
<1>2. Original' = Original
  BY <1>1 DEF Original, WriteProfile, WriteHeaderCrc, AtProfile
<1> HIDE DEF Original
<1> QED BY <1>1, <1>2 DEF Intact

LEMMA RefuseKeepsHeader ==
  ASSUME HeaderInv, Refuse
  PROVE  HeaderInv'
<1>1. stage' = "refused" /\ hdr' = hdr
  BY DEF Refuse, rvars
<1> QED BY <1>1 DEF HeaderInv, Writing, Reading

LEMMA FileIsInts ==
  ASSUME WriterInv, FileInv, stage \notin Writing
  PROVE  IntCellsOnly(file)
<1>1. \E S : file \in Seq(S)
  BY DEF FileInv
<1>2. Len(file) \in Nat
  BY <1>1
<1> QED BY <1>2, FileCells DEF IntCellsOnly

LEMMA OpenKeepsHeader ==
  ASSUME WriterInv, FileInv, HeaderInv, NEW n \in Noise, OpenFile(n)
  PROVE  HeaderInv'
<1>1. /\ stage = "file" /\ stage' = "header" /\ rd' = Reader(file, n) /\ hdr' = hdr
      /\ Settled
  BY DEF OpenFile, wvars, Settled
<1>2. IntCellsOnly(file) /\ save \in Saves /\ n \in Int
  BY <1>1, FileIsInts, ContainerAssumption DEF WriterInv, Writing
<1> DEFINE r == Reader(file, n)
           no == FALSE
<1>3. r = [start |-> file, length |-> Len(file), ptr |-> 0, thrown |-> no, noise |-> n]
  BY DEF Reader
<1> HIDE DEF r
<1>4. no \in BOOLEAN /\ ~no
  OBVIOUS
<1> HIDE DEF no
<1>5. Over(file, r) /\ r.ptr = 0
  BY <1>2, <1>3, <1>4 DEF Over, IsReader, IntCellsOnly
<1>6. hdr.fields = << >> /\ hdr.profile = << >> /\ Len(hdr.fields) = 0
  BY <1>1 DEF HeaderInv
<1>7. FieldsEnd(save, 0) = 0
  BY <1>2, FieldsEndIs
<1>8. save' = save /\ file' = file /\ rd' = r
  BY <1>1 DEF Settled, r
<1> QED BY <1>1, <1>5, <1>6, <1>7, <1>8 DEF HeaderInv, Known, Reading, Writing

LEMMA FieldKeepsHeader ==
  ASSUME WriterInv, FileInv, HeaderInv, ReadHeaderField
  PROVE  HeaderInv'
<1> DEFINE l == Len(hdr.fields)
           k == l + 1
           v == ReadKind(rd, FieldKinds[k])
<1>1. /\ stage = "header"
      /\ Refuse \/ /\ ~v.rd.thrown /\ rd' = v.rd
                   /\ hdr' = [hdr EXCEPT !.fields = Append(hdr.fields, v.val)]
                   /\ stage' = Advance(k, "data_crc_read")
                   /\ Settled
  BY DEF ReadHeaderField, wvars, Settled
<1>2. PICK V : hdr.fields \in Seq(V)
  BY DEF HeaderInv
<1>3. l \in Nat /\ l < 12
  BY <1>1, <1>2 DEF HeaderInv
<1> HIDE DEF l
<1>4. k \in Fields /\ k - 1 \in 0..11 /\ (k - 1) + 1 = k /\ k - 1 = l
  BY <1>3 DEF Fields
<1> HIDE DEF k
<1>5. CASE Refuse
  BY <1>5, RefuseKeepsHeader
<1>6. ASSUME ~Refuse PROVE HeaderInv'
  <2>1. /\ ~v.rd.thrown /\ rd' = v.rd
        /\ hdr' = [hdr EXCEPT !.fields = Append(hdr.fields, v.val)]
        /\ stage' = (IF k = 12 THEN "data_crc_read" ELSE "header")
        /\ Settled
    BY <1>1, <1>6, KindsAre DEF Advance
  <2>2. Over(file, rd) /\ IntCellsOnly(file) /\ save \in Saves
    BY <1>1, FileIsInts DEF HeaderInv, WriterInv, Reading, Writing
  <2>3. Over(file, v.rd)
    BY <1>4, <2>1, <2>2, KindOver DEF Went
  <2>4. ASSUME Intact PROVE v.val = save.fields[k] /\ v.rd.ptr = FieldsEnd(save, k)
    <3>1. rd.ptr = FieldsEnd(save, k - 1)
      BY <1>1, <1>4, <2>4 DEF HeaderInv, l
    <3>2. /\ Placed(file, FieldsEnd(save, k - 1), FieldCode(save, (k - 1) + 1))
          /\ FieldsEnd(save, k - 1) + FieldSize(save, (k - 1) + 1) <= Len(file)
      BY <1>1, <1>4, <2>4, IntactFields DEF Writing
    <3>3. v.val = save.fields[k] /\ v.rd.ptr = rd.ptr + FieldSize(save, k)
      BY <1>4, <2>2, <3>1, <3>2, FieldRead
    <3>4. FieldsEnd(save, (k - 1) + 1) = FieldsEnd(save, k - 1) + FieldSize(save, (k - 1) + 1)
      BY <1>4, <2>2, FieldsEndIs
    <3> QED BY <1>4, <3>1, <3>3, <3>4
  <2> DEFINE x == v.val
             g == Append(hdr.fields, x)
             W == V \cup {x}
  <2> HIDE DEF v, x
  <2>5. /\ g \in Seq(W) /\ Len(g) = k
        /\ \A j \in 1..l : g[j] = hdr.fields[j]
        /\ g[k] = x
    <3>1. hdr.fields \in Seq(W) /\ x \in W
      BY <1>2
    <3> HIDE DEF W
    <3> QED BY <3>1, AppendProperties DEF k, l
  <2> HIDE DEF g, W
  <2>6. /\ hdr = [fields |-> hdr.fields, crc |-> hdr.crc, profile |-> hdr.profile]
        /\ hdr.profile = << >>
    BY <1>1 DEF HeaderInv
  <2>7. hdr' = [fields |-> g, crc |-> hdr.crc, profile |-> hdr.profile]
    BY <2>1, <2>6 DEF g, x
  <2>8. hdr'.fields = g /\ hdr'.profile = << >> /\ hdr' = [fields |-> hdr'.fields, crc |-> hdr'.crc, profile |-> hdr'.profile]
    BY <2>6, <2>7
  <2>9. save' = save /\ file' = file /\ (Intact' <=> Intact)
    BY <2>1, SettledKeeps DEF Settled
  <2>10. ASSUME Intact PROVE \A j \in 1..k : g[j] = save.fields[j]
    <3>1. \A j \in 1..l : hdr.fields[j] = save.fields[j]
      BY <1>1, <2>10 DEF HeaderInv, Known, Reading, l
    <3>2. g[k] = save.fields[k]
      BY <2>4, <2>5, <2>10 DEF x
    <3>3. \A j \in 1..k : j \in 1..l \/ j = k
      BY <1>3, <1>4 DEF l
    <3> QED BY <2>5, <3>1, <3>2, <3>3
  <2>11. Over(file', rd') /\ (Intact' => Known')
    BY <2>1, <2>3, <2>5, <2>8, <2>9, <2>10 DEF Known
  <2>12. Intact => rd'.ptr = FieldsEnd(save, k)
    BY <2>1, <2>4
  <2>13. \E U : hdr'.fields \in Seq(U)
    BY <2>5, <2>8
  <2>14. Len(hdr'.fields) = k /\ stage' = (IF k = 12 THEN "data_crc_read" ELSE "header")
    BY <2>1, <2>5, <2>8
  <2>15. k \in Nat /\ k <= 12
    BY <1>4 DEF Fields
  <2> HIDE DEF k
  <2>16. CASE k = 12
    <3>1. stage' = "data_crc_read"
      BY <2>14, <2>16
    <3> QED BY <2>8, <2>9, <2>11, <2>12, <2>13, <2>14, <2>16, <3>1 DEF HeaderInv, HeaderEnd, Reading, Writing
  <2>17. CASE k # 12
    <3>1. stage' = "header" /\ k < 12
      BY <2>14, <2>15, <2>17
    <3> QED BY <2>8, <2>9, <2>11, <2>12, <2>13, <2>14, <3>1 DEF HeaderInv, Reading, Writing
  <2> QED BY <2>16, <2>17
<1> QED BY <1>5, <1>6

\* What of the header a step that reads no field leaves alone.
LEMMA FieldsStand ==
  ASSUME HeaderInv, stage \in Reading \ {"header"}, stage' \in Reading \ {"header"}, Settled,
         hdr'.fields = hdr.fields, hdr' = [fields |-> hdr'.fields, crc |-> hdr'.crc, profile |-> hdr'.profile],
         Over(file, rd')
  PROVE  /\ hdr' = [fields |-> hdr'.fields, crc |-> hdr'.crc, profile |-> hdr'.profile]
         /\ \E V : hdr'.fields \in Seq(V)
         /\ Over(file', rd') /\ (Intact' => Known')
         /\ Len(hdr'.fields) = 12
         /\ Version(hdr') = Version(hdr)
         /\ (Intact' <=> Intact) /\ save' = save /\ w' = w /\ file' = file /\ faults' = faults
<1>1. (Intact' <=> Intact) /\ save' = save /\ w' = w /\ file' = file /\ faults' = faults
  BY SettledKeeps DEF Settled
<1>2. Intact' => Known'
  BY <1>1 DEF HeaderInv, Known
<1> QED BY <1>1, <1>2 DEF HeaderInv, Version

\* An undamaged header says what was written.
LEMMA UndamagedKnown ==
  ASSUME WriterInv, FileInv, HeaderInv, stage \in Reading \ {"header"}, faults = 0
  PROVE  /\ \A k \in Fields : hdr.fields[k] = save.fields[k]
         /\ Version(hdr) = Version(save) /\ (Tactical(hdr) <=> Tactical(save))
<1>1. Intact
  BY UndamagedIntact DEF Reading, Writing
<1>2. Known /\ Len(hdr.fields) = 12
  BY <1>1 DEF HeaderInv
<1>3. \A k \in Fields : hdr.fields[k] = save.fields[k]
  BY <1>2 DEF Known, Fields
<1> QED BY <1>3 DEF Fields, Version, Tactical

LEMMA CrcKeepsHeader ==
  ASSUME WriterInv, FileInv, HeaderInv, ReadDataCrc
  PROVE  HeaderInv'
<1> DEFINE c == [k \in 1..IntSize |-> CellAt(rd, k - 1)]
<1>1. /\ stage = "data_crc_read"
      /\ Refuse \/ /\ BoundsCheck(rd, IntSize)
                   /\ hdr' = [hdr EXCEPT !.crc = c]
                   /\ rd' = SeekTo(rd, rd.ptr + IntSize)
                   /\ stage' = (IF Version(hdr) = Android THEN "profile" ELSE "checks")
                   /\ Settled
  BY DEF ReadDataCrc, wvars, Settled
<1>2. CASE Refuse
  BY <1>2, RefuseKeepsHeader
<1>3. ASSUME ~Refuse PROVE HeaderInv'
  <2>1. /\ BoundsCheck(rd, IntSize)
        /\ hdr' = [hdr EXCEPT !.crc = c]
        /\ rd' = SeekTo(rd, rd.ptr + IntSize)
        /\ stage' = (IF Version(hdr) = Android THEN "profile" ELSE "checks")
        /\ Settled
    BY <1>1, <1>3
  <2>2. Over(file, rd) /\ rd.ptr \in Nat /\ rd.length \in Nat /\ rd.start = file
        /\ rd.length = Len(file) /\ IntSize \in Nat \ {0}
    BY <1>1, SizeAssumption DEF HeaderInv, Reading, Over, IsReader
  <2>3. Over(file, rd') /\ rd'.ptr = rd.ptr + IntSize
    BY <2>1, <2>2, SeekOver
  <2>4. \A k \in 1..IntSize : rd.ptr + 1 + (k - 1) = rd.ptr + k /\ CellAt(rd, k - 1) = file[rd.ptr + k]
    <3>1. \A k \in 1..IntSize : rd.ptr + 1 + (k - 1) = rd.ptr + k
      BY <2>2
    <3> QED BY <2>2, <3>1 DEF CellAt
  <2>5. c[1] = file[rd.ptr + 1] /\ rd.ptr + 1 \in 1..Len(file)
    <3>1. 1 \in 1..IntSize /\ c[1] = CellAt(rd, 1 - 1)
      BY <2>2
    <3>2. rd.length >= rd.ptr + IntSize
      BY <2>1 DEF BoundsCheck
    <3>3. rd.ptr + 1 \in 1..Len(file)
      BY <2>2, <3>2
    <3> HIDE DEF c
    <3> QED BY <2>4, <3>1, <3>3
  <2>6. ASSUME Intact PROVE c = CrcCells(Data(w))
    <3> DEFINE X == Data(w)
    <3>1. rd.ptr = HeaderEnd(save)
      BY <1>1, <2>6 DEF HeaderInv
    <3>2. \A i \in 1..IntSize : file[rd.ptr + i] = <<"crc", X, i>>
      BY <1>1, <2>6, <3>1, IntactCrc DEF Writing
    <3> HIDE DEF X
    <3>3. c = [k \in 1..IntSize |-> <<"crc", X, k>>]
      BY <2>4, <3>2
    <3> QED BY <3>3 DEF CrcCells, X
  <2> HIDE DEF c
  <2>7. hdr = [fields |-> hdr.fields, crc |-> hdr.crc, profile |-> hdr.profile]
        /\ hdr.profile = << >>
    BY <1>1 DEF HeaderInv
  <2>8. hdr' = [fields |-> hdr.fields, crc |-> c, profile |-> hdr.profile]
    BY <2>1, <2>7
  <2>9. /\ hdr'.fields = hdr.fields /\ hdr'.crc = c /\ hdr'.profile = << >>
        /\ hdr' = [fields |-> hdr'.fields, crc |-> hdr'.crc, profile |-> hdr'.profile]
    BY <2>7, <2>8
  <2>10. stage \in Reading \ {"header"} /\ stage' \in Reading \ {"header"} /\ stage' \in {"profile", "checks"}
    BY <1>1, <2>1 DEF Reading
  <2>11. /\ \E V : hdr'.fields \in Seq(V)
         /\ Over(file', rd') /\ (Intact' => Known')
         /\ Len(hdr'.fields) = 12
         /\ Version(hdr') = Version(hdr)
         /\ (Intact' <=> Intact) /\ save' = save /\ w' = w /\ file' = file /\ faults' = faults
    BY <2>1, <2>3, <2>9, <2>10, FieldsStand
  <2>12. CrcRead'
    <3>1. Data(w)' = Data(w)
      BY <2>11 DEF Data
    <3> QED BY <2>5, <2>6, <2>9, <2>11, <3>1 DEF CrcRead
  <2>13. stage' = "profile" => Version(hdr) = Android
    BY <2>1
  <2>14. Intact => rd'.ptr = HeaderEnd(save) + IntSize
    BY <1>1, <2>3 DEF HeaderInv
  <2>15. stage' = "checks" /\ faults = 0 => save.profile = << >>
    <3> SUFFICES ASSUME stage' = "checks", faults = 0 PROVE save.profile = << >>
      OBVIOUS
    <3>1. Version(hdr) # Android
      BY <2>1
    <3>2. Version(save) # Android
      BY <2>10, <3>1, UndamagedKnown
    <3> QED BY <3>2, SaveIs DEF WriterInv
  <2>16. stage' \notin Writing \cup {"file", "header", "data_crc_read"}
         /\ stage' \notin {"scan", "inflate", "delivered"}
    BY <2>10 DEF Writing
  <2> QED BY <2>9, <2>10, <2>11, <2>12, <2>13, <2>14, <2>15, <2>16 DEF HeaderInv
<1> QED BY <1>2, <1>3

\* On Android the profile stands 12 bytes behind the CRC.
LEMMA UndamagedProfile ==
  ASSUME WriterInv, FileInv, stage \notin Writing, faults = 0, Version(save) = Android
  PROVE  LET at == HeaderEnd(save) + 4 * IntSize IN
         /\ at \in Nat /\ Readable(save.profile[2]) /\ save.profile = <<save.profile[1], save.profile[2]>>
         /\ at + IntSize + StringSize(save.profile[2]) <= Len(file)
         /\ Placed(file, at, IntCells(save.profile[1]))
         /\ Placed(file, at + IntSize, EncString(save.profile[2]))
<1> DEFINE end == HeaderEnd(save)
           at == end + 4 * IntSize
           p1 == IntCells(save.profile[1])
           p2 == EncString(save.profile[2])
           n == StringSize(save.profile[2])
<1>1. file = Original /\ Len(file) = w.length /\ HdrSize <= w.length /\ save \in Saves
      /\ w.length \in Nat /\ IntSize \in Nat
  BY UndamagedIntact, OutIsSeq, SizeAssumption DEF WriterInv, Writing, Written
<1>2. Placed(file, at, ProfileCode(save))
  BY <1>1, OriginalIs DEF WriterInv, Writing, IsOriginal
<1>3. IsProfile(save.profile)
  BY <1>1, SaveIs
<1>4. Len(p1) = IntSize /\ \E S : p1 \in Seq(S)
  BY IntCellsSeq, IntCellsAre
<1>5. Readable(save.profile[2]) /\ save.profile = <<save.profile[1], save.profile[2]>>
  BY <1>3 DEF IsProfile
<1>6. n \in Nat /\ Len(p2) = n /\ \E S : p2 \in Seq(S)
  BY <1>5, ReadableIs
<1>7. end \in Nat /\ end + 5 * IntSize + n <= HdrSize
  BY <1>1, HeaderFits
<1> HIDE DEF end, p1, p2, n
<1>8. Concatenated(p1 \o p2, p1, p2)
  BY <1>4, <1>6, ConcatIs
<1>9. at \in Nat /\ at + IntSize + n <= Len(file)
  BY <1>1, <1>6, <1>7, ContainerAssumption
<1> HIDE DEF at
<1> DEFINE c == p1 \o p2
<1>10. Placed(file, at, c)
  BY <1>2 DEF ProfileCode, p1, p2
<1> HIDE DEF c
<1>11. Len(c) = Len(p1) + Len(p2) /\ Len(p1) = IntSize /\ Len(p2) = n
       /\ (\A i \in 1..Len(p1) : c[i] = p1[i]) /\ (\A i \in 1..Len(p2) : c[Len(p1) + i] = p2[i])
  BY <1>4, <1>6, <1>8 DEF Concatenated, c
<1>12. Placed(file, at, p1)
  BY <1>1, <1>6, <1>10, <1>11 DEF Placed
<1>13. Placed(file, at + IntSize, p2)
  <2> SUFFICES ASSUME NEW i \in 1..n PROVE file[at + IntSize + i] = p2[i]
    BY <1>11 DEF Placed
  <2>1. IntSize + i \in 1..Len(c) /\ at + (IntSize + i) = at + IntSize + i
    BY <1>1, <1>6, <1>9, <1>11
  <2>2. file[at + (IntSize + i)] = c[IntSize + i]
    BY <1>10, <2>1 DEF Placed
  <2> QED BY <1>11, <2>1, <2>2
<1> QED BY <1>5, <1>9, <1>12, <1>13 DEF at, end, p1, p2, n

LEMMA ProfileKeepsHeader ==
  ASSUME WriterInv, FileInv, HeaderInv, ReadProfile
  PROVE  HeaderInv'
<1> DEFINE r == SeekTo(rd, rd.ptr + 3 * IntSize)
           n == ReadInt(r)
           d == ReadUnicodeString(n.rd)
           c == <<n.val, d.val>>
<1>1. /\ stage = "profile"
      /\ Refuse \/ /\ ~n.rd.thrown /\ ~d.rd.thrown
                   /\ hdr' = [hdr EXCEPT !.profile = c]
                   /\ rd' = d.rd
                   /\ stage' = "checks"
                   /\ Settled
  BY DEF ReadProfile, wvars, Settled
<1>2. CASE Refuse
  BY <1>2, RefuseKeepsHeader
<1>3. ASSUME ~Refuse PROVE HeaderInv'
  <2>1. /\ ~n.rd.thrown /\ ~d.rd.thrown
        /\ hdr' = [hdr EXCEPT !.profile = c]
        /\ rd' = d.rd
        /\ stage' = "checks"
        /\ Settled
    BY <1>1, <1>3
  <2>2. Over(file, rd) /\ rd.ptr \in Nat /\ IntSize \in Nat \ {0} /\ IntCellsOnly(file)
    BY <1>1, FileIsInts, SizeAssumption DEF HeaderInv, Reading, Writing, Over, IsReader
  <2>3. Over(file, r) /\ r.ptr = rd.ptr + 3 * IntSize
    <3> DEFINE p == rd.ptr + 3 * IntSize
    <3>1. p \in Nat
      BY <2>2
    <3> HIDE DEF p
    <3>2. Over(file, SeekTo(rd, p)) /\ SeekTo(rd, p).ptr = p
      BY <2>2, <3>1, SeekOver
    <3> QED BY <3>2 DEF p
  <2> HIDE DEF r
  <2>4. Over(file, n.rd)
    BY <2>1, <2>2, <2>3, IntOver DEF Went
  <2>5. ASSUME faults = 0 PROVE c = save.profile
    <3>1. Version(save) = Android /\ rd.ptr = HeaderEnd(save) + IntSize
      BY <1>1, <2>5, UndamagedKnown, UndamagedIntact DEF HeaderInv, Reading, Writing
    <3> DEFINE end == HeaderEnd(save)
               at == end + 4 * IntSize
               p1 == save.profile[1]
               p2 == save.profile[2]
    <3>2. /\ at \in Nat /\ Readable(p2) /\ save.profile = <<p1, p2>>
          /\ at + IntSize + StringSize(p2) <= Len(file)
          /\ Placed(file, at, IntCells(p1))
          /\ Placed(file, at + IntSize, EncString(p2))
      BY <1>1, <2>5, <3>1, UndamagedProfile DEF Writing
    <3>3. rd.ptr = end + IntSize /\ end \in Nat
      BY <3>1, HeaderFits DEF WriterInv
    <3> HIDE DEF end
    <3>4. r.ptr = at
      BY <2>2, <2>3, <3>3
    <3> HIDE DEF at, n, p1, p2
    <3>5. at + IntSize <= Len(file)
      <4>1. StringSize(p2) \in Nat
        BY <3>2, ReadableIs
      <4> QED BY <2>2, <3>2, <4>1 DEF IntCellsOnly
    <3>6. n.val = p1 /\ n.rd.ptr = at + IntSize
      BY <2>3, <3>2, <3>4, <3>5, IntRead DEF n
    <3>7. d.val = p2
      BY <2>4, <3>2, <3>6, TextRead
    <3> HIDE DEF d
    <3> QED BY <3>2, <3>6, <3>7
  <2> HIDE DEF n
  <2>6. Over(file, d.rd)
    BY <2>1, <2>2, <2>4, UnicodeOver DEF Went
  <2> HIDE DEF d, c
  <2>7. hdr = [fields |-> hdr.fields, crc |-> hdr.crc, profile |-> hdr.profile]
    BY DEF HeaderInv
  <2>8. hdr' = [fields |-> hdr.fields, crc |-> hdr.crc, profile |-> c]
    BY <2>1, <2>7
  <2>9. /\ hdr'.fields = hdr.fields /\ hdr'.crc = hdr.crc /\ hdr'.profile = c
        /\ hdr' = [fields |-> hdr'.fields, crc |-> hdr'.crc, profile |-> hdr'.profile]
    BY <2>8
  <2>10. stage \in Reading \ {"header"} /\ stage' \in Reading \ {"header"} /\ stage' = "checks"
    BY <1>1, <2>1 DEF Reading
  <2>11. /\ \E V : hdr'.fields \in Seq(V)
         /\ Over(file', rd') /\ (Intact' => Known')
         /\ Len(hdr'.fields) = 12
         /\ (Intact' <=> Intact) /\ save' = save /\ w' = w /\ file' = file /\ faults' = faults
    BY <2>1, <2>6, <2>9, <2>10, FieldsStand
  <2>12. CrcRead'
    <3>1. Data(w)' = Data(w)
      BY <2>11 DEF Data
    <3>2. CrcRead
      BY <1>1 DEF HeaderInv
    <3> QED BY <2>9, <2>11, <3>1, <3>2 DEF CrcRead
  <2>13. faults = 0 => hdr'.profile = save.profile
    BY <2>5, <2>9
  <2>14. "checks" \notin Writing \cup {"file", "header", "data_crc_read", "profile"}
    BY DEF Writing
  <2> QED BY <2>9, <2>10, <2>11, <2>12, <2>13, <2>14 DEF HeaderInv
<1> QED BY <1>2, <1>3

-----------------------------------------------------------------------------
(* The checksums *)

\* The first cells of a sequence are those of the sequence.
LEMMA PrefixIs ==
  ASSUME NEW f, \E S : f \in Seq(S), NEW n \in Nat, n <= Len(f)
  PROVE  Len(SubSeq(f, 1, n)) = n /\ \A i \in 1..n : SubSeq(f, 1, n)[i] = f[i]
<1>1. PICK S : f \in Seq(S)
  OBVIOUS
<1>2. n - 1 + 1 = n /\ 1 \in Nat \ {0} /\ 1 <= n + 1 /\ \A i \in 1..n : 1 + i - 1 = i
  OBVIOUS
<1> DEFINE c == SubSeq(f, 1, n)
<1>3. Len(c) = n - 1 + 1 /\ \A i \in 1..n - 1 + 1 : c[i] = f[1 + i - 1]
  BY <1>1, <1>2, SubSeqIs
<1> HIDE DEF c
<1> QED BY <1>2, <1>3 DEF c

\* A cell of the file that is no int is the one that was written.
LEMMA ChecksumStands ==
  ASSUME FileInv, stage \notin Writing, NEW i \in 1..Len(file), file[i][1] = "crc"
  PROVE  file[i] = Original[i]
<1>1. file[i] = Original[i] \/ \E n \in Noise : file[i] = <<"int", n, 1>>
  BY DEF FileInv
<1>2. \A n \in Noise : <<"int", n, 1>>[1] # "crc"
  OBVIOUS
<1> QED BY <1>1, <1>2

\* Where the checksum of the header matches, the header is intact.
LEMMA HeaderCrcProves ==
  ASSUME WriterInv, FileInv, stage \notin Writing, Version(save) # Android,
         Over(file, rd), HeaderCrcMatches(rd)
  PROVE  Intact
<1> DEFINE end == HeaderEnd(save)
           m == end + 2 * IntSize
           at == HdrSize - 2 * IntSize
           n == IntAtCursor(SeekTo(rd, at))
           X == Covered(save, w)
           c == SubSeq(file, 1, n)
           p == HdrSize - IntSize + 1
<1>1. IsOriginal(save, w, Original) /\ save \in Saves /\ w.length \in Nat /\ HdrSize <= w.length
  BY OriginalIs, OutIsSeq DEF WriterInv, Writing, Written
<1> HIDE DEF Original
<1>2. end \in Nat /\ end + 4 * IntSize <= HdrSize /\ IntSize \in Nat \ {0} /\ HdrSize \in Nat
  BY <1>1, HeaderFits, SizeAssumption, ContainerAssumption
<1>3. rd.start = file /\ rd.length = Len(file) /\ (\E S : file \in Seq(S)) /\ Len(file) \in Nat
  BY DEF Over, FileInv, IsReader
<1>4. /\ Len(file) >= HdrSize /\ n \in 0..Len(file)
      /\ CrcCells(c) = SubSeq(file, at + IntSize + 1, HdrSize)
  BY <1>3 DEF HeaderCrcMatches, CrcOf
<1>5. /\ SubSeq(Original, 1, m) = X
      /\ Placed(Original, HdrSize - IntSize, CrcCells(X))
      /\ \E S : Original \in Seq(S)
      /\ Len(Original) = w.length
  BY <1>1 DEF IsOriginal
<1> HIDE DEF end
<1>6. at + IntSize + 1 = p /\ p \in Nat \ {0} /\ p <= HdrSize + 1 /\ p \in 1..Len(file)
      /\ 1 \in 1..HdrSize - p + 1 /\ m \in Nat /\ m <= w.length /\ p + 1 - 1 = p
  BY <1>1, <1>2, <1>3, <1>4
<1> HIDE DEF n, at, X, c
<1>7. SubSeq(file, p, HdrSize)[1] = file[p]
  <2>1. PICK S : file \in Seq(S)
    BY <1>3
  <2> HIDE DEF p
  <2>2. \A i \in 1..HdrSize - p + 1 : SubSeq(file, p, HdrSize)[i] = file[p + i - 1]
    BY <1>2, <1>4, <1>6, <2>1, SubSeqIs
  <2> QED BY <1>6, <2>2
<1>8. file[p] = <<"crc", c, 1>>
  <2>1. 1 \in 1..IntSize
    BY <1>2
  <2>2. CrcCells(c)[1] = <<"crc", c, 1>>
    BY <2>1, CrcCellsAre
  <2> QED BY <1>4, <1>6, <1>7, <2>2
<1>9. Original[p] = <<"crc", X, 1>>
  <2>1. 1 \in 1..IntSize /\ HdrSize - IntSize + 1 = p
    BY <1>2
  <2>2. Len(CrcCells(X)) = IntSize /\ CrcCells(X)[1] = <<"crc", X, 1>>
    BY <2>1, CrcCellsAre
  <2> QED BY <1>5, <2>1, <2>2 DEF Placed
<1>10. c = X
  <2>1. file[p] = Original[p]
    BY <1>6, <1>8, ChecksumStands
  <2> QED BY <1>8, <1>9, <2>1
<1> HIDE DEF p, m
<1>11. Len(c) = n /\ \A i \in 1..n : c[i] = file[i]
  BY <1>3, <1>4, PrefixIs DEF c
<1>12. Len(X) = m /\ \A i \in 1..m : X[i] = Original[i]
  BY <1>5, <1>6, PrefixIs
<1>13. n = m /\ m <= Len(file)
  BY <1>4, <1>10, <1>11, <1>12
<1>14. \A i \in 1..m : file[i] = Original[i]
  BY <1>10, <1>11, <1>12, <1>13
<1>15. end + IntSize \in Nat /\ end + IntSize <= m /\ \A i \in 1..end + IntSize : i \in 1..m
  BY <1>2 DEF m
<1>16. end + IntSize <= Len(file)
  BY <1>3, <1>6, <1>13, <1>15
<1> QED BY <1>14, <1>15, <1>16 DEF Intact, end

\* Where the checksum of the data matches, every chunk is there as it was written.
LEMMA DataCrcProves ==
  ASSUME WriterInv, FileInv, stage \notin Writing, Over(file, rd), CrcRead, DataCrcMatches(rd)
  PROVE  Packs(save, file, Len(file), Len(save.payload))
<1> DEFINE end == HeaderEnd(save)
           X == Covered(save, w)
           D == Data(w)
           l == Len(file)
           c == SubSeq(file, HdrSize + 1, l)
<1>1. IsOriginal(save, w, Original) /\ save \in Saves /\ w.length \in Nat /\ HdrSize <= w.length
  BY OriginalIs, OutIsSeq DEF WriterInv, Writing, Written
<1> HIDE DEF Original
<1>2. end \in Nat /\ end + 4 * IntSize <= HdrSize /\ IntSize \in Nat \ {0} /\ HdrSize \in Nat
  BY <1>1, HeaderFits, SizeAssumption, ContainerAssumption
<1>3. rd.start = file /\ rd.length = l /\ (\E S : file \in Seq(S)) /\ l \in Nat
  BY DEF Over, FileInv, IsReader
<1>4. l >= HdrSize /\ hdr.crc = CrcCells(c)
  <2>1. rd.length >= HdrSize /\ hdr.crc = CrcOf(rd, HdrSize, rd.length)
    BY DEF DataCrcMatches
  <2>2. CrcOf(rd, HdrSize, rd.length) = CrcCells(c)
    BY <1>3 DEF CrcOf
  <2> QED BY <1>3, <2>1, <2>2
<1>5. PICK i \in 1..l : hdr.crc[1] = file[i]
  BY DEF CrcRead
<1>6. Len(Original) = w.length /\ (\E S : Original \in Seq(S))
      /\ SubSeq(Original, HdrSize + 1, w.length) = D
      /\ Packs(save, Original, w.length, Len(save.payload))
  BY <1>1 DEF IsOriginal
<1>7. X[end + 1] = <<"crc", D, 1>> /\ Len(X) = end + 2 * IntSize
  <2>1. w.start \in Seq({w.start[k] : k \in 1..w.length}) /\ Len(w.start) = w.length
        /\ Placed(w.start, end, CrcCells(D))
    BY OutIsSeq DEF WriterInv, Written, Writing
  <2>2. end + 2 * IntSize \in Nat /\ end + 2 * IntSize <= w.length
        /\ 1 \in 1..IntSize /\ end + 1 \in 1..end + 2 * IntSize
    BY <1>1, <1>2
  <2>3. X = SubSeq(w.start, 1, end + 2 * IntSize)
    BY DEF Covered
  <2> DEFINE m == end + 2 * IntSize
  <2> HIDE DEF m, X, D, end
  <2>4. Len(X) = m /\ \A k \in 1..m : X[k] = w.start[k]
    BY <2>1, <2>2, <2>3, PrefixIs DEF m
  <2>5. Len(CrcCells(D)) = IntSize /\ CrcCells(D)[1] = <<"crc", D, 1>>
    BY <2>2, CrcCellsAre
  <2>6. w.start[end + 1] = <<"crc", D, 1>>
    BY <2>1, <2>2, <2>5 DEF Placed
  <2> QED BY <2>2, <2>4, <2>6 DEF m
<1> HIDE DEF end, X, D, l, c
<1>8. file[i] = <<"crc", c, 1>>
  <2>1. CrcCells(c)[1] = <<"crc", c, 1>>
    BY <1>2, CrcCellsAre
  <2> QED BY <1>4, <1>5, <2>1
<1>9. c \in {D, X}
  BY <1>8, FileCells DEF l, D, X
<1>10. PICK S : file \in Seq(S)
  BY <1>3
<1>11. Len(c) = l - HdrSize /\ \A k \in 1..l - HdrSize : c[k] = file[HdrSize + k]
  <2> DEFINE a == HdrSize + 1
  <2>1. a \in Nat \ {0} /\ l <= Len(file) /\ a <= l + 1 /\ l - a + 1 = l - HdrSize
        /\ \A k \in 1..l - HdrSize : a + k - 1 = HdrSize + k
    BY <1>2, <1>3, <1>4 DEF l
  <2> HIDE DEF a
  <2>2. Len(SubSeq(file, a, l)) = l - a + 1
        /\ \A k \in 1..l - a + 1 : SubSeq(file, a, l)[k] = file[a + k - 1]
    BY <1>3, <1>10, <2>1, SubSeqIs
  <2>3. c = SubSeq(file, a, l)
    BY DEF c, a
  <2> QED BY <2>1, <2>2, <2>3
<1>12. c # X
  <2> SUFFICES ASSUME c = X PROVE FALSE
    OBVIOUS
  <2>1. end + 1 \in 1..l - HdrSize
    <3>1. l - HdrSize = end + 2 * IntSize
      BY <1>7, <1>11
    <3> QED BY <1>2, <3>1
  <2>2. file[HdrSize + (end + 1)] = <<"crc", D, 1>>
    BY <1>7, <1>11, <2>1
  <2>3. HdrSize + (end + 1) \in 1..l /\ ~(HdrSize + (end + 1) <= HdrSize)
    BY <1>2, <1>3, <2>1
  <2>4. file[HdrSize + (end + 1)][1] = "crc"
    BY <2>2
  <2> QED BY <2>3, <2>4, FileCells DEF l
<1>13. SubSeq(file, HdrSize + 1, l) = SubSeq(Original, HdrSize + 1, w.length)
  BY <1>6, <1>9, <1>12 DEF c
<1>14. /\ Len(c) = w.length - HdrSize
       /\ \A k \in 1..w.length - HdrSize : c[k] = Original[HdrSize + k]
  <2> DEFINE a == HdrSize + 1
             n == w.length
  <2>1. a \in Nat \ {0} /\ n <= Len(Original) /\ a <= n + 1 /\ n - a + 1 = n - HdrSize
        /\ n \in Nat /\ \A k \in 1..n - HdrSize : a + k - 1 = HdrSize + k
    BY <1>1, <1>2, <1>6
  <2> HIDE DEF a, n
  <2>5. PICK T : Original \in Seq(T)
    BY <1>6
  <2>2. Len(SubSeq(Original, a, n)) = n - a + 1
        /\ \A k \in 1..n - a + 1 : SubSeq(Original, a, n)[k] = Original[a + k - 1]
    BY <2>1, <2>5, SubSeqIs
  <2>3. c = SubSeq(Original, a, n)
    BY <1>13 DEF c, a, n
  <2>4. Len(c) = n - HdrSize /\ \A k \in 1..n - HdrSize : c[k] = Original[HdrSize + k]
    BY <2>1, <2>2, <2>3
  <2> QED BY <2>4 DEF n
<1>15. l = w.length
  BY <1>1, <1>2, <1>3, <1>11, <1>14
<1>16. \A k \in HdrSize + 1..l : file[k] = Original[k]
  <2> SUFFICES ASSUME NEW k \in HdrSize + 1..l PROVE file[k] = Original[k]
    OBVIOUS
  <2>1. k - HdrSize \in 1..l - HdrSize /\ HdrSize + (k - HdrSize) = k
    BY <1>2, <1>3
  <2> QED BY <1>11, <1>14, <1>15, <2>1
<1>17. PICK J, off, pos : Chunked(save, Original, l, J, off, pos, Len(save.payload))
  BY <1>6, <1>15 DEF Packs
<1>18. Chunked(save, file, l, J, off, pos, Len(save.payload))
  BY <1>3, <1>16, <1>17, ChunkedSame
<1> QED BY <1>18 DEF Packs, l

-----------------------------------------------------------------------------
(* Reading the chunks *)

\* Behind ptr stands the chunk that starts with byte from of the save.
AtChunk(s, f, ptr, from) ==
  \E J, off, pos :
    /\ Chunked(s, f, Len(f), J, off, pos, Len(s.payload))
    /\ \E j \in 0..J - 1 : ptr = off[j] /\ from = pos[j]

\* It is n bytes long and goes up to byte to; behind it stands the next one, or it is
\* the last.
ChunkHere(s, f, ptr, n, from, to) ==
  /\ ptr \in Nat /\ n \in Nat /\ from \in Nat /\ to \in Nat
  /\ Chunk(s, f, ptr, n, from, to)
  /\ ptr + (6 * IntSize + n) <= Len(f)
  /\ IF ptr + (6 * IntSize + n) = Len(f) THEN to = Len(s.payload)
     ELSE AtChunk(s, f, ptr + (6 * IntSize + n), to)

LEMMA FirstChunk ==
  ASSUME NEW s \in Saves, NEW f, Packs(s, f, Len(f), Len(s.payload))
  PROVE  AtChunk(s, f, HdrSize, 0)
<1>1. PICK J, off, pos : Chunked(s, f, Len(f), J, off, pos, Len(s.payload))
  BY DEF Packs
<1>2. J \in Nat /\ off[0] = HdrSize /\ pos[0] = 0 /\ pos[J] = Len(s.payload)
  BY <1>1 DEF Chunked
<1>3. Len(s.payload) # 0
  <2>1. s.payload \in Seq({s.payload[i] : i \in DOMAIN s.payload}) /\ s.payload # << >>
    BY SaveIs
  <2> DEFINE S == {s.payload[i] : i \in DOMAIN s.payload}
  <2> HIDE DEF S
  <2> QED BY <2>1, EmptySeq DEF S
<1>4. 0 \in 0..J - 1
  BY <1>2, <1>3
<1> QED BY <1>1, <1>2, <1>4 DEF AtChunk

LEMMA ChunkIsHere ==
  ASSUME NEW s \in Saves, NEW f, Len(f) \in Nat, NEW ptr, NEW from, AtChunk(s, f, ptr, from)
  PROVE  \E n, to : ChunkHere(s, f, ptr, n, from, to)
<1>1. PICK J, off, pos :
        /\ Chunked(s, f, Len(f), J, off, pos, Len(s.payload))
        /\ \E j \in 0..J - 1 : ptr = off[j] /\ from = pos[j]
  BY DEF AtChunk
<1>2. PICK j \in 0..J - 1 : ptr = off[j] /\ from = pos[j]
  BY <1>1
<1>3. /\ J \in Nat /\ off \in [0..J -> Nat] /\ pos \in [0..J -> Nat]
      /\ off[J] = Len(f) /\ pos[J] = Len(s.payload)
  BY <1>1 DEF Chunked
<1>4. PICK n \in Nat :
         /\ HdrSize <= off[j] /\ off[j + 1] = off[j] + (6 * IntSize + n) /\ off[j + 1] <= Len(f)
         /\ Chunk(s, f, off[j], n, pos[j], pos[j + 1])
  BY <1>1 DEF Chunked
<1>5. j \in 0..J /\ j + 1 \in 0..J /\ IntSize \in Nat \ {0}
  BY <1>3, SizeAssumption
<1>6. off[j] \in Nat /\ off[j + 1] \in Nat /\ pos[j] \in Nat /\ pos[j + 1] \in Nat
  BY <1>3, <1>5
<1> DEFINE q == ptr + (6 * IntSize + n)
           to == pos[j + 1]
<1>7. q = off[j + 1]
  BY <1>2, <1>4
<1>8. CASE j + 1 = J
  <2>1. q = Len(f) /\ to = Len(s.payload)
    BY <1>3, <1>7, <1>8
  <2> HIDE DEF q, to
  <2> QED BY <1>2, <1>4, <1>6, <1>7, <2>1 DEF ChunkHere, q, to
<1>9. CASE j + 1 # J
  <2>1. j + 1 \in 0..J - 1
    BY <1>3, <1>5, <1>9
  <2>2. PICK m \in Nat :
         /\ off[(j + 1) + 1] = off[j + 1] + (6 * IntSize + m) /\ off[(j + 1) + 1] <= Len(f)
    BY <1>1, <2>1 DEF Chunked
  <2>3. q # Len(f)
    <3> DEFINE a == off[j + 1]
    <3>1. a + (6 * IntSize + m) <= Len(f) /\ a \in Nat
      BY <1>6, <2>2
    <3> HIDE DEF a, q
    <3>2. a < Len(f)
      BY <1>5, <3>1
    <3> QED BY <1>7, <3>1, <3>2 DEF a
  <2>4. AtChunk(s, f, q, to)
    BY <1>1, <1>7, <2>1 DEF AtChunk
  <2> HIDE DEF q, to
  <2> QED BY <1>2, <1>4, <1>6, <1>7, <2>3, <2>4 DEF ChunkHere, q, to
<1> QED BY <1>8, <1>9

\* What both loops read of a chunk.
LEMMA ChunkRead ==
  ASSUME NEW n, NEW from, NEW to, ChunkHere(save, file, rd.ptr, n, from, to), Over(file, rd),
         Len(file) \in Nat
  PROVE  /\ GoodChunk /\ PackedLen = n /\ ChunkLen = to - from
         /\ ChunkBody = rd.ptr + 6 * IntSize
         /\ Over(file, NextChunk) /\ NextChunk.ptr = rd.ptr + (6 * IntSize + n)
         /\ Eof(NextChunk) <=> rd.ptr + (6 * IntSize + n) = Len(file)
<1> DEFINE p == rd.ptr
           q == p + (6 * IntSize + n)
           i0 == p + 0 * IntSize
           i2 == p + 2 * IntSize
           i3 == p + 3 * IntSize
<1>1. /\ p \in Nat /\ n \in Nat /\ from \in Nat /\ to \in Nat /\ q <= Len(file)
      /\ Chunk(save, file, p, n, from, to)
      /\ IntSize \in Nat \ {0}
  BY SizeAssumption DEF ChunkHere
<1>2. rd.start = file /\ rd.length = Len(file)
  BY DEF Over
<1> HIDE DEF p
<1>3. i0 = p /\ i0 \in Nat /\ i2 \in Nat /\ i3 \in Nat /\ q \in Nat
      /\ p + 1 + 0 = p + 1 /\ i2 + 1 + 0 = p + (2 * IntSize + 1) /\ i3 + 1 + 0 = p + (3 * IntSize + 1)
      /\ p + 6 * IntSize + n = q
  BY <1>1
<1>4. ASSUME NEW i \in Nat, NEW v, file[i + 1 + 0] = <<"int", v, 1>>
      PROVE  IntAtCursor(SeekTo(rd, i)) = v
  <2> DEFINE r == SeekTo(rd, i)
  <2>1. r.start = file /\ r.ptr = i
    BY <1>4, SeekOver DEF Over
  <2> HIDE DEF r
  <2>2. CellAt(r, 0) = <<"int", v, 1>>
    BY <1>4, <2>1 DEF CellAt
  <2> QED BY <2>2 DEF IntAtCursor, r
<1>5. /\ file[p + 1] = <<"int", Magic, 1>>
      /\ file[p + (2 * IntSize + 1)] = <<"int", n, 1>>
      /\ file[p + (3 * IntSize + 1)] = <<"int", to - from, 1>>
  BY <1>1 DEF Chunk
<1>6. ChunkInt(0) = Magic
  <2>1. i0 \in Nat /\ file[i0 + 1 + 0] = <<"int", Magic, 1>>
    BY <1>3, <1>5
  <2> HIDE DEF i0
  <2>2. IntAtCursor(SeekTo(rd, i0)) = Magic
    BY <2>1, <1>4, Zenon
  <2> QED BY <2>2 DEF ChunkInt, p, i0
<1>7. PackedLen = n
  <2> DEFINE v == n
  <2>1. i2 \in Nat /\ file[i2 + 1 + 0] = <<"int", v, 1>>
    BY <1>3, <1>5
  <2> HIDE DEF i2, v
  <2>2. IntAtCursor(SeekTo(rd, i2)) = v
    BY <2>1, <1>4
  <2> QED BY <2>2 DEF PackedLen, ChunkInt, p, i2, v
<1>8. ChunkLen = to - from
  <2> DEFINE v == to - from
  <2>1. i3 \in Nat /\ file[i3 + 1 + 0] = <<"int", v, 1>>
    BY <1>3, <1>5
  <2> HIDE DEF i3, v
  <2>2. IntAtCursor(SeekTo(rd, i3)) = v
    BY <2>1, <1>4
  <2> QED BY <2>2 DEF ChunkLen, ChunkInt, p, i3, v
<1>9. ChunkBody = p + 6 * IntSize
  BY DEF ChunkBody, p
<1>10. NextChunk = SeekTo(rd, q)
  BY <1>3, <1>7, <1>9 DEF NextChunk
<1> HIDE DEF q
<1>11. Over(file, NextChunk) /\ NextChunk.ptr = q
  BY <1>3, <1>10, SeekOver
<1>12. ChunkHeaderFits
  <2>1. p + 4 * IntSize <= Len(file)
    BY <1>1 DEF q
  <2> QED BY <1>2, <2>1 DEF ChunkHeaderFits, BoundsCheck, p
<1>13. Eof(NextChunk) <=> q = Len(file)
  <2>1. NextChunk.length = Len(file)
    BY <1>11 DEF Over
  <2>2. q <= Len(file)
    BY <1>1
  <2> QED BY <1>3, <1>11, <2>1, <2>2 DEF Eof
<1> QED BY <1>6, <1>7, <1>8, <1>9, <1>11, <1>12, <1>13 DEF GoodChunk, p, q

SameCodec == Version(hdr) = Android <=> Version(save) = Android

\* A chunk that inflates to the size its header says is the piece of the save; and
\* a chunk that is whole inflates, if there is room for it.
LEMMA InflatedIs ==
  ASSUME save \in Saves, FileInv, stage \notin Writing, NEW n, NEW from, NEW to,
         ChunkHere(save, file, rd.ptr, n, from, to), Over(file, rd)
  PROVE  /\ Len(Inflated) = ChunkLen => Inflated = Piece(save, from, to) /\ SameCodec
         /\ n = PackedSize(Piece(save, from, to)) /\ SameCodec /\ to - from <= Remaining =>
              Inflated = Piece(save, from, to) /\ Len(Inflated) = ChunkLen
<1> DEFINE p == rd.ptr + 6 * IntSize
           x == Piece(save, from, to)
           c == SubSeq(file, p + 1, p + n)
           k1 == Codec(Version(save))
           k2 == Codec(Version(hdr))
           room == Remaining
           res == IF c # << >> /\ c[1][1] = k2 /\ c = Packed(k2, c[1][2]) /\ Len(c[1][2]) <= room
                  THEN c[1][2] ELSE << >>
<1>1. /\ rd.ptr \in Nat /\ n \in Nat /\ from \in Nat /\ to \in Nat
      /\ rd.ptr + (6 * IntSize + n) <= Len(file)
      /\ Chunk(save, file, rd.ptr, n, from, to)
      /\ IntSize \in Nat \ {0}
  BY SizeAssumption DEF ChunkHere
<1>2. (\E S : file \in Seq(S)) /\ Len(file) \in Nat /\ rd.start = file
  BY DEF FileInv, Over, IsReader
<1>3. ChunkBody = p /\ PackedLen = n /\ ChunkLen = to - from
  BY <1>2, ChunkRead
<1>4. Inflated = res
  BY <1>2, <1>3 DEF Inflated, DecompressOneChunk
<1>5. /\ from < to /\ to <= Len(save.payload)
      /\ \A k \in 1..n : file[rd.ptr + (6 * IntSize + k)] = <<k1, x, k>>
  BY <1>1 DEF Chunk
<1>6. Len(x) = to - from /\ to - from \in Nat \ {0}
  <2>1. to - from \in Nat \ {0}
    BY <1>1, <1>5
  <2>2. Len(Piece(save, from, to)) = to - from
    BY <1>1, <1>5, PieceIs
  <2> QED BY <2>1, <2>2
<1>7. k1 = k2 <=> SameCodec
  BY DEF Codec, SameCodec
<1> HIDE DEF x, k1, k2, room
<1>8. Len(c) = n /\ (\A k \in 1..n : c[k] = <<k1, x, k>>) /\ \E S : c \in Seq(S)
  <2>1. PICK S : file \in Seq(S)
    BY <1>2
  <2> DEFINE a == p + 1
             b == p + n
  <2>2. a \in Nat \ {0} /\ b \in Nat /\ b <= Len(file) /\ a <= b + 1 /\ b - a + 1 = n
        /\ \A k \in 1..n : a + k - 1 = rd.ptr + (6 * IntSize + k)
    <3> DEFINE q == rd.ptr
               l == Len(file)
    <3>1. q \in Nat /\ n \in Nat /\ IntSize \in Nat /\ l \in Nat /\ q + (6 * IntSize + n) <= l
      BY <1>1, <1>2
    <3> HIDE DEF q, l
    <3>2. /\ (q + 6 * IntSize) + 1 \in Nat \ {0} /\ (q + 6 * IntSize) + n \in Nat
          /\ (q + 6 * IntSize) + n <= l /\ (q + 6 * IntSize) + 1 <= ((q + 6 * IntSize) + n) + 1
          /\ ((q + 6 * IntSize) + n) - ((q + 6 * IntSize) + 1) + 1 = n
      BY <3>1
    <3>3. \A k \in 1..n : (q + 6 * IntSize) + 1 + k - 1 = q + (6 * IntSize + k)
      BY <3>1
    <3> QED BY <3>2, <3>3 DEF q, l
  <2> HIDE DEF a, b, p
  <2>3. /\ SubSeq(file, a, b) \in Seq(S) /\ Len(SubSeq(file, a, b)) = b - a + 1
        /\ \A i \in 1..b - a + 1 : SubSeq(file, a, b)[i] = file[a + i - 1]
    BY <2>1, <2>2, SubSeqIs
  <2>4. c = SubSeq(file, a, b)
    BY DEF a, b
  <2> HIDE DEF c
  <2> QED BY <1>5, <2>2, <2>3, <2>4
<1> HIDE DEF c, p
<1>9. ASSUME Len(Inflated) = ChunkLen PROVE Inflated = x /\ SameCodec
  <2>1. res # << >>
    <3>1. Len(<< >>) = 0
      OBVIOUS
    <3>2. Len(res) # 0
      BY <1>3, <1>4, <1>6, <1>9
    <3> HIDE DEF res
    <3> QED BY <3>1, <3>2
  <2>2. c # << >> /\ c[1][1] = k2 /\ res = c[1][2]
    BY <2>1
  <2>3. n # 0
    <3>1. PICK S : c \in Seq(S)
      BY <1>8
    <3> QED BY <1>8, <2>2, <3>1, EmptySeq
  <2>4. c[1] = <<k1, x, 1>>
    BY <1>1, <1>8, <2>3
  <2> QED BY <1>4, <1>7, <2>2, <2>4
<1>10. ASSUME n = PackedSize(x), SameCodec, to - from <= room
       PROVE  Inflated = x /\ Len(Inflated) = ChunkLen
  <2>1. n # 0
    <3>1. x # << >> /\ \E S : x \in Seq(S)
      BY <1>1, <1>5, PieceIs DEF x
    <3> QED BY <1>10, <3>1, PackedSizeIs
  <2>2. c[1] = <<k1, x, 1>> /\ c # << >>
    <3>1. Len(<< >>) = 0
      OBVIOUS
    <3> QED BY <1>1, <1>8, <2>1, <3>1
  <2>3. k1 = k2
    BY <1>7, <1>10
  <2>4. c = Packed(k2, x)
    <3>1. c = [k \in 1..n |-> c[k]]
      BY <1>8
    <3>2. Packed(k2, x) = [k \in 1..n |-> <<k1, x, k>>]
      BY <1>10, <2>3 DEF Packed
    <3> QED BY <1>8, <3>1, <3>2
  <2>5. c[1][1] = k2 /\ c[1][2] = x /\ Len(x) <= room
    BY <1>6, <1>10, <2>2, <2>3
  <2>6. res = x
    BY <2>2, <2>4, <2>5
  <2> QED BY <1>3, <1>4, <1>6, <2>6
<1> QED BY <1>9, <1>10 DEF x, room

\* The pieces of the save up to two positions, one behind the other.
LEMMA PiecesJoin ==
  ASSUME NEW s \in Saves, NEW from \in Nat, NEW to \in Nat, from < to, to <= Len(s.payload)
  PROVE  SubSeq(s.payload, 1, from) \o Piece(s, from, to) = SubSeq(s.payload, 1, to)
<1> DEFINE S == {s.payload[i] : i \in DOMAIN s.payload}
           f == s.payload
           a == SubSeq(f, 1, from)
           b == Piece(s, from, to)
           c == SubSeq(f, 1, to)
<1>1. f \in Seq(S)
  BY SaveIs
<1> HIDE DEF S, f
<1>2. from <= Len(f) /\ to <= Len(f) /\ Len(f) \in Nat
  BY <1>1 DEF f
<1>3. Len(a) = from /\ \A i \in 1..from : a[i] = f[i]
  BY <1>1, <1>2, PrefixIs
<1>4. Len(c) = to /\ \A i \in 1..to : c[i] = f[i]
  BY <1>1, <1>2, PrefixIs
<1>5. (\E T : b \in Seq(T)) /\ Len(b) = to - from /\ \A i \in 1..to - from : b[i] = f[from + i]
  BY PieceIs DEF f
<1>6. a \in Seq(S) /\ c \in Seq(S)
  <2>1. 1 \in Nat \ {0} /\ 1 <= from + 1 /\ 1 <= to + 1
    OBVIOUS
  <2> QED BY <1>1, <1>2, <2>1, SubSeqIs
<1>7. PICK T : b \in Seq(T)
  BY <1>5
<1> HIDE DEF a, b, c
<1> DEFINE e == a \o b
<1>8. Concatenated(e, a, b)
  BY <1>6, <1>7, ConcatIs
<1> HIDE DEF e
<1>9. PICK U : e \in Seq(U)
  BY <1>8 DEF Concatenated
<1>10. Len(e) = to
  BY <1>3, <1>5, <1>8 DEF Concatenated
<1>11. ASSUME NEW i \in 1..to PROVE e[i] = c[i]
  <2>1. CASE i <= from
    BY <1>3, <1>4, <1>8, <2>1 DEF Concatenated
  <2>2. CASE ~(i <= from)
    <3>1. i - from \in 1..to - from /\ from + (i - from) = i
      BY <2>2
    <3>2. e[from + (i - from)] = b[i - from]
      BY <1>3, <1>5, <1>8, <3>1 DEF Concatenated
    <3> QED BY <1>4, <1>5, <3>1, <3>2
  <2> QED BY <2>1, <2>2
<1>12. e = c
  <2>1. e \in Seq(U \cup S) /\ c \in Seq(U \cup S) /\ Len(c) = Len(e)
    BY <1>4, <1>6, <1>9, <1>10
  <2>2. \A i \in 1..Len(e) : e[i] = c[i]
    BY <1>10, <1>11
  <2> QED BY <2>1, <2>2, SeqEqual
<1> QED BY <1>12 DEF a, b, c, e, f

\* All of the save, and none of it.
LEMMA WholeAndNone ==
  ASSUME NEW s \in Saves
  PROVE  /\ SubSeq(s.payload, 1, 0) = << >>
         /\ SubSeq(s.payload, 1, Len(s.payload)) = s.payload
         /\ Len(s.payload) \in Nat \ {0}
         /\ \A n \in 0..Len(s.payload) : Len(SubSeq(s.payload, 1, n)) = n
<1> DEFINE S == {s.payload[i] : i \in DOMAIN s.payload}
           f == s.payload
           l == Len(f)
<1>1. f \in Seq(S) /\ f # << >>
  BY SaveIs
<1> HIDE DEF S, f
<1>2. l \in Nat \ {0}
  BY <1>1, EmptySeq
<1>3. \A n \in 0..l : Len(SubSeq(f, 1, n)) = n /\ \A i \in 1..n : SubSeq(f, 1, n)[i] = f[i]
  BY <1>1, <1>2, PrefixIs
<1>4. \A n \in 0..l : SubSeq(f, 1, n) \in Seq(S)
  <2> SUFFICES ASSUME NEW n \in 0..l PROVE SubSeq(f, 1, n) \in Seq(S)
    OBVIOUS
  <2>1. 1 \in Nat \ {0} /\ 1 <= n + 1 /\ n \in Nat /\ n <= l
    BY <1>2
  <2> QED BY <1>1, <2>1, SubSeqIs
<1>5. SubSeq(f, 1, 0) = << >>
  <2>1. 0 \in 0..l
    BY <1>2
  <2> QED BY <1>3, <1>4, <2>1, EmptySeq
<1>6. SubSeq(f, 1, l) = f
  <2>1. l \in 0..l
    BY <1>2
  <2> QED BY <1>1, <1>3, <1>4, <2>1, SeqEqual
<1> QED BY <1>2, <1>3, <1>5, <1>6 DEF f

\* The reader is inside the chunks, and what it has inflated is the save up to there.
Inflating ==
  \E from \in 0..Len(save.payload) :
    /\ AtChunk(save, file, rd.ptr, from)
    /\ outp = SubSeq(save.payload, 1, from)
    /\ from # 0 => SameCodec

\* What the two passes over the chunks know.
PassInv ==
  /\ stage \notin {"scan", "inflate", "delivered", "refused"} => total = 0
  /\ stage \notin {"inflate", "delivered", "refused"} => outp = << >>
  /\ stage \in {"scan", "inflate", "delivered"} =>
       /\ Packs(save, file, Len(file), Len(save.payload))
       /\ ~Tactical(hdr)
       /\ Version(hdr) # Android /\ Version(save) # Android => hdr.fields = save.fields
  /\ stage = "scan" => AtChunk(save, file, rd.ptr, total)
  /\ stage = "inflate" => total = Len(save.payload) /\ Inflating
  /\ stage = "delivered" => total = Len(save.payload) /\ outp = save.payload /\ SameCodec

LEMMA PassStarts == Init => PassInv
BY DEF Init, PassInv

\* The header stays what it is while the chunks are read.
LEMMA HeaderStands ==
  ASSUME HeaderInv, stage \in {"checks", "scan", "inflate"},
         stage' \in {"scan", "inflate", "delivered"}, Settled, hdr' = hdr, Over(file, rd')
  PROVE  HeaderInv'
<1>1. stage \in Reading \ {"header"} /\ stage' \in Reading \ {"header"}
  BY DEF Reading
<1>2. hdr = [fields |-> hdr.fields, crc |-> hdr.crc, profile |-> hdr.profile]
  BY DEF HeaderInv
<1>3. /\ \E V : hdr'.fields \in Seq(V)
      /\ Over(file', rd') /\ (Intact' => Known')
      /\ Len(hdr'.fields) = 12
      /\ save' = save /\ faults' = faults
  BY <1>1, <1>2, FieldsStand
<1>4. faults = 0 => hdr.profile = save.profile
  BY DEF HeaderInv
<1>5. stage' \notin Writing \cup {"file", "header", "data_crc_read", "profile", "checks"}
  BY DEF Writing
<1> QED BY <1>1, <1>2, <1>3, <1>4, <1>5 DEF HeaderInv

\* Two headers with the same fields.
LEMMA AllFieldsKnown ==
  ASSUME save \in Saves, \E V : hdr.fields \in Seq(V), Len(hdr.fields) = 12, Known
  PROVE  hdr.fields = save.fields
<1>1. PICK V : hdr.fields \in Seq(V)
  OBVIOUS
<1>2. hdr.fields = [k \in Fields |-> hdr.fields[k]]
  <2> DEFINE f == hdr.fields
  <2>1. f \in Seq(V) /\ Len(f) = 12
    BY <1>1
  <2> HIDE DEF f
  <2>2. f \in [1..12 -> V]
    BY <2>1, LenProperties
  <2>3. f = [k \in Fields |-> f[k]]
    BY <2>2 DEF Fields
  <2> QED BY <2>3 DEF f
<1>3. save.fields = [k \in Fields |-> save.fields[k]]
  BY SaveIs
<1>4. \A k \in Fields : hdr.fields[k] = save.fields[k]
  BY DEF Known, Fields
<1> QED BY <1>2, <1>3, <1>4

LEMMA CheckKeeps ==
  ASSUME WriterInv, FileInv, HeaderInv, PassInv, CheckHeader
  PROVE  HeaderInv' /\ PassInv'
<1>1. /\ stage = "checks"
      /\ Refuse \/ /\ Version(hdr) = Android \/ HeaderCrcMatches(rd)
                   /\ DataCrcMatches(rd) /\ ~Tactical(hdr)
                   /\ rd' = SeekTo(rd, HdrSize)
                   /\ stage' = "scan"
                   /\ Settled /\ UNCHANGED <<hdr, total, outp>>
  BY DEF CheckHeader, wvars, Settled
<1>2. CASE Refuse
  <2>1. HeaderInv'
    BY <1>2, RefuseKeepsHeader
  <2>2. stage' = "refused"
    BY <1>2 DEF Refuse
  <2> QED BY <2>1, <2>2 DEF PassInv
<1>3. ASSUME ~Refuse PROVE HeaderInv' /\ PassInv'
  <2>1. /\ Version(hdr) = Android \/ HeaderCrcMatches(rd)
        /\ DataCrcMatches(rd) /\ ~Tactical(hdr)
        /\ rd' = SeekTo(rd, HdrSize)
        /\ stage' = "scan"
        /\ Settled /\ UNCHANGED <<hdr, total, outp>>
    BY <1>1, <1>3
  <2>2. stage \notin Writing /\ save \in Saves /\ HdrSize \in Nat
    BY <1>1, ContainerAssumption DEF WriterInv, Writing
  <2>3. Over(file, rd) /\ CrcRead
    BY <1>1 DEF HeaderInv, Reading
  <2>4. Over(file, rd') /\ rd'.ptr = HdrSize
    BY <2>1, <2>2, <2>3, SeekOver
  <2>5. HeaderInv'
    BY <1>1, <2>1, <2>4, HeaderStands
  <2>6. Packs(save, file, Len(file), Len(save.payload))
    BY <2>1, <2>2, <2>3, DataCrcProves
  <2>7. AtChunk(save, file, HdrSize, 0)
    BY <2>2, <2>6, FirstChunk
  <2>8. ASSUME Version(hdr) # Android, Version(save) # Android PROVE hdr.fields = save.fields
    <3>1. Intact
      BY <2>1, <2>2, <2>3, <2>8, HeaderCrcProves
    <3>2. Known /\ Len(hdr.fields) = 12 /\ \E V : hdr.fields \in Seq(V)
      BY <1>1, <3>1 DEF HeaderInv, Reading
    <3> QED BY <2>2, <3>2, AllFieldsKnown
  <2>9. total = 0 /\ outp = << >>
    BY <1>1 DEF PassInv
  <2>10. hdr' = hdr /\ save' = save /\ file' = file /\ total' = 0 /\ outp' = << >>
    BY <2>1, <2>9 DEF Settled
  <2>11. PassInv'
    BY <2>1, <2>4, <2>6, <2>7, <2>8, <2>10 DEF PassInv, Version, Tactical
  <2> QED BY <2>5, <2>11
<1> QED BY <1>2, <1>3

LEMMA ScanKeeps ==
  ASSUME WriterInv, FileInv, HeaderInv, PassInv, ScanChunk
  PROVE  HeaderInv' /\ PassInv' /\ stage' # "refused"
<1>1. stage = "scan" /\ stage \notin Writing /\ save \in Saves /\ HdrSize \in Nat
  BY ContainerAssumption DEF ScanChunk, WriterInv, Writing
<1>2. Over(file, rd)
  BY <1>1 DEF HeaderInv, Reading
<1>3. Len(file) \in Nat
  BY <1>2 DEF Over, IsReader
<1>4. PICK n, to : ChunkHere(save, file, rd.ptr, n, total, to)
  BY <1>1, <1>3, ChunkIsHere DEF PassInv
<1> DEFINE q == rd.ptr + (6 * IntSize + n)
<1>5. /\ GoodChunk /\ ChunkLen = to - total
      /\ Over(file, NextChunk) /\ NextChunk.ptr = q
      /\ Eof(NextChunk) <=> q = Len(file)
  BY <1>2, <1>3, <1>4, ChunkRead
<1>6. /\ total \in Nat /\ to \in Nat
      /\ IF q = Len(file) THEN to = Len(save.payload) ELSE AtChunk(save, file, q, to)
  BY <1>4 DEF ChunkHere
<1> HIDE DEF q
<1>7. /\ total' = to
      /\ rd' = IF q = Len(file) THEN SeekTo(rd, HdrSize) ELSE NextChunk
      /\ stage' = IF q = Len(file) THEN "inflate" ELSE "scan"
      /\ Settled /\ hdr' = hdr /\ outp' = outp
  <2>1. /\ total' = total + ChunkLen
        /\ rd' = IF Eof(NextChunk) THEN SeekTo(rd, HdrSize) ELSE NextChunk
        /\ stage' = IF Eof(NextChunk) THEN "inflate" ELSE "scan"
        /\ Settled /\ hdr' = hdr /\ outp' = outp
    BY <1>5 DEF ScanChunk, Counted, wvars, Settled
  <2>2. total + (to - total) = to
    BY <1>6
  <2> QED BY <1>5, <2>1, <2>2
<1>8. /\ Packs(save, file, Len(file), Len(save.payload)) /\ ~Tactical(hdr) /\ outp = << >>
      /\ Version(hdr) # Android /\ Version(save) # Android => hdr.fields = save.fields
  BY <1>1 DEF PassInv
<1>9. Over(file, SeekTo(rd, HdrSize)) /\ SeekTo(rd, HdrSize).ptr = HdrSize
  BY <1>1, <1>2, SeekOver
<1>10. Over(file, rd') /\ stage' \in {"scan", "inflate", "delivered"}
  BY <1>5, <1>7, <1>9
<1>11. HeaderInv'
  BY <1>1, <1>7, <1>10, HeaderStands
<1>12. hdr' = hdr /\ save' = save /\ file' = file /\ total' = to /\ outp' = << >>
  BY <1>7, <1>8 DEF Settled
<1>13. CASE q = Len(file)
  <2>1. stage' = "inflate" /\ rd'.ptr = HdrSize /\ to = Len(save.payload)
    BY <1>6, <1>7, <1>9, <1>13
  <2>2. AtChunk(save, file, HdrSize, 0)
    BY <1>1, <1>8, FirstChunk
  <2>3. SubSeq(save.payload, 1, 0) = << >> /\ 0 \in 0..Len(save.payload)
    BY <1>1, WholeAndNone
  <2>4. Inflating'
    BY <1>12, <2>1, <2>2, <2>3 DEF Inflating
  <2>5. PassInv'
    BY <1>8, <1>12, <2>1, <2>4 DEF PassInv, Version, Tactical
  <2> QED BY <1>11, <2>1, <2>5
<1>14. CASE q # Len(file)
  <2>1. stage' = "scan" /\ rd'.ptr = q /\ AtChunk(save, file, q, to)
    BY <1>5, <1>6, <1>7, <1>14
  <2>2. PassInv'
    BY <1>8, <1>12, <2>1 DEF PassInv, Version, Tactical
  <2> QED BY <1>11, <2>1, <2>2
<1> QED BY <1>13, <1>14

LEMMA InflateKeeps ==
  ASSUME WriterInv, FileInv, HeaderInv, PassInv, InflateChunk
  PROVE  HeaderInv' /\ PassInv'
<1>1. stage = "inflate" /\ stage \notin Writing /\ save \in Saves
  BY DEF InflateChunk, WriterInv, Writing
<1>2. Over(file, rd)
  BY <1>1 DEF HeaderInv, Reading
<1>3. Len(file) \in Nat
  BY <1>2 DEF Over, IsReader
<1>4. PICK from \in 0..Len(save.payload) :
        /\ AtChunk(save, file, rd.ptr, from)
        /\ outp = SubSeq(save.payload, 1, from)
  BY <1>1 DEF PassInv, Inflating
<1>5. PICK n, to : ChunkHere(save, file, rd.ptr, n, from, to)
  BY <1>1, <1>3, <1>4, ChunkIsHere
<1> DEFINE q == rd.ptr + (6 * IntSize + n)
<1>6. /\ GoodChunk
      /\ Over(file, NextChunk) /\ NextChunk.ptr = q
      /\ Eof(NextChunk) <=> q = Len(file)
  BY <1>2, <1>3, <1>5, ChunkRead
<1>7. /\ from \in Nat /\ to \in Nat /\ from < to /\ to <= Len(save.payload)
      /\ IF q = Len(file) THEN to = Len(save.payload) ELSE AtChunk(save, file, q, to)
  BY <1>5 DEF ChunkHere, Chunk
<1>8. Len(Inflated) = ChunkLen => Inflated = Piece(save, from, to) /\ SameCodec
  BY <1>1, <1>2, <1>5, InflatedIs
<1> HIDE DEF q
<1>9. CASE Refuse
  <2>1. HeaderInv'
    BY <1>9, RefuseKeepsHeader
  <2>2. stage' = "refused"
    BY <1>9 DEF Refuse
  <2> QED BY <2>1, <2>2 DEF PassInv
<1>10. ASSUME ~Refuse PROVE HeaderInv' /\ PassInv'
  <2>1. /\ Len(Inflated) = ChunkLen
        /\ outp' = outp \o Inflated
        /\ rd' = NextChunk
        /\ stage' = IF Eof(NextChunk) THEN "delivered" ELSE "inflate"
        /\ Settled /\ hdr' = hdr /\ total' = total
    BY <1>6, <1>10 DEF InflateChunk, wvars, Settled
  <2>2. /\ Packs(save, file, Len(file), Len(save.payload)) /\ ~Tactical(hdr)
        /\ total = Len(save.payload)
        /\ Version(hdr) # Android /\ Version(save) # Android => hdr.fields = save.fields
    BY <1>1 DEF PassInv
  <2>3. SameCodec /\ outp' = SubSeq(save.payload, 1, to)
    BY <1>1, <1>4, <1>7, <1>8, <2>1, PiecesJoin
  <2>4. Over(file, rd') /\ stage' \in {"scan", "inflate", "delivered"} /\ rd'.ptr = q
    BY <1>6, <2>1
  <2>5. HeaderInv'
    BY <1>1, <2>1, <2>4, HeaderStands
  <2>6. hdr' = hdr /\ save' = save /\ file' = file /\ total' = Len(save.payload)
    BY <2>1, <2>2 DEF Settled
  <2>7. SameCodec'
    BY <2>3, <2>6 DEF SameCodec, Version
  <2>8. CASE q = Len(file)
    <3>1. stage' = "delivered" /\ to = Len(save.payload)
      BY <1>6, <1>7, <2>1, <2>8
    <3>2. outp' = save.payload
      BY <1>1, <2>3, <3>1, WholeAndNone
    <3>3. PassInv'
      BY <2>2, <2>6, <2>7, <3>1, <3>2 DEF PassInv, Version, Tactical
    <3> QED BY <2>5, <3>3
  <2>9. CASE q # Len(file)
    <3>1. stage' = "inflate" /\ AtChunk(save, file, q, to)
      BY <1>6, <1>7, <2>1, <2>9
    <3>2. to \in 0..Len(save.payload)
      BY <1>1, <1>7, WholeAndNone
    <3>3. Inflating'
      BY <2>3, <2>4, <2>6, <2>7, <3>1, <3>2 DEF Inflating
    <3>4. PassInv'
      BY <2>2, <2>6, <3>1, <3>3 DEF PassInv, Version, Tactical
    <3> QED BY <2>5, <3>4
  <2> QED BY <2>8, <2>9
<1> QED BY <1>9, <1>10

\* Steps that do not touch what the reader knows.
LEMMA ReaderKeeps ==
  ASSUME WriterInv, FileInv, HeaderInv, PassInv, [Next]_vars
  PROVE  HeaderInv' /\ PassInv'
<1>1. ASSUME stage \in Writing \cup {"file"}, stage' \in Writing \cup {"file"}, UNCHANGED rvars
      PROVE  HeaderInv' /\ PassInv'
  <2>1. stage' \notin Reading \cup {"refused"} /\ stage \notin Reading \cup {"refused"}
    BY <1>1 DEF Writing, Reading
  <2>2. hdr' = hdr /\ total' = total /\ outp' = outp
    BY <1>1 DEF rvars
  <2>3. HeaderInv'
    BY <1>1, <2>1, <2>2 DEF HeaderInv, Reading
  <2>4. PassInv'
    BY <2>1, <2>2 DEF PassInv, Reading
  <2> QED BY <2>3, <2>4
<1>2. CASE CompressChunk \/ WriteField \/ WriteDataCrc \/ WriteTrailer
  BY <1>1, <1>2, KindsAre
  DEF CompressChunk, WriteField, WriteDataCrc, WriteTrailer, Advance, Writing
<1>3. CASE Fault
  BY <1>1, <1>3 DEF Fault, Damage, Truncate
<1>4. ASSUME stage \notin {"scan", "inflate", "delivered", "refused"},
             stage' \notin {"scan", "inflate", "delivered"}, total' = total, outp' = outp, HeaderInv'
      PROVE  HeaderInv' /\ PassInv'
  BY <1>4 DEF PassInv
<1>5. CASE \E n \in Noise : OpenFile(n)
  <2>1. HeaderInv'
    BY <1>5, OpenKeepsHeader
  <2> QED BY <1>4, <1>5, <2>1 DEF OpenFile
<1>6. CASE ReadHeaderField
  <2>1. HeaderInv'
    BY <1>6, FieldKeepsHeader
  <2> QED BY <1>4, <1>6, <2>1, KindsAre DEF ReadHeaderField, Refuse, Advance, rvars
<1>7. CASE ReadDataCrc
  <2>1. HeaderInv'
    BY <1>7, CrcKeepsHeader
  <2> QED BY <1>4, <1>7, <2>1 DEF ReadDataCrc, Refuse, rvars
<1>8. CASE ReadProfile
  <2>1. HeaderInv'
    BY <1>8, ProfileKeepsHeader
  <2> QED BY <1>4, <1>8, <2>1 DEF ReadProfile, Refuse, rvars
<1>9. CASE CheckHeader \/ ScanChunk \/ InflateChunk
  BY <1>9, CheckKeeps, ScanKeeps, InflateKeeps
<1>10. CASE UNCHANGED vars
  <2>1. /\ save' = save /\ stage' = stage /\ w' = w /\ file' = file /\ faults' = faults
        /\ rd' = rd /\ hdr' = hdr /\ total' = total /\ outp' = outp
    BY <1>10 DEF vars, wvars, rvars
  <2>2. Original' = Original /\ (Intact' <=> Intact)
    BY <2>1, SettledKeeps DEF Settled
  <2> HIDE DEF Original, Intact
  <2>3. Data(w)' = Data(w)
    BY <2>1 DEF Data
  <2>4. (CrcRead' <=> CrcRead) /\ (Known' <=> Known)
    BY <2>1, <2>2, <2>3 DEF CrcRead, Known
  <2>5. (Inflating' <=> Inflating) /\ (SameCodec' <=> SameCodec)
    BY <2>1 DEF Inflating, SameCodec, Version
  <2>6. HeaderInv'
    BY <2>1, <2>2, <2>4 DEF HeaderInv, Version
  <2>7. PassInv'
    BY <2>1, <2>5 DEF PassInv, Version, Tactical
  <2> QED BY <2>6, <2>7
<1> QED BY <1>2, <1>3, <1>5, <1>6, <1>7, <1>8, <1>9, <1>10 DEF Next, Program

\* The inductive invariant.
ContainerInv == WriterInv /\ FileInv /\ HeaderInv /\ PassInv

LEMMA ContainerKeeps == ContainerInv /\ [Next]_vars => ContainerInv'
BY WriterKeeps, FileKeeps, ReaderKeeps DEF ContainerInv

LEMMA ContainerStarts == Init => ContainerInv
BY WriterStarts, FileStarts, HeaderStarts, PassStarts DEF ContainerInv

-----------------------------------------------------------------------------
(* The theorems *)

\* decompress() may trust the sizes calculate_uncompressed_size() added up, for every
\* save and whatever was done to the file.
THEOREM PassesAlwaysAgree == Spec => []PassesAgree
<1>1. ContainerInv => PassesAgree
  <2> SUFFICES ASSUME ContainerInv PROVE PassesAgree
    OBVIOUS
  <2>1. save \in Saves /\ PassInv
    BY DEF ContainerInv, WriterInv
  <2>2. Len(save.payload) \in Nat
        /\ SubSeq(save.payload, 1, Len(save.payload)) = save.payload
        /\ \A n \in 0..Len(save.payload) : Len(SubSeq(save.payload, 1, n)) = n
    BY <2>1, WholeAndNone
  <2>3. stage = "inflate" => Remaining >= 0
    BY <2>1, <2>2 DEF PassInv, Inflating, Remaining
  <2>4. stage = "delivered" => Remaining = 0
    BY <2>1, <2>2 DEF PassInv, Remaining
  <2> QED BY <2>3, <2>4 DEF PassesAgree
<1> QED BY <1>1, ContainerStarts, ContainerKeeps, PTL DEF Spec

\* An undamaged file gives back everything that was written, what no checksum covers
\* included: the writer and the reader agree on the whole layout.
THEOREM UndamagedIsExact == Spec => []UndamagedExact
<1>1. ContainerInv => UndamagedExact
  <2> SUFFICES ASSUME ContainerInv, stage = "delivered", faults = 0
               PROVE  hdr.fields = save.fields /\ hdr.profile = save.profile /\ outp = save.payload
    BY DEF UndamagedExact
  <2>1. save \in Saves /\ Intact
    BY UndamagedIntact DEF ContainerInv, WriterInv, Writing
  <2>2. /\ Known /\ Len(hdr.fields) = 12 /\ \E V : hdr.fields \in Seq(V)
        /\ hdr.profile = save.profile
    BY <2>1 DEF ContainerInv, HeaderInv, Reading
  <2>3. hdr.fields = save.fields
    BY <2>1, <2>2, AllFieldsKnown
  <2> QED BY <2>2, <2>3 DEF ContainerInv, PassInv
<1> QED BY <1>1, ContainerStarts, ContainerKeeps, PTL DEF Spec

-----------------------------------------------------------------------------
(* What was written and not damaged is not refused *)

LEMMA FieldNotRefused ==
  ASSUME ContainerInv, ReadHeaderField, faults = 0
  PROVE  stage' # "refused"
<1> DEFINE l == Len(hdr.fields)
           k == l + 1
           v == ReadKind(rd, FieldKinds[k])
<1>1. stage = "header" /\ stage \notin Writing /\ stage \in Reading /\ save \in Saves
  BY DEF ReadHeaderField, ContainerInv, WriterInv, Writing, Reading
<1>2. PICK V : hdr.fields \in Seq(V)
  BY DEF ContainerInv, HeaderInv
<1>3. Intact
  BY <1>1, UndamagedIntact DEF ContainerInv
<1>4. l \in Nat /\ l < 12 /\ rd.ptr = FieldsEnd(save, l) /\ Over(file, rd)
  BY <1>1, <1>2, <1>3 DEF ContainerInv, HeaderInv
<1> HIDE DEF l
<1>5. k \in Fields /\ l \in 0..11
  BY <1>4 DEF Fields
<1>6. /\ Placed(file, FieldsEnd(save, l), FieldCode(save, k))
      /\ FieldsEnd(save, l) + FieldSize(save, k) <= Len(file)
  BY <1>1, <1>3, <1>5, IntactFields DEF ContainerInv
<1> HIDE DEF k
<1>7. ~v.rd.thrown /\ v.val = save.fields[k]
  BY <1>1, <1>4, <1>5, <1>6, FieldRead
<1>8. ~(k = 1 /\ ~Supports(v.val))
  BY <1>1, <1>7, SaveIs DEF Version
<1>9. stage' = Advance(k, "data_crc_read")
  BY <1>7, <1>8 DEF ReadHeaderField, k, l
<1> QED BY <1>1, <1>9 DEF Advance

LEMMA CrcNotRefused ==
  ASSUME ContainerInv, ReadDataCrc, faults = 0
  PROVE  stage' # "refused"
<1>1. stage = "data_crc_read" /\ stage \notin Writing
  BY DEF ReadDataCrc, Writing
<1>2. Intact
  BY <1>1, UndamagedIntact DEF ContainerInv
<1>3. rd.ptr = HeaderEnd(save) /\ rd.length = Len(file)
  BY <1>1, <1>2 DEF ContainerInv, HeaderInv, Over, Reading
<1>4. BoundsCheck(rd, IntSize)
  <2>1. HeaderEnd(save) + IntSize <= Len(file)
    BY <1>2 DEF Intact
  <2> QED BY <1>3, <2>1 DEF BoundsCheck
<1> QED BY <1>4 DEF ReadDataCrc

LEMMA ProfileNotRefused ==
  ASSUME ContainerInv, ReadProfile, faults = 0
  PROVE  stage' # "refused"
<1> DEFINE r == SeekTo(rd, rd.ptr + 3 * IntSize)
           n == ReadInt(r)
           d == ReadUnicodeString(n.rd)
           end == HeaderEnd(save)
           at == end + 4 * IntSize
           p1 == save.profile[1]
           p2 == save.profile[2]
<1>1. stage = "profile" /\ stage \notin Writing
  BY DEF ReadProfile, Writing
<1>2. Over(file, rd) /\ rd.ptr \in Nat /\ IntSize \in Nat \ {0} /\ IntCellsOnly(file)
  BY <1>1, FileIsInts, SizeAssumption DEF ContainerInv, HeaderInv, Reading, Over, IsReader
<1>3. Version(save) = Android /\ rd.ptr = end + IntSize
  BY <1>1, UndamagedKnown, UndamagedIntact DEF ContainerInv, HeaderInv, Reading
<1>4. /\ at \in Nat /\ Readable(p2)
      /\ at + IntSize + StringSize(p2) <= Len(file)
      /\ Placed(file, at, IntCells(p1))
      /\ Placed(file, at + IntSize, EncString(p2))
  BY <1>1, <1>3, UndamagedProfile DEF ContainerInv
<1>5. end \in Nat
  BY HeaderFits DEF ContainerInv, WriterInv
<1> HIDE DEF end
<1>6. rd.ptr + 3 * IntSize = at
  BY <1>2, <1>3, <1>5
<1> HIDE DEF at, p1, p2
<1>7. Over(file, r) /\ r.ptr = at
  BY <1>2, <1>4, <1>6, SeekOver
<1> HIDE DEF r
<1>8. at + IntSize <= Len(file)
  <2>1. StringSize(p2) \in Nat
    BY <1>4, ReadableIs
  <2> QED BY <1>2, <1>4, <2>1 DEF IntCellsOnly
<1>9. ~n.rd.thrown /\ n.rd.ptr = at + IntSize
  BY <1>4, <1>7, <1>8, IntRead
<1>10. Over(file, n.rd)
  BY <1>2, <1>7, <1>9, IntOver DEF Went
<1> HIDE DEF n
<1>11. ~d.rd.thrown
  BY <1>4, <1>9, <1>10, TextRead
<1>12. stage' = "checks"
  BY <1>9, <1>11 DEF ReadProfile, n, d, r
<1> QED BY <1>12

LEMMA CheckNotRefused ==
  ASSUME ContainerInv, CheckHeader, faults = 0, ~Tactical(save)
  PROVE  stage' # "refused"
<1> DEFINE end == HeaderEnd(save)
           m == end + 2 * IntSize
           at == HdrSize - 2 * IntSize
           X == Covered(save, w)
           D == Data(w)
<1>1. stage = "checks" /\ stage \notin Writing /\ stage \in Reading \ {"header"} /\ save \in Saves
  BY DEF CheckHeader, ContainerInv, WriterInv, Writing, Reading
<1>2. Intact /\ file = Original /\ Len(file) = w.length
  BY <1>1, UndamagedIntact DEF ContainerInv
<1>3. IsOriginal(save, w, Original) /\ w.length \in Nat /\ HdrSize <= w.length
  BY <1>1, OriginalIs, OutIsSeq DEF ContainerInv, WriterInv, Writing, Written
<1> HIDE DEF Original
<1>4. /\ \E S : file \in Seq(S)
      /\ SubSeq(file, HdrSize + 1, Len(file)) = D
      /\ Version(save) # Android =>
           /\ SubSeq(file, 1, m) = X
           /\ file[at + 1] = <<"int", m, 1>>
           /\ Placed(file, HdrSize - IntSize, CrcCells(X))
  BY <1>2, <1>3 DEF IsOriginal
<1>5. end \in Nat /\ end + 4 * IntSize <= HdrSize /\ IntSize \in Nat \ {0} /\ HdrSize \in Nat
  BY <1>1, HeaderFits, SizeAssumption, ContainerAssumption
<1> HIDE DEF end, X, D
<1>6. Version(hdr) = Version(save) /\ ~Tactical(hdr)
  BY <1>1, UndamagedKnown DEF ContainerInv
<1>7. Over(file, rd) /\ hdr.crc = CrcCells(D)
  BY <1>1, <1>2 DEF ContainerInv, HeaderInv, CrcRead, D, Reading
<1>8. rd.start = file /\ rd.length = Len(file)
  BY <1>7 DEF Over
<1>9. DataCrcMatches(rd)
  <2>1. CrcOf(rd, HdrSize, rd.length) = CrcCells(D)
    BY <1>4, <1>8 DEF CrcOf
  <2> QED BY <1>2, <1>3, <1>7, <1>8, <2>1 DEF DataCrcMatches
<1>10. ASSUME Version(hdr) # Android PROVE HeaderCrcMatches(rd)
  <2>1. /\ SubSeq(file, 1, m) = X
        /\ file[at + 1] = <<"int", m, 1>>
        /\ Placed(file, HdrSize - IntSize, CrcCells(X))
    BY <1>4, <1>6, <1>10
  <2> DEFINE q == SeekTo(rd, at)
             y == CrcCells(X)
             a == at + IntSize + 1
  <2>2. /\ at \in Nat /\ at + 1 + 0 = at + 1 /\ m \in 0..Len(file)
        /\ a \in Nat \ {0} /\ a <= HdrSize + 1 /\ HdrSize - a + 1 = IntSize
        /\ \A i \in 1..IntSize : a + i - 1 = HdrSize - IntSize + i
    BY <1>2, <1>3, <1>5
  <2> HIDE DEF at, m
  <2>3. q.start = file /\ q.ptr = at
    BY <1>7, <2>2, SeekOver DEF Over
  <2> HIDE DEF q
  <2>4. CellAt(q, 0) = <<"int", m, 1>>
    BY <2>1, <2>2, <2>3 DEF CellAt
  <2>5. IntAtCursor(q) = m
    BY <2>4 DEF IntAtCursor
  <2>6. CrcOf(rd, 0, m) = y
    <3>1. CrcOf(rd, 0, m) = CrcCells(SubSeq(rd.start, 0 + 1, m)) /\ 0 + 1 = 1
      BY DEF CrcOf
    <3> QED BY ONLY <1>8, <2>1, <3>1
  <2>7. (\E T : y \in Seq(T)) /\ Len(y) = IntSize
    BY CrcCellsAre
  <2>8. \A i \in 1..IntSize : file[HdrSize - IntSize + i] = y[i]
    BY <2>1, <2>7 DEF Placed
  <2> HIDE DEF y
  <2>9. SubSeq(file, a, HdrSize) = y
    <3>1. PICK S : file \in Seq(S)
      BY <1>4
    <3>2. PICK T : y \in Seq(T)
      BY <2>7
    <3> DEFINE z == SubSeq(file, a, HdrSize)
               U == S \cup T
    <3> HIDE DEF a
    <3>3. z \in Seq(S) /\ Len(z) = HdrSize - a + 1 /\ \A i \in 1..HdrSize - a + 1 : z[i] = file[a + i - 1]
      BY <1>2, <1>3, <1>5, <2>2, <3>1, SubSeqIs
    <3> HIDE DEF z
    <3>4. z \in Seq(U) /\ y \in Seq(U) /\ Len(z) = Len(y)
      BY <2>2, <2>7, <3>2, <3>3
    <3>5. \A i \in 1..Len(z) : z[i] = y[i]
      BY <2>2, <2>8, <3>3
    <3> HIDE DEF U
    <3>6. z = y
      BY <3>4, <3>5, SeqEqual
    <3> QED BY <3>6 DEF z
  <2>10. SubSeq(rd.start, at + IntSize + 1, HdrSize) = y
    BY <1>8, <2>9 DEF a
  <2>11. rd.length >= HdrSize /\ m \in 0..rd.length
    BY <1>2, <1>3, <1>8, <2>2
  <2> QED BY <2>5, <2>6, <2>10, <2>11 DEF HeaderCrcMatches, at, q
<1>11. stage' = "scan"
  BY <1>6, <1>9, <1>10 DEF CheckHeader
<1> QED BY <1>11

LEMMA InflateNotRefused ==
  ASSUME ContainerInv, InflateChunk, faults = 0, NothingCut
  PROVE  stage' # "refused"
<1>1. stage = "inflate" /\ stage \notin Writing /\ stage \in Reading \ {"header"} /\ save \in Saves
  BY DEF InflateChunk, ContainerInv, WriterInv, Writing, Reading
<1>2. Over(file, rd)
  BY <1>1 DEF ContainerInv, HeaderInv
<1>3. Len(file) \in Nat
  BY <1>2 DEF Over, IsReader
<1>4. PICK from \in 0..Len(save.payload) :
        /\ AtChunk(save, file, rd.ptr, from)
        /\ outp = SubSeq(save.payload, 1, from)
  BY <1>1 DEF ContainerInv, PassInv, Inflating
<1>5. PICK n, to : ChunkHere(save, file, rd.ptr, n, from, to)
  BY <1>1, <1>3, <1>4, ChunkIsHere
<1>6. GoodChunk
  BY <1>2, <1>3, <1>5, ChunkRead
<1>7. from \in Nat /\ to \in Nat /\ to <= Len(save.payload) /\ n = PackedSize(Piece(save, from, to))
  BY <1>5 DEF ChunkHere, Chunk
<1>8. SameCodec
  BY <1>1, UndamagedKnown DEF ContainerInv, SameCodec
<1>9. to - from <= Remaining
  <2>1. total = Len(save.payload) /\ Len(outp) = from /\ Len(save.payload) \in Nat
    BY <1>1, <1>4, WholeAndNone DEF ContainerInv, PassInv
  <2> QED BY <1>7, <2>1 DEF Remaining
<1>10. Len(Inflated) = ChunkLen
  BY <1>1, <1>2, <1>5, <1>7, <1>8, <1>9, InflatedIs DEF ContainerInv
<1>11. stage' # "refused"
  BY <1>6, <1>10 DEF InflateChunk
<1> QED BY <1>11

\* Whatever refuses a save refuses a damaged file or a tactical save.
LEMMA RefusedRightly ==
  ASSUME ContainerInv, [Next]_vars, NothingCut, stage # "refused", stage' = "refused"
  PROVE  faults > 0 \/ Tactical(save)
<1> SUFFICES ASSUME faults = 0, ~Tactical(save) PROVE FALSE
  BY DEF ContainerInv, FileInv
<1>1. CASE CompressChunk \/ WriteField \/ WriteDataCrc \/ WriteTrailer \/ Fault \/ UNCHANGED vars
           \/ \E n \in Noise : OpenFile(n)
  BY <1>1, KindsAre
  DEF CompressChunk, WriteField, WriteDataCrc, WriteTrailer, Fault, Damage, Truncate, vars, OpenFile, Advance
<1>2. CASE ReadHeaderField \/ ReadDataCrc \/ ReadProfile
  BY <1>2, FieldNotRefused, CrcNotRefused, ProfileNotRefused
<1>3. CASE CheckHeader \/ InflateChunk
  BY <1>3, CheckNotRefused, InflateNotRefused
<1>4. CASE ScanChunk
  BY <1>4, ScanKeeps DEF ContainerInv
<1> QED BY <1>1, <1>2, <1>3, <1>4 DEF Next, Program

\* A save that was written whole and not damaged can be read again.
THEOREM WrittenCanBeRead ==
  ASSUME NothingCut
  PROVE  Spec => []WrittenIsReadable
<1> DEFINE Inv == ContainerInv /\ WrittenIsReadable
<1>1. Init => Inv
  <2>1. Init => WrittenIsReadable
    BY DEF Init, WrittenIsReadable
  <2> QED BY <2>1, ContainerStarts
<1>2. Inv /\ [Next]_vars => Inv'
  <2> SUFFICES ASSUME Inv, [Next]_vars PROVE Inv'
    OBVIOUS
  <2>1. ContainerInv'
    BY ContainerKeeps
  <2>2. WrittenIsReadable'
    <3> SUFFICES ASSUME stage' = "refused" PROVE faults' > 0 \/ Tactical(save')
      BY DEF WrittenIsReadable, Tactical
    <3>1. CASE stage = "refused"
      <4>1. faults' = faults /\ save' = save
        BY <3>1 DEF Next, Program, CompressChunk, WriteField, WriteDataCrc, WriteTrailer, OpenFile,
          ReadHeaderField, ReadDataCrc, ReadProfile, CheckHeader, ScanChunk, InflateChunk,
          Fault, Damage, Truncate, vars
      <4> QED BY <3>1, <4>1 DEF WrittenIsReadable
    <3>2. CASE stage # "refused"
      <4>1. faults > 0 \/ Tactical(save)
        BY <3>2, RefusedRightly
      <4>2. faults' = faults /\ save' = save
        BY <3>2 DEF Next, Program, CompressChunk, WriteField, WriteDataCrc, WriteTrailer, OpenFile,
          ReadHeaderField, ReadDataCrc, ReadProfile, CheckHeader, ScanChunk, InflateChunk, Refuse,
          Fault, Damage, Truncate, vars
      <4> QED BY <4>1, <4>2
    <3> QED BY <3>1, <3>2
  <2> QED BY <2>1, <2>2
<1>3. Inv => WrittenIsReadable
  OBVIOUS
<1> QED BY <1>1, <1>2, <1>3, PTL DEF Spec

-----------------------------------------------------------------------------
(* The refinement *)

\* What is delivered is what was written, whatever was done to the file.
LEMMA DeliveredIs ==
  ASSUME ContainerInv, stage = "delivered"
  PROVE  Got = Protected(save) /\ (Version(save) # Android => save.fields[8] = 0)
<1>1. outp = save.payload /\ SameCodec /\ ~Tactical(hdr)
  BY DEF ContainerInv, PassInv
<1>2. CASE Version(save) = Android
  BY <1>1, <1>2 DEF Got, Protected
<1>3. CASE Version(save) # Android
  <2>1. hdr.fields = save.fields
    BY <1>1, <1>3 DEF SameCodec, ContainerInv, PassInv
  <2> QED BY <1>1, <1>3, <2>1 DEF Got, Protected, Tactical
<1> QED BY <1>2, <1>3

\* Safety in one line: after any damage, decompress() hands the parser the payload that
\* was written, and on PC read_header() the header that was written, or neither returns.
THEOREM OnlyWrittenIsDelivered == Spec => [](stage = "delivered" => Got = Protected(save))
BY DeliveredIs, ContainerStarts, ContainerKeeps, PTL DEF Spec

LEMMA ProtectedIs ==
  ASSUME NEW s \in Saves
  PROVE  Protected(s) # << >> /\ Protected(s) \in {Protected(t) : t \in Saves}
<1>1. <<s.payload>> # << >> /\ <<s.fields, s.payload>> # << >>
  OBVIOUS
<1> QED BY <1>1, Zenon DEF Protected

\* Steps the channel does not see.
LEMMA Unseen ==
  ASSUME Stored' = Stored, faults' = faults, Outcome' = Outcome
  PROVE  UNCHANGED Channel!vars
BY Zenon DEF Channel!vars

LEMMA StoreSeen ==
  ASSUME ContainerInv, WriteTrailer
  PROVE  Channel!Next
<1>1. stage = "trailer" /\ stage' = "file" /\ save' = save /\ faults' = faults /\ save \in Saves
  BY DEF WriteTrailer, ContainerInv, WriterInv
<1>2. Stored = << >> /\ Outcome = << >> /\ Outcome' = << >>
  BY <1>1 DEF Stored, Outcome, Writing
<1>3. Stored' = Protected(save)
  BY <1>1 DEF Stored, Writing, Protected, Version
<1>4. Channel!Store(Protected(save))
  BY <1>1, <1>2, <1>3, Zenon DEF Channel!Store, Channel!Nothing
<1>5. Protected(save) \in {Protected(s) : s \in Saves}
  BY <1>1, ProtectedIs
<1> QED BY <1>4, <1>5, Zenon DEF Channel!Next

LEMMA DamageSeen ==
  ASSUME ContainerInv, Fault
  PROVE  Channel!Next
<1>1. stage = "file" /\ stage' = "file" /\ save' = save /\ faults' = faults + 1 /\ save \in Saves
      /\ faults \in Nat
  BY DEF Fault, Damage, Truncate, ContainerInv, WriterInv, FileInv
<1>2. Outcome = << >> /\ Outcome' = Outcome
  BY <1>1 DEF Outcome
<1>3. Stored = Protected(save) /\ Stored' = Stored
  BY <1>1 DEF Stored, Writing, Protected, Version
<1>4. Stored # << >>
  BY <1>1, <1>3, ProtectedIs
<1>5. faults' > 0
  BY <1>1
<1>6. (faults' > 0) = TRUE
  BY <1>5
<1>7. Channel!Damage
  BY <1>2, <1>3, <1>4, <1>6, Zenon DEF Channel!Damage, Channel!Nothing
<1> QED BY <1>7, Zenon DEF Channel!Next

\* The header area, the file and the outcome when a reading step ends.
LEMMA ReadingSees ==
  ASSUME ContainerInv, stage \in Reading \ {"delivered"}, save' = save, stage' \in Reading \cup {"refused"}
  PROVE  /\ Stored = Protected(save) /\ Stored' = Stored /\ Stored # << >>
         /\ Outcome = << >>
         /\ stage' \notin {"delivered", "refused"} => Outcome' = << >>
<1>1. stage \notin Writing \cup {"delivered", "refused"} /\ stage' \notin Writing
  BY DEF Reading, Writing
<1>2. Stored = Protected(save) /\ Stored' = Stored
  BY <1>1 DEF Stored, Writing, Protected, Version
<1>3. Stored # << >>
  BY <1>2, ProtectedIs DEF ContainerInv, WriterInv
<1> QED BY <1>1, <1>2, <1>3 DEF Outcome

LEMMA RefusalSeen ==
  ASSUME NothingCut, AndroidIsPlain, ContainerInv, [Next]_vars,
         stage \in Reading \ {"delivered"}, stage' = "refused", save' = save, faults' = faults
  PROVE  Channel!Next
<1>1. /\ Stored = Protected(save) /\ Stored' = Stored /\ Stored # << >>
      /\ Outcome = << >>
  BY ReadingSees
<1>2. Outcome' = <<"refused">>
  BY DEF Outcome
<1>3. faults > 0 \/ Tactical(save)
  BY RefusedRightly DEF Reading
<1>4. faults > 0 \/ ~(Len(Stored) = 1 \/ Stored[1][8] = 0)
  <2> SUFFICES ASSUME Tactical(save) PROVE ~(Len(Stored) = 1 \/ Stored[1][8] = 0)
    BY <1>3
  <2>1. Version(save) # Android
    BY DEF AndroidIsPlain, ContainerInv, WriterInv
  <2>2. Stored = <<save.fields, save.payload>>
    BY <1>1, <2>1 DEF Protected
  <2>3. Len(Stored) = 2 /\ Stored[1] = save.fields
    BY <2>2
  <2> QED BY <2>3 DEF Tactical
<1>5. Channel!Refuse
  BY <1>1, <1>2, <1>4, Zenon DEF Channel!Refuse, Channel!Nothing, Channel!Refused
<1> QED BY <1>5, Zenon DEF Channel!Next

LEMMA DeliverySeen ==
  ASSUME ContainerInv, ContainerInv', stage \in Reading \ {"delivered"}, stage' = "delivered",
         save' = save, faults' = faults
  PROVE  Channel!Next
<1>1. /\ Stored = Protected(save) /\ Stored' = Stored /\ Stored # << >>
      /\ Outcome = << >>
  BY ReadingSees DEF Reading
<1>2. outp' = save.payload /\ (Version(hdr)' = Android <=> Version(save) = Android) /\ hdr'.fields[8] = 0
  BY DEF ContainerInv, PassInv, SameCodec, Tactical, Version
<1>3. Version(save) # Android => hdr'.fields = save.fields
  BY <1>2 DEF ContainerInv, PassInv, Version
<1>4. Outcome' = <<"delivered", Stored>>
  BY <1>1, <1>2, <1>3 DEF Outcome, Got, Protected, Version
<1>5. Len(Stored) = 1 \/ Stored[1][8] = 0
  <2>1. CASE Version(save) = Android
    BY <1>1, <2>1 DEF Protected
  <2>2. CASE Version(save) # Android
    BY <1>1, <1>2, <1>3, <2>2 DEF Protected
  <2> QED BY <2>1, <2>2
<1>6. Channel!Deliver
  BY <1>1, <1>4, <1>5, Zenon DEF Channel!Deliver, Channel!Nothing, Channel!Delivered
<1> QED BY <1>6, Zenon DEF Channel!Next

LEMMA ReadingSeen ==
  ASSUME NothingCut, AndroidIsPlain, ContainerInv, ContainerInv', [Next]_vars,
         stage \in Reading \ {"delivered"}, stage' \in Reading \cup {"refused"},
         save' = save, faults' = faults
  PROVE  [Channel!Next]_(Channel!vars)
<1>1. CASE stage' = "refused"
  BY <1>1, RefusalSeen
<1>2. CASE stage' = "delivered"
  BY <1>2, DeliverySeen
<1>3. CASE stage' \notin {"delivered", "refused"}
  BY <1>3, ReadingSees, Unseen
<1> QED BY <1>1, <1>2, <1>3

LEMMA ChannelStep ==
  ASSUME NothingCut, AndroidIsPlain, ContainerInv, ContainerInv', [Next]_vars
  PROVE  [Channel!Next]_(Channel!vars)
<1>1. ASSUME stage \in Writing, stage' \in Writing, faults' = faults PROVE UNCHANGED Channel!vars
  <2>1. Stored' = Stored /\ Outcome' = Outcome
    BY <1>1 DEF Stored, Outcome, Writing
  <2> QED BY <1>1, <2>1, Unseen
<1>2. CASE CompressChunk \/ WriteField \/ WriteDataCrc
  BY <1>1, <1>2, KindsAre DEF CompressChunk, WriteField, WriteDataCrc, Advance, Writing
<1>3. CASE WriteTrailer
  BY <1>3, StoreSeen
<1>4. CASE Fault
  BY <1>4, DamageSeen
<1>5. CASE \E n \in Noise : OpenFile(n)
  <2>1. stage = "file" /\ stage' = "header" /\ save' = save /\ faults' = faults
    BY <1>5 DEF OpenFile
  <2>2. Stored' = Stored /\ Outcome' = Outcome
    BY <2>1 DEF Stored, Outcome, Writing, Protected, Version
  <2> QED BY <2>1, <2>2, Unseen
<1>6. CASE ReadHeaderField \/ ReadDataCrc \/ ReadProfile
  <2>1. /\ stage \in Reading \ {"delivered"} /\ stage' \in Reading \cup {"refused"}
        /\ save' = save /\ faults' = faults
    BY <1>6, KindsAre DEF ReadHeaderField, ReadDataCrc, ReadProfile, Refuse, Advance, Reading
  <2> QED BY <2>1, ReadingSeen
<1>7. CASE CheckHeader \/ ScanChunk \/ InflateChunk
  <2>1. /\ stage \in Reading \ {"delivered"} /\ stage' \in Reading \cup {"refused"}
        /\ save' = save /\ faults' = faults
    BY <1>7 DEF CheckHeader, ScanChunk, InflateChunk, Refuse, Reading
  <2> QED BY <2>1, ReadingSeen
<1>8. CASE UNCHANGED vars
  <2>1. save' = save /\ stage' = stage /\ faults' = faults /\ hdr' = hdr /\ outp' = outp
    BY <1>8 DEF vars, rvars
  <2>2. Stored' = Stored /\ Outcome' = Outcome
    BY <2>1 DEF Stored, Outcome, Protected, Version, Got
  <2> QED BY <2>1, <2>2, Unseen
<1> QED BY <1>2, <1>3, <1>4, <1>5, <1>6, <1>7, <1>8 DEF Next, Program

LEMMA ChannelStarts == Init => Channel!Init
<1> SUFFICES ASSUME Init PROVE Channel!Init
  OBVIOUS
<1>1. Stored = << >> /\ Outcome = << >>
  BY DEF Init, Stored, Outcome, Writing
<1>2. ~(faults > 0)
  BY DEF Init
<1>3. (faults > 0) = FALSE
  BY <1>2
<1> QED BY <1>1, <1>3, Zenon DEF Channel!Init, Channel!Nothing

\* The container implements the channel: for every save and whatever is done to the
\* file, what is delivered is what was stored, and only damaged files and tactical saves
\* are refused.  zlib must not lack room, and no Android save may be tactical.
THEOREM ContainerIsChannel ==
  ASSUME NothingCut, AndroidIsPlain
  PROVE  Spec => ImplementsChannel
<1>1. ContainerInv /\ [Next]_vars => ContainerInv' /\ [Channel!Next]_(Channel!vars)
  BY ContainerKeeps, ChannelStep
<1> QED BY <1>1, ContainerStarts, ChannelStarts, PTL DEF Spec, ImplementsChannel, Channel!Spec
=============================================================================
