------------------------- MODULE XcomBuffer_proofs -------------------------
(***************************************************************************)
(* Lemmas about the write calls and the read calls of xcom_io, for buffers *)
(* of every size and records of every content.  The proofs about XcomIO,   *)
(* XcomIOReader and SaveContainer rest on them.                            *)
(***************************************************************************)
EXTENDS XcomBuffer, SequenceTheorems, TLAPS

\* What reading a text gives: the empty UTF-16 string comes back as the empty
\* Latin-1 string.
ReadBack(s) == IF s.str = << >> THEN [s EXCEPT !.wide = FALSE] ELSE s

-----------------------------------------------------------------------------
(* The write calls *)
\* The inductive invariant, for any buffer object: EnsureMakesRoom needs to know
\* that the buffer never becomes smaller than the initial one, so that doubling it
\* once is enough for any small request.
Good(b) ==
  /\ IsBuffer(b)
  /\ b.length <= MaxInt
  /\ b.ptr <= b.reserved
  /\ b.reserved <= b.length
  /\ InitialSize <= b.length

\* A function on 1..n is a sequence of length n.
LEMMA FunctionIsSeq ==
  ASSUME NEW S, NEW n \in Nat, NEW f \in [1..n -> S]
  PROVE  f \in Seq(S) /\ Len(f) = n
<1>1. f \in Seq(S)
  BY SeqDef
<1>2. DOMAIN f = 1..Len(f) /\ Len(f) \in Nat
  BY <1>1, LenProperties
<1>3. 1..Len(f) = 1..n
  BY <1>2
<1> QED BY <1>1, <1>2, <1>3

\* ensure() keeps the invariant and what was written, and makes room.
LEMMA EnsureGood ==
  ASSUME NEW b, Good(b), NEW n \in Nat, n <= InitialSize
  PROVE  /\ Good(Ensure(b, n))
         /\ Ensure(b, n).ptr = b.ptr
         /\ Contents(Ensure(b, n)) = Contents(b)
         /\ ~ Ensure(b, n).thrown => /\ ~b.thrown
                                     /\ b.ptr + n <= Ensure(b, n).reserved
                                     /\ b.reserved <= Ensure(b, n).reserved
<1> DEFINE res == IF b.reserved < b.ptr + n THEN b.ptr + n ELSE b.reserved
           e == Ensure(b, n)
           grown == [i \in 1..2*b.length |-> IF i <= b.ptr THEN b.start[i] ELSE Junk]
<1> USE SizeAssumption
<1>0. /\ b = [start |-> b.start, length |-> b.length, ptr |-> b.ptr,
             thrown |-> b.thrown, reserved |-> b.reserved]
      /\ b.start = [i \in 1..b.length |-> b.start[i]]
      /\ b.length \in Nat \ {0} /\ b.ptr \in Nat /\ b.reserved \in Nat /\ b.thrown \in BOOLEAN
      /\ b.length <= MaxInt /\ b.ptr <= b.reserved /\ b.reserved <= b.length
      /\ InitialSize <= b.length
  BY DEF Good, IsBuffer
<1>1. CASE HasRoom(b, n)
  <2>1. e = [start |-> b.start, length |-> b.length, ptr |-> b.ptr,
             thrown |-> b.thrown, reserved |-> res]
    BY <1>0, <1>1 DEF Ensure
  <2> QED BY <2>1, <1>1, <1>0 DEF Good, IsBuffer, HasRoom, Contents
<1>2. CASE ~HasRoom(b, n) /\ MayGrow(b)
  <2>1. e = [start |-> grown, length |-> 2 * b.length, ptr |-> b.ptr,
             thrown |-> b.thrown, reserved |-> res]
    BY <1>0, <1>2 DEF Ensure, Grown
  <2>2. 2 * b.length \in Nat \ {0} /\ 2 * b.length <= MaxInt /\ InitialSize <= 2 * b.length
        /\ res \in Nat /\ b.ptr <= res /\ res <= 2 * b.length /\ b.ptr + n <= res
        /\ b.reserved <= res
    BY <1>0, <1>2 DEF MayGrow
  <2>3. IsBuffer(e)
    <3>1. e.start = [i \in 1..e.length |-> e.start[i]]
      BY <2>1, <2>2
    <3> QED BY <2>1, <2>2, <1>0, <3>1 DEF IsBuffer
  <2>4. Contents(e) = Contents(b)
    <3>1. \A i \in 1..b.ptr : e.start[i] = b.start[i]
      BY <2>1, <2>2, <1>0
    <3> QED BY <3>1, <2>1 DEF Contents
  <2>5. ~e.thrown => ~b.thrown
    BY <2>1
  <2> QED BY <2>1, <2>2, <2>3, <2>4, <2>5 DEF Good
<1>3. CASE ~HasRoom(b, n) /\ ~MayGrow(b)
  <2>1. e = [start |-> b.start, length |-> b.length, ptr |-> b.ptr,
             thrown |-> TRUE, reserved |-> b.reserved]
    BY <1>0, <1>3 DEF Ensure
  <2> QED BY <2>1, <1>0 DEF Good, IsBuffer, Contents
<1> QED BY <1>1, <1>2, <1>3


\* Storing cells inside what was reserved keeps the invariant and appends them.
LEMMA PutGood ==
  ASSUME NEW b, Good(b), NEW S, NEW c \in Seq(S), b.ptr + Len(c) <= b.reserved
  PROVE  /\ Good(Put(b, c))
         /\ Put(b, c).ptr = b.ptr + Len(c)
         /\ Put(b, c).reserved = b.reserved
         /\ Put(b, c).thrown = b.thrown
         /\ Contents(Put(b, c)) = Contents(b) \o c
<1> DEFINE p == Put(b, c)
           cells == [i \in 1..b.length |-> IF b.ptr < i /\ i <= b.ptr + Len(c)
                                           THEN c[i - b.ptr] ELSE b.start[i]]
<1>0. /\ b = [start |-> b.start, length |-> b.length, ptr |-> b.ptr,
             thrown |-> b.thrown, reserved |-> b.reserved]
      /\ b.start = [i \in 1..b.length |-> b.start[i]]
      /\ b.length \in Nat \ {0} /\ b.ptr \in Nat /\ b.reserved \in Nat /\ b.thrown \in BOOLEAN
      /\ b.length <= MaxInt /\ b.ptr <= b.reserved /\ b.reserved <= b.length
      /\ InitialSize <= b.length
      /\ Len(c) \in Nat
  BY DEF Good, IsBuffer
<1>1. p = [start |-> cells, length |-> b.length, ptr |-> b.ptr + Len(c),
           thrown |-> b.thrown, reserved |-> b.reserved]
  <2>1. p = [b EXCEPT !.start = cells, !.ptr = b.ptr + Len(c)]
    BY DEF Put
  <2> HIDE DEF cells, p
  <2> QED BY <2>1, <1>0
<1>2. IsBuffer(p)
  <2>1. p.start = [i \in 1..p.length |-> p.start[i]]
    BY <1>1, <1>0
  <2> QED BY <1>0, <1>1, <2>1 DEF IsBuffer
<1>3. Good(p)
  BY <1>0, <1>1, <1>2, SizeAssumption DEF Good
<1>4. Contents(p) = Contents(b) \o c
  <2> DEFINE T == {b.start[i] : i \in 1..b.ptr} \cup S
  <2>1. Contents(b) \in Seq(T) /\ Len(Contents(b)) = b.ptr
    <3>1. Contents(b) \in [1..b.ptr -> T]
      BY DEF Contents
    <3> HIDE DEF T
    <3> QED BY <3>1, <1>0, FunctionIsSeq
  <2>2. c \in Seq(T)
    OBVIOUS
  <2>3. Contents(p) = [i \in 1..(b.ptr + Len(c)) |-> cells[i]]
    BY <1>1 DEF Contents
  <2>4. Contents(b) \o c = [i \in 1..(b.ptr + Len(c)) |-> (Contents(b) \o c)[i]]
    <3> HIDE DEF T
    <3>1. /\ Contents(b) \o c \in Seq(T)
          /\ Len(Contents(b) \o c) = b.ptr + Len(c)
      BY <2>1, <2>2, ConcatProperties
    <3>2. Contents(b) \o c \in [1..(b.ptr + Len(c)) -> T]
      BY <3>1, LenProperties
    <3> QED BY <3>2
  <2>5. \A i \in 1..(b.ptr + Len(c)) : cells[i] = (Contents(b) \o c)[i]
    <3> SUFFICES ASSUME NEW i \in 1..(b.ptr + Len(c)) PROVE cells[i] = (Contents(b) \o c)[i]
      OBVIOUS
    <3>1. i \in 1..b.length
      BY <1>0
    <3>2. (Contents(b) \o c)[i] = IF i <= b.ptr THEN Contents(b)[i] ELSE c[i - b.ptr]
      <4> HIDE DEF T, cells
      <4> QED BY <2>1, <2>2, ConcatProperties
    <3>3. i <= b.ptr => Contents(b)[i] = b.start[i]
      BY <1>0 DEF Contents
    <3> QED BY <3>1, <3>2, <3>3, <1>0
  <2> HIDE DEF cells
  <2> QED BY <2>3, <2>4, <2>5
<1> QED BY <1>1, <1>3, <1>4


\* ensure() followed by the memcpy of as many cells: nothing is lost, and the
\* cells are appended unless ensure() threw.
LEMMA EnsureAndPutGood ==
  ASSUME NEW b, Good(b), NEW S, NEW c \in Seq(S), Len(c) <= InitialSize
  PROVE  LET p == EnsureAndPut(b, c) IN
         /\ Good(p)
         /\ p.thrown => Contents(p) = Contents(b)
         /\ ~p.thrown => /\ ~b.thrown
                         /\ Contents(p) = Contents(b) \o c
                         /\ p.ptr = b.ptr + Len(c)
                         /\ b.reserved <= p.reserved
<1> DEFINE e == Ensure(b, Len(c))
<1>1. Len(c) \in Nat
  OBVIOUS
<1>2. /\ Good(e) /\ e.ptr = b.ptr /\ Contents(e) = Contents(b)
      /\ ~e.thrown => ~b.thrown /\ b.ptr + Len(c) <= e.reserved /\ b.reserved <= e.reserved
  BY <1>1, EnsureGood
<1> HIDE DEF e
<1>3. CASE e.thrown
  BY <1>2, <1>3 DEF EnsureAndPut, e
<1>4. CASE ~e.thrown
  <2>1. EnsureAndPut(b, c) = Put(e, c)
    BY <1>4 DEF EnsureAndPut, e
  <2>2. e.ptr + Len(c) <= e.reserved
    BY <1>2, <1>4
  <2>3. /\ Good(Put(e, c)) /\ ~Put(e, c).thrown
        /\ Put(e, c).ptr = e.ptr + Len(c)
        /\ Put(e, c).reserved = e.reserved
        /\ Contents(Put(e, c)) = Contents(e) \o c
    BY SMTT(30), <1>2, <1>4, <2>2, PutGood
  <2>4. e.ptr = b.ptr /\ Contents(e) = Contents(b) /\ ~b.thrown /\ b.reserved <= e.reserved
    BY <1>2, <1>4
  <2> QED BY ONLY <2>1, <2>3, <2>4
<1> QED BY <1>3, <1>4

\* The pieces of an encoding are sequences of the lengths the code computes.
LEMMA IntCellsSeq == \A v : \E S : IntCells(v) \in Seq(S) /\ Len(IntCells(v)) = IntSize
<1> SUFFICES ASSUME NEW v PROVE \E S : IntCells(v) \in Seq(S) /\ Len(IntCells(v)) = IntSize
  OBVIOUS
<1>1. IntCells(v) \in [1..IntSize -> {<<"int", v, k>> : k \in 1..IntSize}]
  BY DEF IntCells
<1> QED BY <1>1, FunctionIsSeq, SizeAssumption

LEMMA NarrowCellsSeq ==
  ASSUME NEW C, NEW s \in Seq(C)
  PROVE  /\ NarrowCells(s) \in Seq({ByteCell(c) : c \in C})
         /\ Len(NarrowCells(s)) = Len(s)
<1>1. NarrowCells(s) \in [1..Len(s) -> {ByteCell(c) : c \in C}]
  BY DEF NarrowCells
<1> QED BY <1>1, FunctionIsSeq

LEMMA WideCellsSeq ==
  ASSUME NEW C, NEW s \in Seq(C)
  PROVE  \E S : WideCells(s) \in Seq(S) /\ Len(WideCells(s)) = 2 * Len(s)
<1> DEFINE e(k) == <<"chr16", s[(k + 1) \div 2], 2 - (k % 2)>>
           S == {e(k) : k \in 1..2*Len(s)}
<1>1. WideCells(s) \in [1..2*Len(s) -> S]
  BY DEF WideCells
<1>2. 2 * Len(s) \in Nat
  OBVIOUS
<1> HIDE DEF S
<1>3. WideCells(s) \in Seq(S) /\ Len(WideCells(s)) = 2 * Len(s)
  BY <1>1, <1>2, FunctionIsSeq
<1> QED BY <1>3

LEMMA StringBodySeq ==
  ASSUME NEW s, IsText(s)
  PROVE  \E S : /\ StringBody(s) \in Seq(S)
                /\ IntSize + Len(StringBody(s)) =
                     IF s.wide THEN 2 * (Len(s.str) + 1) + IntSize ELSE Len(s.str) + 1 + IntSize
<1> DEFINE C == {s.str[i] : i \in DOMAIN s.str}
<1>0. s.str \in Seq(C) /\ s.wide \in BOOLEAN
  BY DEF IsText
<1> HIDE DEF C
<1>0a. Len(s.str) \in Nat
  BY <1>0
<1>1. CASE s.wide
  <2>1. PICK S : WideCells(s.str) \in Seq(S) /\ Len(WideCells(s.str)) = 2 * Len(s.str)
    BY <1>0, WideCellsSeq
  <2> DEFINE T == S \cup {Zero}
  <2>2. WideCells(s.str) \in Seq(T) /\ <<Zero, Zero>> \in Seq(T) /\ Len(<<Zero, Zero>>) = 2
    BY <2>1
  <2> HIDE DEF T
  <2>3. /\ StringBody(s) \in Seq(T)
        /\ Len(StringBody(s)) = 2 * Len(s.str) + 2
    <3> DEFINE w == WideCells(s.str)
               z == <<Zero, Zero>>
    <3>1. StringBody(s) = w \o z
      BY <1>1 DEF StringBody
    <3> HIDE DEF w, z
    <3>2. w \o z \in Seq(T) /\ Len(w \o z) = Len(w) + Len(z)
      BY <2>2, ConcatProperties DEF w, z
    <3> QED BY <3>1, <3>2, <2>1, <2>2 DEF w, z
  <2> QED BY <1>1, <2>3, <1>0a, SizeAssumption
<1>2. CASE ~s.wide
  <2> DEFINE T == {ByteCell(c) : c \in C} \cup {Zero}
  <2>1. NarrowCells(s.str) \in Seq({ByteCell(c) : c \in C}) /\ Len(NarrowCells(s.str)) = Len(s.str)
    BY <1>0, NarrowCellsSeq
  <2>2. NarrowCells(s.str) \in Seq(T) /\ <<Zero>> \in Seq(T) /\ Len(<<Zero>>) = 1
    BY <2>1
  <2> HIDE DEF T
  <2>3. /\ StringBody(s) \in Seq(T)
        /\ Len(StringBody(s)) = Len(s.str) + 1
    BY <1>2, <2>1, <2>2, ConcatProperties DEF StringBody
  <2> QED BY <1>2, <2>3, <1>0a, SizeAssumption
<1> QED BY <1>0, <1>1, <1>2


\* write_unicode_string: the whole record is appended, or nothing is.
LEMMA StringWrittenGood ==
  ASSUME NEW b, Good(b), NEW s, IsText(s), StringSize(s) <= InitialSize
  PROVE  LET p == StringWritten(b, s) IN
         /\ Good(p)
         /\ p.thrown => Contents(p) = Contents(b)
         /\ ~p.thrown => Contents(p) = Contents(b) \o EncString(s)
<1> DEFINE p == StringWritten(b, s)
           e == Ensure(b, StringSize(s))
           hd == IntCells(LengthField(s))
           h == EnsureAndPut(e, hd)
           body == StringBody(s)
<1> USE SizeAssumption
<1>0. s.str \in Seq({s.str[i] : i \in DOMAIN s.str}) /\ s.wide \in BOOLEAN
  BY DEF IsText
<1>1. CASE s.str = << >>
  <2>1. IntSize <= InitialSize
    BY <1>1 DEF StringSize
  <2>2. PICK S : IntCells(0) \in Seq(S) /\ Len(IntCells(0)) = IntSize
    BY IntCellsSeq
  <2>3. p = EnsureAndPut(b, IntCells(0)) /\ EncString(s) = IntCells(0)
    BY <1>1 DEF StringWritten, IntWritten, EncString
  <2> DEFINE q == EnsureAndPut(b, IntCells(0))
  <2>4. /\ Good(q)
        /\ q.thrown => Contents(q) = Contents(b)
        /\ ~q.thrown => Contents(q) = Contents(b) \o IntCells(0)
    BY <2>1, <2>2, EnsureAndPutGood
  <2> HIDE DEF p, q
  <2> QED BY <2>3, <2>4 DEF p, q
<1>2. CASE s.str # << >>
  <2>1. PICK S : /\ body \in Seq(S)
                 /\ IntSize + Len(body) = StringSize(s)
    BY <1>2, StringBodySeq DEF StringSize
  <2>2. PICK H : hd \in Seq(H) /\ Len(hd) = IntSize
    BY IntCellsSeq
  <2> HIDE DEF body, hd
  <2>3. Len(body) \in Nat /\ StringSize(s) \in Nat /\ IntSize <= InitialSize
    BY <2>1
  <2>4. /\ Good(e) /\ e.ptr = b.ptr /\ Contents(e) = Contents(b)
        /\ ~e.thrown => ~b.thrown /\ b.ptr + StringSize(s) <= e.reserved
    BY <2>3, EnsureGood
  <2> HIDE DEF e
  <2>5. CASE e.thrown
    <3>1. p = e
      BY <1>2, <2>5 DEF StringWritten, e
    <3> QED BY <3>1, <2>4, <2>5
  <2>6. CASE ~e.thrown
    <3>1. /\ Good(h)
          /\ h.thrown => Contents(h) = Contents(e)
          /\ ~h.thrown => /\ Contents(h) = Contents(e) \o hd
                          /\ h.ptr = e.ptr + Len(hd)
                          /\ e.reserved <= h.reserved
      BY <2>2, <2>3, <2>4, EnsureAndPutGood
    <3>2. p = IF h.thrown THEN h ELSE Put(h, body)
      BY <1>2, <2>6 DEF StringWritten, IntWritten, e, hd, body
    <3> HIDE DEF h, p
    <3>3. CASE h.thrown
      BY <3>1, <3>2, <3>3, <2>4 DEF p
    <3>4. CASE ~h.thrown
      <4>1. h.ptr + Len(body) <= h.reserved
        <5>1. h.ptr \in Nat /\ h.reserved \in Nat /\ e.reserved \in Nat /\ b.ptr \in Nat
          BY <3>1, <2>4 DEF Good, IsBuffer
        <5>2. h.ptr = b.ptr + IntSize /\ e.reserved <= h.reserved
          BY <3>1, <3>4, <2>2, <2>4
        <5>3. b.ptr + StringSize(s) <= e.reserved
          BY <2>4, <2>6
        <5> QED BY SMTT(30), <5>1, <5>2, <5>3, <2>1, <2>3
      <4>2. /\ Good(p) /\ p.thrown = h.thrown /\ Contents(p) = Contents(h) \o body
        BY <4>1, <3>1, <3>2, <3>4, <2>1, PutGood
      <4>3. (Contents(b) \o hd) \o body = Contents(b) \o (hd \o body)
        <5>1. PICK B : Contents(b) \in Seq(B)
          <6>1. b.ptr \in Nat
            BY DEF Good, IsBuffer
          <6> DEFINE B == {b.start[i] : i \in 1..b.ptr}
          <6>2. Contents(b) \in [1..b.ptr -> B]
            BY DEF Contents
          <6> HIDE DEF B
          <6> QED BY <6>1, <6>2, FunctionIsSeq
        <5> DEFINE T == B \cup H \cup S
        <5>2. Contents(b) \in Seq(T) /\ hd \in Seq(T) /\ body \in Seq(T)
          BY <5>1, <2>1, <2>2
        <5> DEFINE cb == Contents(b)
        <5> HIDE DEF T, cb, body, hd
        <5>3. cb \in Seq(T) /\ hd \in Seq(T) /\ body \in Seq(T)
          BY <5>2 DEF cb
        <5>4. (cb \o hd) \o body = cb \o (hd \o body)
          BY ONLY <5>3, ConcatAssociative
        <5> QED BY <5>4 DEF cb
      <4>4. EncString(s) = hd \o body
        BY <1>2 DEF EncString, hd, body
      <4> QED BY <4>2, <4>3, <4>4, <3>1, <3>4, <2>4 DEF p
    <3> QED BY <3>3, <3>4
  <2> QED BY <2>5, <2>6
<1> QED BY <1>1, <1>2



-----------------------------------------------------------------------------
(* What a reader finds *)

IsReader(r) ==
  /\ r = [start |-> r.start, length |-> r.length, ptr |-> r.ptr,
          thrown |-> r.thrown, noise |-> r.noise]
  /\ r.length \in Nat /\ r.ptr \in Nat /\ r.thrown \in BOOLEAN

\* The cells c stand at the cursor, as far as the buffer reaches.
At(r, c) == \A i \in 1..Len(c) : r.ptr + i <= r.length => r.start[r.ptr + i] = c[i]

Fits(r, c) == r.ptr + Len(c) <= r.length

Moved(r, n) == [r EXCEPT !.ptr = r.ptr + n]
Thrown(r)   == [r EXCEPT !.thrown = TRUE]

-----------------------------------------------------------------------------
(* The encodings, cell by cell *)

LEMMA IntCellsAre ==
  ASSUME NEW v
  PROVE  Len(IntCells(v)) = IntSize /\ \A i \in 1..IntSize : IntCells(v)[i] = <<"int", v, i>>
BY IntCellsSeq DEF IntCells

LEMMA NarrowCellsAre ==
  ASSUME NEW C, NEW s \in Seq(C)
  PROVE  Len(NarrowCells(s)) = Len(s) /\ \A i \in 1..Len(s) : NarrowCells(s)[i] = ByteCell(s[i])
BY NarrowCellsSeq DEF NarrowCells

\* A string that is not empty: length field, characters, terminator.
LEMMA NarrowStringIs ==
  ASSUME NEW s, IsText(s), s.str # << >>, ~s.wide
  PROVE  LET n == Len(s.str) IN
         /\ n \in Nat \ {0}
         /\ Len(EncString(s)) = IntSize + (n + 1)
         /\ \A i \in 1..IntSize : EncString(s)[i] = <<"int", n + 1, i>>
         /\ \A k \in 1..n : EncString(s)[IntSize + k] = ByteCell(s.str[k])
         /\ EncString(s)[IntSize + (n + 1)] = Zero
<1> DEFINE C == {s.str[i] : i \in DOMAIN s.str}
           n == Len(s.str)
           w == NarrowCells(s.str)
           hd == IntCells(n + 1)
           body == w \o <<Zero>>
<1>1. s.str \in Seq(C)
  BY DEF IsText
<1>2. n \in Nat \ {0}
  <2> HIDE DEF C
  <2> QED BY <1>1, EmptySeq, LenProperties
<1>3. w \in Seq({ByteCell(c) : c \in C}) /\ Len(w) = n /\ \A i \in 1..n : w[i] = ByteCell(s.str[i])
  <2> HIDE DEF C
  <2> QED BY <1>1, NarrowCellsSeq, NarrowCellsAre
<1>4. <<Zero>> \in Seq({Zero}) /\ Len(<<Zero>>) = 1 /\ <<Zero>>[1] = Zero
  OBVIOUS
<1>5. EncString(s) = hd \o body
  BY DEF EncString, LengthField, StringBody
<1>6. PICK H : hd \in Seq(H)
  BY IntCellsSeq
<1>7. Len(hd) = IntSize /\ \A i \in 1..IntSize : hd[i] = <<"int", n + 1, i>>
  BY IntCellsAre
<1> DEFINE T == {ByteCell(c) : c \in C} \cup {Zero} \cup H
           z == <<Zero>>
<1>8. /\ w \in Seq(T) /\ z \in Seq(T) /\ hd \in Seq(T) /\ Len(z) = 1 /\ z[1] = Zero
  BY <1>3, <1>4, <1>6
<1> HIDE DEF C, w, hd, z, T, n
<1>14. /\ w \o z \in Seq(T) /\ Len(w \o z) = Len(w) + Len(z)
       /\ \A i \in 1..Len(w) + Len(z) : (w \o z)[i] = IF i <= Len(w) THEN w[i] ELSE z[i - Len(w)]
  BY <1>8, ConcatProperties
<1>15. body = w \o z
  BY DEF z
<1> HIDE DEF body
<1>16. /\ body \in Seq(T) /\ Len(body) = n + 1
       /\ \A k \in 1..n : body[k] = ByteCell(s.str[k])
       /\ body[n + 1] = Zero
  BY <1>2, <1>3, <1>8, <1>14, <1>15
<1>17. /\ Len(hd \o body) = Len(hd) + Len(body)
       /\ \A i \in 1..Len(hd) + Len(body) :
            (hd \o body)[i] = IF i <= Len(hd) THEN hd[i] ELSE body[i - Len(hd)]
  BY <1>8, <1>16, ConcatProperties
<1> DEFINE code == EncString(s)
<1> HIDE DEF body, code
<1>9. /\ Len(code) = IntSize + (n + 1)
      /\ \A i \in 1..IntSize : code[i] = hd[i]
      /\ \A i \in 1..n + 1 : code[IntSize + i] = body[i]
  <2>1. code = hd \o body
    BY <1>5 DEF code
  <2>2. /\ Len(code) = IntSize + (n + 1)
        /\ \A i \in 1..IntSize + (n + 1) : code[i] = IF i <= IntSize THEN hd[i] ELSE body[i - IntSize]
    BY <1>7, <1>16, <1>17, <2>1
  <2> QED BY <1>2, <2>2, SizeAssumption
<1>10. \A k \in 1..n : code[IntSize + k] = ByteCell(s.str[k])
  BY <1>2, <1>16, <1>9
<1>11. code[IntSize + (n + 1)] = Zero
  BY <1>2, <1>16, <1>9
<1> QED BY <1>2, <1>7, <1>9, <1>10, <1>11 DEF code, n

LEMMA WideStringIs ==
  ASSUME NEW s, IsText(s), s.str # << >>, s.wide
  PROVE  LET n == Len(s.str) IN
         /\ n \in Nat \ {0}
         /\ Len(EncString(s)) = IntSize + 2 * (n + 1)
         /\ \A i \in 1..IntSize : EncString(s)[i] = <<"int", -(n + 1), i>>
         /\ \A k \in 1..n : EncString(s)[IntSize + (2 * k - 1)] = <<"chr16", s.str[k], 1>>
         /\ EncString(s)[IntSize + (2 * n + 1)] = Zero
<1> DEFINE C == {s.str[i] : i \in DOMAIN s.str}
           n == Len(s.str)
           w == WideCells(s.str)
           hd == IntCells(-(n + 1))
           z == <<Zero, Zero>>
           body == w \o z
<1>1. s.str \in Seq(C)
  BY DEF IsText
<1>2. n \in Nat \ {0}
  <2> HIDE DEF C
  <2> QED BY <1>1, EmptySeq, LenProperties
<1>3. PICK W : w \in Seq(W) /\ Len(w) = 2 * n
  <2> HIDE DEF C
  <2> QED BY <1>1, WideCellsSeq
<1>4. \A k \in 1..n : w[2 * k - 1] = <<"chr16", s.str[k], 1>>
  <2> SUFFICES ASSUME NEW k \in 1..n PROVE w[2 * k - 1] = <<"chr16", s.str[k], 1>>
    OBVIOUS
  <2>1. 2 * k - 1 \in 1..2 * n /\ ((2 * k - 1) + 1) \div 2 = k /\ 2 - ((2 * k - 1) % 2) = 1
    BY <1>2
  <2>2. w[2 * k - 1] = <<"chr16", s.str[((2 * k - 1) + 1) \div 2], 2 - ((2 * k - 1) % 2)>>
    BY <2>1 DEF WideCells
  <2> QED BY <2>1, <2>2
<1>5. EncString(s) = hd \o body
  BY DEF EncString, LengthField, StringBody
<1>6. PICK H : hd \in Seq(H)
  BY IntCellsSeq
<1>7. Len(hd) = IntSize /\ \A i \in 1..IntSize : hd[i] = <<"int", -(n + 1), i>>
  BY IntCellsAre
<1> DEFINE T == W \cup {Zero} \cup H
           m == 2 * n
<1>8. w \in Seq(T) /\ z \in Seq(T) /\ hd \in Seq(T)
  BY <1>3, <1>6
<1>18. Len(z) = 2 /\ z[1] = Zero
  OBVIOUS
<1>13. m = 2 * n /\ m \in Nat
  BY <1>2
<1> HIDE DEF C, w, hd, z, T, m
<1>14. /\ w \o z \in Seq(T) /\ Len(w \o z) = Len(w) + Len(z)
       /\ \A i \in 1..Len(w) + Len(z) : (w \o z)[i] = IF i <= Len(w) THEN w[i] ELSE z[i - Len(w)]
  BY <1>8, ConcatProperties
<1>15. body = w \o z /\ Len(w) = m
  BY <1>3, <1>13
<1> HIDE DEF body
<1>9. /\ body \in Seq(T) /\ Len(body) = m + 2
      /\ \A k \in 1..m : body[k] = w[k]
      /\ body[m + 1] = Zero
  <2>1. body \in Seq(T) /\ Len(body) = m + 2
    BY <1>14, <1>15, <1>18
  <2>2. \A k \in 1..m + 2 : body[k] = IF k <= m THEN w[k] ELSE z[k - m]
    BY <1>14, <1>15, <1>18
  <2>3. \A k \in 1..m : body[k] = w[k]
    BY <1>13, <2>2
  <2>4. m + 1 \in 1..m + 2 /\ ~(m + 1 <= m) /\ (m + 1) - m = 1
    BY <1>13
  <2> QED BY <1>18, <2>1, <2>2, <2>3, <2>4
<1>17. /\ Len(hd \o body) = Len(hd) + Len(body)
       /\ \A i \in 1..Len(hd) + Len(body) :
            (hd \o body)[i] = IF i <= Len(hd) THEN hd[i] ELSE body[i - Len(hd)]
  BY <1>8, <1>9, ConcatProperties
<1> DEFINE code == EncString(s)
<1> HIDE DEF body, code
<1>10. /\ Len(code) = IntSize + (m + 2)
       /\ \A i \in 1..IntSize : code[i] = hd[i]
       /\ \A i \in 1..m + 2 : code[IntSize + i] = body[i]
  <2>1. code = hd \o body
    BY <1>5 DEF code
  <2>2. /\ Len(code) = IntSize + (m + 2)
        /\ \A i \in 1..IntSize + (m + 2) : code[i] = IF i <= IntSize THEN hd[i] ELSE body[i - IntSize]
    BY <1>7, <1>9, <1>17, <2>1
  <2> QED BY SMTT(30), <1>13, <2>2, SizeAssumption
<1>11. \A k \in 1..n : code[IntSize + (2 * k - 1)] = <<"chr16", s.str[k], 1>>
  <2> SUFFICES ASSUME NEW k \in 1..n
               PROVE  code[IntSize + (2 * k - 1)] = <<"chr16", s.str[k], 1>>
    OBVIOUS
  <2>1. 2 * k - 1 \in 1..m /\ 2 * k - 1 \in 1..m + 2 /\ 2 * k - 1 \in 1..2 * n
    BY <1>2, <1>13
  <2>2. code[IntSize + (2 * k - 1)] = body[2 * k - 1]
    BY <1>10, <2>1
  <2>3. body[2 * k - 1] = w[2 * k - 1]
    BY <1>9, <2>1
  <2> QED BY <1>4, <2>2, <2>3
<1>12. code[IntSize + (m + 1)] = Zero /\ IntSize + (m + 2) = IntSize + 2 * (n + 1)
  <2>1. m + 1 \in 1..m + 2
    BY <1>13
  <2>2. code[IntSize + (m + 1)] = Zero
    BY <1>9, <1>10, <2>1
  <2> QED BY <1>2, <1>13, <2>2, SizeAssumption
<1> QED BY <1>2, <1>7, <1>10, <1>11, <1>12, <1>13 DEF code

-----------------------------------------------------------------------------
(* The read calls, on the cells they expect *)

LEMMA ThrowIs == \A r : Throw(r).rd = Thrown(r)
BY Zenon DEF Throw, Thrown

\* A record with one field replaced.
LEMMA FieldReplaced ==
  ASSUME NEW r, NEW t,
         r = [start |-> r.start, length |-> r.length, ptr |-> r.ptr,
              thrown |-> r.thrown, noise |-> r.noise]
  PROVE  [r EXCEPT !.thrown = t] = [start |-> r.start, length |-> r.length, ptr |-> r.ptr,
                                    thrown |-> t, noise |-> r.noise]
OBVIOUS

LEMMA MovedReader ==
  ASSUME NEW r, IsReader(r), NEW n \in Nat
  PROVE  /\ IsReader(Moved(r, n)) /\ IsReader(Thrown(r))
         /\ Moved(r, n).start = r.start /\ Moved(r, n).length = r.length
         /\ Moved(r, n).ptr = r.ptr + n /\ Moved(r, n).thrown = r.thrown
         /\ Thrown(r).start = r.start /\ Thrown(r).length = r.length
         /\ Thrown(r).ptr = r.ptr /\ Thrown(r).thrown
<1>1. /\ r = [start |-> r.start, length |-> r.length, ptr |-> r.ptr,
              thrown |-> r.thrown, noise |-> r.noise]
      /\ r.length \in Nat /\ r.ptr \in Nat /\ r.thrown \in BOOLEAN
  BY DEF IsReader
<1>2. Moved(r, n) = [start |-> r.start, length |-> r.length, ptr |-> r.ptr + n,
                     thrown |-> r.thrown, noise |-> r.noise]
  BY <1>1 DEF Moved
<1>3. Thrown(r) = [start |-> r.start, length |-> r.length, ptr |-> r.ptr,
                   thrown |-> TRUE, noise |-> r.noise]
  BY Zenon, <1>1, FieldReplaced DEF Thrown
<1>4. r.ptr + n \in Nat
  BY <1>1
<1> QED BY <1>1, <1>2, <1>3, <1>4 DEF IsReader

LEMMA ReadIntGood ==
  ASSUME NEW r, IsReader(r), NEW v,
         \A i \in 1..IntSize : r.ptr + i <= r.length => r.start[r.ptr + i] = <<"int", v, i>>
  PROVE  IF r.ptr + IntSize <= r.length
         THEN ReadInt(r).rd = Moved(r, IntSize) /\ ReadInt(r).val = v
         ELSE ReadInt(r).rd = Thrown(r)
<1>1. r.length \in Nat /\ r.ptr \in Nat /\ IntSize \in Nat \ {0}
  BY SizeAssumption DEF IsReader
<1>2. CASE r.ptr + IntSize <= r.length
  <2>1. 1 \in 1..IntSize /\ r.ptr + 1 <= r.length /\ r.ptr + 1 + 0 = r.ptr + 1
    BY <1>1, <1>2
  <2>2. CellAt(r, 0) = <<"int", v, 1>>
    BY <2>1 DEF CellAt
  <2>3. IntAtCursor(r) = v
    BY <2>2 DEF IntAtCursor
  <2>4. ReadInt(r) = Skip(r, IntSize, v)
    BY <1>1, <1>2, <2>3 DEF ReadInt, BoundsCheck
  <2> QED BY <1>2, <2>4 DEF Skip, Moved
<1>3. CASE ~(r.ptr + IntSize <= r.length)
  BY <1>1, <1>3 DEF ReadInt, BoundsCheck, Throw, Thrown
<1> QED BY <1>2, <1>3

LEMMA ReadRawGood ==
  ASSUME NEW r, IsReader(r), NEW C, NEW s \in Seq(C), At(r, NarrowCells(s))
  PROVE  IF Fits(r, NarrowCells(s))
         THEN ReadRaw(r, Len(s)).rd = Moved(r, Len(s)) /\ ReadRaw(r, Len(s)).val = s
         ELSE ReadRaw(r, Len(s)).rd = Thrown(r)
<1>1. r.length \in Nat /\ r.ptr \in Nat /\ Len(s) \in Nat
  BY DEF IsReader
<1>2. Len(NarrowCells(s)) = Len(s) /\ \A i \in 1..Len(s) : NarrowCells(s)[i] = ByteCell(s[i])
  BY NarrowCellsAre
<1>3. CASE Fits(r, NarrowCells(s))
  <2>1. \A k \in 1..Len(s) : CellAt(r, k - 1)[2] = s[k]
    <3> SUFFICES ASSUME NEW k \in 1..Len(s) PROVE CellAt(r, k - 1)[2] = s[k]
      OBVIOUS
    <3>1. r.ptr + k <= r.length /\ r.ptr + 1 + (k - 1) = r.ptr + k
      BY <1>1, <1>2, <1>3 DEF Fits
    <3>2. CellAt(r, k - 1) = ByteCell(s[k])
      BY <1>2, <3>1 DEF At, CellAt
    <3> QED BY <3>2 DEF ByteCell
  <2>2. [k \in 1..Len(s) |-> CellAt(r, k - 1)[2]] = [k \in 1..Len(s) |-> s[k]]
    BY <2>1
  <2>3. [k \in 1..Len(s) |-> s[k]] = s
    OBVIOUS
  <2>4. BoundsCheck(r, Len(s))
    BY <1>1, <1>2, <1>3 DEF BoundsCheck, Fits
  <2>5. ReadRaw(r, Len(s)) = Skip(r, Len(s), s)
    BY <2>2, <2>3, <2>4 DEF ReadRaw
  <2> QED BY <1>3, <2>5 DEF Skip, Moved
<1>4. CASE ~Fits(r, NarrowCells(s))
  BY <1>1, <1>2, <1>4 DEF ReadRaw, BoundsCheck, Fits, Throw, Thrown
<1> QED BY <1>3, <1>4

\* strlen finds the one terminator that no other precedes.
LEMMA StrlenIs ==
  ASSUME NEW r, NEW width, NEW n \in Nat, n \in Terminators(r, width),
         \A k \in Terminators(r, width) : k \in Nat /\ n <= k
  PROVE  Strlen(r, width) = n
<1> DEFINE T == Terminators(r, width)
           P(k) == k \in T /\ \A j \in T : k <= j
<1>1. P(n)
  OBVIOUS
<1>2. Strlen(r, width) = CHOOSE k : P(k)
  BY DEF Strlen
<1>3. P(Strlen(r, width))
  BY <1>1, <1>2
<1>4. Strlen(r, width) \in Nat /\ n <= Strlen(r, width) /\ Strlen(r, width) <= n
  BY <1>3
<1> QED BY <1>4

\* Where the character k + 1 of n is read from, if the terminator is inside too.
LEMMA CharacterPlace ==
  ASSUME NEW p \in Nat, NEW l \in Nat, NEW n \in Nat, NEW k \in 0..n - 1, p + (n + 1) <= l
  PROVE  k + 1 \in 1..n /\ p + (k + 1) <= l /\ p + 1 + k = p + (k + 1)
OBVIOUS

\* The characters s, each in a byte of its own, are next in the buffer, as far as it goes.
CharsAt(r, s) ==
  \A k \in 1..Len(s) : r.ptr + k <= r.length => r.start[r.ptr + k] = ByteCell(s[k])

\* The n characters s, each in two bytes, are next in the buffer.
UnitsAt(r, s, n) == \A k \in 1..n : r.start[r.ptr + (2 * k - 1)] = <<"chr16", s[k], 1>>

WideText(s) == [str |-> s, wide |-> TRUE]

LEMMA ReadNarrowGood ==
  ASSUME NEW r, IsReader(r), NEW C, NEW s \in Seq(C), Len(s) # 0, CharsAt(r, s),
         r.ptr + (Len(s) + 1) <= r.length => r.start[r.ptr + (Len(s) + 1)] = Zero
  PROVE  LET res == ReadNarrow(r, Len(s) + 1) IN
         IF r.ptr + (Len(s) + 1) <= r.length
         THEN res.rd = Moved(r, Len(s) + 1) /\ res.val = [str |-> s, wide |-> FALSE]
         ELSE res.rd = Thrown(r)
<1> DEFINE n == Len(s)
<1>1. r.length \in Nat /\ r.ptr \in Nat /\ n \in Nat \ {0}
  BY DEF IsReader
<1>2. CASE r.ptr + (n + 1) <= r.length
  <2>1. \A k \in 0..n - 1 : CellAt(r, k * 1) = ByteCell(s[k + 1])
    <3> SUFFICES ASSUME NEW k \in 0..n - 1 PROVE CellAt(r, k * 1) = ByteCell(s[k + 1])
      OBVIOUS
    <3>1. k * 1 = k /\ k \in Nat
      BY <1>1
    <3>2. k + 1 \in 1..n /\ r.ptr + (k + 1) <= r.length /\ r.ptr + 1 + k = r.ptr + (k + 1)
      <4>1. r.length \in Nat /\ r.ptr \in Nat /\ n \in Nat
        BY <1>1
      <4> HIDE DEF n
      <4> QED BY SMTT(30), <1>2, <4>1, CharacterPlace
    <3> QED BY <3>1, <3>2 DEF CellAt, CharsAt
  <2>2. \A c : ~IsNul(ByteCell(c))
    BY DEF IsNul, ByteCell, Zero
  <2>3. r.ptr + 1 + n * 1 = r.ptr + (n + 1)
    BY <1>1
  <2>4. CellAt(r, n * 1) = Zero
    BY <1>2, <2>3 DEF CellAt
  <2>5. Terminators(r, 1) =
          {k \in 0..(r.length - r.ptr) \div 1 : r.ptr + k * 1 < r.length /\ IsNul(CellAt(r, k * 1))}
    BY DEF Terminators
  <2>6. (r.length - r.ptr) \div 1 = r.length - r.ptr
    BY <1>1
  <2>7. n \in Terminators(r, 1)
    <3>1. n \in 0..(r.length - r.ptr) \div 1 /\ r.ptr + n * 1 < r.length
      BY <1>1, <1>2, <2>6
    <3> QED BY <2>4, <2>5, <3>1 DEF IsNul
  <2>8. \A k \in Terminators(r, 1) : k \in Nat /\ n <= k
    <3> SUFFICES ASSUME NEW k \in Terminators(r, 1) PROVE k \in Nat /\ n <= k
      OBVIOUS
    <3>1. k \in Nat /\ IsNul(CellAt(r, k * 1))
      BY <1>1, <2>5, <2>6
    <3>2. k \notin 0..n - 1
      BY <2>1, <2>2, <3>1
    <3> QED BY <1>1, <3>1, <3>2
  <2>9. Strlen(r, 1) = n
    BY <1>1, <2>7, <2>8, StrlenIs
  <2>10. \A k \in 1..n : CellAt(r, (k - 1) * 1)[2] = s[k]
    <3> SUFFICES ASSUME NEW k \in 1..n PROVE CellAt(r, (k - 1) * 1)[2] = s[k]
      OBVIOUS
    <3>1. k - 1 \in 0..n - 1 /\ (k - 1) + 1 = k
      BY <1>1
    <3>2. CellAt(r, (k - 1) * 1) = ByteCell(s[k])
      BY <2>1, <3>1
    <3> QED BY <3>2 DEF ByteCell
  <2>11. Text(r, 1) = s
    <3>1. Text(r, 1) = [k \in 1..n |-> CellAt(r, (k - 1) * 1)[2]]
      BY <2>9 DEF Text
    <3>2. Text(r, 1) = [k \in 1..n |-> s[k]]
      BY <2>10, <3>1
    <3> QED BY <3>2
  <2>12. BoundsCheck(r, n + 1) /\ Terminators(r, 1) # {} /\ Strlen(r, 1) = (n + 1) - 1
    BY <1>1, <1>2, <2>7, <2>9 DEF BoundsCheck
  <2> DEFINE v == [str |-> s, wide |-> FALSE]
  <2>13. ReadNarrow(r, n + 1) = Skip(r, n + 1, v)
    BY <2>11, <2>12 DEF ReadNarrow
  <2> HIDE DEF v
  <2>14. ReadNarrow(r, n + 1).rd = Moved(r, n + 1) /\ ReadNarrow(r, n + 1).val = v
    BY <2>13 DEF Skip, Moved
  <2> QED BY <1>2, <2>14 DEF v
<1>3. CASE ~(r.ptr + (n + 1) <= r.length)
  <2>1. ReadNarrow(r, n + 1) = Throw(r)
    BY <1>1, <1>3 DEF ReadNarrow, BoundsCheck
  <2>2. ReadNarrow(r, n + 1).rd = Thrown(r)
    BY <2>1, ThrowIs
  <2> QED BY <1>3, <2>2
<1> QED BY <1>2, <1>3

LEMMA ReadWideGood ==
  ASSUME NEW r, IsReader(r), NEW C, NEW s \in Seq(C), NEW n \in Nat \ {0}, Len(s) = n,
         r.ptr + 2 * (n + 1) <= r.length,
         UnitsAt(r, s, n), r.start[r.ptr + (2 * n + 1)] = Zero
  PROVE  ReadWide(r, n + 1).rd = Moved(r, 2 * (n + 1)) /\ ReadWide(r, n + 1).val = WideText(s)
<1>1. r.length \in Nat /\ r.ptr \in Nat /\ n \in Nat \ {0} /\ r.ptr + 2 * (n + 1) <= r.length
  BY DEF IsReader
<1>2. \A k \in 0..n - 1 : CellAt(r, k * 2) = <<"chr16", s[k + 1], 1>>
  <2> SUFFICES ASSUME NEW k \in 0..n - 1 PROVE CellAt(r, k * 2) = <<"chr16", s[k + 1], 1>>
    OBVIOUS
  <2>1. k + 1 \in 1..n /\ r.ptr + 1 + k * 2 = r.ptr + (2 * (k + 1) - 1)
    BY <1>1
  <2> QED BY <2>1 DEF CellAt, UnitsAt
<1>3. \A c : ~IsNul(<<"chr16", c, 1>>)
  BY DEF IsNul, Zero
<1>4. r.ptr + 1 + n * 2 = r.ptr + (2 * n + 1)
  BY <1>1
<1>5. CellAt(r, n * 2) = Zero
  BY <1>4 DEF CellAt
<1>6. Terminators(r, 2) =
        {k \in 0..(r.length - r.ptr) \div 2 : r.ptr + k * 2 < r.length /\ IsNul(CellAt(r, k * 2))}
  BY DEF Terminators
<1>7. n \in Terminators(r, 2)
  <2>1. n \in 0..(r.length - r.ptr) \div 2 /\ r.ptr + n * 2 < r.length
    BY <1>1
  <2> QED BY <1>5, <1>6, <2>1 DEF IsNul
<1>8. \A k \in Terminators(r, 2) : k \in Nat /\ n <= k
  <2> SUFFICES ASSUME NEW k \in Terminators(r, 2) PROVE k \in Nat /\ n <= k
    OBVIOUS
  <2>1. k \in Nat /\ IsNul(CellAt(r, k * 2))
    BY <1>1, <1>6
  <2>2. k \notin 0..n - 1
    BY <1>2, <1>3, <2>1
  <2> QED BY <1>1, <2>1, <2>2
<1>9. Strlen(r, 2) = n
  BY <1>1, <1>7, <1>8, StrlenIs
<1>10. \A k \in 1..n : CellAt(r, (k - 1) * 2)[2] = s[k]
  <2> SUFFICES ASSUME NEW k \in 1..n PROVE CellAt(r, (k - 1) * 2)[2] = s[k]
    OBVIOUS
  <2>1. k - 1 \in 0..n - 1 /\ (k - 1) + 1 = k
    BY <1>1
  <2>2. CellAt(r, (k - 1) * 2) = <<"chr16", s[k], 1>>
    BY <1>2, <2>1
  <2> QED BY <2>2
<1>11. Text(r, 2) = s
  <2>1. Text(r, 2) = [k \in 1..n |-> CellAt(r, (k - 1) * 2)[2]]
    BY <1>9 DEF Text
  <2>2. Text(r, 2) = [k \in 1..n |-> s[k]]
    BY <1>10, <2>1
  <2> QED BY <2>2
<1>12. BoundsCheck(r, n + 1) /\ Terminators(r, 2) # {}
  BY <1>1, <1>7 DEF BoundsCheck
<1> DEFINE v == [str |-> s, wide |-> TRUE]
<1>13. ReadWide(r, n + 1) = Skip(r, 2 * (n + 1), v)
  BY <1>11, <1>12 DEF ReadWide
<1> HIDE DEF v
<1>14. ReadWide(r, n + 1).rd = Moved(r, 2 * (n + 1)) /\ ReadWide(r, n + 1).val = v
  BY <1>13 DEF Skip, Moved
<1> QED BY <1>14 DEF v, WideText

\* The reader refused the call: it has not left the buffer.
Refused(r, q) ==
  /\ IsReader(q) /\ q.thrown
  /\ q.start = r.start /\ q.length = r.length /\ q.ptr <= q.length

LEMMA MovedTwice ==
  ASSUME NEW r, IsReader(r), NEW m \in Nat, NEW n \in Nat
  PROVE  Moved(Moved(r, m), n) = Moved(r, m + n)
<1>1. r.ptr + m + n = r.ptr + (m + n)
  BY DEF IsReader
<1> QED BY <1>1, MovedReader DEF Moved, IsReader

LEMMA SkipIs == \A r, n, v : Skip(r, n, v).rd = Moved(r, n) /\ Skip(r, n, v).val = v
BY DEF Skip, Moved

\* Where a byte of UTF-16 text is, behind a length field of w bytes.
LEMMA UnitPlace ==
  ASSUME NEW p \in Nat, NEW l \in Nat, NEW n \in Nat, NEW w \in Nat, NEW u \in 1..2 * n + 1,
         NEW len, len = w + 2 * (n + 1), p + (w + 2 * (n + 1)) <= l
  PROVE  w + u \in 1..len /\ (p + w) + u = p + (w + u) /\ p + (w + u) <= l
OBVIOUS

LEMMA ReadStringGood ==
  ASSUME NEW r, IsReader(r), ~r.thrown, r.ptr <= r.length, NEW s, IsText(s),
         At(r, EncString(s))
  PROVE  LET res == ReadUnicodeString(r) IN
         /\ Fits(r, EncString(s)) => /\ res.rd = Moved(r, Len(EncString(s)))
                                     /\ res.val = ReadBack(s)
         /\ ~Fits(r, EncString(s)) /\ (s.wide => s.str = << >>) => Refused(r, res.rd)
<1> DEFINE C == {s.str[i] : i \in DOMAIN s.str}
           n == Len(s.str)
           q == Moved(r, IntSize)
           res == ReadUnicodeString(r)
           code == EncString(s)
<1>1. s.str \in Seq(C) /\ s.wide \in BOOLEAN /\ s = [str |-> s.str, wide |-> s.wide]
  BY DEF IsText
<1> HIDE DEF C
<1>2. /\ r.length \in Nat /\ r.ptr \in Nat /\ IntSize \in Nat \ {0} /\ n \in Nat
      /\ r.ptr <= r.length
  BY <1>1, SizeAssumption DEF IsReader
<1> HIDE DEF n
<1>3. /\ IsReader(q) /\ q.start = r.start /\ q.length = r.length /\ q.ptr = r.ptr + IntSize
      /\ ~q.thrown /\ IsReader(Thrown(r)) /\ Thrown(r).thrown /\ Thrown(r).start = r.start
      /\ Thrown(r).length = r.length /\ Thrown(r).ptr = r.ptr
  BY <1>2, MovedReader
<1>9. q.ptr = r.ptr + IntSize /\ q.length = r.length /\ q.start = r.start
  BY <1>3
<1>4. Refused(r, Thrown(r))
  BY <1>2, <1>3 DEF Refused
<1> HIDE DEF q, res, code
\* The length field is there, or the call is refused at once.
<1>5. ASSUME NEW v, Len(code) >= IntSize, Len(code) \in Nat,
             \A i \in 1..IntSize : code[i] = <<"int", v, i>>
      PROVE  IF r.ptr + IntSize <= r.length
             THEN ReadInt(r).rd = q /\ ReadInt(r).val = v
             ELSE res.rd = Thrown(r) /\ ~Fits(r, code)
  <2>1. \A i \in 1..IntSize : r.ptr + i <= r.length => r.start[r.ptr + i] = <<"int", v, i>>
    <3>1. \A i \in 1..IntSize : i \in 1..Len(code)
      BY <1>2, <1>5
    <3> QED BY <1>5, <3>1 DEF At, code
  <2>2. IF r.ptr + IntSize <= r.length
        THEN ReadInt(r).rd = q /\ ReadInt(r).val = v
        ELSE ReadInt(r).rd = Thrown(r)
    BY <2>1, ReadIntGood DEF q
  <2>3. ~(r.ptr + IntSize <= r.length) => ~Fits(r, code)
    BY <1>2, <1>5 DEF Fits
  <2>4. ReadInt(r).rd = Thrown(r) => res = ReadInt(r)
    BY <1>3 DEF ReadUnicodeString, res
  <2> QED BY <2>2, <2>3, <2>4
<1>6. CASE s.str = << >>
  <2>1. code = IntCells(0) /\ Len(code) = IntSize /\ \A i \in 1..IntSize : code[i] = <<"int", 0, i>>
    BY <1>6, IntCellsAre DEF code, EncString
  <2>4. Len(code) >= IntSize /\ Len(code) \in Nat
    BY <1>2, <2>1
  <2>2. CASE r.ptr + IntSize <= r.length
    <3>1. ReadInt(r).rd = q /\ ReadInt(r).val = 0
      BY <1>5, <2>1, <2>2, <2>4
    <3> DEFINE e == [str |-> << >>, wide |-> FALSE]
    <3>2. res = Skip(q, 0, e)
      BY <1>3, <3>1 DEF ReadUnicodeString, res
    <3>3. e = ReadBack(s)
      BY <1>1, <1>6 DEF ReadBack
    <3> HIDE DEF e
    <3>4. res.rd = Moved(q, 0) /\ res.val = e
      BY <3>2, SkipIs
    <3>5. Moved(q, 0) = Moved(r, IntSize)
      <4>1. Moved(q, 0) = Moved(r, IntSize + 0) /\ IntSize + 0 = IntSize
        BY <1>2, MovedTwice DEF q
      <4> QED BY <4>1
    <3>6. Fits(r, code)
      BY <2>1, <2>2 DEF Fits
    <3> QED BY <2>1, <3>3, <3>4, <3>5, <3>6 DEF res, code
  <2>3. CASE ~(r.ptr + IntSize <= r.length)
    <3>1. res.rd = Thrown(r) /\ ~Fits(r, code)
      BY <1>5, <2>1, <2>3, <2>4
    <3> QED BY <1>4, <3>1 DEF res, code
  <2> QED BY <2>2, <2>3
<1>7. CASE s.str # << >> /\ ~s.wide
  <2>1. /\ n # 0
        /\ Len(code) = IntSize + (n + 1)
        /\ \A i \in 1..IntSize : code[i] = <<"int", n + 1, i>>
        /\ \A k \in 1..n : code[IntSize + k] = ByteCell(s.str[k])
        /\ code[IntSize + (n + 1)] = Zero
    BY <1>7, NarrowStringIs DEF code, n
  <2>5. Len(code) = IntSize + (n + 1)
    BY <2>1
  <2>4. Len(code) >= IntSize /\ Len(code) \in Nat
    BY <1>2, <2>1
  <2>2. CASE r.ptr + IntSize <= r.length
    <3>1. ReadInt(r).rd = q /\ ReadInt(r).val = n + 1
      BY <1>5, <2>1, <2>2, <2>4
    <3>2. res = ReadNarrow(q, n + 1)
      BY <1>2, <1>3, <3>1 DEF ReadUnicodeString, res
    <3>3. CharsAt(q, s.str)
      <4> SUFFICES ASSUME NEW k \in 1..n, q.ptr + k <= q.length
                   PROVE  q.start[q.ptr + k] = ByteCell(s.str[k])
        BY DEF CharsAt, n
      <4>1. IntSize + k \in 1..Len(code) /\ q.ptr + k = r.ptr + (IntSize + k)
        BY <1>2, <1>9, <2>5
      <4>2. r.start[r.ptr + (IntSize + k)] = code[IntSize + k]
        BY <1>3, <4>1 DEF At, code
      <4> QED BY <1>3, <2>1, <4>1, <4>2
    <3>4. q.ptr + (n + 1) <= q.length => q.start[q.ptr + (n + 1)] = Zero
      <4> SUFFICES ASSUME q.ptr + (n + 1) <= q.length PROVE q.start[q.ptr + (n + 1)] = Zero
        OBVIOUS
      <4>1. IntSize + (n + 1) \in 1..Len(code) /\ q.ptr + (n + 1) = r.ptr + (IntSize + (n + 1))
        BY <1>2, <1>9, <2>5
      <4>2. r.start[r.ptr + (IntSize + (n + 1))] = code[IntSize + (n + 1)]
        BY <1>3, <4>1 DEF At, code
      <4> QED BY <1>3, <2>1, <4>1, <4>2
    <3> DEFINE e == [str |-> s.str, wide |-> FALSE]
    <3>5. IF q.ptr + (n + 1) <= q.length
          THEN res.rd = Moved(q, n + 1) /\ res.val = e
          ELSE res.rd = Thrown(q)
      BY <1>1, <1>3, <2>1, <3>2, <3>3, <3>4, ReadNarrowGood DEF n
    <3>6. e = ReadBack(s)
      BY <1>1, <1>7 DEF ReadBack
    <3> HIDE DEF e
    <3>7. Moved(q, n + 1) = Moved(r, IntSize + (n + 1))
      <4>1. n + 1 \in Nat
        BY <1>2
      <4> QED BY <1>2, <4>1, MovedTwice DEF q
    <3>8. Fits(r, code) <=> q.ptr + (n + 1) <= q.length
      BY <1>2, <1>3, <2>1 DEF Fits
    <3>9. Refused(r, Thrown(q))
      BY <1>2, <1>3, <2>2, MovedReader DEF Refused
    <3> QED BY <2>1, <3>5, <3>6, <3>7, <3>8, <3>9 DEF res, code
  <2>3. CASE ~(r.ptr + IntSize <= r.length)
    <3>1. res.rd = Thrown(r) /\ ~Fits(r, code)
      BY <1>5, <2>1, <2>3, <2>4
    <3> QED BY <1>4, <3>1 DEF res, code
  <2> QED BY <2>2, <2>3
<1>8. CASE s.str # << >> /\ s.wide
  <2>1. /\ n # 0
        /\ Len(code) = IntSize + 2 * (n + 1)
        /\ \A i \in 1..IntSize : code[i] = <<"int", -(n + 1), i>>
        /\ \A k \in 1..n : code[IntSize + (2 * k - 1)] = <<"chr16", s.str[k], 1>>
        /\ code[IntSize + (2 * n + 1)] = Zero
    BY <1>8, WideStringIs DEF code, n
  <2>5. Len(code) = IntSize + 2 * (n + 1)
    BY <2>1
  <2>4. Len(code) >= IntSize /\ Len(code) \in Nat
    BY <1>2, <2>1
  <2>2. CASE Fits(r, code)
    <3>0. r.ptr + (IntSize + 2 * (n + 1)) <= r.length
      BY <2>2, <2>5 DEF Fits
    <3>1. r.ptr + IntSize <= r.length /\ q.ptr + 2 * (n + 1) <= q.length
      BY <1>2, <1>9, <3>0
    <3>2. ReadInt(r).rd = q /\ ReadInt(r).val = -(n + 1)
      BY <1>5, <2>1, <2>4, <3>1
    <3>3. -(n + 1) < 0 /\ -(n + 1) # 0 /\ -(-(n + 1)) = n + 1
      BY <1>2
    <3>4. res = ReadWide(q, n + 1)
      BY <1>3, <3>2, <3>3 DEF ReadUnicodeString, res
    <3>5. UnitsAt(q, s.str, n)
      <4> SUFFICES ASSUME NEW k \in 1..n PROVE q.start[q.ptr + (2 * k - 1)] = <<"chr16", s.str[k], 1>>
        BY DEF UnitsAt
      <4>1. /\ IntSize + (2 * k - 1) \in 1..Len(code)
            /\ q.ptr + (2 * k - 1) = r.ptr + (IntSize + (2 * k - 1))
            /\ r.ptr + (IntSize + (2 * k - 1)) <= r.length
        <5>1. r.ptr \in Nat /\ r.length \in Nat /\ n \in Nat /\ q.ptr = r.ptr + IntSize
          BY <1>2, <1>9
        <5>2. 2 * k - 1 \in 1..2 * n + 1 /\ IntSize \in Nat
          BY <1>2, <5>1
        <5> QED BY <2>5, <3>0, <5>1, <5>2, UnitPlace
      <4>2. r.start[r.ptr + (IntSize + (2 * k - 1))] = code[IntSize + (2 * k - 1)]
        BY <4>1 DEF At, code
      <4> QED BY <1>3, <2>1, <4>1, <4>2
    <3>6. q.start[q.ptr + (2 * n + 1)] = Zero
      <4>1. /\ IntSize + (2 * n + 1) \in 1..Len(code)
            /\ q.ptr + (2 * n + 1) = r.ptr + (IntSize + (2 * n + 1))
            /\ r.ptr + (IntSize + (2 * n + 1)) <= r.length
        <5>1. r.ptr \in Nat /\ r.length \in Nat /\ n \in Nat /\ q.ptr = r.ptr + IntSize
          BY <1>2, <1>9
        <5>2. 2 * n + 1 \in 1..2 * n + 1 /\ IntSize \in Nat
          BY <1>2, <5>1
        <5> QED BY <2>5, <3>0, <5>1, <5>2, UnitPlace
      <4>2. r.start[r.ptr + (IntSize + (2 * n + 1))] = code[IntSize + (2 * n + 1)]
        BY <4>1 DEF At, code
      <4> QED BY <1>3, <2>1, <4>1, <4>2
    <3> DEFINE e == [str |-> s.str, wide |-> TRUE]
    <3>7. res.rd = Moved(q, 2 * (n + 1)) /\ res.val = e
      <4>1. Len(s.str) = n /\ n \in Nat \ {0}
        BY <1>2, <2>1 DEF n
      <4>2. ReadWide(q, n + 1).rd = Moved(q, 2 * (n + 1)) /\ ReadWide(q, n + 1).val = e
        <5>1. IsReader(q) /\ s.str \in Seq(C) /\ q.ptr + 2 * (n + 1) <= q.length
          BY <1>1, <1>3, <3>1
        <5> QED BY <5>1, <3>5, <3>6, <4>1, ReadWideGood DEF e, WideText
      <4> QED BY <3>4, <4>2
    <3>8. e = ReadBack(s)
      BY <1>1, <1>8 DEF ReadBack
    <3> HIDE DEF e
    <3>9. Moved(q, 2 * (n + 1)) = Moved(r, IntSize + 2 * (n + 1))
      <4>1. 2 * (n + 1) \in Nat
        BY <1>2
      <4> QED BY <1>2, <4>1, MovedTwice DEF q
    <3> QED BY <2>1, <2>2, <3>7, <3>8, <3>9 DEF res, code
  <2> QED BY <1>8, <2>2 DEF res, code
<1> QED BY <1>1, <1>6, <1>7, <1>8

\* Whatever is read, it is read from the same buffer.
Shape(r) == r = [start |-> r.start, length |-> r.length, ptr |-> r.ptr,
                 thrown |-> r.thrown, noise |-> r.noise]

LEMMA CallKeeps ==
  ASSUME NEW r, Shape(r)
  PROVE  /\ \A n, v : Shape(Skip(r, n, v).rd) /\ Skip(r, n, v).rd.length = r.length
         /\ Shape(Throw(r).rd) /\ Throw(r).rd.length = r.length
<1>0. r = [start |-> r.start, length |-> r.length, ptr |-> r.ptr,
           thrown |-> r.thrown, noise |-> r.noise]
  BY DEF Shape
<1>1. ASSUME NEW n, NEW v PROVE Shape(Skip(r, n, v).rd) /\ Skip(r, n, v).rd.length = r.length
  <2>1. Skip(r, n, v).rd = [r EXCEPT !.ptr = r.ptr + n]
    BY DEF Skip
  <2>2. Skip(r, n, v).rd = [start |-> r.start, length |-> r.length, ptr |-> r.ptr + n,
                            thrown |-> r.thrown, noise |-> r.noise]
    BY <1>0, <2>1
  <2> QED BY <2>2 DEF Shape
<1>2. Shape(Throw(r).rd) /\ Throw(r).rd.length = r.length
  <2> DEFINE t == TRUE
  <2>1. Throw(r).rd = [r EXCEPT !.thrown = t]
    BY Zenon DEF Throw
  <2> HIDE DEF t
  <2>2. Throw(r).rd = [start |-> r.start, length |-> r.length, ptr |-> r.ptr,
                       thrown |-> t, noise |-> r.noise]
    BY <1>0, <2>1
  <2> QED BY <2>2 DEF Shape
<1> QED BY <1>1, <1>2
=============================================================================
