----------------------------- MODULE Lzo_proofs -----------------------------
(***************************************************************************)
(* Proofs about Lzo for chunks of every length, streams of every content   *)
(* and every choice of the limits.                                         *)
(*                                                                         *)
(* Neither the compressor nor the decompressor touches a byte outside its  *)
(* buffers (Inv).  What the compressor writes is a compressed form of the  *)
(* chunk: Encodes says, with no decompressor in it, that from the first    *)
(* place of the stream every place leads to the next or is the end         *)
(* (Progress).  And the decompressor stands only at places from which what *)
(* was written says the rest of the chunk (Following), so it restores the  *)
(* chunk, and accepts nothing else.                                        *)
(***************************************************************************)
EXTENDS LzoFormat, SequenceTheorems, WellFoundedInduction, TLAPS

Octet == 0..255

Compressing   == {"block", "literal", "next"}
Decompressing == {"first", "literals", "trailing", "after", "match", "done"}

-----------------------------------------------------------------------------
(* Least elements *)

\* Every set of natural numbers that is not empty has its least element.
LEMMA LeastElement ==
  ASSUME NEW S \in SUBSET Nat, S # {}
  PROVE  Min(S) \in S /\ \A k \in S : Min(S) <= k
<1> DEFINE R == {ss \in Nat \X Nat : ss[1] < ss[2]}
<1>1. IsWellFoundedOn(R, Nat)
  BY NatLessThanWellFounded DEF OpToRel
<1>2. PICK x \in S : \A y \in S : ~ (<<y, x>> \in R)
  <2> HIDE DEF R
  <2> QED BY <1>1, WFMin
<1>3. \A y \in S : x <= y
  <2> SUFFICES ASSUME NEW y \in S PROVE x <= y
    OBVIOUS
  <2>1. x \in Nat /\ y \in Nat
    OBVIOUS
  <2>2. ~ (y < x)
    BY <1>2, <2>1
  <2> QED BY <2>1, <2>2
<1> QED BY <1>3 DEF Min

-----------------------------------------------------------------------------
(* Sequences of bytes *)

LEMMA OctetIsNat == \A b \in Octet : b \in Nat /\ b <= 255
BY DEF Octet

LEMMA Element ==
  ASSUME NEW s \in Seq(Octet), NEW k \in 1..Len(s)
  PROVE  s[k] \in Octet
OBVIOUS

\* A sequence is made longer by another.
LEMMA Joined ==
  ASSUME NEW s \in Seq(Octet), NEW u \in Seq(Octet)
  PROVE  /\ s \o u \in Seq(Octet) /\ Len(s \o u) = Len(s) + Len(u)
         /\ \A k \in 1..Len(s) : (s \o u)[k] = s[k]
         /\ \A k \in 1..Len(u) : (s \o u)[Len(s) + k] = u[k]
<1> HIDE DEF Octet
<1>1. Len(s) \in Nat /\ Len(u) \in Nat
  OBVIOUS
<1>2. /\ s \o u \in Seq(Octet) /\ Len(s \o u) = Len(s) + Len(u)
      /\ \A i \in 1 .. Len(s) + Len(u) : (s \o u)[i] = IF i <= Len(s) THEN s[i] ELSE u[i - Len(s)]
  BY ConcatProperties
<1> QED BY <1>1, <1>2

\* Literals are bytes of the chunk.
LEMMA Part ==
  ASSUME NEW s \in Seq(Octet), NEW m \in Nat, NEW n \in Nat, m <= n, n <= Len(s)
  PROVE  SubSeq(s, m + 1, n) \in Seq(Octet) /\ Len(SubSeq(s, m + 1, n)) = n - m
<1> HIDE DEF Octet
<1>1. m + 1 \in Int /\ n \in Int /\ \A i \in m + 1 .. n : s[i] \in Octet
  OBVIOUS
<1>2. /\ SubSeq(s, m + 1, n) \in Seq(Octet)
      /\ Len(SubSeq(s, m + 1, n)) = IF m + 1 <= n THEN n - (m + 1) + 1 ELSE 0
  BY <1>1, SubSeqProperties
<1> QED BY <1>2

LEMMA ZerosGood ==
  ASSUME NEW n \in Nat
  PROVE  Zeros(n) \in Seq(Octet) /\ Len(Zeros(n)) = n
BY DEF Zeros, Octet

\* A count over its field: its bytes and their number.
LEMMA LongCountGood ==
  ASSUME NEW n \in Nat \ {0}
  PROVE  LongCount(n) \in Seq(Octet) /\ Len(LongCount(n)) = (n - 1) \div 255 + 1
<1> DEFINE z == (n - 1) \div 255
<1>1. z \in Nat /\ n - 255 * z \in Octet
  BY DEF Octet
<1>2. LongCount(n) = Zeros(z) \o <<n - 255 * z>>
  BY DEF LongCount
<1> HIDE DEF z
<1> DEFINE last == <<n - 255 * z>>
<1>3. last \in Seq(Octet) /\ Len(last) = 1
  BY <1>1
<1>4. LongCount(n) = Zeros(z) \o last
  BY <1>2
<1> HIDE DEF last
<1>5. Zeros(z) \o last \in Seq(Octet) /\ Len(Zeros(z) \o last) = z + 1
  BY SMTT(30), <1>1, <1>3, ZerosGood, Joined
<1> QED BY <1>4, <1>5 DEF z

-----------------------------------------------------------------------------
(* What is emitted, and how much of it *)

\* The bytes that n literals take, and at most those of a match of length n.
RunSize(n)   == IF n <= 3 THEN n ELSE IF n <= 18 THEN n + 1 ELSE n + 2 + (n - 19) \div 255
MatchSize(n) == IF n <= 9 THEN 3 ELSE 4 + (n - 10) \div 255

\* or-ing the count of trailing literals into a byte gives a byte.
LEMMA OrGood ==
  ASSUME NEW x \in Octet, NEW n \in 1..3
  PROVE  Or(x, n) \in Octet /\ (x % 4 = 0 => Or(x, n) = x + n)
<1> DEFINE a == x \div 4
           b == (x \div 2) % 2
           c == x % 2
<1>1. a \in 0..63 /\ b \in 0..1 /\ c \in 0..1 /\ x = 4 * a + 2 * b + c
  BY DEF Octet
<1>2. n \div 2 \in 0..1 /\ n % 2 \in 0..1 /\ n = 2 * (n \div 2) + (n % 2)
  OBVIOUS
<1>3. Or(x, n) = 4 * a + 2 * Greatest(b, n \div 2) + Greatest(c, n % 2)
  BY DEF Or
<1> HIDE DEF a, b, c
<1>4. Greatest(b, n \div 2) \in 0..1 /\ Greatest(c, n % 2) \in 0..1
  BY <1>1, <1>2 DEF Greatest
<1>5. Or(x, n) \in Octet
  BY <1>1, <1>3, <1>4 DEF Octet
<1>6. ASSUME x % 4 = 0 PROVE Or(x, n) = x + n
  <2>1. b = 0 /\ c = 0
    BY <1>1, <1>6
  <2>2. Greatest(b, n \div 2) = n \div 2 /\ Greatest(c, n % 2) = n % 2
    BY <1>2, <2>1 DEF Greatest
  <2> QED BY <1>1, <1>2, <1>3, <2>1, <2>2
<1> QED BY <1>5, <1>6

LEMMA OrCountGood ==
  ASSUME NEW op \in Seq(Octet), NEW n \in 1..3
  PROVE  OrCount(op, n) \in Seq(Octet) /\ Len(OrCount(op, n)) = Len(op)
<1>1. \A k \in 1..Len(op) : Or(op[k], n) \in Octet
  BY OrGood
<1> HIDE DEF Octet
<1>2. OrCount(op, n) = [k \in 1..Len(op) |-> IF k = Len(op) - 1 THEN Or(op[k], n) ELSE op[k]]
  BY DEF OrCount
<1> QED BY <1>1, <1>2

LEMMA RunHeadGood ==
  ASSUME NEW n \in Nat, n >= 4
  PROVE  RunHead(n) \in Seq(Octet) /\ Len(RunHead(n)) = RunSize(n) - n
<1>1. CASE n <= 18
  <2>1. RunHead(n) = <<n - 3>> /\ n - 3 \in Octet
    BY <1>1 DEF RunHead, Octet
  <2> QED BY <1>1, <2>1 DEF RunSize
<1>2. CASE n > 18
  <2> DEFINE zero == <<0>>
  <2>1. zero \in Seq(Octet) /\ Len(zero) = 1
    BY DEF Octet
  <2>2. RunHead(n) = zero \o LongCount(n - 18)
    BY <1>2 DEF RunHead
  <2> DEFINE long == LongCount(n - 18)
  <2>3. long \in Seq(Octet) /\ Len(long) = (n - 18 - 1) \div 255 + 1
    BY <1>2, LongCountGood
  <2>4. RunHead(n) = zero \o long
    BY <2>2
  <2> HIDE DEF zero, long
  <2>5. zero \o long \in Seq(Octet) /\ Len(zero \o long) = Len(zero) + Len(long)
    <3>1. zero \in Seq(Octet) /\ long \in Seq(Octet)
      BY <2>1, <2>3
    <3> QED BY <3>1, Joined
  <2>6. n - 18 - 1 = n - 19
    OBVIOUS
  <2>7. Len(RunHead(n)) = 2 + (n - 19) \div 255
    BY <2>1, <2>3, <2>4, <2>5, <2>6
  <2>8. RunSize(n) - n = 2 + (n - 19) \div 255
    BY <1>2 DEF RunSize
  <2> QED BY <2>4, <2>5, <2>7, <2>8
<1> QED BY <1>1, <1>2

LEMMA RunGood ==
  ASSUME NEW op \in Seq(Octet), NEW lits \in Seq(Octet)
  PROVE  Run(op, lits) \in Seq(Octet) /\ Len(Run(op, lits)) = Len(op) + RunSize(Len(lits))
<1> DEFINE n == Len(lits)
<1>1. n \in Nat /\ n = Len(lits)
  OBVIOUS
<1> HIDE DEF n
<1>2. CASE n = 0
  BY <1>1, <1>2 DEF Run, RunSize
<1>3. CASE n \in 1..3
  <2>1. OrCount(op, n) \in Seq(Octet) /\ Len(OrCount(op, n)) = Len(op)
    BY <1>3, OrCountGood
  <2>2. Run(op, lits) = OrCount(op, n) \o lits
    BY <1>1, <1>3 DEF Run
  <2>3. Run(op, lits) \in Seq(Octet) /\ Len(Run(op, lits)) = Len(op) + n
    BY <1>1, <2>1, <2>2, Joined
  <2>4. RunSize(n) = n
    BY <1>3 DEF RunSize
  <2> QED BY <1>1, <2>3, <2>4
<1>4. CASE n \notin 0..3
  <2>1. RunHead(n) \in Seq(Octet) /\ Len(RunHead(n)) = RunSize(n) - n
    BY <1>1, <1>4, RunHeadGood
  <2>2. Run(op, lits) = (op \o RunHead(n)) \o lits
    BY SMTT(30), <1>1, <1>4 DEF Run
  <2>3. op \o RunHead(n) \in Seq(Octet) /\ Len(op \o RunHead(n)) = Len(op) + (RunSize(n) - n)
    <3> DEFINE head == RunHead(n)
    <3>1. head \in Seq(Octet) /\ Len(head) = RunSize(n) - n
      BY <2>1
    <3> HIDE DEF head
    <3>2. op \o head \in Seq(Octet) /\ Len(op \o head) = Len(op) + Len(head)
      BY <3>1, Joined
    <3> QED BY <3>1, <3>2 DEF head
  <2>4. Run(op, lits) \in Seq(Octet) /\ Len(Run(op, lits)) = Len(op) + (RunSize(n) - n) + n
    BY <1>1, <2>2, <2>3, Joined
  <2>5. RunSize(n) \in Nat
    BY <1>1 DEF RunSize
  <2> QED BY <1>1, <2>4, <2>5
<1> QED BY <1>1, <1>2, <1>3, <1>4

\* The end of what the copy of the literals stores.
LEMMA RunReachBound ==
  ASSUME NEW op \in Seq(Octet), NEW n \in Nat
  PROVE  RunReach(op, n) \in Nat /\ RunReach(op, n) <= Len(op) + n + 17 + n \div 16
<1>1. CASE n <= 16
  <2>1. n = 0 \/ n \in 1..3 \/ n \in 4..16
    BY <1>1
  <2>2. RunReach(op, n) \in {Len(op), Len(op) + 4, Len(op) + 1 + 16}
    BY <2>1 DEF RunReach
  <2>3. Len(op) \in Nat /\ n \div 16 \in Nat
    OBVIOUS
  <2> QED BY <2>2, <2>3
<1>2. CASE n > 16
  <2>0. n # 0 /\ n \notin 1..3 /\ n \notin 4..16
    BY <1>2
  <2>1. RunReach(op, n) = Len(op) + Len(RunHead(n)) + n
    BY <2>0, Zenon DEF RunReach
  <2>2. Len(RunHead(n)) = RunSize(n) - n
    BY <1>2, RunHeadGood
  <2>3. Len(op) \in Nat
    OBVIOUS
  <2>4. RunSize(n) - n \in Nat /\ RunSize(n) - n <= 17 + n \div 16
    BY <1>2 DEF RunSize
  <2> HIDE DEF Octet
  <2> QED BY <2>1, <2>2, <2>3, <2>4
<1> QED BY <1>1, <1>2

\* The first bytes of a match whose length has a field of its own.
LEMMA MatchHeadGood ==
  ASSUME NEW marker \in {16, 24, 32}, NEW field \in {7, 31}, NEW n \in Nat, n >= 3,
         marker = 32 \/ field = 7
  PROVE  /\ MatchHead(marker, field, n) \in Seq(Octet)
         /\ Len(MatchHead(marker, field, n)) = IF n <= field + 2 THEN 1 ELSE 2 + (n - field - 3) \div 255
<1>1. CASE n <= field + 2
  <2>1. MatchHead(marker, field, n) = <<marker + (n - 2)>> /\ marker + (n - 2) \in Octet
    BY <1>1 DEF MatchHead, Octet
  <2> QED BY <1>1, <2>1
<1>2. CASE n > field + 2
  <2> DEFINE one  == <<marker>>
             long == LongCount(n - field - 2)
  <2>1. one \in Seq(Octet) /\ Len(one) = 1
    BY DEF Octet
  <2>2. MatchHead(marker, field, n) = one \o long
    BY <1>2 DEF MatchHead
  <2>3. n - field - 2 \in Nat \ {0}
    BY <1>2
  <2>4. long \in Seq(Octet) /\ Len(long) = (n - field - 2 - 1) \div 255 + 1
    BY <2>3, LongCountGood
  <2> HIDE DEF one, long
  <2>5. one \o long \in Seq(Octet) /\ Len(one \o long) = Len(one) + Len(long)
    <3>1. one \in Seq(Octet) /\ long \in Seq(Octet)
      BY <2>1, <2>4
    <3> QED BY <3>1, Joined
  <2>6. n - field - 2 - 1 = n - field - 3
    OBVIOUS
  <2>7. Len(one \o long) = 2 + (n - field - 3) \div 255
    BY <2>1, <2>4, <2>5, <2>6
  <2> QED BY <1>2, <2>2, <2>5, <2>7
<1> QED BY <1>1, <1>2

LEMMA Offset14Good ==
  ASSUME NEW o \in Nat
  PROVE  Offset14(o) \in Seq(Octet) /\ Len(Offset14(o)) = 2
<1>1. (o * 4) % 256 \in Octet /\ (o \div 64) % 256 \in Octet
  BY DEF Octet
<1> QED BY <1>1 DEF Offset14

LEMMA Limits ==
  /\ M2Max \in Nat \ {0} /\ M3Max \in Nat /\ M2Max <= M3Max /\ M2Max <= 2048 /\ M3Max <= 16384
  /\ Hi \in Nat \ {0} /\ Hi <= 16384 /\ Block \in Nat /\ Block <= M3Max + 2 * Hi /\ Slots \in Nat \ {0}
<1>1. OffsetFields
  BY LimitAssumption, Zenon DEF LimitAssumption
<1>2. Block \in Nat /\ Block <= M3Max + 2 * Hi /\ Slots \in Nat \ {0}
  BY LimitAssumption, Zenon DEF LimitAssumption
<1>3. M2Max \in Nat \ {0} /\ M2Max <= 2048
  BY ONLY <1>1 DEF OffsetFields
<1>4. M3Max \in Nat /\ M2Max <= M3Max /\ M3Max <= 16384
  BY ONLY <1>1, <1>3 DEF OffsetFields
<1>5. Hi \in Nat \ {0} /\ Hi <= 16384
  BY ONLY <1>1 DEF OffsetFields
<1> QED BY ONLY <1>2, <1>3, <1>4, <1>5

\* What a match adds to the output.
MatchCode(n, off) ==
  IF n <= 8 /\ off <= M2Max
  THEN LET o == off - 1 IN <<(n - 1) * 32 + (o % 8) * 4, (o \div 8) % 256>>
  ELSE IF off <= M3Max
  THEN MatchHead(32, 31, n) \o Offset14(off - 1)
  ELSE LET o == off - M3Max IN MatchHead(16 + 8 * ((o \div Hi) % 2), 7, n) \o Offset14(o % Hi)

LEMMA MatchIsCode ==
  ASSUME NEW op, NEW n, NEW off
  PROVE  Match(op, n, off) = op \o MatchCode(n, off)
BY Zenon DEF Match, MatchCode

LEMMA MatchCodeGood ==
  ASSUME NEW n \in Nat, n >= 4, NEW off \in Nat \ {0}
  PROVE  /\ MatchCode(n, off) \in Seq(Octet)
         /\ Len(MatchCode(n, off)) \in 2..MatchSize(n)
<1>1. CASE n <= 8 /\ off <= M2Max
  <2> DEFINE o == off - 1
  <2>1. (n - 1) * 32 + (o % 8) * 4 \in Octet /\ (o \div 8) % 256 \in Octet
    BY <1>1 DEF Octet
  <2>2. MatchCode(n, off) = <<(n - 1) * 32 + (o % 8) * 4, (o \div 8) % 256>>
    BY <1>1 DEF MatchCode
  <2>3. MatchSize(n) = 3
    BY <1>1 DEF MatchSize
  <2> HIDE DEF o
  <2> QED BY <2>1, <2>2, <2>3
<1>2. CASE ~ (n <= 8 /\ off <= M2Max) /\ off <= M3Max
  <2> DEFINE head == MatchHead(32, 31, n)
             tail == Offset14(off - 1)
  <2>1. head \in Seq(Octet) /\ Len(head) = IF n <= 33 THEN 1 ELSE 2 + (n - 34) \div 255
    <3>1. 31 + 2 = 33 /\ n - 31 - 3 = n - 34
      OBVIOUS
    <3> QED BY <3>1, MatchHeadGood
  <2>2. tail \in Seq(Octet) /\ Len(tail) = 2
    BY Offset14Good
  <2>3. MatchCode(n, off) = head \o tail
    BY <1>2 DEF MatchCode
  <2> HIDE DEF head, tail
  <2>4. Len(head) + 2 \in 2..MatchSize(n)
    <3>1. n <= 33 => MatchSize(n) \in Nat /\ MatchSize(n) >= 3
      BY DEF MatchSize
    <3>2. n > 33 => /\ MatchSize(n) = 4 + (n - 10) \div 255
                    /\ (n - 34) \div 255 \in Nat /\ (n - 34) \div 255 <= (n - 10) \div 255
      BY DEF MatchSize
    <3> QED BY <2>1, <3>1, <3>2
  <2>5. head \o tail \in Seq(Octet) /\ Len(head \o tail) = Len(head) + Len(tail)
    BY ZenonT(30), <2>1, <2>2, Joined
  <2> QED BY <2>2, <2>3, <2>4, <2>5
<1>3. CASE off > M3Max
  <2> DEFINE o == off - M3Max
             m == 16 + 8 * ((o \div Hi) % 2)
  <2>0. o \in Nat \ {0} /\ Hi \in Nat \ {0} /\ M2Max <= M3Max /\ M2Max \in Nat /\ M3Max \in Nat
    BY <1>3, Limits
  <2>1. o \div Hi \in Nat /\ o % Hi \in Nat
    BY <2>0
  <2>2. m \in {16, 24}
    BY <2>1
  <2> DEFINE head == MatchHead(m, 7, n)
             tail == Offset14(o % Hi)
  <2>3. MatchCode(n, off) = head \o tail
    BY <1>3, <2>0 DEF MatchCode
  <2>4. tail \in Seq(Octet) /\ Len(tail) = 2
    BY <2>1, Offset14Good
  <2> HIDE DEF m
  <2>5. head \in Seq(Octet) /\ Len(head) = IF n <= 9 THEN 1 ELSE 2 + (n - 10) \div 255
    <3>1. 7 + 2 = 9 /\ n - 7 - 3 = n - 10
      OBVIOUS
    <3> QED BY <2>2, <3>1, MatchHeadGood
  <2> HIDE DEF head, tail
  <2>6. Len(head) + 2 \in 2..MatchSize(n)
    BY <2>5 DEF MatchSize
  <2>7. head \o tail \in Seq(Octet) /\ Len(head \o tail) = Len(head) + Len(tail)
    BY ZenonT(30), <2>4, <2>5, Joined
  <2> QED BY <2>3, <2>4, <2>6, <2>7
<1>4. M2Max \in Nat /\ M3Max \in Nat /\ M2Max <= M3Max
  BY Limits
<1> QED BY <1>1, <1>2, <1>3, <1>4

\* Literals and the match behind them take no more than the bytes they stand for, and one for
\* every sixteen of them.
LEMMA HitSize ==
  ASSUME NEW e \in Nat, NEW n \in Nat, NEW m \in Nat, m >= 4
  PROVE  RunSize(n) + MatchSize(m) <= n + m + ((e + n + m) \div 16 - e \div 16)
<1>1. MatchSize(m) <= m - 1
  BY DEF MatchSize
<1>2. (e + n + m) \div 16 - e \div 16 >= (n + m) \div 16
  OBVIOUS
<1>3. RunSize(n) <= n + 1 + (n + m) \div 16
  BY DEF RunSize
<1> QED
  <2>1. RunSize(n) \in Nat /\ MatchSize(m) \in Nat
    BY DEF RunSize, MatchSize
  <2> QED BY <1>1, <1>2, <1>3, <2>1

-----------------------------------------------------------------------------
(* The compressor *)

Types ==
  /\ data \in Seq(Octet) /\ data # << >>
  /\ out \in Seq(Octet)
  /\ pc \in Compressing \cup {"stored"} \cup Decompressing
  /\ at \in Nat /\ ip \in Nat /\ ii \in Nat /\ t \in Nat
  /\ dict \in [0..Slots - 1 -> Nat]
  /\ reach \in [in : Nat, out : Nat]

\* The first e bytes of the chunk are encoded, in no more than e bytes and one for every sixteen.
Sized(e) ==
  /\ Len(out) <= e + e \div 16
  /\ reach.out <= e + e \div 16 + 17

\* Between the blocks, t literals are carried over; in a block, the pointers are in order and
\* the dictionary holds positions behind the one looked at.
CompressorInv ==
  /\ reach.in <= Len(data)
  /\ pc \in Compressing => at <= Len(data) /\ data \in Inputs
  /\ pc = "block" => t <= at /\ Sized(at - t)
  /\ pc \in {"literal", "next"} =>
       /\ t <= ii /\ at <= ii /\ ii <= ip /\ ii <= BlockEnd
       /\ Sized(ii - t)
  /\ pc = "literal" => \A s \in 0..Slots - 1 : at + dict[s] <= ip
  /\ pc = "next" => \A s \in 0..Slots - 1 : at + dict[s] < ip
  /\ pc = "stored" /\ data \in Inputs =>
       Greatest(reach.out, Len(out)) <= Len(data) + Len(data) \div 16 + 67

LEMMA BlockBounds ==
  ASSUME Types, at <= Len(data)
  PROVE  /\ BlockLen \in Nat /\ BlockLen <= Block /\ BlockEnd \in Nat /\ BlockEnd = at + BlockLen
         /\ at <= BlockEnd /\ BlockEnd <= Len(data)
         /\ IpEnd \in Int /\ IpEnd = BlockEnd - 20
<1>1. Len(data) \in Nat /\ at \in Nat /\ Block \in Nat
  BY Limits DEF Types
<1>2. BlockLen = IF Len(data) - at < Block THEN Len(data) - at ELSE Block
  BY DEF BlockLen, Least
<1>3. BlockEnd = at + BlockLen /\ IpEnd = BlockEnd - 20
  BY DEF BlockEnd, IpEnd
<1> QED BY <1>1, <1>2, <1>3

\* A match is at least four bytes long and ends, with the last load that compared it, in the block.
LEMMA MatchLenGood ==
  ASSUME Types, at <= Len(data), ip < IpEnd, NEW m
  PROVE  /\ MatchLen(m) \in Nat /\ MatchLen(m) >= 4
         /\ ip + MatchLen(m) <= BlockEnd
         /\ ip + 4 + 8 * ((MatchLen(m) - 4) \div 8) + 8 <= BlockEnd
<1> DEFINE passed == {n \in 12..(BlockEnd - ip) : (n - 4) % 8 = 0 /\ ip + n >= IpEnd}
           differ == {n \in 4..(BlockEnd - ip - 1) : data[ip + n + 1] # data[m + n + 1]}
           rest == IpEnd - ip
           first == IF rest <= 12 THEN 12 ELSE 4 + 8 * ((rest + 3) \div 8)
           len == MatchLen(m)
<1>1. ip \in Nat /\ BlockEnd \in Nat /\ IpEnd = BlockEnd - 20 /\ rest \in Nat \ {0}
  BY SMTT(30), BlockBounds DEF Types
<1>2. len = Min(passed \cup differ)
  BY DEF MatchLen
<1>3. first \in 12..(rest + 12) /\ (first - 4) % 8 = 0 /\ first >= rest
  <2> HIDE DEF rest
  <2>1. CASE rest <= 12
    BY <1>1, <2>1
  <2>2. CASE rest > 12
    <3> DEFINE q == (rest + 3) \div 8
    <3>1. q \in Nat /\ 8 * q <= rest + 3 /\ rest + 3 < 8 * q + 8 /\ q >= 1
      BY <1>1, <2>2
    <3> HIDE DEF q
    <3>2. (4 + 8 * q - 4) % 8 = 0
      BY <3>1
    <3> QED BY <1>1, <2>2, <3>1, <3>2 DEF q
  <2> QED BY <1>1, <2>1, <2>2
<1>4. first \in passed
  <2> HIDE DEF first
  <2> QED BY <1>1, <1>3
<1>5. passed \cup differ \in SUBSET Nat
  BY <1>1
<1> HIDE DEF passed, differ, first, len
<1>6. len \in passed \cup differ /\ len <= first
  BY <1>2, <1>4, <1>5, LeastElement
<1>7. len \in Nat /\ len >= 4
  BY <1>1, <1>6 DEF passed, differ
<1>8. len <= rest + 12
  BY <1>1, <1>3, <1>6, <1>7
<1>9. 8 * ((len - 4) \div 8) <= len - 4
  BY <1>7
<1>10. BlockEnd = ip + rest + 20
  BY <1>1
<1>11. (len - 4) \div 8 \in Int
  BY <1>7
<1> HIDE DEF rest
<1> QED BY SMTT(30), <1>1, <1>7, <1>8, <1>9, <1>10, <1>11 DEF len

\* In the decompressor everything read and written so far is inside.
DecompressorInv ==
  /\ pc \notin Decompressing => got = << >>
  /\ pc \in Decompressing =>
       /\ src \in Seq(Octet) /\ room \in Nat /\ got \in Seq(Octet)
       /\ ip <= Len(src)
       /\ pc \in {"match", "after"} => ip + 3 <= Len(src)
       /\ Len(got) <= room

Inv == Types /\ CompressorInv /\ DecompressorInv

LEMMA InitGood == Init => Inv
<1> SUFFICES ASSUME Init PROVE Inv
  OBVIOUS
<1>1. /\ data \in Seq(Octet) /\ data # << >>
      /\ out \in Seq(Octet)
      /\ \/ pc = "block" /\ data \in Inputs /\ out = << >>
         \/ pc = "stored" /\ data \notin Inputs
  <2>1. CASE data \in Inputs /\ out = << >> /\ pc = "block"
    BY <2>1, ChunksAssumption DEF ChunksAssumption, Octet
  <2>2. CASE \E g \in GameMade : data = g.text /\ out = g.stream /\ pc = "stored"
    <3>1. PICK g \in GameMade : data = g.text /\ out = g.stream /\ pc = "stored"
      BY <2>2
    <3>2. g.text \in Seq(0..255) /\ g.text # << >> /\ g.text \notin Inputs /\ g.stream \in Seq(0..255)
      BY ChunksAssumption DEF ChunksAssumption
    <3> QED BY <3>1, <3>2 DEF Octet
  <2> QED BY <2>1, <2>2 DEF Init
<1>2. /\ at = 0 /\ ip = 0 /\ ii = 0 /\ t = 0 /\ reach = [in |-> 0, out |-> 0]
      /\ dict \in [0..Slots - 1 -> Nat]
  BY DEF Init
<1>3. Types
  BY <1>1, <1>2 DEF Types, Compressing
<1>4. CompressorInv
  <2>1. reach.in = 0 /\ reach.out = 0 /\ Len(data) \in Nat
    BY <1>1, <1>2
  <2>2. pc = "block" => Len(out) = 0
    BY <1>1
  <2>3. pc = "block" => Sized(at - t)
    BY <1>2, <2>1, <2>2 DEF Sized
  <2>4. pc \in {"block", "stored"} /\ (pc = "stored" => data \notin Inputs) /\ (pc = "block" => data \in Inputs)
    BY <1>1
  <2>5. t <= at /\ at <= Len(data) /\ reach.in <= Len(data)
    BY <1>2, <2>1
  <2> QED BY <2>3, <2>4, <2>5 DEF CompressorInv, Compressing
<1>5. DecompressorInv
  <2>1. got = << >>
    BY DEF Init
  <2> QED BY <1>1, <2>1 DEF DecompressorInv, Decompressing
<1> QED BY <1>3, <1>4, <1>5 DEF Inv

LEMMA StartBlockGood == Inv /\ StartBlock => Inv'
<1> SUFFICES ASSUME Inv, StartBlock PROVE Inv'
  OBVIOUS
<1> USE DEF Inv
<1>1. /\ pc = "block" /\ pc' = "literal" /\ ii' = at /\ ip' = at + Greatest(0, 4 - t)
      /\ dict' = [s \in 0..Slots - 1 |-> 0]
      /\ data' = data /\ out' = out /\ at' = at /\ t' = t /\ reach' = reach /\ got' = got
  BY DEF StartBlock, compressor, decompressor
<1>2. at \in Nat /\ t \in Nat /\ ip' \in Nat /\ ip' >= at
  BY <1>1 DEF Types, Greatest
<1>3. Types'
  BY <1>1, <1>2 DEF Types, Compressing
<1>4. at <= Len(data) /\ reach.in <= Len(data) /\ data \in Inputs /\ t <= at /\ Sized(at - t)
  BY <1>1 DEF CompressorInv, Compressing
<1>5. at <= BlockEnd
  BY <1>4, BlockBounds
<1>6. BlockEnd' = BlockEnd
  BY <1>1 DEF BlockEnd, BlockLen
<1>7. Sized(ii - t)'
  BY <1>1, <1>4 DEF Sized
<1>8. \A s \in 0..Slots - 1 : at' + dict'[s] <= ip'
  BY <1>1, <1>2
<1>9. CompressorInv'
  BY <1>1, <1>2, <1>4, <1>5, <1>6, <1>7, <1>8 DEF CompressorInv, Compressing
<1>10. DecompressorInv'
  BY <1>1 DEF DecompressorInv, Decompressing
<1> QED BY <1>3, <1>9, <1>10

LEMMA SkipGood == Inv /\ Skip => Inv'
<1> SUFFICES ASSUME Inv, Skip PROVE Inv'
  OBVIOUS
<1> USE DEF Inv
<1>1. /\ pc = "literal" /\ pc' = "next" /\ ip' = ip + 1 + (ip - ii) \div 32
      /\ data' = data /\ out' = out /\ t' = t /\ at' = at /\ ii' = ii /\ dict' = dict /\ reach' = reach /\ got' = got
  BY DEF Skip, compressor, decompressor
<1>2. /\ at <= Len(data) /\ reach.in <= Len(data) /\ data \in Inputs
      /\ t <= ii /\ at <= ii /\ ii <= ip /\ ii <= BlockEnd
      /\ Sized(ii - t)
      /\ \A s \in 0..Slots - 1 : at + dict[s] <= ip
  BY <1>1 DEF CompressorInv, Compressing
<1>3. ip \in Nat /\ ii \in Nat /\ at \in Nat /\ \A s \in 0..Slots - 1 : dict[s] \in Nat
  BY DEF Types
<1>4. ip' \in Nat /\ ip' > ip
  BY <1>1, <1>2, <1>3
<1>5. Types'
  BY <1>1, <1>4 DEF Types, Compressing
<1>6. BlockEnd' = BlockEnd /\ Sized(ii - t)'
  BY <1>1, <1>2 DEF BlockEnd, BlockLen, Sized
<1>7. \A s \in 0..Slots - 1 : at' + dict'[s] < ip'
  BY <1>1, <1>2, <1>3, <1>4
<1>8. ii' <= ip'
  BY <1>1, <1>2, <1>3, <1>4
<1>9. CompressorInv'
  BY <1>1, <1>2, <1>6, <1>7, <1>8 DEF CompressorInv, Compressing
<1>10. DecompressorInv'
  BY <1>1 DEF DecompressorInv, Decompressing
<1> QED BY <1>5, <1>9, <1>10

LEMMA LeaveBlockGood == Inv /\ LeaveBlock => Inv'
<1> SUFFICES ASSUME Inv, LeaveBlock PROVE Inv'
  OBVIOUS
<1> USE DEF Inv
<1>1. /\ pc = "next" /\ pc' = "block" /\ t' = BlockEnd - (ii - t) /\ at' = BlockEnd
      /\ data' = data /\ out' = out /\ ip' = ip /\ ii' = ii /\ dict' = dict /\ reach' = reach /\ got' = got
  BY DEF LeaveBlock, compressor, decompressor
<1>2. /\ at <= Len(data) /\ reach.in <= Len(data) /\ data \in Inputs
      /\ t <= ii /\ at <= ii /\ ii <= ip /\ ii <= BlockEnd
      /\ Sized(ii - t)
  BY <1>1 DEF CompressorInv, Compressing
<1>3. ii \in Nat /\ t \in Nat
  BY DEF Types
<1>4. BlockEnd \in Nat /\ BlockEnd <= Len(data)
  BY <1>2, BlockBounds
<1>5. t' \in Nat /\ t' <= at' /\ at' - t' = ii - t
  BY <1>1, <1>2, <1>3, <1>4
<1>6. Types'
  BY <1>1, <1>4, <1>5 DEF Types, Compressing
<1>7. Sized(at - t)'
  BY <1>1, <1>2, <1>5 DEF Sized
<1>8. CompressorInv'
  BY <1>1, <1>2, <1>4, <1>5, <1>7 DEF CompressorInv, Compressing
<1>9. DecompressorInv'
  BY <1>1 DEF DecompressorInv, Decompressing
<1> QED BY <1>6, <1>8, <1>9

\* The hash of four bytes is a slot.
LEMMA HashGood ==
  ASSUME NEW w \in Seq(Octet), Len(w) = 4
  PROVE  DINDEX(w) \in 0..Slots - 1
<1>1. w[1] \in Octet /\ w[2] \in Octet /\ w[3] \in Octet /\ w[4] \in Octet
  OBVIOUS
<1>2. w[1] \in Nat /\ w[2] \in Nat /\ w[3] \in Nat /\ w[4] \in Nat
  BY <1>1, OctetIsNat
<1>3. \A n \in Nat : n % Slots \in 0..Slots - 1
  BY Limits
<1>4. \A a, b, c, d \in Nat : a + 3 * b + 5 * c + 7 * d \in Nat
  OBVIOUS
<1>5. w[1] + 3 * w[2] + 5 * w[3] + 7 * w[4] \in Nat
  BY <1>2, <1>4
<1> QED BY <1>3, <1>5 DEF DINDEX

\* The four bytes at a place before ip_end have a slot.
LEMMA SlotGood ==
  ASSUME Types, at <= Len(data), ip < IpEnd
  PROVE  /\ DINDEX(Word(ip)) \in 0..Slots - 1
         /\ Word(ip) \in Seq(Octet)
<1>1. ip \in Nat /\ ip + 4 <= Len(data) /\ Slots \in Nat \ {0}
  <2>1. ip \in Nat /\ Len(data) \in Nat
    BY DEF Types
  <2>2. BlockEnd \in Nat /\ BlockEnd <= Len(data) /\ IpEnd = BlockEnd - 20
    BY BlockBounds
  <2>3. Slots \in Nat \ {0}
    BY Limits
  <2> QED BY <2>1, <2>2, <2>3
<1>2. Word(ip) \in Seq(Octet) /\ Len(Word(ip)) = 4
  <2>1. data \in Seq(Octet) /\ ip + 4 \in Nat /\ ip <= ip + 4
    BY <1>1 DEF Types
  <2>2. SubSeq(data, ip + 1, ip + 4) \in Seq(Octet) /\ Len(SubSeq(data, ip + 1, ip + 4)) = ip + 4 - ip
    BY <1>1, <2>1, Part
  <2> QED BY <1>1, <2>2 DEF Word
<1> QED BY <1>2, HashGood

\* After a look at ip its position is in the dictionary, and the one found is behind it.
LEMMA RememberGood ==
  ASSUME Types, at <= Len(data), at <= ip, ip < IpEnd, Remember,
         \A s \in 0..Slots - 1 : at + dict[s] < ip
  PROVE  /\ dict' \in [0..Slots - 1 -> Nat]
         /\ \A s \in 0..Slots - 1 : at + dict'[s] <= ip
         /\ Candidate \in Nat /\ at <= Candidate /\ Candidate < ip
<1> DEFINE slot == DINDEX(Word(ip))
<1>1. slot \in 0..Slots - 1 /\ dict \in [0..Slots - 1 -> Nat] /\ at \in Nat /\ ip \in Nat
  BY SlotGood DEF Types
<1>2. dict' = [dict EXCEPT ![slot] = ip - at] /\ Candidate = at + dict[slot]
  BY DEF Remember, Candidate
<1> HIDE DEF slot
<1>3. ip - at \in Nat /\ at + (ip - at) = ip
  BY <1>1
<1>4. \A s \in 0..Slots - 1 : dict[s] \in Nat /\ (dict'[s] = dict[s] \/ dict'[s] = ip - at)
  BY <1>1, <1>2
<1>5. \A s \in 0..Slots - 1 : at + dict'[s] <= ip
  BY <1>1, <1>3, <1>4
<1>6. dict' \in [0..Slots - 1 -> Nat]
  BY <1>1, <1>2, <1>3
<1> QED BY <1>1, <1>2, <1>4, <1>5, <1>6

LEMMA MissGood == Inv /\ Miss => Inv'
<1> SUFFICES ASSUME Inv, Miss PROVE Inv'
  OBVIOUS
<1> USE DEF Inv
<1>1. /\ pc = "next" /\ pc' = "literal" /\ ip < IpEnd /\ Remember
      /\ data' = data /\ out' = out /\ t' = t /\ at' = at /\ ip' = ip /\ ii' = ii /\ reach' = reach /\ got' = got
  BY DEF Miss, compressor, decompressor
<1>2. /\ at <= Len(data) /\ reach.in <= Len(data) /\ data \in Inputs
      /\ t <= ii /\ at <= ii /\ ii <= ip /\ ii <= BlockEnd
      /\ Sized(ii - t)
      /\ \A s \in 0..Slots - 1 : at + dict[s] < ip
  BY <1>1 DEF CompressorInv, Compressing
<1>3. at <= ip
  BY <1>2 DEF Types
<1>4. dict' \in [0..Slots - 1 -> Nat] /\ \A s \in 0..Slots - 1 : at + dict'[s] <= ip
  BY <1>1, <1>2, <1>3, RememberGood
<1>5. Types'
  BY <1>1, <1>4 DEF Types, Compressing
<1>6. BlockEnd' = BlockEnd /\ Sized(ii - t)'
  BY <1>1, <1>2 DEF BlockEnd, BlockLen, Sized
<1>7. CompressorInv'
  BY <1>1, <1>2, <1>4, <1>6 DEF CompressorInv, Compressing
<1>8. DecompressorInv'
  BY <1>1 DEF DecompressorInv, Decompressing
<1> QED BY <1>5, <1>7, <1>8

LEMMA HitGood == Inv /\ Hit => Inv'
<1> SUFFICES ASSUME Inv, Hit PROVE Inv'
  OBVIOUS
<1> USE DEF Inv
<1> DEFINE m    == MatchLen(Candidate)
           lits == SubSeq(data, ii - t + 1, ip)
           run  == Run(out, lits)
           code == MatchCode(m, ip - Candidate)
           size == Len(lits)
           e    == ii - t
<1>1. /\ pc = "next" /\ pc' = pc /\ ip < IpEnd /\ Remember /\ got' = got
      /\ data' = data /\ t' = 0 /\ at' = at /\ ip' = ip + m /\ ii' = ip + m
  BY DEF Hit, compressor, decompressor
<1>2. out' = run \o code
  BY MatchIsCode DEF Hit
<1>3. reach' = [in  |-> Greatest(reach.in, ip + 4 + 8 * ((m - 4) \div 8) + 8),
                out |-> Greatest(reach.out, RunReach(out, size))]
  BY DEF Hit, compressor, decompressor
<1>4. /\ at <= Len(data) /\ reach.in <= Len(data) /\ data \in Inputs
      /\ t <= ii /\ at <= ii /\ ii <= ip /\ ii <= BlockEnd
      /\ Sized(e)
      /\ \A s \in 0..Slots - 1 : at + dict[s] < ip
  BY <1>1 DEF CompressorInv, Compressing
<1>5. /\ at \in Nat /\ ip \in Nat /\ ii \in Nat /\ t \in Nat /\ e \in Nat /\ at <= ip
      /\ data \in Seq(Octet) /\ out \in Seq(Octet) /\ reach.in \in Nat /\ reach.out \in Nat
  BY <1>4 DEF Types
<1>6. /\ dict' \in [0..Slots - 1 -> Nat] /\ \A s \in 0..Slots - 1 : at + dict'[s] <= ip
      /\ Candidate \in Nat /\ Candidate < ip
  BY <1>1, <1>4, <1>5, RememberGood
<1>7. /\ m \in Nat /\ m >= 4 /\ ip + m <= BlockEnd
      /\ ip + 4 + 8 * ((m - 4) \div 8) + 8 <= BlockEnd
  BY <1>1, <1>4, MatchLenGood
<1>8. BlockEnd \in Nat /\ BlockEnd <= Len(data) /\ IpEnd = BlockEnd - 20
  BY <1>4, BlockBounds
<1>9. lits \in Seq(Octet) /\ size = ip - e /\ e <= ip
  <2>1. e <= ip /\ ip <= Len(data)
    BY <1>1, <1>4, <1>5, <1>8
  <2> HIDE DEF e
  <2>2. SubSeq(data, e + 1, ip) \in Seq(Octet) /\ Len(SubSeq(data, e + 1, ip)) = ip - e
    BY <1>5, <2>1, Part
  <2> QED BY <2>1, <2>2 DEF e
<1> HIDE DEF m, lits, run, code, size, e
<1>10. size \in Nat
  BY <1>5, <1>9
<1>11. run \in Seq(Octet) /\ Len(run) = Len(out) + RunSize(size)
  BY <1>5, <1>9, RunGood DEF run, size
<1>12. code \in Seq(Octet) /\ Len(code) <= MatchSize(m)
  <2> DEFINE off == ip - Candidate
  <2>1. off \in Nat \ {0}
    BY <1>5, <1>6
  <2>2. code = MatchCode(m, off)
    BY DEF code
  <2> HIDE DEF off
  <2>3. MatchCode(m, off) \in Seq(Octet) /\ Len(MatchCode(m, off)) \in 2..MatchSize(m)
    BY <1>7, <2>1, MatchCodeGood
  <2> QED BY <2>2, <2>3
<1>13. out' \in Seq(Octet) /\ Len(out') = Len(run) + Len(code)
  BY <1>2, <1>11, <1>12, Joined
<1>14. ip + 4 + 8 * ((m - 4) \div 8) + 8 \in Nat
  BY <1>5, <1>7
<1>15. RunReach(out, size) \in Nat /\ RunReach(out, size) <= Len(out) + size + 17 + size \div 16
  BY <1>5, <1>10, RunReachBound
<1>16. reach'.in \in Nat /\ reach'.out \in Nat /\ reach' \in [in : Nat, out : Nat]
  BY <1>3, <1>5, <1>14, <1>15 DEF Greatest
<1>17. Types'
  BY <1>1, <1>5, <1>6, <1>7, <1>13, <1>16 DEF Types
<1>18. reach'.in <= Len(data)
  BY <1>3, <1>4, <1>5, <1>7, <1>8, <1>14 DEF Greatest
<1>19. Len(out') <= (ip + m) + (ip + m) \div 16
  <2>1. RunSize(size) + MatchSize(m) <= size + m + ((e + size + m) \div 16 - e \div 16)
    BY <1>5, <1>7, <1>10, HitSize
  <2>2. e + size + m = ip + m /\ size + m = ip + m - e
    BY <1>5, <1>7, <1>9
  <2>3. Len(out) <= e + e \div 16
    BY <1>4 DEF Sized
  <2>4. /\ Len(out) \in Nat /\ Len(run) \in Nat /\ Len(code) \in Nat /\ RunSize(size) \in Nat
        /\ MatchSize(m) \in Nat /\ e \div 16 \in Nat /\ (ip + m) \div 16 \in Nat
    BY <1>5, <1>7, <1>10, <1>11, <1>12 DEF RunSize, MatchSize
  <2>5. Len(out') = Len(out) + RunSize(size) + Len(code)
    BY <1>11, <1>13, <2>4
  <2>6. RunSize(size) + MatchSize(m) <= ip + m - e + ((ip + m) \div 16 - e \div 16)
    BY <2>1, <2>2
  <2> QED BY SMTT(30), <1>5, <1>7, <1>12, <2>3, <2>4, <2>5, <2>6
<1>20. reach'.out <= (ip + m) + (ip + m) \div 16 + 17
  <2>1. reach.out <= e + e \div 16 + 17 /\ Len(out) <= e + e \div 16 /\ Len(out) \in Nat
    BY <1>4, <1>5 DEF Sized
  <2>2. e + size = ip
    BY <1>5, <1>9
  <2>3. e + e \div 16 <= ip + ip \div 16 /\ e + e \div 16 + size + size \div 16 <= ip + ip \div 16
    BY <1>5, <1>10, <2>2
  <2>4. ip + ip \div 16 <= (ip + m) + (ip + m) \div 16
    BY <1>5, <1>7
  <2>5. /\ e \div 16 \in Nat /\ size \div 16 \in Nat /\ ip \div 16 \in Nat /\ (ip + m) \div 16 \in Nat
    BY <1>5, <1>7, <1>10
  <2>6. reach'.out = reach.out \/ reach'.out = RunReach(out, size)
    BY <1>3 DEF Greatest
  <2>7. Len(out) + size + 17 + size \div 16 <= (ip + m) + (ip + m) \div 16 + 17
    BY <1>5, <1>7, <1>10, <2>1, <2>3, <2>4, <2>5
  <2> QED BY <1>5, <1>7, <1>15, <2>1, <2>3, <2>4, <2>5, <2>6, <2>7, <1>10
<1>21. Sized(ii - t)'
  <2>1. ii' - t' = ip + m
    BY <1>1, <1>5, <1>7
  <2> QED BY <1>19, <1>20, <2>1 DEF Sized
<1>22. BlockEnd' = BlockEnd
  BY <1>1 DEF BlockEnd, BlockLen
<1>23. \A s \in 0..Slots - 1 : at' + dict'[s] < ip'
  BY <1>1, <1>5, <1>6, <1>7
<1>24. at' <= ii' /\ ii' <= ip' /\ ii' <= BlockEnd' /\ t' <= ii'
  BY <1>1, <1>4, <1>5, <1>7, <1>22
<1>25. CompressorInv'
  BY <1>1, <1>4, <1>18, <1>21, <1>23, <1>24 DEF CompressorInv
<1>26. DecompressorInv'
  BY <1>1 DEF DecompressorInv, Decompressing
<1> QED BY <1>17, <1>25, <1>26

\* The end of the stream: the last literals and three bytes.
LEMMA EndingGood ==
  ASSUME NEW op \in Seq(Octet), NEW lits \in Seq(Octet)
  PROVE  /\ Ending(op, lits) \in Seq(Octet)
         /\ Len(Ending(op, lits)) <= Len(op) + Len(lits) + 5 + Len(lits) \div 16
<1> DEFINE n == Len(lits)
           body == CASE n = 0 -> op
                     [] op = << >> /\ n \in 1..238 -> <<17 + n>> \o lits
                     [] op # << >> /\ n \in 1..3 -> OrCount(op, n) \o lits
                     [] OTHER -> op \o RunHead(n) \o lits
           stop == <<17, 0, 0>>
<1>1. n \in Nat /\ Len(op) \in Nat
  OBVIOUS
<1>2. Ending(op, lits) = body \o stop
  BY DEF Ending
<1>3. stop \in Seq(Octet) /\ Len(stop) = 3
  BY DEF Octet
<1>4. body \in Seq(Octet) /\ Len(body) <= Len(op) + n + 2 + n \div 16
  <2>1. CASE n = 0
    <3>1. body = op
      <4> HIDE DEF n
      <4>1. ~ (n \in 1..238) /\ ~ (n \in 1..3)
        BY <2>1
      <4> QED BY <2>1, <4>1, Zenon
    <3> HIDE DEF body, n
    <3> QED BY <1>1, <2>1, <3>1
  <2>2. CASE n # 0 /\ op = << >> /\ n \in 1..238
    <3> DEFINE one == <<17 + n>>
    <3>1. body = one \o lits
      <4> HIDE DEF n
      <4> QED BY <2>2, Zenon
    <3>2. one \in Seq(Octet) /\ Len(one) = 1
      <4> HIDE DEF n
      <4>1. 17 + n \in Octet
        BY <2>2 DEF Octet
      <4> QED BY <4>1
    <3> HIDE DEF body, one
    <3>3. one \o lits \in Seq(Octet) /\ Len(one \o lits) = Len(one) + Len(lits)
      BY <3>2, Joined
    <3>4. Len(body) = 1 + n
      BY <3>1, <3>2, <3>3
    <3> HIDE DEF n
    <3> QED BY <1>1, <3>1, <3>3, <3>4
  <2>3. CASE op # << >> /\ n \in 1..3
    <3>1. body = OrCount(op, n) \o lits
      <4> HIDE DEF n
      <4>1. ~ (n = 0) /\ ~ (op = << >> /\ n \in 1..238)
        BY <2>3
      <4> QED BY <2>3, <4>1, Zenon
    <3>2. OrCount(op, n) \in Seq(Octet) /\ Len(OrCount(op, n)) = Len(op)
      BY <2>3, OrCountGood
    <3> HIDE DEF body
    <3>3. Len(body) = Len(op) + n /\ body \in Seq(Octet)
      BY <3>1, <3>2, Joined
    <3> HIDE DEF n
    <3> QED BY <1>1, <3>3
  <2>4. CASE n # 0 /\ ~ (op = << >> /\ n \in 1..238) /\ ~ (op # << >> /\ n \in 1..3)
    <3>1. body = (op \o RunHead(n)) \o lits
      <4> HIDE DEF n
      <4> QED BY <2>4, Zenon
    <3>2. n >= 4
      <4> HIDE DEF n
      <4>1. n \notin 1..3
        BY <2>4
      <4> QED BY <1>1, <2>4, <4>1
    <3>3. RunHead(n) \in Seq(Octet) /\ Len(RunHead(n)) = RunSize(n) - n
      BY <1>1, <3>2, RunHeadGood
    <3>4. op \o RunHead(n) \in Seq(Octet) /\ Len(op \o RunHead(n)) = Len(op) + Len(RunHead(n))
      BY <3>3, Joined
    <3> HIDE DEF body
    <3>5. body \in Seq(Octet) /\ Len(body) = Len(op \o RunHead(n)) + n
      BY <3>1, <3>4, Joined
    <3> HIDE DEF n
    <3>6. RunSize(n) \in Nat /\ RunSize(n) <= n + 2 + n \div 16
      BY <1>1, <3>2 DEF RunSize
    <3> QED BY SMTT(30), <1>1, <3>3, <3>4, <3>5, <3>6
  <2> QED BY <2>1, <2>2, <2>3, <2>4
<1> HIDE DEF body, stop
<1>5. body \o stop \in Seq(Octet) /\ Len(body \o stop) = Len(body) + Len(stop)
  BY <1>3, <1>4, Joined
<1>6. Len(body) \in Nat
  BY <1>4
<1>7. Len(body \o stop) <= Len(op) + n + 5 + n \div 16
  <2> HIDE DEF n
  <2> QED BY <1>1, <1>3, <1>4, <1>5, <1>6
<1> QED BY <1>2, <1>5, <1>7

LEMMA SealGood == Inv /\ Seal => Inv'
<1> SUFFICES ASSUME Inv, Seal PROVE Inv'
  OBVIOUS
<1> USE DEF Inv
<1> DEFINE lits == SubSeq(data, at - t + 1, Len(data))
           e == at - t
           len == Len(data)
<1>1. /\ pc = "block" /\ pc' = "stored" /\ out' = Ending(out, lits)
      /\ data' = data /\ ip' = ip /\ t' = t /\ at' = at /\ ii' = ii /\ dict' = dict /\ reach' = reach /\ got' = got
  BY DEF Seal, compressor, decompressor
<1>2. at <= len /\ reach.in <= len /\ data \in Inputs /\ t <= at /\ Sized(e)
  BY <1>1 DEF CompressorInv, Compressing
<1>3. /\ at \in Nat /\ t \in Nat /\ e \in Nat /\ len \in Nat /\ e <= len
      /\ data \in Seq(Octet) /\ out \in Seq(Octet) /\ reach.out \in Nat
  BY <1>2 DEF Types
<1>4. lits \in Seq(Octet) /\ Len(lits) = len - e
  <2> HIDE DEF e
  <2>1. SubSeq(data, e + 1, Len(data)) \in Seq(Octet) /\ Len(SubSeq(data, e + 1, Len(data))) = Len(data) - e
    BY <1>3, Part
  <2> QED BY <2>1 DEF e
<1> HIDE DEF lits, e, len
<1>5. out' \in Seq(Octet) /\ Len(out') <= Len(out) + Len(lits) + 5 + Len(lits) \div 16
  BY <1>1, <1>3, <1>4, EndingGood
<1>6. Types'
  BY <1>1, <1>5 DEF Types
<1>7. Len(out) \in Nat /\ Len(out') \in Nat /\ Len(out) <= e + e \div 16 /\ reach.out <= e + e \div 16 + 17
  BY <1>2, <1>3, <1>5 DEF Sized
<1>8. e + e \div 16 <= len + len \div 16 /\ e \div 16 + (len - e) \div 16 <= len \div 16
  BY <1>3
<1>9. /\ e \div 16 \in Nat /\ (len - e) \div 16 \in Nat /\ len \div 16 \in Nat
  BY <1>3
<1>10. Len(out') <= len + len \div 16 + 67
  <2>1. Len(out') <= Len(out) + (len - e) + 5 + (len - e) \div 16
    BY <1>4, <1>5
  <2> QED BY <1>3, <1>7, <1>8, <1>9, <2>1
<1>11. reach.out <= len + len \div 16 + 67
  BY <1>3, <1>7, <1>8, <1>9
<1>12. Greatest(reach.out, Len(out))' <= len + len \div 16 + 67
  BY <1>1, <1>10, <1>11 DEF Greatest
<1>13. CompressorInv'
  BY <1>1, <1>2, <1>12 DEF CompressorInv, Compressing, len
<1>14. DecompressorInv'
  BY <1>1 DEF DecompressorInv, Decompressing
<1> QED BY <1>6, <1>13, <1>14

-----------------------------------------------------------------------------
(* The decompressor *)

LEMMA DeliverGood == Inv /\ Deliver => Inv'
<1> SUFFICES ASSUME Inv, Deliver PROVE Inv'
  OBVIOUS
<1> USE DEF Inv
<1>1. /\ pc = "stored" /\ pc' = "first" /\ ip' = 0 /\ t' = 0
      /\ data' = data /\ out' = out /\ at' = at /\ ii' = ii /\ dict' = dict /\ reach' = reach /\ got' = got
  BY DEF Deliver, compressor
<1>2. PICK d \in Deliveries : src' = d[1] /\ room' = d[2]
  BY DEF Deliver
<1>3. data \in Seq(Octet) /\ data # << >> /\ out \in Seq(Octet)
  BY DEF Types
<1>4. Len(data) \in Nat /\ Len(data) - 1 \in Nat
  BY <1>3
<1>5. d[1] \in Seq(Octet) /\ d[2] \in Nat
  <2>1. CASE d \in {<<out, Len(data)>>, <<out, Len(data) - 1>>}
    BY <1>3, <1>4, <2>1
  <2>2. CASE d = <<out \o <<0>>, Len(data)>>
    <3> DEFINE more == out \o <<0>>
    <3>1. <<0>> \in Seq(Octet)
      BY DEF Octet
    <3>2. more \in Seq(Octet)
      BY <1>3, <3>1, Joined
    <3>3. d = <<more, Len(data)>>
      BY <2>2
    <3> HIDE DEF more
    <3> QED BY <1>4, <3>2, <3>3
  <2>3. CASE d \in {<<SubSeq(out, 1, k), Len(data)>> : k \in 0..Len(out) - 1}
    <3>1. PICK k \in 0..Len(out) - 1 : d = <<SubSeq(out, 1, k), Len(data)>>
      BY <2>3
    <3>2. k \in Nat /\ 0 <= k /\ k <= Len(out)
      BY <1>3
    <3>3. SubSeq(out, 0 + 1, k) \in Seq(Octet)
      BY <1>3, <3>2, Part
    <3>4. SubSeq(out, 1, k) \in Seq(Octet)
      BY <3>3
    <3> DEFINE cut == SubSeq(out, 1, k)
    <3>5. cut \in Seq(Octet) /\ d = <<cut, Len(data)>>
      BY <3>1, <3>4
    <3> HIDE DEF cut
    <3> QED BY <1>4, <3>5
  <2> QED BY <2>1, <2>2, <2>3, Zenon DEF Deliveries
<1>6. Types'
  BY <1>1 DEF Types, Decompressing
<1>7. CompressorInv'
  BY <1>1 DEF CompressorInv, Compressing
<1>8. got = << >>
  BY <1>1 DEF DecompressorInv, Decompressing
<1>9. src' \in Seq(Octet) /\ room' \in Nat
  BY <1>2, <1>5
<1>10. DecompressorInv'
  <2>1. Len(src') \in Nat /\ got' \in Seq(Octet) /\ Len(got') = 0
    BY <1>1, <1>8, <1>9
  <2> QED BY <1>1, <1>9, <2>1 DEF DecompressorInv, Decompressing
<1> QED BY <1>6, <1>7, <1>10

LEMMA GoGood ==
  ASSUME Inv, pc \in Decompressing,
         NEW label \in Decompressing, NEW p \in Nat, NEW n \in Nat, NEW bytes \in Seq(Octet),
         p <= Len(src), label \in {"match", "after"} => p + 3 <= Len(src), Len(bytes) <= room,
         Go(label, p, n, bytes)
  PROVE  Inv'
<1> USE DEF Inv
<1>1. /\ pc' = label /\ ip' = p /\ t' = n /\ got' = bytes
      /\ data' = data /\ out' = out /\ at' = at /\ ii' = ii /\ dict' = dict /\ reach' = reach
      /\ src' = src /\ room' = room
  BY DEF Go, compressor
<1>2. Types'
  BY <1>1 DEF Types
<1>3. CompressorInv'
  BY <1>1 DEF CompressorInv, Compressing, Decompressing
<1>4. DecompressorInv'
  BY <1>1 DEF DecompressorInv
<1> QED BY <1>2, <1>3, <1>4

LEMMA ReturnGood ==
  ASSUME Inv, pc \in Decompressing, NEW code, NEW p \in Nat, p <= Len(src), Return(code, p)
  PROVE  Inv'
<1> USE DEF Inv
<1>1. /\ pc' = "done" /\ ip' = p
      /\ data' = data /\ out' = out /\ t' = t /\ at' = at /\ ii' = ii /\ dict' = dict /\ reach' = reach
      /\ src' = src /\ room' = room /\ got' = got
  BY DEF Return, compressor
<1>2. Types'
  BY <1>1 DEF Types, Decompressing
<1>3. CompressorInv'
  BY <1>1 DEF CompressorInv, Compressing
<1>4. DecompressorInv'
  BY <1>1 DEF DecompressorInv, Decompressing
<1> QED BY <1>2, <1>3, <1>4

\* What a decompressor step starts from.
LEMMA Given ==
  ASSUME Inv, pc \in Decompressing
  PROVE  /\ src \in Seq(Octet) /\ Len(src) \in Nat /\ room \in Nat /\ got \in Seq(Octet) /\ Len(got) \in Nat
         /\ ip \in Nat /\ t \in Nat /\ ip <= Len(src) /\ Len(got) <= room
         /\ pc \in {"match", "after"} => ip + 3 <= Len(src)
BY DEF Inv, Types, DecompressorInv

LEMMA ByteGood ==
  ASSUME Inv, pc \in Decompressing, NEW p \in Nat
  PROVE  Byte(p) \in Octet /\ Byte(p) \in Nat /\ Byte(p) <= 255
<1>1. src \in Seq(Octet)
  BY Given
<1>2. Byte(p) \in Octet
  <2>1. CASE p < Len(src)
    BY <1>1, <2>1 DEF Byte
  <2>2. CASE ~ (p < Len(src))
    BY <2>2 DEF Byte, Octet
  <2> QED BY <2>1, <2>2
<1> QED BY <1>2, OctetIsNat

\* Literals are copied only if they are there, and the next instruction behind them.
LEMMA CopyRunGood ==
  ASSUME Inv, pc \in Decompressing,
         NEW p \in Nat, p <= Len(src), NEW n \in Nat, NEW label \in {"match", "after"},
         CopyRun(p, n, label)
  PROVE  Inv'
<1>1. CASE ~ NEED_OP(n)
  <2>1. Return("output overrun", p)
    BY <1>1, Zenon DEF CopyRun
  <2> QED BY <2>1, ReturnGood
<1>2. CASE NEED_OP(n) /\ ~ NEED_IP(p, n + 3)
  <2>1. Return("input overrun", p)
    BY <1>2, Zenon DEF CopyRun
  <2> QED BY <2>1, ReturnGood
<1>3. CASE NEED_OP(n) /\ NEED_IP(p, n + 3)
  <2> DEFINE bytes == Bytes(p, n)
             more  == got \o bytes
  <2>1. Go(label, p + n, 0, more)
    BY <1>3, Zenon DEF CopyRun
  <2>2. bytes \in Seq(Octet) /\ Len(bytes) = n
    <3>1. \A k \in 1..n : Byte(p + k - 1) \in Octet
      BY ByteGood
    <3> QED BY <3>1 DEF Bytes
  <2> HIDE DEF bytes
  <2>3. got \in Seq(Octet) /\ Len(got) \in Nat /\ Len(src) \in Nat /\ room \in Nat
    BY Given
  <2>4. more \in Seq(Octet) /\ Len(more) = Len(got) + n
    BY <2>2, <2>3, Joined
  <2> HIDE DEF more
  <2>5. Len(more) <= room /\ p + n + 3 <= Len(src)
    BY <1>3, <2>3, <2>4 DEF NEED_OP, NEED_IP
  <2>6. p + n \in Nat /\ p + n <= Len(src)
    BY <2>3, <2>5
  <2>7. label \in Decompressing
    BY DEF Decompressing
  <2> QED BY <2>1, <2>4, <2>5, <2>6, <2>7, GoGood
<1> QED BY <1>1, <1>2, <1>3

\* A match is copied only from bytes already written, and into room that is there.
LEMMA CopyMatchGood ==
  ASSUME Inv, pc \in Decompressing,
         NEW p \in Nat, p >= 2, p <= Len(src), NEW dist \in Int, NEW n \in Nat,
         CopyMatch(p, dist, n)
  PROVE  Inv'
<1>1. CASE dist \notin 1..Len(got)
  <2>1. Return("lookbehind overrun", p)
    BY <1>1, Zenon DEF CopyMatch
  <2> QED BY <2>1, ReturnGood
<1>2. CASE dist \in 1..Len(got) /\ ~ NEED_OP(n)
  <2>1. Return("output overrun", p)
    BY <1>2, Zenon DEF CopyMatch
  <2> QED BY <2>1, ReturnGood
<1>3. CASE dist \in 1..Len(got) /\ NEED_OP(n)
  <2> DEFINE copy  == [k \in 1..n |-> got[Len(got) - dist + ((k - 1) % dist) + 1]]
             lits  == Byte(p - 2) % 4
             label == IF lits = 0 THEN "literals" ELSE "trailing"
             more  == got \o copy
  <2>1. Go(label, p, lits, more)
    BY <1>3, Zenon DEF CopyMatch
  <2>2. got \in Seq(Octet) /\ Len(got) \in Nat /\ room \in Nat
    BY Given
  <2>3. copy \in Seq(Octet) /\ Len(copy) = n
    <3>1. \A k \in 1..n : got[Len(got) - dist + ((k - 1) % dist) + 1] \in Octet
      <4> SUFFICES ASSUME NEW k \in 1..n PROVE got[Len(got) - dist + ((k - 1) % dist) + 1] \in Octet
        OBVIOUS
      <4>1. (k - 1) % dist \in 0..dist - 1
        BY <1>3
      <4>2. Len(got) - dist + ((k - 1) % dist) + 1 \in 1..Len(got)
        BY <1>3, <2>2, <4>1
      <4> QED BY <2>2, <4>2
    <3> QED BY <3>1
  <2> HIDE DEF copy
  <2>4. more \in Seq(Octet) /\ Len(more) = Len(got) + n
    BY <2>2, <2>3, Joined
  <2> HIDE DEF more
  <2>5. Len(more) <= room
    BY <1>3, <2>2, <2>4 DEF NEED_OP
  <2>6. lits \in Nat
    <3>1. p - 2 \in Nat
      OBVIOUS
    <3>2. Byte(p - 2) \in Nat
      BY <3>1, ByteGood
    <3> QED BY <3>2
  <2>7. label \in Decompressing /\ label \notin {"match", "after"}
    BY DEF Decompressing
  <2> HIDE DEF lits, label
  <2> QED BY <2>1, <2>4, <2>5, <2>6, <2>7, GoGood
<1> QED BY <1>1, <1>2, <1>3

LEMMA FirstByteGood == Inv /\ FirstByte => Inv'
<1> SUFFICES ASSUME Inv, FirstByte PROVE Inv'
  OBVIOUS
<1>1. pc \in Decompressing
  BY DEF FirstByte, Decompressing
<1>2. Len(src) \in Nat /\ got \in Seq(Octet) /\ Len(got) <= room
  BY <1>1, Given
<1>3. Byte(0) \in Nat
  BY <1>1, ByteGood
<1>4. CASE Return("input overrun", 0)
  <2>1. 0 \in Nat /\ 0 <= Len(src)
    BY <1>2
  <2> QED BY <1>1, <1>4, <2>1, ReturnGood
<1>5. CASE Go("literals", 0, 0, got)
  <2>1. "literals" \in Decompressing /\ "literals" \notin {"match", "after"}
    BY DEF Decompressing
  <2> QED BY <1>1, <1>2, <1>5, <2>1, GoGood
<1>6. CASE NEED_IP(0, 1) /\ Byte(0) \in 18..20 /\ Go("trailing", 1, Byte(0) - 17, got)
  <2>1. "trailing" \in Decompressing /\ "trailing" \notin {"match", "after"}
    BY DEF Decompressing
  <2>2. 1 <= Len(src)
    BY <1>2, <1>6 DEF NEED_IP
  <2>3. Byte(0) - 17 \in Nat
    BY <1>6
  <2> QED BY <1>1, <1>2, <1>6, <2>1, <2>2, <2>3, GoGood
<1>7. CASE NEED_IP(0, 1) /\ Byte(0) > 20 /\ CopyRun(1, Byte(0) - 17, "after")
  <2>1. 1 <= Len(src)
    BY <1>2, <1>7 DEF NEED_IP
  <2>2. Byte(0) - 17 \in Nat
    BY <1>3, <1>7
  <2> QED BY <1>1, <1>7, <2>1, <2>2, CopyRunGood
<1> QED BY <1>4, <1>5, <1>6, <1>7 DEF FirstByte

\* Counting zero bytes stays inside, and so does the byte behind them if the count is not cut.
LEMMA CountGood ==
  ASSUME Inv, pc \in Decompressing, NEW p \in Nat, ~ CountCut(p)
  PROVE  CountEnd(p) \in Nat /\ CountEnd(p) <= Len(src) /\ CountEnd(p) > p /\ CountAt(p) \in Nat
<1> DEFINE zeros == {k \in 0..Len(src) : p + k >= Len(src) \/ Byte(p + k) # 0}
           z == ZerosAt(p)
<1>1. Len(src) \in Nat
  BY Given
<1>2. Len(src) \in zeros /\ zeros \in SUBSET Nat
  BY <1>1
<1>3. z = Min(zeros)
  BY DEF ZerosAt
<1> HIDE DEF z
<1>4. z \in Nat
  <2> HIDE DEF zeros
  <2> QED BY <1>2, <1>3, LeastElement
<1>5. p + z < Len(src) /\ CountEnd(p) = p + z + 1 /\ CountAt(p) = 255 * z + Byte(p + z)
  BY <1>1, <1>4 DEF CountCut, CountEnd, CountAt, z
<1>6. Byte(p + z) \in Nat
  <2>1. p + z \in Nat
    BY <1>4
  <2> QED BY <2>1, ByteGood
<1> QED BY <1>1, <1>4, <1>5, <1>6

LEMMA LiteralsGood == Inv /\ Literals => Inv'
<1> SUFFICES ASSUME Inv, Literals PROVE Inv'
  OBVIOUS
<1>1. pc \in Decompressing
  BY DEF Literals, Decompressing
<1>2. Len(src) \in Nat /\ got \in Seq(Octet) /\ Len(got) <= room /\ ip \in Nat /\ ip <= Len(src)
  BY <1>1, Given
<1>3. CASE Return("input overrun", ip)
  BY <1>1, <1>2, <1>3, ReturnGood
<1>4. CASE NEED_IP(ip, 3) /\ Go("match", ip, 0, got)
  <2>1. ip + 3 <= Len(src)
    BY <1>2, <1>4 DEF NEED_IP
  <2>2. "match" \in Decompressing
    BY DEF Decompressing
  <2> QED BY <1>1, <1>2, <1>4, <2>1, <2>2, GoGood
<1>5. CASE NEED_IP(ip, 3) /\ Byte(ip) \in 1..15 /\ CopyRun(ip + 1, Byte(ip) + 3, "after")
  <2>1. ip + 1 \in Nat /\ ip + 1 <= Len(src)
    BY <1>2, <1>5 DEF NEED_IP
  <2>2. Byte(ip) + 3 \in Nat
    BY <1>5
  <2> QED BY <1>1, <1>5, <2>1, <2>2, CopyRunGood
<1>6. CASE IF CountCut(ip + 1) THEN Return("input overrun", Len(src))
           ELSE CopyRun(CountEnd(ip + 1), CountAt(ip + 1) + 18, "after")
  <2>1. CASE CountCut(ip + 1)
    <3>1. Return("input overrun", Len(src))
      BY <1>6, <2>1
    <3>2. Len(src) \in Nat /\ Len(src) <= Len(src)
      BY <1>2
    <3> QED BY <1>1, <3>1, <3>2, ReturnGood
  <2>2. CASE ~ CountCut(ip + 1)
    <3>1. CopyRun(CountEnd(ip + 1), CountAt(ip + 1) + 18, "after")
      BY <1>6, <2>2
    <3>2. ip + 1 \in Nat
      BY <1>2
    <3>3. CountEnd(ip + 1) \in Nat /\ CountEnd(ip + 1) <= Len(src) /\ CountAt(ip + 1) \in Nat
      BY <1>1, <2>2, <3>2, CountGood
    <3>4. CountAt(ip + 1) + 18 \in Nat
      BY <3>3
    <3> QED BY <1>1, <3>1, <3>3, <3>4, CopyRunGood
  <2> QED BY <2>1, <2>2
<1> QED BY <1>3, <1>4, <1>5, <1>6 DEF Literals

LEMMA AfterLiteralsGood == Inv /\ AfterLiterals => Inv'
<1> SUFFICES ASSUME Inv, AfterLiterals PROVE Inv'
  OBVIOUS
<1>1. pc \in Decompressing
  BY DEF AfterLiterals, Decompressing
<1>2. pc = "after"
  BY DEF AfterLiterals
<1>3. /\ Len(src) \in Nat /\ got \in Seq(Octet) /\ Len(got) <= room
      /\ ip \in Nat /\ ip + 3 <= Len(src) /\ ip <= Len(src)
  BY <1>1, <1>2, Given
<1>4. CASE Go("match", ip, 0, got)
  <2>1. "match" \in Decompressing
    BY DEF Decompressing
  <2> QED BY <1>1, <1>3, <1>4, <2>1, GoGood
<1>5. CASE CopyMatch(ip + 2, 1 + M2Max + (Byte(ip) \div 4) + 4 * Byte(ip + 1), 3)
  <2> DEFINE dist == 1 + M2Max + (Byte(ip) \div 4) + 4 * Byte(ip + 1)
  <2>1. ip + 1 \in Nat /\ ip + 2 \in Nat /\ ip + 2 >= 2 /\ ip + 2 <= Len(src)
    BY <1>3
  <2>2. Byte(ip) \in Nat /\ Byte(ip + 1) \in Nat
    BY <1>1, <1>3, <2>1, ByteGood
  <2>3. M2Max \in Nat
    BY Limits
  <2>4. dist \in Int
    BY <2>2, <2>3
  <2> HIDE DEF dist
  <2> QED BY <1>1, <1>5, <2>1, <2>4, CopyMatchGood DEF dist
<1> QED BY <1>4, <1>5 DEF AfterLiterals

LEMMA TrailingGood == Inv /\ Trailing => Inv'
<1> SUFFICES ASSUME Inv, Trailing PROVE Inv'
  OBVIOUS
<1>1. pc \in Decompressing /\ CopyRun(ip, t, "match")
  BY DEF Trailing, Decompressing
<1>2. ip \in Nat /\ ip <= Len(src) /\ t \in Nat
  BY <1>1, Given
<1> QED BY <1>1, <1>2, CopyRunGood

\* Where the three bytes of an instruction are there.
LEMMA InstructionThere ==
  ASSUME Inv, pc = "match"
  PROVE  /\ pc \in Decompressing /\ ip \in Nat /\ Len(src) \in Nat /\ ip + 3 <= Len(src)
         /\ ip + 1 \in Nat /\ ip + 2 \in Nat /\ ip + 3 \in Nat
         /\ Byte(ip) \in Nat /\ Byte(ip + 1) \in Nat
<1>1. pc \in Decompressing
  BY DEF Decompressing
<1>2. ip \in Nat /\ Len(src) \in Nat /\ ip + 3 <= Len(src)
  BY <1>1, Given
<1>3. ip + 1 \in Nat
  BY <1>2
<1> QED BY SMTT(30), <1>1, <1>2, <1>3, ByteGood

LEMMA M1MatchGood == Inv /\ pc = "match" /\ M1Match => Inv'
<1> SUFFICES ASSUME Inv, pc = "match", M1Match PROVE Inv'
  OBVIOUS
<1> DEFINE dist == 1 + (Byte(ip) \div 4) + 4 * Byte(ip + 1)
<1>1. CopyMatch(ip + 2, dist, 2)
  BY DEF M1Match
<1>2. dist \in Int /\ ip + 2 \in Nat /\ ip + 2 >= 2 /\ ip + 2 <= Len(src)
  BY SMTT(30), InstructionThere
<1> HIDE DEF dist
<1> QED BY <1>1, <1>2, InstructionThere, CopyMatchGood

LEMMA M2MatchGood == Inv /\ pc = "match" /\ M2Match => Inv'
<1> SUFFICES ASSUME Inv, pc = "match", M2Match PROVE Inv'
  OBVIOUS
<1> DEFINE dist == 1 + ((Byte(ip) \div 4) % 8) + 8 * Byte(ip + 1)
           n    == (Byte(ip) \div 32) + 1
<1>1. CopyMatch(ip + 2, dist, n)
  BY DEF M2Match
<1>2. dist \in Int /\ n \in Nat /\ ip + 2 \in Nat /\ ip + 2 >= 2 /\ ip + 2 <= Len(src)
  <2>1. Byte(ip) \in Nat /\ Byte(ip + 1) \in Nat /\ ip \in Nat /\ Len(src) \in Nat /\ ip + 3 <= Len(src)
    BY InstructionThere
  <2>2. \A b \in Nat : b \div 32 \in Nat /\ (b \div 4) % 8 \in Nat
    OBVIOUS
  <2> QED BY SMTT(30), <2>1, <2>2
<1> HIDE DEF dist, n
<1> QED BY <1>1, <1>2, InstructionThere, CopyMatchGood

LEMMA OffsetGood ==
  ASSUME Inv, pc \in Decompressing, NEW p \in Nat
  PROVE  Offset(p) \in Nat
<1>1. p + 1 \in Nat
  OBVIOUS
<1>2. Byte(p) \in Nat /\ Byte(p + 1) \in Nat
  BY <1>1, ByteGood
<1> QED BY <1>2 DEF Offset

LEMMA M3MatchGood == Inv /\ pc = "match" /\ M3Match => Inv'
<1> SUFFICES ASSUME Inv, pc = "match", M3Match PROVE Inv'
  OBVIOUS
<1> DEFINE p == ip + 1
<1>1. /\ pc \in Decompressing /\ p \in Nat /\ Len(src) \in Nat /\ p + 2 <= Len(src)
      /\ Byte(ip) \in Nat /\ Byte(ip) \in 32..63
  <2>1. Byte(ip) \in 32..63
    BY Zenon DEF M3Match
  <2>2. p + 2 = ip + 3
    BY InstructionThere
  <2> QED BY <2>1, <2>2, InstructionThere
<1>2. \/ Byte(ip) > 32 /\ CopyMatch(p + 2, 1 + Offset(p), (Byte(ip) - 32) + 2)
      \/ Return("input overrun", Len(src))
      \/ ~ CountCut(p) /\ Return("input overrun", CountEnd(p))
      \/ /\ ~ CountCut(p) /\ NEED_IP(CountEnd(p), 2)
         /\ CopyMatch(CountEnd(p) + 2, 1 + Offset(CountEnd(p)), CountAt(p) + 31 + 2)
  <2>1. CASE Byte(ip) > 32
    BY <2>1, Zenon DEF M3Match
  <2>2. CASE Byte(ip) = 32 /\ CountCut(p)
    BY <2>2, Zenon DEF M3Match
  <2>3. CASE Byte(ip) = 32 /\ ~ CountCut(p) /\ ~ NEED_IP(CountEnd(p), 2)
    BY <2>3, Zenon DEF M3Match
  <2>4. CASE Byte(ip) = 32 /\ ~ CountCut(p) /\ NEED_IP(CountEnd(p), 2)
    BY <2>4, Zenon DEF M3Match
  <2>5. Byte(ip) > 32 \/ Byte(ip) = 32
    <3>1. \A b \in 32..63 : b > 32 \/ b = 32
      OBVIOUS
    <3> QED BY <1>1, <3>1
  <2> HIDE DEF p
  <2> QED BY <2>1, <2>2, <2>3, <2>4, <2>5, Zenon
<1> HIDE DEF p
<1>3. CASE Byte(ip) > 32 /\ CopyMatch(p + 2, 1 + Offset(p), (Byte(ip) - 32) + 2)
  <2> DEFINE dist == 1 + Offset(p)
             n    == (Byte(ip) - 32) + 2
  <2>1. dist \in Int
    BY <1>1, OffsetGood
  <2>2. n \in Nat /\ p + 2 \in Nat /\ p + 2 >= 2
    BY <1>1, <1>3
  <2>3. CopyMatch(p + 2, dist, n)
    BY <1>3
  <2> HIDE DEF dist, n
  <2> QED BY <1>1, <2>1, <2>2, <2>3, CopyMatchGood
<1>4. CASE Return("input overrun", Len(src))
  <2>1. Len(src) \in Nat /\ Len(src) <= Len(src)
    BY <1>1
  <2> QED BY <1>1, <1>4, <2>1, ReturnGood
<1>5. CASE ~ CountCut(p) /\ Return("input overrun", CountEnd(p))
  BY <1>1, <1>5, CountGood, ReturnGood
<1>6. CASE /\ ~ CountCut(p) /\ NEED_IP(CountEnd(p), 2)
           /\ CopyMatch(CountEnd(p) + 2, 1 + Offset(CountEnd(p)), CountAt(p) + 31 + 2)
  <2> DEFINE q    == CountEnd(p)
             dist == 1 + Offset(q)
             n    == CountAt(p) + 31 + 2
  <2>1. q \in Nat /\ q <= Len(src) /\ CountAt(p) \in Nat
    BY <1>1, <1>6, CountGood
  <2>2. NEED_IP(q, 2) /\ CopyMatch(q + 2, dist, n)
    BY <1>6
  <2>3. dist \in Int
    <3> HIDE DEF q
    <3> QED BY <1>1, <2>1, OffsetGood
  <2>4. n \in Nat
    BY <2>1
  <2> HIDE DEF q, dist, n
  <2>5. q + 2 \in Nat /\ q + 2 >= 2 /\ q + 2 <= Len(src)
    BY <1>1, <2>1, <2>2 DEF NEED_IP
  <2> QED BY <1>1, <2>2, <2>3, <2>4, <2>5, CopyMatchGood
<1> QED BY <1>2, <1>3, <1>4, <1>5, <1>6

LEMMA FarMatchGood ==
  ASSUME Inv, pc \in Decompressing,
         NEW p \in Nat, p + 2 <= Len(src), NEW hi \in Nat, NEW n \in Nat,
         FarMatch(p, hi, n)
  PROVE  Inv'
<1>1. Offset(p) \in Nat /\ p + 2 \in Nat /\ M3Max \in Nat
  <2>1. M3Max \in Nat
    BY Limits
  <2> QED BY <2>1, OffsetGood
<1>2. CASE hi + Offset(p) = 0
  <2> DEFINE code == CASE p + 2 = Len(src) -> "ok"
                       [] p + 2 < Len(src) -> "input not consumed"
                       [] OTHER -> "input overrun"
  <2>1. Return(code, p + 2)
    BY <1>2, Zenon DEF FarMatch
  <2> HIDE DEF code
  <2> QED BY <1>1, <2>1, ReturnGood
<1>3. CASE hi + Offset(p) # 0
  <2> DEFINE dist == hi + Offset(p) + M3Max
  <2>1. CopyMatch(p + 2, dist, n)
    BY <1>3, Zenon DEF FarMatch
  <2>2. dist \in Int /\ p + 2 >= 2
    BY <1>1
  <2> HIDE DEF dist
  <2> QED BY <1>1, <2>1, <2>2, CopyMatchGood
<1> QED BY <1>2, <1>3

LEMMA M4MatchGood == Inv /\ pc = "match" /\ M4Match => Inv'
<1> SUFFICES ASSUME Inv, pc = "match", M4Match PROVE Inv'
  OBVIOUS
<1> DEFINE p  == ip + 1
           hi == Hi * ((Byte(ip) \div 8) % 2)
<1>1. /\ pc \in Decompressing /\ p \in Nat /\ Len(src) \in Nat /\ p + 2 <= Len(src) /\ Byte(ip) \in Nat
  <2>1. p + 2 = ip + 3
    BY InstructionThere
  <2> QED BY <2>1, InstructionThere
<1>2. hi \in Nat
  <2>1. Hi \in Nat
    BY Limits
  <2>2. (Byte(ip) \div 8) % 2 \in {0, 1}
    BY <1>1
  <2> QED BY <2>1, <2>2
<1>3. \/ FarMatch(p, hi, (Byte(ip) % 8) + 2)
      \/ Return("input overrun", Len(src))
      \/ ~ CountCut(p) /\ Return("input overrun", CountEnd(p))
      \/ ~ CountCut(p) /\ NEED_IP(CountEnd(p), 2) /\ FarMatch(CountEnd(p), hi, CountAt(p) + 7 + 2)
  <2>1. CASE Byte(ip) % 8 # 0
    BY <2>1, Zenon DEF M4Match
  <2>2. CASE Byte(ip) % 8 = 0 /\ CountCut(p)
    BY <2>2, Zenon DEF M4Match
  <2>3. CASE Byte(ip) % 8 = 0 /\ ~ CountCut(p) /\ ~ NEED_IP(CountEnd(p), 2)
    BY <2>3, Zenon DEF M4Match
  <2>4. CASE Byte(ip) % 8 = 0 /\ ~ CountCut(p) /\ NEED_IP(CountEnd(p), 2)
    BY <2>4, Zenon DEF M4Match
  <2> HIDE DEF p, hi
  <2> QED BY <2>1, <2>2, <2>3, <2>4, Zenon
<1> HIDE DEF p, hi
<1>4. CASE FarMatch(p, hi, (Byte(ip) % 8) + 2)
  <2>1. (Byte(ip) % 8) + 2 \in Nat
    BY <1>1
  <2> QED BY <1>1, <1>2, <1>4, <2>1, FarMatchGood
<1>5. CASE Return("input overrun", Len(src))
  <2>1. Len(src) \in Nat /\ Len(src) <= Len(src)
    BY <1>1
  <2> QED BY <1>1, <1>5, <2>1, ReturnGood
<1>6. CASE ~ CountCut(p) /\ Return("input overrun", CountEnd(p))
  BY <1>1, <1>6, CountGood, ReturnGood
<1>7. CASE ~ CountCut(p) /\ NEED_IP(CountEnd(p), 2) /\ FarMatch(CountEnd(p), hi, CountAt(p) + 7 + 2)
  <2> DEFINE q == CountEnd(p)
             n == CountAt(p) + 7 + 2
  <2>1. q \in Nat /\ q <= Len(src) /\ n \in Nat
    BY <1>1, <1>7, CountGood
  <2>2. NEED_IP(q, 2) /\ FarMatch(q, hi, n)
    BY <1>7
  <2> HIDE DEF q, n
  <2>3. q + 2 <= Len(src)
    BY <1>1, <2>1, <2>2 DEF NEED_IP
  <2> QED BY <1>1, <1>2, <2>1, <2>2, <2>3, FarMatchGood
<1> QED BY <1>3, <1>4, <1>5, <1>6, <1>7

LEMMA NextGood == Inv /\ [Next]_vars => Inv'
<1> SUFFICES ASSUME Inv, [Next]_vars PROVE Inv'
  OBVIOUS
<1>1. CASE StartBlock \/ Skip \/ LeaveBlock \/ Miss \/ Hit \/ Seal \/ Deliver
  BY <1>1, StartBlockGood, SkipGood, LeaveBlockGood, MissGood, HitGood, SealGood, DeliverGood
<1>2. CASE FirstByte \/ Literals \/ AfterLiterals \/ Trailing
  BY <1>2, FirstByteGood, LiteralsGood, AfterLiteralsGood, TrailingGood
<1>3. CASE Matches
  BY <1>3, M1MatchGood, M2MatchGood, M3MatchGood, M4MatchGood DEF Matches
<1>4. CASE Ended \/ UNCHANGED vars
  <2>1. /\ data' = data /\ out' = out /\ pc' = pc /\ ip' = ip /\ t' = t
        /\ at' = at /\ ii' = ii /\ dict' = dict /\ reach' = reach
        /\ src' = src /\ room' = room /\ got' = got
    BY <1>4 DEF Ended, vars, compressor, decompressor
  <2>2. Types'
    BY <2>1 DEF Inv, Types
  <2>3. CompressorInv'
    BY <2>1 DEF Inv, CompressorInv, Sized, BlockEnd, BlockLen
  <2>4. DecompressorInv'
    BY <2>1 DEF Inv, DecompressorInv
  <2> QED BY <2>2, <2>3, <2>4 DEF Inv
<1> QED BY <1>1, <1>2, <1>3, <1>4 DEF Next

LEMMA Invariant == Spec => []Inv
BY InitGood, NextGood, PTL DEF Spec

-----------------------------------------------------------------------------

(* For every chunk and every choice of block size and offset limits the encodings can hold: the
   eight-byte loads that look for the end of a match stay inside the chunk, and the compressed
   bytes, the spill of the wide stores included, take no more than the chunk, a sixteenth of it
   and 67 bytes, the size testmini.c allots (lzo1x_1_compress). *)
THEOREM CompressorStaysInside == Spec => []CompressorInside
<1>1. Inv => CompressorInside
  <2> SUFFICES ASSUME Inv PROVE CompressorInside
    OBVIOUS
  <2> USE DEF Inv
  <2>1. Len(data) \in Nat /\ Len(out) \in Nat /\ at \in Nat /\ ii \in Nat /\ t \in Nat /\ reach.out \in Nat
    BY DEF Types
  <2>2. reach.in <= Len(data)
    BY DEF CompressorInv
  <2>3. ASSUME pc \in {"block", "literal", "next", "stored"}, data \in Inputs
        PROVE  Greatest(reach.out, Len(out)) <= Len(data) + Len(data) \div 16 + 67
    <3>1. CASE pc = "stored"
      BY <2>3, <3>1 DEF CompressorInv
    <3>2. CASE pc # "stored"
      <4>1. PICK e \in Nat : e <= Len(data) /\ Sized(e)
        <5>1. CASE pc = "block"
          BY <2>1, <5>1 DEF CompressorInv, Compressing
        <5>2. CASE pc \in {"literal", "next"}
          <6>1. at <= Len(data) /\ t <= ii /\ ii <= BlockEnd /\ Sized(ii - t)
            BY <5>2 DEF CompressorInv, Compressing
          <6>2. BlockEnd \in Nat /\ BlockEnd <= Len(data)
            BY <6>1, BlockBounds
          <6> QED BY <2>1, <6>1, <6>2
        <5> QED BY <2>3, <3>2, <5>1, <5>2
      <4>2. /\ e \div 16 \in Nat /\ Len(data) \div 16 \in Nat
            /\ e + e \div 16 <= Len(data) + Len(data) \div 16
        BY <2>1, <4>1
      <4>3. Len(out) <= e + e \div 16 /\ reach.out <= e + e \div 16 + 17
        BY <4>1 DEF Sized
      <4> QED BY <2>1, <4>1, <4>2, <4>3 DEF Greatest
    <3> QED BY <3>1, <3>2
  <2>4. Len(data) + Len(data) \div 16 + 67 = Len(data) + Len(data) \div 16 + 64 + 3
    BY <2>1
  <2> QED BY <2>2, <2>3, <2>4, Zenon DEF CompressorInside
<1> QED BY <1>1, Invariant, PTL

(* Whatever bytes arrive, in whatever length, and whatever room there is for them: the checked
   decompressor reads none behind the end of its input, has the first three bytes of every
   instruction before it looks at it, and writes none behind the end of its buffer. *)
THEOREM DecompressorStaysInside == Spec => []DecompressorInside
<1>1. Inv => DecompressorInside
  BY DEF Inv, Types, DecompressorInv, DecompressorInside, Compressing, Decompressing
<1> QED BY <1>1, Invariant, PTL

-----------------------------------------------------------------------------
(* Ways through a stream *)

LEMMA Onward ==
  ASSUME NEW s, NEW d, NEW x, Reads(s, d, x)
  PROVE  /\ x \in Place /\ x[2] + 3 <= Len(s)
         /\ Stops(s, d, x) \/ \E y \in Place : Says(s, d, x, y) /\ Reads(s, d, y)
<1>1. PICK way \in SUBSET Place : x \in way /\ IsWay(s, d, way)
  BY DEF Reads
<1>2. \A y \in way : Reads(s, d, y)
  BY <1>1, Zenon DEF Reads
<1>3. x[2] + 3 <= Len(s) /\ (Stops(s, d, x) \/ \E y \in way : Says(s, d, x, y))
  BY <1>1, Zenon DEF IsWay
<1> QED BY <1>1, <1>2, <1>3, Zenon

LEMMA Backward ==
  ASSUME NEW s, NEW d, NEW x \in Place, x[2] + 3 <= Len(s),
         NEW y, Says(s, d, x, y), Reads(s, d, y)
  PROVE  Reads(s, d, x)
<1>1. PICK way \in SUBSET Place : y \in way /\ IsWay(s, d, way)
  BY DEF Reads
<1> DEFINE more == way \cup {x}
<1>2. more \in SUBSET Place /\ x \in more /\ y \in more
  BY <1>1
<1>3. ASSUME NEW here \in more
      PROVE  here[2] + 3 <= Len(s) /\ (Stops(s, d, here) \/ \E z \in more : Says(s, d, here, z))
  <2>1. CASE here \in way
    BY <1>1, <2>1, Zenon DEF IsWay
  <2>2. CASE here = x
    BY <1>2, <2>2, Zenon
  <2> QED BY <2>1, <2>2
<1> HIDE DEF more
<1>4. IsWay(s, d, more)
  BY <1>3, Zenon DEF IsWay
<1> QED BY <1>2, <1>4, Zenon DEF Reads

LEMMA AtTheEnd ==
  ASSUME NEW s, NEW d, NEW x \in Place, x[2] + 3 <= Len(s), Stops(s, d, x)
  PROVE  Reads(s, d, x)
<1>1. {x} \in SUBSET Place
  OBVIOUS
<1>2. IsWay(s, d, {x})
  BY Zenon DEF IsWay
<1> QED BY <1>1, <1>2, Zenon DEF Reads

\* Which instructions say where a place leads.
LEMMA SaysAt ==
  ASSUME NEW s, NEW d, NEW l \in Labels, NEW p \in Nat, NEW n \in Nat, NEW q \in Nat, NEW y,
         l = "first" => p = 0 /\ n = 0 /\ q = 0
  PROVE  /\ l = "first" => (Says(s, d, <<l, p, n, q>>, y) <=> FirstSays(s, d, y))
         /\ l = "literals" => (Says(s, d, <<l, p, n, q>>, y) <=> LiteralsSay(s, d, p, q, y))
         /\ l = "trailing" => (Says(s, d, <<l, p, n, q>>, y) <=> SaysRun(s, d, p, q, n, "match", y))
         /\ l = "after" => (Says(s, d, <<l, p, n, q>>, y) <=> AfterSays(s, d, p, q, y))
         /\ l = "match" => (Says(s, d, <<l, p, n, q>>, y) <=> MatchSays(s, d, p, q, y))
<1> DEFINE x == <<l, p, n, q>>
<1>1. /\ x[1] = l /\ x[2] = p /\ x[3] = n /\ x[4] = q
      /\ l = "first" <=> x = <<"first", 0, 0, 0>>
  OBVIOUS
<1>2. /\ "first" # "literals" /\ "first" # "trailing" /\ "first" # "after" /\ "first" # "match"
      /\ "literals" # "trailing" /\ "literals" # "after" /\ "literals" # "match"
      /\ "trailing" # "after" /\ "trailing" # "match" /\ "after" # "match"
  OBVIOUS
<1> HIDE DEF x
<1>3. CASE l = "first"
  BY <1>1, <1>2, <1>3, Zenon DEF Says, x
<1>4. CASE l = "literals"
  BY <1>1, <1>2, <1>4, Zenon DEF Says, x
<1>5. CASE l = "trailing"
  BY <1>1, <1>2, <1>5, Zenon DEF Says, x
<1>6. CASE l = "after"
  BY <1>1, <1>2, <1>6, Zenon DEF Says, x
<1>7. CASE l = "match"
  BY <1>1, <1>2, <1>7, Zenon DEF Says, x
<1> QED BY <1>3, <1>4, <1>5, <1>6, <1>7, Zenon DEF Labels

\* The bytes of c stand at p.
Holds(s, p, c) == p + Len(c) <= Len(s) /\ \A k \in 1..Len(c) : s[p + k] = c[k]

\* So do their parts.
LEMMA HoldsParts ==
  ASSUME NEW s \in Seq(Octet), NEW p \in Nat, NEW u \in Seq(Octet), NEW v \in Seq(Octet),
         Holds(s, p, u \o v)
  PROVE  Holds(s, p, u) /\ Holds(s, p + Len(u), v)
<1> DEFINE w == u \o v
<1>1. /\ Len(w) = Len(u) + Len(v) /\ Len(u) \in Nat /\ Len(v) \in Nat
      /\ \A k \in 1..Len(u) : w[k] = u[k]
      /\ \A k \in 1..Len(v) : w[Len(u) + k] = v[k]
  BY Joined
<1> HIDE DEF w
<1>2. Len(s) \in Nat /\ p + Len(w) <= Len(s) /\ \A k \in 1..Len(w) : s[p + k] = w[k]
  BY DEF Holds, w
<1> HIDE DEF Octet
<1> DEFINE lu == Len(u)
           lv == Len(v)
<1>3. lu \in Nat /\ lv \in Nat /\ Len(w) = lu + lv
  BY <1>1
<1>4. Holds(s, p, u)
  BY <1>1, <1>2 DEF Holds
<1>5. ASSUME NEW k \in 1..lv PROVE s[p + lu + k] = v[k]
  <2>1. lu + k \in 1..Len(w) /\ p + (lu + k) = p + lu + k
    <3> HIDE DEF lu, lv
    <3> QED BY <1>3
  <2>2. s[p + (lu + k)] = w[lu + k]
    BY <1>2, <2>1
  <2>3. w[lu + k] = v[k]
    BY <1>1
  <2> QED BY <2>1, <2>2, <2>3
<1>6. p + lu + lv <= Len(s)
  <2> HIDE DEF lu, lv
  <2> QED BY <1>2, <1>3
<1>7. Holds(s, p + lu, v)
  BY <1>5, <1>6 DEF Holds
<1> QED BY <1>4, <1>7

\* A count reads back.
LEMMA CountReads ==
  ASSUME NEW s \in Seq(Octet), NEW p \in Nat, NEW n \in Nat \ {0}, Holds(s, p, LongCount(n))
  PROVE  \E z \in Nat : /\ SaysCount(s, p, z) /\ 255 * z + s[p + z + 1] = n
                        /\ Len(LongCount(n)) = z + 1
<1> DEFINE z    == (n - 1) \div 255
           last == <<n - 255 * z>>
<1>1. z \in Nat /\ n - 255 * z \in Octet /\ n - 255 * z # 0 /\ 255 * z + (n - 255 * z) = n
  BY DEF Octet
<1>2. LongCount(n) = Zeros(z) \o last
  BY DEF LongCount
<1> HIDE DEF z
<1>3. last \in Seq(Octet) /\ Len(last) = 1 /\ last[1] = n - 255 * z
  BY <1>1
<1> HIDE DEF last
<1>4. Zeros(z) \in Seq(Octet) /\ Len(Zeros(z)) = z /\ \A k \in 1..z : Zeros(z)[k] = 0
  BY <1>1, ZerosGood DEF Zeros
<1>5. Holds(s, p, Zeros(z)) /\ Holds(s, p + z, last) /\ Len(LongCount(n)) = z + 1
  <2> DEFINE u == Zeros(z)
  <2>1. u \in Seq(Octet) /\ Len(u) = z /\ LongCount(n) = u \o last
    BY <1>2, <1>4
  <2> HIDE DEF u
  <2>2. Holds(s, p, u) /\ Holds(s, p + Len(u), last) /\ Len(u \o last) = Len(u) + Len(last)
    <3>1. u \in Seq(Octet) /\ last \in Seq(Octet) /\ Holds(s, p, u \o last)
      BY <1>3, <2>1
    <3>2. Len(u \o last) = Len(u) + Len(last)
      BY <3>1, Joined
    <3>3. Holds(s, p, u) /\ Holds(s, p + Len(u), last)
      BY <3>1, HoldsParts
    <3> QED BY <3>2, <3>3
  <2> QED BY <1>3, <2>1, <2>2 DEF u
<1>6. \A k \in 1..z : s[p + k] = 0
  BY <1>4, <1>5 DEF Holds
<1>7. p + z + 1 <= Len(s) /\ s[p + z + 1] = n - 255 * z
  BY <1>1, <1>3, <1>5 DEF Holds
<1>8. SaysCount(s, p, z)
  BY <1>1, <1>6, <1>7 DEF SaysCount
<1> QED BY <1>1, <1>5, <1>7, <1>8

LEMMA PlaceGood ==
  ASSUME NEW l \in Labels, NEW p \in Nat, NEW n \in Nat, NEW q \in Nat
  PROVE  <<l, p, n, q>> \in Place /\ <<l, p, n, q>>[2] = p
BY DEF Place

\* An instruction of sixteen or more is a match's, after literals as after a match.
LEMMA MatchNext ==
  ASSUME NEW s \in Seq(Octet), NEW d, NEW p \in Nat, NEW q \in Nat, s[p + 1] >= 16,
         Reads(s, d, <<"match", p, 0, q>>)
  PROVE  Reads(s, d, <<"literals", p, 0, q>>) /\ Reads(s, d, <<"after", p, 0, q>>)
<1> DEFINE y == <<"match", p, 0, q>>
<1>1. p + 3 <= Len(s)
  <2>1. y \in Place /\ y[2] = p
    BY PlaceGood DEF Labels
  <2>2. y[2] + 3 <= Len(s)
    BY Onward
  <2> QED BY <2>1, <2>2
<1> HIDE DEF y
<1>2. ASSUME NEW l \in {"literals", "after"} PROVE Reads(s, d, <<l, p, 0, q>>)
  <2> DEFINE x == <<l, p, 0, q>>
  <2>1. l \in Labels /\ l # "first"
    BY DEF Labels
  <2>2. x \in Place /\ x[2] = p
    BY <2>1, PlaceGood
  <2>3. LiteralsSay(s, d, p, q, y) /\ AfterSays(s, d, p, q, y)
    BY DEF LiteralsSay, AfterSays, y
  <2>4. Says(s, d, x, y)
    BY <2>1, <2>3, SaysAt
  <2> HIDE DEF x
  <2>5. Reads(s, d, y)
    BY DEF y
  <2>6. x[2] + 3 <= Len(s)
    BY <1>1, <2>2
  <2>7. Reads(s, d, x)
    BY <2>2, <2>4, <2>5, <2>6, Backward
  <2> QED BY <2>7 DEF x
<1> QED BY <1>2

\* Four literals and more.
LEMMA RunReads ==
  ASSUME NEW s \in Seq(Octet), NEW d \in Seq(Octet), NEW p \in Nat, NEW q \in Nat, NEW n \in Nat, n >= 4,
         Holds(s, p, RunHead(n)), Same(s, p + Len(RunHead(n)), d, q, n),
         Reads(s, d, <<"after", p + Len(RunHead(n)) + n, 0, q + n>>)
  PROVE  /\ Reads(s, d, <<"literals", p, 0, q>>)
         /\ s[p + 1] <= 15
<1> DEFINE h == Len(RunHead(n))
           y == <<"after", p + h + n, 0, q + n>>
<1>1. h \in Nat /\ Len(s) \in Nat
  <2>1. RunHead(n) \in Seq(Octet)
    BY RunHeadGood
  <2> QED BY <2>1
<1>2. h >= 1 /\ s[p + 1] <= 15 /\ LiteralsSay(s, d, p, q, y)
  <2>1. CASE n <= 18
    <3>1. RunHead(n) = <<n - 3>> /\ h = 1
      BY <2>1 DEF RunHead
    <3>2. s[p + 1] = n - 3
      BY <3>1 DEF Holds
    <3>3. SaysRun(s, d, p + 1, q, s[p + 1] + 3, "after", y)
      <4>1. s[p + 1] + 3 = n
        BY <3>2
      <4>2. SaysRun(s, d, p + 1, q, n, "after", y)
        BY <3>1 DEF SaysRun
      <4> QED BY <4>1, <4>2
    <3> QED BY <2>1, <3>1, <3>2, <3>3 DEF LiteralsSay
  <2>2. CASE n > 18
    <3> DEFINE zero == <<0>>
               m    == n - 18
               long == LongCount(m)
    <3>1. zero \in Seq(Octet) /\ Len(zero) = 1 /\ zero[1] = 0 /\ m \in Nat \ {0} /\ m + 18 = n
      BY <2>2 DEF Octet
    <3>2. RunHead(n) = zero \o long
      BY <2>2 DEF RunHead
    <3>3. long \in Seq(Octet)
      <4> HIDE DEF m
      <4> QED BY <3>1, LongCountGood
    <3> HIDE DEF zero, m
    <3>4. Holds(s, p, zero) /\ Holds(s, p + 1, LongCount(m)) /\ h = 1 + Len(LongCount(m))
      <4> HIDE DEF long
      <4>1. Holds(s, p, zero \o long)
        BY <3>2
      <4>2. Holds(s, p, zero) /\ Holds(s, p + Len(zero), long)
        BY <3>1, <3>3, <4>1, HoldsParts
      <4>3. Len(zero \o long) = Len(zero) + Len(long)
        BY <3>1, <3>3, Joined
      <4> QED BY <3>1, <3>2, <4>2, <4>3 DEF long
    <3>5. s[p + 1] = 0
      BY <3>1, <3>4 DEF Holds
    <3>6. PICK z \in Nat : /\ SaysCount(s, p + 1, z) /\ 255 * z + s[p + 1 + z + 1] = m
                           /\ Len(LongCount(m)) = z + 1
      BY <3>1, <3>4, CountReads
    <3>7. p + 1 + z + 1 = p + z + 2 /\ h = z + 2 /\ p + h = p + z + 2
      BY <3>4, <3>6
    <3>8. 255 * z + s[p + z + 2] + 18 = n
      <4>1. s[p + z + 2] \in Octet
        <5>1. p + z + 2 \in 1..Len(s)
          BY <3>6, <1>1 DEF SaysCount
        <5> QED BY <5>1
      <4>2. 255 * z + s[p + z + 2] = m
        BY <3>6, <3>7
      <4> QED BY <3>1, <4>1, <4>2, OctetIsNat
    <3>9. SaysRun(s, d, p + z + 2, q, n, "after", y)
      BY <3>7 DEF SaysRun
    <3> HIDE DEF h, y
    <3>10. SaysRun(s, d, p + z + 2, q, 255 * z + s[p + z + 2] + 18, "after", y)
      BY <3>8, <3>9
    <3>11. LiteralsSay(s, d, p, q, y)
      BY <3>5, <3>6, <3>10, Zenon DEF LiteralsSay
    <3>12. h >= 1 /\ s[p + 1] <= 15
      BY <3>5, <3>7
    <3> QED BY <3>11, <3>12
  <2> QED BY <2>1, <2>2
<1>3. p + 3 <= Len(s)
  BY <1>1, <1>2 DEF Same
<1> DEFINE x == <<"literals", p, 0, q>>
<1>4. x \in Place /\ x[2] = p
  BY PlaceGood DEF Labels
<1>5. Says(s, d, x, y)
  BY <1>2, SaysAt DEF Labels
<1>6. x[2] + 3 <= Len(s) /\ Reads(s, d, y)
  BY <1>3, <1>4
<1> HIDE DEF x, y
<1>7. Reads(s, d, x)
  BY <1>4, <1>5, <1>6, Backward
<1> QED BY <1>2, <1>7 DEF x

\* One to three literals, counted in the match before them.
LEMMA TrailingReads ==
  ASSUME NEW s \in Seq(Octet), NEW d \in Seq(Octet), NEW p \in Nat, NEW q \in Nat, NEW n \in Nat,
         Same(s, p, d, q, n), Reads(s, d, <<"match", p + n, 0, q + n>>)
  PROVE  Reads(s, d, <<"trailing", p, n, q>>)
<1> DEFINE x == <<"trailing", p, n, q>>
           y == <<"match", p + n, 0, q + n>>
<1>1. x \in Place /\ x[2] = p /\ y \in Place /\ y[2] = p + n
  BY PlaceGood DEF Labels
<1>2. Says(s, d, x, y)
  <2>1. SaysRun(s, d, p, q, n, "match", y)
    BY DEF SaysRun
  <2> QED BY <2>1, SaysAt DEF Labels
<1> HIDE DEF x, y
<1>3. Reads(s, d, y)
  BY DEF y
<1>4. x[2] + 3 <= Len(s)
  <2>1. p + n + 3 <= Len(s)
    BY <1>1, <1>3, Onward
  <2> QED BY <1>1, <2>1
<1>5. Reads(s, d, x)
  BY <1>1, <1>2, <1>3, <1>4, Backward
<1> QED BY <1>5 DEF x

\* The two bytes of an offset, with a count of literals in the first.
OffsetBytes(s, p, o, low) == s[p + 1] = ((o * 4) % 256) + low /\ s[p + 2] = (o \div 64) % 256
OffsetSays(s, p, o, low) == OffsetIn(s, p) = o /\ s[p + 1] % 4 = low

LEMMA OffsetReads ==
  ASSUME NEW s, NEW p \in Nat, NEW o \in Nat, o < 16384, NEW low \in 0..3, OffsetBytes(s, p, o, low)
  PROVE  OffsetSays(s, p, o, low)
<1> DEFINE a == o \div 64
           b == o % 64
<1>1. a \in 0..255 /\ b \in 0..63 /\ o = 64 * a + b
  OBVIOUS
<1>2. (o * 4) % 256 = 4 * b
  BY <1>1
<1> HIDE DEF b
<1>3. s[p + 1] = 4 * b + low /\ s[p + 2] = a
  BY <1>1, <1>2 DEF OffsetBytes
<1> HIDE DEF a
<1>4. (4 * b + low + 256 * a) \div 4 = b + 64 * a /\ (4 * b + low) % 4 = low
  BY <1>1
<1> QED BY <1>1, <1>3, <1>4 DEF OffsetIn, OffsetSays

\* The first byte of a match of up to eight bytes at most M2Max back.
ShortBytes(x, y, n, o, low) == x = (n - 1) * 32 + (o % 8) * 4 + low /\ y = (o \div 8) % 256
ShortSays(x, y, n, o, low) ==
  /\ x >= 64 /\ (x \div 32) + 1 = n /\ x % 4 = low
  /\ 1 + ((x \div 4) % 8) + 8 * y = o + 1

LEMMA ShortReads ==
  ASSUME NEW n \in Nat, n >= 4, n <= 8, NEW o \in Nat, o < 2048, NEW low \in 0..3,
         NEW x, NEW y, ShortBytes(x, y, n, o, low)
  PROVE  ShortSays(x, y, n, o, low)
<1> DEFINE a == o \div 8
           b == o % 8
<1>1. a \in 0..255 /\ b \in 0..7 /\ o = 8 * a + b
  OBVIOUS
<1>2. y = a
  BY <1>1 DEF ShortBytes
<1> HIDE DEF a, b
<1>3. x = 32 * (n - 1) + 4 * b + low
  BY DEF b, ShortBytes
<1>4. x \div 32 = n - 1 /\ x \div 4 = 8 * (n - 1) + b /\ x % 4 = low
  BY <1>1, <1>3
<1>5. (8 * (n - 1) + b) % 8 = b
  BY <1>1
<1> QED BY <1>1, <1>2, <1>3, <1>4, <1>5 DEF ShortSays

\* The head of a longer match, or of one from farther back.
HeadSays(s, p, marker, field, n, h) ==
  \/ n <= field + 2 /\ h = 1 /\ s[p + 1] = marker + (n - 2)
  \/ /\ n > field + 2 /\ s[p + 1] = marker
     /\ \E z \in Nat : /\ SaysCount(s, p + 1, z)
                       /\ 255 * z + s[p + z + 2] + field + 2 = n
                       /\ h = z + 2

LEMMA HeadReads ==
  ASSUME NEW s \in Seq(Octet), NEW p \in Nat, NEW n \in Nat, n >= 4,
         NEW marker \in {16, 24, 32}, NEW field \in {7, 31}, marker = 32 \/ field = 7,
         NEW h, h = Len(MatchHead(marker, field, n)), Holds(s, p, MatchHead(marker, field, n))
  PROVE  HeadSays(s, p, marker, field, n, h)
<1>1. CASE n <= field + 2
  <2>1. MatchHead(marker, field, n) = <<marker + (n - 2)>>
    BY <1>1 DEF MatchHead
  <2>2. h = 1 /\ s[p + 1] = marker + (n - 2)
    BY <2>1 DEF Holds
  <2> QED BY <1>1, <2>2 DEF HeadSays
<1>2. CASE n > field + 2
  <2> DEFINE one  == <<marker>>
             m    == n - field - 2
             long == LongCount(m)
  <2>1. one \in Seq(Octet) /\ Len(one) = 1 /\ one[1] = marker /\ m \in Nat \ {0} /\ m + field + 2 = n
    BY <1>2 DEF Octet
  <2>2. MatchHead(marker, field, n) = one \o long
    BY <1>2 DEF MatchHead
  <2>3. long \in Seq(Octet)
    <3> HIDE DEF m
    <3> QED BY <2>1, LongCountGood
  <2> HIDE DEF one, m
  <2>4. Holds(s, p, one) /\ Holds(s, p + 1, LongCount(m)) /\ h = 1 + Len(LongCount(m))
    <3> HIDE DEF long
    <3>1. Holds(s, p, one \o long)
      BY <2>2
    <3>2. Holds(s, p, one) /\ Holds(s, p + Len(one), long)
      BY <2>1, <2>3, <3>1, HoldsParts
    <3>3. Len(one \o long) = Len(one) + Len(long)
      BY <2>1, <2>3, Joined
    <3> QED BY <2>1, <2>2, <3>2, <3>3 DEF long
  <2>5. s[p + 1] = marker
    BY <2>1, <2>4 DEF Holds
  <2>6. PICK z \in Nat : /\ SaysCount(s, p + 1, z) /\ 255 * z + s[p + 1 + z + 1] = m
                         /\ Len(LongCount(m)) = z + 1
    BY <2>1, <2>4, CountReads
  <2>7. p + 1 + z + 1 = p + z + 2 /\ h = z + 2
    BY <2>4, <2>6
  <2>8. 255 * z + s[p + z + 2] + field + 2 = n
    <3>1. s[p + z + 2] \in Octet
      <4>1. p + z + 2 \in 1..Len(s)
        BY <2>6 DEF SaysCount
      <4> QED BY <4>1
    <3>2. 255 * z + s[p + z + 2] = m
      BY <2>6, <2>7
    <3> QED BY <2>1, <3>1, <3>2, OctetIsNat
  <2> QED BY <1>2, <2>5, <2>6, <2>7, <2>8, Zenon DEF HeadSays
<1> QED BY <1>1, <1>2

\* The bytes of the match c stand at p, with a count of literals in the last but one.
Marked(s, p, c, low) ==
  /\ p + Len(c) <= Len(s)
  /\ \A k \in 1..Len(c) : s[p + k] = c[k] + (IF k = Len(c) - 1 THEN low ELSE 0)

Apart(s, p, u, v, low) ==
  /\ Holds(s, p, u) /\ p + Len(u) + 2 <= Len(s)
  /\ s[p + Len(u) + 1] = v[1] + low /\ s[p + Len(u) + 2] = v[2]

LEMMA MarkedParts ==
  ASSUME NEW s \in Seq(Octet), NEW p \in Nat, NEW u \in Seq(Octet), NEW v \in Seq(Octet), Len(v) = 2,
         NEW low \in 0..3, Marked(s, p, u \o v, low)
  PROVE  Apart(s, p, u, v, low)
<1> DEFINE w == u \o v
           h == Len(u)
<1>1. /\ Len(w) = h + 2 /\ h \in Nat
      /\ \A k \in 1..h : w[k] = u[k]
      /\ \A k \in 1..2 : w[h + k] = v[k]
  <2> DEFINE hv == Len(v)
  <2>1. /\ Len(w) = h + hv
        /\ \A k \in 1..h : w[k] = u[k]
        /\ \A k \in 1..hv : w[h + k] = v[k]
    BY Joined
  <2>2. hv = 2 /\ h \in Nat
    OBVIOUS
  <2> HIDE DEF hv, h, w
  <2> QED BY <2>1, <2>2
<1>2. v[1] \in Nat /\ v[2] \in Nat /\ \A k \in 1..h : u[k] \in Nat
  <2>1. \A k \in 1..h : u[k] \in Octet
    BY Element
  <2>2. v[1] \in Octet /\ v[2] \in Octet
    <3>1. \A k \in 1..Len(v) : v[k] \in Octet
      BY Element
    <3>2. 1 \in 1..Len(v) /\ 2 \in 1..Len(v)
      OBVIOUS
    <3> QED BY <3>1, <3>2, Zenon
  <2> QED BY <2>1, <2>2, OctetIsNat
<1> HIDE DEF w
<1>3. p + h + 2 <= Len(s) /\ \A k \in 1..h + 2 : s[p + k] = w[k] + (IF k = h + 1 THEN low ELSE 0)
  <2>1. Marked(s, p, w, low)
    BY DEF w
  <2>2. Len(w) - 1 = h + 1 /\ p + Len(w) = p + h + 2
    BY <1>1
  <2> HIDE DEF h
  <2> QED BY <1>1, <2>1, <2>2 DEF Marked
<1> HIDE DEF h
<1>4. \A k \in 1..h : s[p + k] = u[k]
  <2> SUFFICES ASSUME NEW k \in 1..h PROVE s[p + k] = u[k]
    OBVIOUS
  <2>1. k \in 1..h + 2 /\ k # h + 1
    BY <1>1
  <2>2. s[p + k] = w[k] + 0
    BY <1>3, <2>1
  <2> QED BY <1>1, <1>2, <2>2
<1>5. s[p + (h + 1)] = v[1] + low /\ s[p + (h + 2)] = v[2]
  <2>1. h + 1 \in 1..h + 2 /\ h + 2 \in 1..h + 2 /\ h + 2 # h + 1
    BY <1>1
  <2>2. s[p + (h + 1)] = w[h + 1] + low /\ s[p + (h + 2)] = w[h + 2] + 0
    BY <1>3, <2>1
  <2>3. w[h + 1] = v[1] /\ w[h + 2] = v[2]
    BY <1>1
  <2> QED BY <1>2, <2>2, <2>3
<1>6. p + (h + 1) = p + h + 1 /\ p + (h + 2) = p + h + 2
  BY <1>1
<1>7. p + h <= Len(s)
  BY <1>1, <1>3
<1>8. Holds(s, p, u)
  BY <1>4, <1>7 DEF Holds, h
<1> QED BY <1>3, <1>5, <1>6, <1>8 DEF h, Apart

\* Where the label and the count behind a match lead.
Behind(p, low, q) == <<IF low = 0 THEN "literals" ELSE "trailing", p, low, q>>

LEMMA MatchSaid ==
  ASSUME NEW s, NEW d, NEW p \in Nat, NEW q, NEW dist, NEW n, NEW low,
         p <= Len(s), Repeats(d, q, dist, n), s[p - 1] % 4 = low
  PROVE  SaysMatch(s, d, p, q, dist, n, Behind(p, low, q + n))
BY DEF SaysMatch, Behind

\* A match that the compressor writes.
LEMMA CodeSays ==
  ASSUME NEW s \in Seq(Octet), NEW d \in Seq(Octet), NEW p \in Nat, NEW q \in Nat,
         NEW n \in Nat, n >= 4, NEW off \in Nat \ {0}, off < M3Max + 2 * Hi, NEW low \in 0..3,
         Repeats(d, q, off, n), Marked(s, p, MatchCode(n, off), low)
  PROVE  /\ s[p + 1] >= 16
         /\ MatchSays(s, d, p, q, Behind(p + Len(MatchCode(n, off)), low, q + n))
<1> DEFINE code == MatchCode(n, off)
           l    == Len(code)
           y    == Behind(p + l, low, q + n)
           x1   == s[p + 1]
           x2   == s[p + 2]
<1>0. code = MatchCode(n, off) /\ l = Len(code) /\ Marked(s, p, code, low) /\ y = Behind(p + l, low, q + n)
      /\ Len(s) \in Nat
  OBVIOUS
<1> HIDE DEF code, l, y
<1>1. CASE n <= 8 /\ off <= M2Max
  <2> DEFINE o == off - 1
  <2>1. code = <<(n - 1) * 32 + (o % 8) * 4, (o \div 8) % 256>>
    BY <1>0, <1>1 DEF MatchCode
  <2>2. o \in Nat /\ o < 2048 /\ n <= 8 /\ o + 1 = off
    BY <1>1, Limits
  <2> HIDE DEF o
  <2>3. (o \div 8) % 256 \in Nat /\ (n - 1) * 32 + (o % 8) * 4 \in Nat
    BY <2>2
  <2>4. l = 2 /\ code[1] = (n - 1) * 32 + (o % 8) * 4 /\ code[2] = (o \div 8) % 256
    BY <1>0, <2>1
  <2>5. p + 2 <= Len(s) /\ x1 = (n - 1) * 32 + (o % 8) * 4 + low /\ x2 = (o \div 8) % 256
    <3>1. 1 \in 1..l /\ 2 \in 1..l /\ l - 1 = 1
      BY <2>4
    <3>2. \A k \in 1..l : s[p + k] = code[k] + (IF k = l - 1 THEN low ELSE 0)
      BY <1>0, Zenon DEF Marked
    <3>3. s[p + 1] = code[1] + low /\ s[p + 2] = code[2] + 0
      BY <3>1, <3>2
    <3>4. p + 2 <= Len(s)
      BY <1>0, <2>4 DEF Marked
    <3> QED BY <2>3, <2>4, <3>3, <3>4
  <2> HIDE DEF x1, x2
  <2>6. /\ x1 >= 64 /\ (x1 \div 32) + 1 = n /\ x1 % 4 = low
        /\ 1 + ((x1 \div 4) % 8) + 8 * x2 = off
    <3>1. /\ x1 >= 64 /\ (x1 \div 32) + 1 = n /\ x1 % 4 = low
          /\ 1 + ((x1 \div 4) % 8) + 8 * x2 = o + 1
      <4>1. ShortBytes(x1, x2, n, o, low)
        BY <2>5 DEF ShortBytes
      <4>2. ShortSays(x1, x2, n, o, low)
        BY <2>2, <4>1, ShortReads
      <4> QED BY <4>2, Zenon DEF ShortSays
    <3> QED BY <2>2, <3>1
  <2>7. SaysMatch(s, d, p + 2, q, off, n, y)
    <3> DEFINE pp == p + 2
    <3>1. pp \in Nat /\ s[pp - 1] % 4 = low /\ pp <= Len(s) /\ y = Behind(pp, low, q + n)
      <4>1. pp - 1 = p + 1
        OBVIOUS
      <4> QED BY <1>0, <2>4, <2>5, <2>6, <4>1 DEF x1
    <3> HIDE DEF pp
    <3>2. SaysMatch(s, d, pp, q, off, n, Behind(pp, low, q + n))
      BY <3>1, MatchSaid
    <3> QED BY <3>1, <3>2 DEF pp
  <2>8. x1 >= 64 /\ SaysMatch(s, d, p + 2, q, 1 + ((x1 \div 4) % 8) + 8 * x2, (x1 \div 32) + 1, y)
    BY <2>6, <2>7
  <2>9. MatchSays(s, d, p, q, y)
    BY <2>8, Zenon DEF MatchSays, x1, x2
  <2>10. x1 >= 16
    BY <2>2, <2>3, <2>5, <2>6
  <2> QED BY <1>0, <2>9, <2>10 DEF x1
<1>2. CASE ~ (n <= 8 /\ off <= M2Max) /\ off <= M3Max
  <2> DEFINE o    == off - 1
             head == MatchHead(32, 31, n)
             tail == Offset14(o)
             h    == Len(head)
  <2>1. code = head \o tail
    BY <1>0, <1>2 DEF MatchCode
  <2>2. o \in Nat /\ o < 16384 /\ 1 + o = off
    BY <1>2, Limits
  <2>3. tail \in Seq(Octet) /\ Len(tail) = 2 /\ tail[1] = (o * 4) % 256 /\ tail[2] = (o \div 64) % 256
    <3> HIDE DEF o
    <3> QED BY <2>2, Offset14Good DEF Offset14
  <2>4. head \in Seq(Octet) /\ h \in Nat
    BY MatchHeadGood
  <2> HIDE DEF o, head, tail
  <2>5. /\ Holds(s, p, head) /\ p + h + 2 <= Len(s) /\ l = h + 2
        /\ s[p + h + 1] = ((o * 4) % 256) + low /\ s[p + h + 2] = (o \div 64) % 256
    <3>1. Marked(s, p, head \o tail, low)
      BY <1>0, <2>1
    <3>2. Apart(s, p, head, tail, low)
      BY <2>3, <2>4, <3>1, MarkedParts
    <3>3. l = h + 2
      <4>1. Len(head \o tail) = Len(head) + Len(tail)
        BY <2>3, <2>4, Joined, ZenonT(40)
      <4> QED BY <1>0, <2>1, <2>3, <4>1
    <3> QED BY <2>3, <3>2, <3>3 DEF Apart
  <2>6. OffsetIn(s, p + h) = o /\ s[p + h + 1] % 4 = low
    <3> DEFINE r == p + h
    <3>1. r \in Nat /\ OffsetBytes(s, r, o, low)
      BY <2>4, <2>5 DEF OffsetBytes
    <3> HIDE DEF r
    <3>2. OffsetSays(s, r, o, low)
      BY <2>2, <3>1, OffsetReads
    <3> QED BY <3>2, Zenon DEF r, OffsetSays
  <2>7. SaysMatch(s, d, p + h + 2, q, 1 + OffsetIn(s, p + h), n, y)
    <3> DEFINE pp == p + h + 2
    <3>1. pp \in Nat /\ s[pp - 1] % 4 = low /\ pp <= Len(s) /\ y = Behind(pp, low, q + n)
      <4>1. pp - 1 = p + h + 1 /\ p + l = pp /\ pp \in Nat
        BY <2>4, <2>5
      <4> QED BY <1>0, <2>5, <2>6, <4>1
    <3> HIDE DEF pp
    <3>2. SaysMatch(s, d, pp, q, off, n, Behind(pp, low, q + n))
      BY <3>1, MatchSaid
    <3>3. 1 + OffsetIn(s, p + h) = off
      BY <2>2, <2>6
    <3>4. SaysMatch(s, d, pp, q, 1 + OffsetIn(s, p + h), n, y)
      BY <3>1, <3>2, <3>3, Zenon
    <3> QED BY <3>4 DEF pp
  <2>8. \/ n <= 31 + 2 /\ h = 1 /\ s[p + 1] = 32 + (n - 2)
        \/ /\ n > 31 + 2 /\ s[p + 1] = 32
           /\ \E z \in Nat : /\ SaysCount(s, p + 1, z)
                             /\ 255 * z + s[p + z + 2] + 31 + 2 = n
                             /\ h = z + 2
    <3> DEFINE marker == 32
               field == 31
    <3>1. /\ Holds(s, p, MatchHead(marker, field, n)) /\ h = Len(MatchHead(marker, field, n))
          /\ marker \in {16, 24, 32} /\ field \in {7, 31} /\ (marker = 32 \/ field = 7)
      BY <2>5 DEF head
    <3> HIDE DEF h, marker, field
    <3>2. HeadSays(s, p, marker, field, n, h)
      BY <3>1, HeadReads
    <3> QED BY <3>2, Zenon DEF HeadSays, marker, field
  <2>9. CASE n <= 33 /\ h = 1 /\ s[p + 1] = 32 + (n - 2)
    <3>1. x1 \in 34..63 /\ (x1 - 32) + 2 = n
      BY <2>9
    <3> HIDE DEF x1
    <3>2. SaysMatch(s, d, p + 3, q, 1 + OffsetIn(s, p + 1), n, y)
      <4>1. p + h + 2 = p + 3
        BY <2>9
      <4> QED BY <2>7, <2>9, <4>1
    <3>3. x1 > 32 /\ x1 \in 32..63 /\ x1 >= 16
      BY <3>1
    <3>4. SaysMatch(s, d, p + 3, q, 1 + OffsetIn(s, p + 1), (x1 - 32) + 2, y)
      BY <3>1, <3>2
    <3>5. M3Says(s, d, p, q, y)
      BY <3>3, <3>4, Zenon DEF M3Says, x1
    <3> QED BY <1>0, <3>3, <3>5 DEF MatchSays, x1
  <2>10. ASSUME s[p + 1] = 32, NEW z \in Nat, SaysCount(s, p + 1, z), 255 * z + s[p + z + 2] + 31 + 2 = n, h = z + 2
         PROVE  s[p + 1] >= 16 /\ MatchSays(s, d, p, q, y)
    <3>1. p + h + 2 = p + z + 4 /\ p + h = p + z + 2
      BY <2>10
    <3>2. 255 * z + s[p + z + 2] + 33 = n
      <4> DEFINE last == s[p + z + 2]
      <4>1. last \in Nat
        <5>1. p + z + 2 \in 1..Len(s)
          BY <2>10 DEF SaysCount
        <5>2. last \in Octet
          BY <5>1
        <5> QED BY <5>2, OctetIsNat
      <4> HIDE DEF last
      <4>2. 255 * z + last + 31 + 2 = n
        BY <2>10 DEF last
      <4>3. 255 * z + last + 33 = n
        BY <4>1, <4>2
      <4> QED BY <4>3 DEF last
    <3>3. SaysMatch(s, d, p + z + 4, q, 1 + OffsetIn(s, p + z + 2), 255 * z + s[p + z + 2] + 33, y)
      BY <2>7, <3>1, <3>2
    <3>4. M3Says(s, d, p, q, y)
      BY <2>10, <3>3, Zenon DEF M3Says
    <3>5. s[p + 1] \in 32..63 /\ s[p + 1] >= 16
      BY <2>10
    <3> QED BY <3>4, <3>5 DEF MatchSays
  <2>11. 31 + 2 = 33
    OBVIOUS
  <2> QED BY <1>0, <2>8, <2>9, <2>10, <2>11
<1>3. CASE off > M3Max
  <2> DEFINE o    == off - M3Max
             b    == (o \div Hi) % 2
             m    == 16 + 8 * b
             head == MatchHead(m, 7, n)
             tail == Offset14(o % Hi)
             h    == Len(head)
             hi   == Hi * b
  <2>0. /\ o \in Nat \ {0} /\ Hi \in Nat \ {0} /\ Hi <= 16384 /\ o < 2 * Hi /\ o + M3Max = off
        /\ M2Max <= M3Max /\ M2Max \in Nat /\ M3Max \in Nat
    BY <1>3, Limits
  <2>1. code = head \o tail
    <3>1. ~ (off <= M3Max) /\ ~ (n <= 8 /\ off <= M2Max)
      BY <1>3, <2>0
    <3> QED BY <1>0, <3>1, Zenon DEF MatchCode
  <2>2. b \in {0, 1} /\ o = Hi * b + (o % Hi) /\ o % Hi \in Nat /\ o % Hi < 16384
    <3> DEFINE a == o \div Hi
               r == o % Hi
    <3>1. a \in Nat /\ r \in 0..Hi - 1 /\ o = Hi * a + r
      BY <2>0
    <3> HIDE DEF o, a, r
    <3>2. a = 0 \/ a = 1
      <4> SUFFICES ASSUME a >= 2 PROVE FALSE
        BY <3>1
      <4>1. Hi * a >= Hi * 2
        BY <2>0, <3>1
      <4> QED BY <2>0, <3>1, <4>1
    <3>3. a % 2 = a
      BY <3>2
    <3> QED BY <2>0, <3>1, <3>2, <3>3 DEF a, r
  <2>3. m \in {16, 24} /\ m = 16 + 8 * b
    BY <2>2
  <2> DEFINE r == o % Hi
  <2>4. tail \in Seq(Octet) /\ Len(tail) = 2 /\ tail[1] = (r * 4) % 256 /\ tail[2] = (r \div 64) % 256
    <3>1. r \in Nat /\ tail = Offset14(r)
      BY <2>2
    <3> HIDE DEF r, tail
    <3>2. tail \in Seq(Octet) /\ Len(tail) = 2
      BY <3>1, Offset14Good
    <3>3. tail = <<(r * 4) % 256, (r \div 64) % 256>>
      BY <3>1 DEF Offset14
    <3> QED BY <3>2, <3>3
  <2> HIDE DEF m
  <2>5. head \in Seq(Octet) /\ h \in Nat
    <3> DEFINE field == 7
    <3>1. m \in {16, 24, 32} /\ field \in {7, 31} /\ (m = 32 \/ field = 7) /\ n >= 3
      BY <2>3
    <3>2. head = MatchHead(m, field, n)
      OBVIOUS
    <3> HIDE DEF field, head
    <3>3. head \in Seq(Octet)
      <4>1. MatchHead(m, field, n) \in Seq(Octet)
        <5>1. n \in Nat /\ m \in {16, 24, 32} /\ field \in {7, 31} /\ (m = 32 \/ field = 7) /\ n >= 3
          BY <3>1
        <5> QED BY ONLY <5>1, MatchHeadGood, ZenonT(40)
      <4> QED BY <3>2, <4>1
    <3> QED BY <3>3
  <2>6. r \in Nat /\ r < 16384 /\ o = hi + r /\ hi \in Nat
    BY <2>0, <2>2
  <2> HIDE DEF o, head, tail, r, hi, b
  <2>7. /\ Holds(s, p, head) /\ p + h + 2 <= Len(s) /\ l = h + 2
        /\ s[p + h + 1] = ((r * 4) % 256) + low /\ s[p + h + 2] = (r \div 64) % 256
    <3>1. Marked(s, p, head \o tail, low)
      BY <1>0, <2>1
    <3>2. Apart(s, p, head, tail, low)
      BY <2>4, <2>5, <3>1, MarkedParts
    <3>3. l = h + 2
      <4>1. Len(head \o tail) = Len(head) + Len(tail)
        BY <2>4, <2>5, Joined, ZenonT(40)
      <4> QED BY <1>0, <2>1, <2>4, <4>1
    <3> QED BY <2>4, <3>2, <3>3 DEF Apart
  <2>8. OffsetIn(s, p + h) = r /\ s[p + h + 1] % 4 = low
    <3> DEFINE pp == p + h
    <3>1. pp \in Nat /\ OffsetBytes(s, pp, r, low)
      BY <2>5, <2>7 DEF OffsetBytes
    <3> HIDE DEF pp
    <3>2. OffsetSays(s, pp, r, low)
      BY <2>6, <3>1, OffsetReads
    <3> QED BY <3>2, Zenon DEF pp, OffsetSays
  <2>9. SaysFar(s, d, p + h, q, hi, n, y)
    <3> DEFINE pp == p + h + 2
               off2 == OffsetIn(s, p + h)
    <3>1. pp \in Nat /\ s[pp - 1] % 4 = low /\ pp <= Len(s) /\ y = Behind(pp, low, q + n)
      <4>1. pp - 1 = p + h + 1 /\ p + l = pp /\ pp \in Nat
        BY <2>5, <2>7
      <4> QED BY <1>0, <2>7, <2>8, <4>1
    <3>2. off2 = r
      BY <2>8
    <3> HIDE DEF pp, off2
    <3>3. SaysMatch(s, d, pp, q, off, n, Behind(pp, low, q + n))
      BY <3>1, MatchSaid
    <3>4. hi + off2 = o /\ hi + off2 # 0 /\ hi + off2 + M3Max = off
      BY <2>0, <2>6, <3>2
    <3> QED BY <3>1, <3>3, <3>4 DEF SaysFar, off2, pp
  <2>10. \/ n <= 7 + 2 /\ h = 1 /\ s[p + 1] = m + (n - 2)
         \/ /\ n > 7 + 2 /\ s[p + 1] = m
            /\ \E z \in Nat : /\ SaysCount(s, p + 1, z)
                              /\ 255 * z + s[p + z + 2] + 7 + 2 = n
                              /\ h = z + 2
    <3> DEFINE field == 7
    <3>1. /\ Holds(s, p, MatchHead(m, field, n)) /\ h = Len(MatchHead(m, field, n))
          /\ m \in {16, 24, 32} /\ field \in {7, 31} /\ (m = 32 \/ field = 7)
      BY <2>3, <2>7 DEF head
    <3> HIDE DEF h, field
    <3>2. HeadSays(s, p, m, field, n, h)
      BY <3>1, HeadReads
    <3> QED BY <3>2, Zenon DEF HeadSays, field
  <2>11. CASE n <= 9 /\ h = 1 /\ s[p + 1] = m + (n - 2)
    <3>1. x1 = 16 + 8 * b + (n - 2) /\ n - 2 \in 2..7 /\ b \in {0, 1}
      BY <2>2, <2>3, <2>11
    <3> HIDE DEF x1
    <3>2. x1 \in 16..31 /\ x1 % 8 = n - 2 /\ (x1 \div 8) % 2 = b
      BY <3>1
    <3>3. x1 % 8 # 0 /\ (x1 % 8) + 2 = n /\ x1 >= 16
      BY <3>1, <3>2
    <3>4. SaysFar(s, d, p + 1, q, hi, n, y)
      BY <2>9, <2>11
    <3>5. SaysFar(s, d, p + 1, q, Hi * ((x1 \div 8) % 2), (x1 % 8) + 2, y)
      BY <3>2, <3>3, <3>4, Zenon DEF hi
    <3>6. M4Says(s, d, p, q, y)
      BY <3>3, <3>5, Zenon DEF M4Says, x1
    <3> QED BY <1>0, <3>2, <3>3, <3>6 DEF MatchSays, x1
  <2>12. ASSUME s[p + 1] = m, NEW z \in Nat, SaysCount(s, p + 1, z), 255 * z + s[p + z + 2] + 7 + 2 = n, h = z + 2
         PROVE  s[p + 1] >= 16 /\ MatchSays(s, d, p, q, y)
    <3>1. p + h = p + z + 2
      BY <2>12
    <3>2. 255 * z + s[p + z + 2] + 9 = n
      <4> DEFINE last == s[p + z + 2]
      <4>1. last \in Nat
        <5>1. p + z + 2 \in 1..Len(s)
          BY <2>12 DEF SaysCount
        <5>2. last \in Octet
          BY <5>1
        <5> QED BY <5>2, OctetIsNat
      <4> HIDE DEF last
      <4>2. 255 * z + last + 7 + 2 = n
        BY <2>12 DEF last
      <4>3. 255 * z + last + 9 = n
        BY <4>1, <4>2
      <4> QED BY <4>3 DEF last
    <3>3. s[p + 1] \in 16..31 /\ s[p + 1] % 8 = 0 /\ (s[p + 1] \div 8) % 2 = b /\ s[p + 1] >= 16
      <4>1. x1 = 16 + 8 * b /\ b \in {0, 1}
        BY <2>2, <2>3, <2>12
      <4> HIDE DEF x1
      <4>2. x1 \in 16..31 /\ x1 % 8 = 0 /\ (x1 \div 8) % 2 = b /\ x1 >= 16
        BY <4>1
      <4> QED BY <4>2 DEF x1
    <3>4. SaysFar(s, d, p + z + 2, q, Hi * ((s[p + 1] \div 8) % 2), 255 * z + s[p + z + 2] + 9, y)
      BY <2>9, <3>1, <3>2, <3>3 DEF hi
    <3>5. M4Says(s, d, p, q, y)
      BY <2>12, <3>3, <3>4, Zenon DEF M4Says
    <3> QED BY <3>3, <3>5 DEF MatchSays
  <2>13. 7 + 2 = 9
    OBVIOUS
  <2> QED BY <1>0, <2>10, <2>11, <2>12, <2>13
<1>4. M2Max \in Nat /\ M3Max \in Nat /\ M2Max <= M3Max
  BY Limits
<1> QED BY <1>1, <1>2, <1>3, <1>4

LEMMA MatchReads ==
  ASSUME NEW s \in Seq(Octet), NEW d \in Seq(Octet), NEW p \in Nat, NEW q \in Nat,
         NEW n \in Nat, n >= 4, NEW off \in Nat \ {0}, off < M3Max + 2 * Hi, NEW low \in 0..3,
         Repeats(d, q, off, n), Marked(s, p, MatchCode(n, off), low),
         Reads(s, d, Behind(p + Len(MatchCode(n, off)), low, q + n))
  PROVE  s[p + 1] >= 16 /\ Reads(s, d, <<"match", p, 0, q>>)
<1> DEFINE l == Len(MatchCode(n, off))
           x == <<"match", p, 0, q>>
           y == Behind(p + l, low, q + n)
<1>1. l \in Nat
  BY MatchCodeGood
<1>2. s[p + 1] >= 16 /\ MatchSays(s, d, p, q, y)
  BY CodeSays
<1>3. x \in Place /\ x[2] = p
  BY PlaceGood DEF Labels
<1>4. y[2] = p + l
  BY DEF Behind
<1>5. Says(s, d, x, y)
  BY <1>2, SaysAt DEF Labels
<1>6. Reads(s, d, y)
  OBVIOUS
<1> HIDE DEF x, y, l
<1>7. x[2] + 3 <= Len(s)
  <2>1. p + l + 3 <= Len(s)
    BY <1>4, <1>6, Onward
  <2> QED BY <1>1, <1>3, <2>1
<1>8. Reads(s, d, x)
  BY <1>3, <1>5, <1>6, <1>7, Backward
<1> QED BY <1>2, <1>8 DEF x

\* Whatever stream starts with op and goes on with a match at e bytes of d encodes d.
Opens(op, d, e) ==
  \A s \in Seq(Octet) :
    /\ Holds(s, 0, op) /\ s[Len(op) + 1] >= 16
    /\ Reads(s, d, <<"match", Len(op), 0, e>>)
    => Encodes(s, d)

\* out is an opening followed by a match that ends at e bytes of d.
Ends(op, n, off, o, d, e) ==
  /\ o = op \o MatchCode(n, off)
  /\ op \in Seq(Octet) /\ n \in Nat /\ n >= 4 /\ n <= e
  /\ off \in Nat \ {0} /\ off < M3Max + 2 * Hi
  /\ Repeats(d, e - n, off, n)
  /\ Opens(op, d, e - n)

\* The bytes o encode the first e bytes of d: none, or up to and with a match.
Written(o, d, e) ==
  \/ o = << >> /\ e = 0
  \/ o # << >> /\ \E op \in Seq(Octet), n \in Nat, off \in Nat : Ends(op, n, off, o, d, e)

\* Up to three literals can still be counted in the last match.
LEMMA EndReads ==
  ASSUME NEW d \in Seq(Octet), NEW e \in Nat, NEW o, NEW op, NEW n, NEW off, Ends(op, n, off, o, d, e),
         NEW low \in 0..3, NEW s \in Seq(Octet), Holds(s, 0, op),
         Marked(s, Len(op), MatchCode(n, off), low),
         Reads(s, d, Behind(Len(o), low, e))
  PROVE  Encodes(s, d)
<1> DEFINE l == Len(MatchCode(n, off))
           p == Len(op)
           q == e - n
<1>1. /\ op \in Seq(Octet) /\ n \in Nat /\ n >= 4 /\ n <= e
      /\ off \in Nat \ {0} /\ off < M3Max + 2 * Hi
      /\ Repeats(d, q, off, n) /\ Opens(op, d, q) /\ o = op \o MatchCode(n, off)
  BY DEF Ends
<1>2. q \in Nat /\ q + n = e
  BY <1>1
<1>3. p \in Nat /\ l \in Nat /\ Len(o) = p + l
  <2>1. MatchCode(n, off) \in Seq(Octet)
    BY <1>1, MatchCodeGood
  <2> QED BY <1>1, <2>1, Joined
<1> HIDE DEF q
<1>4. Reads(s, d, Behind(p + Len(MatchCode(n, off)), low, q + n))
  BY <1>2, <1>3
<1>5. Marked(s, p, MatchCode(n, off), low)
  OBVIOUS
<1> HIDE DEF p, l
<1>6. s[p + 1] >= 16 /\ Reads(s, d, <<"match", p, 0, q>>)
  BY <1>1, <1>2, <1>3, <1>4, <1>5, MatchReads
<1> QED BY <1>1, <1>6 DEF Opens, p

\* The low bits of the last byte but one of a match are free.
LEMMA LowBits ==
  ASSUME NEW n \in Nat, n >= 4, NEW off \in Nat \ {0}
  PROVE  MatchCode(n, off)[Len(MatchCode(n, off)) - 1] % 4 = 0
<1> DEFINE code == MatchCode(n, off)
<1>1. ASSUME NEW head \in Seq(Octet), NEW o \in Nat, code = head \o Offset14(o)
      PROVE  code[Len(code) - 1] % 4 = 0
  <2> DEFINE tail == Offset14(o)
             h == Len(head)
  <2>1. tail \in Seq(Octet) /\ Len(tail) = 2
    BY Offset14Good
  <2>2. tail[1] = (o * 4) % 256
    BY DEF Offset14
  <2>3. ((o * 4) % 256) % 4 = 0
    OBVIOUS
  <2> HIDE DEF tail, code
  <2>4. Len(head \o tail) = h + Len(tail) /\ \A k \in 1..Len(tail) : (head \o tail)[h + k] = tail[k]
    BY <2>1, Joined
  <2>5. h \in Nat
    OBVIOUS
  <2> HIDE DEF h
  <2>6. 1 \in 1..Len(tail) /\ Len(head \o tail) - 1 = h + 1
    BY <2>1, <2>4, <2>5
  <2>7. (head \o tail)[h + 1] = tail[1]
    BY <2>4, <2>6
  <2>8. code = head \o tail
    BY <1>1 DEF tail
  <2> QED BY <2>2, <2>3, <2>6, <2>7, <2>8
<1>2. CASE n <= 8 /\ off <= M2Max
  <2> DEFINE x == (n - 1) * 32 + ((off - 1) % 8) * 4
  <2>1. code = <<(n - 1) * 32 + ((off - 1) % 8) * 4, ((off - 1) \div 8) % 256>>
    BY <1>2 DEF MatchCode
  <2>2. Len(code) - 1 = 1 /\ code[1] = x
    BY <2>1
  <2>3. x % 4 = 0
    OBVIOUS
  <2> QED BY <2>2, <2>3
<1>3. CASE ~ (n <= 8 /\ off <= M2Max) /\ off <= M3Max
  <2> DEFINE head == MatchHead(32, 31, n)
  <2>1. code = head \o Offset14(off - 1)
    BY <1>3, Zenon DEF MatchCode
  <2>2. head \in Seq(Octet) /\ off - 1 \in Nat
    BY MatchHeadGood
  <2> HIDE DEF head, code
  <2> QED BY <1>1, <2>1, <2>2 DEF code
<1>4. CASE off > M3Max
  <2> DEFINE o == off - M3Max
             b == (o \div Hi) % 2
             m == 16 + 8 * b
             head == MatchHead(m, 7, n)
  <2>0. o \in Nat \ {0} /\ Hi \in Nat \ {0} /\ M2Max <= M3Max /\ M2Max \in Nat /\ M3Max \in Nat
    BY <1>4, Limits
  <2>1. o \div Hi \in Nat /\ o % Hi \in Nat
    BY <2>0
  <2>2. b \in {0, 1}
    BY <2>1
  <2>3. m \in {16, 24}
    <3> HIDE DEF b
    <3> QED BY <2>2
  <2>4. code = head \o Offset14(o % Hi)
    <3>1. ~ (off <= M3Max) /\ ~ (n <= 8 /\ off <= M2Max)
      BY <1>4, <2>0
    <3> QED BY <3>1, Zenon DEF MatchCode
  <2>5. head \in Seq(Octet)
    <3> DEFINE field == 7
    <3>1. m \in {16, 24, 32} /\ field \in {7, 31} /\ (m = 32 \/ field = 7) /\ n >= 3
      BY <2>3
    <3>2. head = MatchHead(m, field, n)
      OBVIOUS
    <3> HIDE DEF field, head, m
    <3> QED BY <3>1, <3>2, MatchHeadGood
  <2> DEFINE r == o % Hi
  <2>6. r \in Nat /\ code = head \o Offset14(r)
    BY <2>1, <2>4
  <2> HIDE DEF head, code, r
  <2> QED BY <1>1, <2>5, <2>6 DEF code
<1>5. M2Max \in Nat /\ M3Max \in Nat /\ M2Max <= M3Max
  BY Limits
<1> QED BY <1>2, <1>3, <1>4, <1>5

LEMMA MarkedPlain ==
  ASSUME NEW s \in Seq(Octet), NEW p \in Nat, NEW c \in Seq(Octet), Holds(s, p, c)
  PROVE  Marked(s, p, c, 0)
<1>1. \A k \in 1..Len(c) : c[k] \in Nat
  BY Element, OctetIsNat
<1>2. \A k \in 1..Len(c) : c[k] + (IF k = Len(c) - 1 THEN 0 ELSE 0) = c[k]
  BY <1>1
<1> QED BY <1>2 DEF Marked, Holds

LEMMA OrCountIs ==
  ASSUME NEW op \in Seq(Octet), NEW n
  PROVE  OrCount(op, n) = [k \in 1..Len(op) |-> IF k = Len(op) - 1 THEN Or(op[k], n) ELSE op[k]]
<1> HIDE DEF Octet
<1> QED BY DEF OrCount

LEMMA MarkedCounted ==
  ASSUME NEW op \in Seq(Octet), NEW n \in Nat, n >= 4, NEW off \in Nat \ {0}, NEW low \in Nat, low \in 1..3,
         NEW s \in Seq(Octet), Holds(s, 0, OrCount(op \o MatchCode(n, off), low))
  PROVE  Holds(s, 0, op) /\ Marked(s, Len(op), MatchCode(n, off), low)
<1> DEFINE code == MatchCode(n, off)
           l == Len(code)
           p == Len(op)
           w == op \o code
           last == l - 1
<1>1. code \in Seq(Octet) /\ l \in Nat /\ l >= 2 /\ code[last] % 4 = 0 /\ p \in Nat
  <2>1. code \in Seq(Octet) /\ l \in 2..MatchSize(n)
    BY MatchCodeGood
  <2>2. code[last] % 4 = 0
    BY LowBits
  <2>3. l \in Nat /\ l >= 2
    BY <2>1
  <2> QED BY <2>1, <2>2, <2>3
<1> HIDE DEF code
<1>2. /\ w \in Seq(Octet) /\ Len(w) = p + l
      /\ \A k \in 1..p : w[k] = op[k]
      /\ \A k \in 1..l : w[p + k] = code[k]
  BY <1>1, Joined
<1> HIDE DEF w
<1>3. OrCount(w, low) = [k \in 1..Len(w) |-> IF k = Len(w) - 1 THEN Or(w[k], low) ELSE w[k]]
  BY <1>2, OrCountIs
<1>4. OrCount(w, low) \in Seq(Octet) /\ Len(OrCount(w, low)) = Len(w)
  BY <1>2, OrCountGood
<1> HIDE DEF l, p, last
<1>5. /\ p + l <= Len(s)
      /\ \A k \in 1..p + l : s[k] = IF k = p + last THEN Or(w[k], low) ELSE w[k]
  <2>1. Holds(s, 0, OrCount(w, low))
    BY DEF w, code
  <2>2. 0 + (p + l) <= Len(s) /\ \A k \in 1..p + l : s[0 + k] = OrCount(w, low)[k]
    BY <1>2, <1>4, <2>1 DEF Holds
  <2>3. ASSUME NEW k \in 1..p + l
        PROVE  s[k] = IF k = p + last THEN Or(w[k], low) ELSE w[k]
    <3>1. Len(w) = p + l
      BY <1>2
    <3>2. k \in 1..Len(w) /\ Len(w) - 1 = p + last
      BY <1>1, <3>1 DEF last
    <3>3. OrCount(w, low)[k] = IF k = Len(w) - 1 THEN Or(w[k], low) ELSE w[k]
      BY <1>3, <3>2
    <3>4. s[k] = OrCount(w, low)[k]
      <4>1. 0 + k = k
        OBVIOUS
      <4> QED BY <2>2, <4>1
    <3> QED BY <3>2, <3>3, <3>4, Zenon
  <2>4. p + l <= Len(s)
    BY <1>1, <2>2
  <2> QED BY <2>3, <2>4
<1>6. last \in 1..l /\ last \in Nat
  BY <1>1 DEF last
<1>7. Holds(s, 0, op)
  <2>1. \A k \in 1..p : k \in 1..p + l /\ k # p + last /\ 0 + k = k
    BY <1>1, <1>6
  <2>2. \A k \in 1..p : s[0 + k] = op[k]
    BY <1>2, <1>5, <2>1
  <2>3. 0 + p <= Len(s)
    BY <1>1, <1>5
  <2> QED BY <2>2, <2>3 DEF Holds, p
<1>8. ASSUME NEW k \in 1..l PROVE s[p + k] = code[k] + (IF k = l - 1 THEN low ELSE 0)
  <2>1. p + k \in 1..p + l /\ (p + k = p + last <=> k = last)
    BY <1>1, <1>6
  <2>2. w[p + k] = code[k] /\ code[k] \in Octet
    BY <1>1, <1>2, Element DEF l
  <2>3. s[p + k] = IF k = last THEN Or(code[k], low) ELSE code[k]
    BY <1>5, <2>1, <2>2
  <2>4. Or(code[last], low) = code[last] + low
    <3>1. code[last] \in Octet
      BY <1>1, <1>6, Element DEF l
    <3> QED BY <1>1, <3>1, OrGood
  <2>5. code[k] + 0 = code[k]
    BY <2>2, OctetIsNat
  <2> QED BY <2>3, <2>4, <2>5 DEF last
<1>9. Marked(s, p, code, low)
  BY <1>5, <1>8 DEF Marked, l
<1> QED BY <1>7, <1>9 DEF code, p

\* The literals lits are the bytes of d from e on.
Literal(lits, d, e) == e + Len(lits) <= Len(d) /\ \A k \in 1..Len(lits) : lits[k] = d[e + k]

LEMMA HeldSame ==
  ASSUME NEW s \in Seq(Octet), NEW d \in Seq(Octet), NEW p \in Nat, NEW e \in Nat, NEW lits \in Seq(Octet),
         Holds(s, p, lits), Literal(lits, d, e)
  PROVE  Same(s, p, d, e, Len(lits))
BY DEF Holds, Literal, Same

\* Behind the literals.
LEMMA MatchThere ==
  ASSUME NEW s \in Seq(Octet), NEW d, NEW p \in Nat, NEW q \in Nat, Reads(s, d, <<"match", p, 0, q>>)
  PROVE  p + 3 <= Len(s)
<1> DEFINE x == <<"match", p, 0, q>>
<1>1. x[2] = p /\ Reads(s, d, x)
  OBVIOUS
<1> HIDE DEF x
<1> QED BY <1>1, Onward

\* A stream may begin with four literals or more.
LEMMA FirstRunOpens ==
  ASSUME NEW d \in Seq(Octet), NEW lits \in Seq(Octet), Len(lits) >= 4, Literal(lits, d, 0)
  PROVE  Opens(RunHead(Len(lits)) \o lits, d, Len(lits))
<1> DEFINE n    == Len(lits)
           head == RunHead(n)
           h    == Len(head)
           op   == head \o lits
<1>1. n \in Nat /\ n >= 4
  OBVIOUS
<1> HIDE DEF n
<1>2. head \in Seq(Octet) /\ h \in Nat
  BY <1>1, RunHeadGood
<1> HIDE DEF head
<1>3. Len(op) = h + n
  BY <1>2, Joined DEF n
<1> SUFFICES ASSUME NEW s \in Seq(Octet), Holds(s, 0, op), s[Len(op) + 1] >= 16,
                    Reads(s, d, <<"match", Len(op), 0, n>>)
             PROVE  Encodes(s, d)
  BY Zenon DEF Opens, n, head
<1>4. Holds(s, 0, head) /\ Holds(s, h, lits)
  <2>1. Holds(s, 0, head) /\ Holds(s, 0 + h, lits)
    BY <1>2, HoldsParts
  <2>2. 0 + h = h
    BY <1>2
  <2> QED BY <2>1, <2>2
<1> HIDE DEF op, h
<1>5. Same(s, h, d, 0, n)
  BY <1>2, <1>4, HeldSame DEF n
<1>6. Reads(s, d, <<"after", h + n, 0, n>>)
  <2> DEFINE p == h + n
  <2>1. p \in Nat /\ s[p + 1] >= 16 /\ Reads(s, d, <<"match", p, 0, n>>)
    BY <1>1, <1>2, <1>3
  <2> HIDE DEF p
  <2> QED BY <1>1, <2>1, MatchNext DEF p
<1>7. Reads(s, d, <<"literals", 0, 0, 0>>) /\ s[1] <= 15
  <2> DEFINE p == 0
  <2>1. /\ p \in Nat /\ Holds(s, p, RunHead(n)) /\ Same(s, p + Len(RunHead(n)), d, p, n)
        /\ Reads(s, d, <<"after", p + Len(RunHead(n)) + n, 0, p + n>>)
    <3>1. p + h = h /\ p + n = n /\ p + h + n = h + n
      BY <1>1, <1>2
    <3>2. p \in Nat /\ Holds(s, p, head) /\ Same(s, p + h, d, p, n) /\ Reads(s, d, <<"after", p + h + n, 0, p + n>>)
      BY <1>4, <1>5, <1>6, <3>1
    <3> QED BY <3>2 DEF head, h
  <2> HIDE DEF p
  <2>2. Reads(s, d, <<"literals", p, 0, p>>) /\ s[p + 1] <= 15
    BY <1>1, <2>1, RunReads
  <2> QED BY <2>2 DEF p
<1>13. h + n + 3 <= Len(s)
  <2> DEFINE r == h + n
  <2>1. r \in Nat /\ Reads(s, d, <<"match", r, 0, n>>)
    BY <1>1, <1>2, <1>3
  <2> HIDE DEF r
  <2>2. r + 3 <= Len(s)
    BY <1>1, <2>1, MatchThere
  <2> QED BY <2>2 DEF r
<1> DEFINE x == <<"first", 0, 0, 0>>
           y == <<"literals", 0, 0, 0>>
<1>8. x \in Place /\ x[2] = 0
  BY PlaceGood DEF Labels
<1>9. Says(s, d, x, y)
  <2>1. s[1] <= 17
    <3>1. s[1] \in Octet
      <4>1. 1 \in 1..Len(s)
        <5>1. h + n + 3 <= Len(s)
          BY <1>13
        <5> QED BY <1>1, <1>2, <5>1
      <4> QED BY <4>1, Element
    <3>2. s[1] \in Nat
      BY <3>1, OctetIsNat
    <3> QED BY <1>7, <3>2
  <2>2. FirstSays(s, d, y)
    BY <2>1 DEF FirstSays
  <2> QED BY <2>2, SaysAt DEF Labels
<1>10. x[2] + 3 <= Len(s)
  <2>1. h + n + 3 <= Len(s)
    BY <1>13
  <2> QED BY <1>1, <1>2, <1>8, <2>1
<1>11. Reads(s, d, y)
  BY <1>7
<1> HIDE DEF x, y
<1>12. Reads(s, d, x)
  BY <1>8, <1>9, <1>10, <1>11, Backward
<1> QED BY <1>12 DEF Encodes, x

\* After a match, any number of literals goes.
LEMMA NextRunOpens ==
  ASSUME NEW d \in Seq(Octet), NEW e \in Nat, NEW o, NEW op, NEW n, NEW off, Ends(op, n, off, o, d, e),
         NEW lits \in Seq(Octet), Literal(lits, d, e)
  PROVE  Opens(Run(o, lits), d, e + Len(lits))
<1> DEFINE code == MatchCode(n, off)
           p    == Len(op)
           len  == Len(o)
           c    == Len(lits)
           new  == Run(o, lits)
<1>1. /\ op \in Seq(Octet) /\ n \in Nat /\ n >= 4
      /\ off \in Nat \ {0} /\ o = op \o code
  BY DEF Ends
<1>2. code \in Seq(Octet)
  BY <1>1, MatchCodeGood
<1> HIDE DEF code
<1>3. o \in Seq(Octet) /\ p \in Nat /\ len \in Nat /\ c \in Nat
  BY <1>1, <1>2, Joined
<1> SUFFICES ASSUME NEW s \in Seq(Octet), Holds(s, 0, new), s[Len(new) + 1] >= 16,
                    Reads(s, d, <<"match", Len(new), 0, e + c>>)
             PROVE  Encodes(s, d)
  BY Zenon DEF Opens
<1> HIDE DEF new, p, len, c
<1>4. ASSUME Holds(s, 0, o), Reads(s, d, <<"literals", len, 0, e>>) PROVE Encodes(s, d)
  <2>1. Holds(s, 0, op) /\ Holds(s, p, code)
    <3>1. Holds(s, 0, op) /\ Holds(s, 0 + Len(op), code)
      BY <1>1, <1>2, <1>4, HoldsParts
    <3>2. 0 + Len(op) = p
      BY <1>3 DEF p
    <3> QED BY <3>1, <3>2
  <2>2. Marked(s, p, code, 0)
    BY <1>2, <1>3, <2>1, MarkedPlain
  <2> DEFINE low == 0
  <2>3. Reads(s, d, Behind(len, low, e)) /\ low \in 0..3
    BY <1>4 DEF Behind
  <2>4. Marked(s, Len(op), MatchCode(n, off), low)
    BY <2>2 DEF p, code
  <2> HIDE DEF low
  <2> QED BY <2>1, <2>3, <2>4, EndReads DEF len
<1>5. CASE c = 0
  <2>1. new = o
    BY <1>5 DEF Run, new, c
  <2>2. Reads(s, d, <<"match", len, 0, e>>) /\ s[len + 1] >= 16
    <3>1. Len(new) = len /\ e + c = e
      BY <1>5, <2>1 DEF len
    <3> QED BY <3>1
  <2>3. Reads(s, d, <<"literals", len, 0, e>>)
    BY <1>3, <2>2, MatchNext
  <2> QED BY <1>4, <2>1, <2>3
<1>6. CASE c \in 1..3
  <2> DEFINE counted == OrCount(o, c)
  <2>1. new = counted \o lits
    BY <1>6 DEF Run, new, c
  <2>2. counted \in Seq(Octet) /\ Len(counted) = len
    BY <1>3, <1>6, OrCountGood DEF len
  <2> HIDE DEF counted
  <2>3. Holds(s, 0, counted) /\ Holds(s, len, lits) /\ Len(new) = len + c
    <3>1. Holds(s, 0, counted) /\ Holds(s, 0 + Len(counted), lits) /\ Len(counted \o lits) = Len(counted) + Len(lits)
      <4>1. Holds(s, 0, counted \o lits)
        BY <2>1
      <4> QED BY <2>2, <4>1, HoldsParts, Joined
    <3>2. 0 + Len(counted) = len
      BY <1>3, <2>2
    <3> QED BY <2>1, <2>2, <3>1, <3>2 DEF c
  <2>4. Holds(s, 0, op) /\ Marked(s, Len(op), MatchCode(n, off), c)
    <3>1. c \in Nat /\ c \in 1..3 /\ Holds(s, 0, OrCount(op \o MatchCode(n, off), c))
      BY <1>1, <1>6, <2>3 DEF counted, code
    <3> QED BY <1>1, <3>1, MarkedCounted
  <2>5. Reads(s, d, <<"trailing", len, c, e>>)
    <3>1. Same(s, len, d, e, c)
      BY <1>3, <2>3, HeldSame DEF c
    <3>2. Reads(s, d, <<"match", len + c, 0, e + c>>)
      BY <2>3
    <3> QED BY <1>3, <3>1, <3>2, TrailingReads
  <2>6. Reads(s, d, Behind(Len(o), c, e))
    <3>1. c # 0
      BY <1>6
    <3> QED BY <2>5, <3>1 DEF Behind, len
  <2>7. c \in 0..3
    BY <1>6
  <2> QED BY <2>4, <2>6, <2>7, EndReads
<1>7. CASE c \notin 0..3
  <2> DEFINE head == RunHead(c)
             h    == Len(head)
             front == o \o head
  <2>1. c >= 4
    BY <1>3, <1>7
  <2>2. head \in Seq(Octet) /\ h \in Nat
    BY <1>3, <2>1, RunHeadGood
  <2>3. new = front \o lits
    <3>1. ~ (c = 0) /\ ~ (c \in 1..3)
      BY <1>7
    <3> QED BY <3>1, Zenon DEF Run, new, c
  <2> HIDE DEF head
  <2>4. front \in Seq(Octet) /\ Len(front) = len + h
    BY <1>3, <2>2, Joined DEF len
  <2>5. Holds(s, 0, o) /\ Holds(s, len, head) /\ Holds(s, len + h, lits) /\ Len(new) = len + h + c
    <3>1. Holds(s, 0, front) /\ Holds(s, 0 + Len(front), lits) /\ Len(new) = Len(front) + c
      <4> HIDE DEF front
      <4>1. Holds(s, 0, front \o lits)
        BY <2>3
      <4>2. Holds(s, 0, front) /\ Holds(s, 0 + Len(front), lits)
        BY <2>4, <4>1, HoldsParts
      <4>3. Len(front \o lits) = Len(front) + Len(lits)
        BY <2>4, Joined
      <4> QED BY <2>3, <4>2, <4>3 DEF c
    <3>2. Holds(s, 0, o) /\ Holds(s, 0 + Len(o), head)
      BY <1>3, <2>2, <3>1, HoldsParts
    <3>3. 0 + Len(front) = len + h /\ 0 + Len(o) = len
      BY <1>3, <2>2, <2>4 DEF len
    <3> QED BY <2>4, <3>1, <3>2, <3>3
  <2> HIDE DEF h, front
  <2>6. Same(s, len + h, d, e, c)
    <3> DEFINE r == len + h
    <3>1. r \in Nat /\ Holds(s, r, lits)
      BY <1>3, <2>2, <2>5
    <3> HIDE DEF r
    <3>2. Same(s, r, d, e, c)
      BY <3>1, HeldSame DEF c
    <3> QED BY <3>2 DEF r
  <2>7. Reads(s, d, <<"after", len + h + c, 0, e + c>>)
    <3> DEFINE r == len + h + c
               q == e + c
    <3>1. r \in Nat /\ q \in Nat /\ s[r + 1] >= 16 /\ Reads(s, d, <<"match", r, 0, q>>)
      BY <1>3, <2>2, <2>5
    <3> HIDE DEF r, q
    <3>2. Reads(s, d, <<"after", r, 0, q>>)
      BY <3>1, MatchNext
    <3> QED BY <3>2 DEF r, q
  <2>8. Reads(s, d, <<"literals", len, 0, e>>)
    <3>1. /\ Holds(s, len, RunHead(c)) /\ Same(s, len + Len(RunHead(c)), d, e, c)
          /\ Reads(s, d, <<"after", len + Len(RunHead(c)) + c, 0, e + c>>)
      BY <2>5, <2>6, <2>7 DEF head, h
    <3> QED BY <1>3, <2>1, <3>1, RunReads
  <2> QED BY <1>4, <2>5, <2>8
<1>8. c \in 1..3 \/ c = 0 \/ c \notin 0..3
  BY <1>3
<1> QED BY <1>5, <1>6, <1>7, <1>8

-----------------------------------------------------------------------------
(* What the compressor has written says the bytes it has encoded. *)

\* A remainder starts over.
LEMMA StartsOver ==
  ASSUME NEW a \in Nat, NEW b \in Nat \ {0}, a >= b
  PROVE  a % b = (a - b) % b
<1> DEFINE c == a - b
           x == c \div b
           r == c % b
           y == a \div b
           u == a % b
<1>1. /\ x \in Nat /\ r \in 0..b - 1 /\ c = b * x + r
      /\ y \in Nat /\ u \in 0..b - 1 /\ a = b * y + u /\ c \in Nat /\ a = c + b
  OBVIOUS
<1> HIDE DEF c, x, r, y, u
<1>2. b * y + u = b * (x + 1) + r
  BY <1>1
<1>3. y = x + 1
  <2>1. ASSUME y > x + 1 PROVE FALSE
    <3>1. b * y >= b * (x + 2)
      BY <1>1, <2>1
    <3> QED BY <1>1, <1>2, <3>1
  <2>2. ASSUME y < x + 1 PROVE FALSE
    <3>1. b * y <= b * x
      BY <1>1, <2>2
    <3> QED BY <1>1, <1>2, <3>1
  <2> QED BY <1>1, <2>1, <2>2
<1> QED BY <1>1, <1>2, <1>3 DEF r, u, c

\* Bytes that are those of an earlier place repeat the ones between.
LEMMA EarlierRepeats ==
  ASSUME NEW d, NEW q \in Nat, NEW m \in Nat, m < q, NEW n \in Nat, q + n <= Len(d),
         \A j \in 1..n : d[q + j] = d[m + j]
  PROVE  Repeats(d, q, q - m, n)
<1> DEFINE b == q - m
           wrong == {k \in 1..n : d[q + k] # d[q - b + ((k - 1) % b) + 1]}
<1>1. b \in Nat \ {0} /\ b \in 1..q /\ q - b = m
  OBVIOUS
<1> HIDE DEF b
<1>2. ASSUME wrong # {} PROVE FALSE
  <2>1. PICK k \in wrong : \A j \in wrong : k <= j
    <3>1. wrong \in SUBSET Nat
      OBVIOUS
    <3> HIDE DEF wrong
    <3> QED BY <1>2, <3>1, LeastElement
  <2>2. k \in 1..n /\ d[q + k] = d[m + k]
    OBVIOUS
  <2>3. d[q + k] # d[m + ((k - 1) % b) + 1]
    BY <1>1, <2>1
  <2>4. CASE k <= b
    <3>1. (k - 1) % b = k - 1
      BY <1>1, <2>2, <2>4
    <3>2. m + (k - 1) + 1 = m + k
      BY <2>2
    <3> QED BY <2>2, <2>3, <3>1, <3>2
  <2>5. CASE k > b
    <3> DEFINE j == k - b
    <3>1. j \in 1..n /\ j < k /\ q + j = m + k /\ j - 1 = k - 1 - b
      BY <1>1, <2>2, <2>5
    <3>2. (k - 1) % b = (k - 1 - b) % b
      <4> DEFINE a == k - 1
      <4>1. a \in Nat /\ a >= b
        BY <1>1, <2>2, <2>5
      <4> HIDE DEF a
      <4>2. a % b = (a - b) % b
        BY <1>1, <4>1, StartsOver
      <4> QED BY <4>2 DEF a
    <3> HIDE DEF j
    <3>3. j \notin wrong
      <4> HIDE DEF wrong
      <4>1. k \in Nat /\ j \in Nat /\ ~ (k <= j)
        BY <2>2, <3>1
      <4> QED BY <2>1, <4>1
    <3>4. d[q + j] = d[m + ((j - 1) % b) + 1]
      BY <1>1, <3>1, <3>3
    <3> QED BY <2>2, <2>3, <3>1, <3>2, <3>4
  <2> QED BY <1>1, <2>2, <2>4, <2>5
<1>3. \A k \in 1..n : d[q + k] = d[q - b + ((k - 1) % b) + 1]
  BY <1>2
<1> QED BY <1>1, <1>3 DEF Repeats, b

\* The bytes matched are those at the candidate.
LEMMA MatchRepeats ==
  ASSUME Types, at <= Len(data), ip < IpEnd, NEW m \in Nat, m < ip, Word(ip) = Word(m)
  PROVE  Repeats(data, ip, ip - m, MatchLen(m))
<1> DEFINE passed == {n \in 12..(BlockEnd - ip) : (n - 4) % 8 = 0 /\ ip + n >= IpEnd}
           differ == {n \in 4..(BlockEnd - ip - 1) : data[ip + n + 1] # data[m + n + 1]}
           both == passed \cup differ
           len == MatchLen(m)
<1>1. ip \in Nat /\ BlockEnd \in Nat /\ BlockEnd <= Len(data) /\ data \in Seq(Octet) /\ IpEnd = BlockEnd - 20
  BY SMTT(30), BlockBounds DEF Types
<1>2. len = Min(both)
  BY DEF MatchLen
<1>3. len \in Nat /\ len >= 4 /\ ip + len <= BlockEnd
  BY MatchLenGood
<1> HIDE DEF len
<1>4. both \in SUBSET Nat
  BY <1>1
<1>5. ASSUME NEW j \in 1..len PROVE data[ip + j] = data[m + j]
  <2>1. CASE j <= 4
    <3>1. Word(ip)[j] = data[ip + j] /\ Word(m)[j] = data[m + j]
      <4>1. ip + 4 <= Len(data) /\ m + 4 <= Len(data) /\ j \in 1..4
        BY <1>1, <1>3, <1>5, <2>1
      <4> QED BY <1>1, <4>1 DEF Word
    <3> QED BY <3>1
  <2>2. CASE j > 4
    <3> DEFINE n == j - 1
    <3>1. n \in 4..(BlockEnd - ip - 1) /\ n < len /\ n \in Nat /\ ip + n + 1 = ip + j /\ m + n + 1 = m + j
      BY <1>1, <1>3, <2>2
    <3> HIDE DEF n
    <3>2. n \notin both
      <4> HIDE DEF both
      <4>1. ASSUME n \in both PROVE FALSE
        <5>1. len <= n
          BY <1>2, <1>4, <4>1, LeastElement
        <5> QED BY <1>3, <3>1, <5>1
      <4> QED BY <4>1
    <3>3. data[ip + n + 1] = data[m + n + 1]
      BY <3>1, <3>2
    <3> QED BY <3>1, <3>3
  <2> QED BY <1>3, <2>1, <2>2
<1>6. ip + len <= Len(data)
  BY <1>1, <1>3
<1> HIDE DEF passed, differ, both
<1>7. Repeats(data, ip, ip - m, len)
  BY <1>1, <1>3, <1>5, <1>6, EarlierRepeats
<1> QED BY <1>7 DEF len

\* Literals that may stand there open a stream.
LEMMA RunOpens ==
  ASSUME NEW d \in Seq(Octet), NEW e \in Nat, NEW o \in Seq(Octet), Written(o, d, e),
         NEW lits \in Seq(Octet), Literal(lits, d, e), o = << >> => Len(lits) >= 4
  PROVE  Opens(Run(o, lits), d, e + Len(lits))
<1> DEFINE n == Len(lits)
<1>1. n \in Nat
  OBVIOUS
<1>2. CASE o = << >>
  <2>1. e = 0 /\ n >= 4
    BY <1>2 DEF Written
  <2>2. Run(o, lits) = RunHead(n) \o lits
    <3>1. ~ (n = 0) /\ ~ (n \in 1..3)
      <4> HIDE DEF n
      <4> QED BY <1>1, <2>1
    <3>2. Run(o, lits) = o \o RunHead(n) \o lits
      BY <3>1, Zenon DEF Run
    <3>3. RunHead(n) \in Seq(Octet)
      <4> HIDE DEF n
      <4> QED BY <1>1, <2>1, RunHeadGood
    <3> DEFINE head == RunHead(n)
    <3> HIDE DEF n
    <3>4. head \in Seq(Octet)
      BY <3>3
    <3> HIDE DEF head
    <3>5. o \o head = head
      BY <1>2, <3>4
    <3> QED BY <3>2, <3>5 DEF head
  <2>3. Opens(RunHead(n) \o lits, d, n)
    BY <2>1, FirstRunOpens
  <2>4. e + n = n
    BY <1>1, <2>1
  <2> QED BY <2>2, <2>3, <2>4
<1>3. CASE o # << >>
  <2>1. PICK op \in Seq(Octet), k \in Nat, off \in Nat : Ends(op, k, off, o, d, e)
    BY <1>3 DEF Written
  <2> QED BY <2>1, NextRunOpens
<1> QED BY <1>2, <1>3

\* Literals and a match encode the bytes they stand for.
LEMMA HitWrites ==
  ASSUME NEW d \in Seq(Octet), NEW e \in Nat, NEW o \in Seq(Octet), Written(o, d, e),
         NEW lits \in Seq(Octet), Literal(lits, d, e), o = << >> => Len(lits) >= 4,
         NEW q \in Nat, q = e + Len(lits),
         NEW n \in Nat, n >= 4, NEW off \in Nat \ {0}, off < M3Max + 2 * Hi, Repeats(d, q, off, n)
  PROVE  Written(Run(o, lits) \o MatchCode(n, off), d, q + n)
<1> DEFINE op == Run(o, lits)
           code == MatchCode(n, off)
           w == op \o code
<1>1. op \in Seq(Octet) /\ Opens(op, d, q)
  BY RunGood, RunOpens
<1>2. code \in Seq(Octet) /\ Len(code) \in 2..MatchSize(n)
  BY MatchCodeGood
<1> HIDE DEF op
<1>3. w # << >>
  <2> HIDE DEF code
  <2>1. Len(w) = Len(op) + Len(code) /\ Len(op) \in Nat /\ Len(code) \in Nat /\ Len(code) >= 2
    BY <1>1, <1>2, Joined
  <2>2. Len(w) # 0
    BY <2>1
  <2> QED BY <2>2
<1>4. q + n - n = q /\ n <= q + n
  OBVIOUS
<1>5. Ends(op, n, off, w, d, q + n)
  BY <1>1, <1>4 DEF Ends
<1> HIDE DEF w
<1>6. off \in Nat
  OBVIOUS
<1> QED BY <1>1, <1>3, <1>5, <1>6 DEF Written, w, op

\* The three bytes of the end.
LEMMA StopReads ==
  ASSUME NEW d \in Seq(Octet), NEW w \in Seq(Octet), NEW s, s = w \o <<17, 0, 0>>
  PROVE  /\ s \in Seq(Octet) /\ Holds(s, 0, w) /\ s[Len(w) + 1] >= 16
         /\ Reads(s, d, <<"match", Len(w), 0, Len(d)>>)
<1> DEFINE stop == <<17, 0, 0>>
           l == Len(w)
           x == <<"match", l, 0, Len(d)>>
<1>1. stop \in Seq(Octet) /\ Len(stop) = 3 /\ stop[1] = 17 /\ stop[2] = 0 /\ stop[3] = 0
  BY DEF Octet
<1>2. s = w \o stop
  OBVIOUS
<1> HIDE DEF stop
<1>3. /\ s \in Seq(Octet) /\ Len(s) = Len(w) + Len(stop)
      /\ \A k \in 1..Len(w) : s[k] = w[k]
      /\ \A k \in 1..Len(stop) : s[l + k] = stop[k]
  BY <1>1, <1>2, Joined
<1>4. l \in Nat /\ Len(d) \in Nat /\ Len(s) = l + 3
  BY <1>1, <1>3
<1>5. 1 \in 1..Len(stop) /\ 2 \in 1..Len(stop) /\ 3 \in 1..Len(stop)
  BY <1>1
<1>6. s[l + 1] = 17 /\ s[l + 2] = 0 /\ s[l + 3] = 0
  BY <1>1, <1>3, <1>5
<1>7. Holds(s, 0, w)
  <2>1. \A k \in 1..Len(w) : 0 + k = k
    OBVIOUS
  <2>2. 0 + Len(w) <= Len(s)
    BY <1>4
  <2> QED BY <1>3, <2>1, <2>2 DEF Holds
<1> HIDE DEF l
<1>8. Len(s) - 3 = l /\ Len(s) - 2 = l + 1 /\ Len(s) - 1 = l + 2
  BY <1>4
<1>9. x \in Place /\ x[2] = l
  BY <1>4, PlaceGood DEF Labels
<1>10. x[2] + 3 <= Len(s)
  BY <1>4, <1>9
<1>11. Stops(s, d, x)
  BY <1>4, <1>6, <1>8 DEF Stops
<1> HIDE DEF x
<1>12. Reads(s, d, x)
  BY <1>9, <1>10, <1>11, AtTheEnd
<1> QED BY <1>3, <1>6, <1>7, <1>12 DEF l, x

\* A chunk of up to 238 bytes may be literals only, counted in the first byte.
LEMMA ShortEncodes ==
  ASSUME NEW d \in Seq(Octet), NEW lits \in Seq(Octet), Literal(lits, d, 0), Len(lits) = Len(d),
         Len(lits) >= 1, Len(lits) <= 238
  PROVE  Encodes((<<17 + Len(lits)>> \o lits) \o <<17, 0, 0>>, d)
<1> DEFINE n == Len(lits)
           one == <<17 + n>>
           w == one \o lits
           s == w \o <<17, 0, 0>>
           x == <<"first", 0, 0, 0>>
<1>1. n \in Nat /\ n >= 1 /\ n <= 238 /\ n = Len(d) /\ n = Len(lits)
  OBVIOUS
<1> HIDE DEF n
<1>2. one \in Seq(Octet) /\ Len(one) = 1 /\ one[1] = 17 + n
  <2>1. 17 + n \in Octet
    <3>1. n \in Nat /\ n >= 1 /\ n <= 238
      BY <1>1
    <3> QED BY ONLY <3>1 DEF Octet
  <2> QED BY <2>1
<1> HIDE DEF one
<1>3. w \in Seq(Octet) /\ Len(w) = 1 + n
  <2>1. w \in Seq(Octet) /\ Len(w) = Len(one) + Len(lits)
    BY <1>2, Joined
  <2> QED BY <1>1, <1>2, <2>1
<1> HIDE DEF w
<1>4. /\ s \in Seq(Octet) /\ Holds(s, 0, w) /\ s[1 + n + 1] >= 16
      /\ Reads(s, d, <<"match", 1 + n, 0, n>>)
  <2> HIDE DEF s
  <2>1. s = w \o <<17, 0, 0>>
    BY DEF s
  <2> QED BY <1>1, <1>3, <2>1, StopReads
<1> HIDE DEF s
<1>5. Holds(s, 0, one) /\ Holds(s, 1, lits)
  <2>1. Holds(s, 0, one) /\ Holds(s, 0 + Len(one), lits)
    BY <1>2, <1>4, HoldsParts DEF w
  <2>2. 0 + Len(one) = 1
    BY <1>2
  <2> QED BY <2>1, <2>2
<1>6. s[1] = 17 + n /\ 1 + n + 3 <= Len(s)
  <2>1. 1 \in 1..Len(one)
    BY <1>2
  <2>2. s[0 + 1] = one[1]
    BY <1>5, <2>1 DEF Holds
  <2>3. 1 + n + 3 <= Len(s)
    <3> DEFINE r == 1 + n
    <3>1. r \in Nat /\ Reads(s, d, <<"match", r, 0, n>>)
      BY <1>1, <1>4
    <3> HIDE DEF r
    <3>2. r + 3 <= Len(s)
      BY <1>1, <1>4, <3>1, MatchThere
    <3> QED BY <3>2 DEF r
  <2> QED BY <1>2, <2>2, <2>3
<1>7. Same(s, 1, d, 0, n)
  BY <1>1, <1>4, <1>5, HeldSame
<1>8. x \in Place /\ x[2] = 0
  BY PlaceGood DEF Labels
<1>9. \E y : FirstSays(s, d, y) /\ Reads(s, d, y)
  <2>1. CASE n <= 3
    <3> DEFINE y == <<"trailing", 1, n, 0>>
    <3>1. Reads(s, d, <<"match", 1 + n, 0, 0 + n>>)
      BY <1>1, <1>4
    <3>2. Reads(s, d, y)
      <4> DEFINE p == 1
                 q == 0
      <4>1. p \in Nat /\ q \in Nat /\ Same(s, p, d, q, n) /\ Reads(s, d, <<"match", p + n, 0, q + n>>)
        BY <1>7, <3>1
      <4> HIDE DEF p, q
      <4>2. Reads(s, d, <<"trailing", p, n, q>>)
        BY <1>1, <1>4, <4>1, TrailingReads
      <4> QED BY <4>2 DEF p, q
    <3>3. s[1] \in 18..20 /\ s[1] - 17 = n
      BY <1>1, <1>6, <2>1
    <3>4. y = <<"trailing", 1, s[1] - 17, 0>>
      BY <3>3
    <3> HIDE DEF y
    <3>5. FirstSays(s, d, y)
      BY <3>3, <3>4, Zenon DEF FirstSays
    <3> QED BY <3>2, <3>5
  <2>2. CASE n > 3
    <3> DEFINE y == <<"after", 1 + n, 0, n>>
    <3>1. Reads(s, d, y)
      <4> DEFINE p == 1 + n
      <4>1. p \in Nat /\ s[p + 1] >= 16 /\ Reads(s, d, <<"match", p, 0, n>>)
        BY <1>1, <1>4
      <4> HIDE DEF p
      <4>2. Reads(s, d, <<"after", p, 0, n>>)
        BY <1>1, <1>4, <4>1, MatchNext
      <4> QED BY <4>2 DEF p
    <3>2. s[1] > 20 /\ s[1] - 17 = n
      BY <1>1, <1>6, <2>2
    <3>3. SaysRun(s, d, 1, 0, n, "after", y)
      <4>1. 0 + n = n
        BY <1>1
      <4> QED BY <1>7, <4>1 DEF SaysRun
    <3> HIDE DEF y
    <3>4. FirstSays(s, d, y)
      BY <3>2, <3>3, Zenon DEF FirstSays
    <3> QED BY <3>1, <3>4
  <2> QED BY <1>1, <2>1, <2>2
<1>10. PICK y : FirstSays(s, d, y) /\ Reads(s, d, y)
  BY <1>9
<1>11. Says(s, d, x, y)
  BY <1>10, SaysAt DEF Labels
<1>12. x[2] + 3 <= Len(s)
  <2>1. Len(s) \in Nat
    BY <1>4
  <2> QED BY <1>1, <1>6, <1>8, <2>1
<1> HIDE DEF x
<1>13. Reads(s, d, x)
  BY <1>8, <1>10, <1>11, <1>12, Backward
<1> QED BY <1>13 DEF Encodes, x, s, w, one, n

\* The last literals and the three bytes of the end complete the chunk.
LEMMA EndingEncodes ==
  ASSUME NEW d \in Seq(Octet), d # << >>, NEW e \in Nat, NEW o \in Seq(Octet), Written(o, d, e),
         NEW lits \in Seq(Octet), Literal(lits, d, e), e + Len(lits) = Len(d)
  PROVE  Encodes(Ending(o, lits), d)
<1> DEFINE n == Len(lits)
           stop == <<17, 0, 0>>
           w == Run(o, lits)
<1>1. n \in Nat /\ n = Len(lits)
  OBVIOUS
<1>2. ASSUME o = << >> => n >= 4, Ending(o, lits) = w \o stop PROVE Encodes(Ending(o, lits), d)
  <2>1. w \in Seq(Octet)
    BY RunGood
  <2>2. Opens(w, d, e + n)
    BY <1>2, RunOpens
  <2> DEFINE s == w \o stop
  <2> HIDE DEF w, n
  <2>3. s \in Seq(Octet) /\ Holds(s, 0, w) /\ s[Len(w) + 1] >= 16 /\ Reads(s, d, <<"match", Len(w), 0, Len(d)>>)
    BY <2>1, StopReads
  <2> HIDE DEF s, stop
  <2>4. Encodes(s, d)
    <3>1. e + n = Len(d)
      BY DEF n
    <3> QED BY <2>2, <2>3, <3>1, Zenon DEF Opens
  <2> QED BY <1>2, <2>4 DEF s
<1> HIDE DEF n
<1>3. CASE o # << >>
  <2>1. Ending(o, lits) = w \o stop
    <3>1. n = 0 \/ n \in 1..3 \/ (n # 0 /\ n \notin 1..3)
      BY <1>1
    <3>2. CASE n = 0
      <4>1. w = o
        <5>1. ~ (n \in 1..3)
          BY <3>2
        <5> QED BY <1>1, <3>2, <5>1, Zenon DEF Run
      <4>2. Ending(o, lits) = o \o stop
        <5>1. ~ (n \in 1..3) /\ ~ (n \in 1..238)
          BY <3>2
        <5> QED BY <1>1, <3>2, <5>1, Zenon DEF Ending
      <4> QED BY <4>1, <4>2
    <3>3. CASE n \in 1..3
      <4>1. n # 0
        BY <3>3
      <4>2. w = OrCount(o, n) \o lits
        BY <1>1, <3>3, <4>1, Zenon DEF Run
      <4>3. Ending(o, lits) = (OrCount(o, n) \o lits) \o stop
        BY <1>1, <1>3, <3>3, <4>1, Zenon DEF Ending
      <4> QED BY <4>2, <4>3
    <3>4. CASE n # 0 /\ n \notin 1..3
      <4>1. w = o \o RunHead(n) \o lits
        BY <1>1, <3>4, Zenon DEF Run
      <4>2. Ending(o, lits) = (o \o RunHead(n) \o lits) \o stop
        BY <1>1, <1>3, <3>4, Zenon DEF Ending
      <4> QED BY <4>1, <4>2
    <3> QED BY <3>1, <3>2, <3>3, <3>4
  <2> QED BY <1>2, <1>3, <2>1
<1>4. CASE o = << >> /\ n >= 239
  <2>1. n # 0 /\ n \notin 1..3 /\ n \notin 1..238 /\ n >= 4
    <3>1. n \in Nat
      BY <1>1
    <3> QED BY ONLY <1>4, <3>1
  <2>2. w = o \o RunHead(n) \o lits
    BY <1>1, <2>1, Zenon DEF Run
  <2>3. Ending(o, lits) = (o \o RunHead(n) \o lits) \o stop
    BY <1>1, <2>1, Zenon DEF Ending
  <2> QED BY <1>2, <2>1, <2>2, <2>3
<1>5. CASE o = << >> /\ n \in 1..238
  <2>1. n # 0
    BY <1>5
  <2>2. Ending(o, lits) = (<<17 + n>> \o lits) \o stop
    BY <1>1, <1>5, <2>1, Zenon DEF Ending
  <2>3. e = 0
    BY <1>5 DEF Written
  <2>4. Literal(lits, d, 0) /\ Len(lits) = Len(d) /\ Len(lits) >= 1 /\ Len(lits) <= 238
    <3>1. 0 + n = n /\ n >= 1 /\ n <= 238
      <4>1. n \in Nat
        BY <1>1
      <4> QED BY ONLY <1>5, <4>1
    <3> QED BY <1>1, <2>3, <3>1
  <2>5. Encodes((<<17 + Len(lits)>> \o lits) \o <<17, 0, 0>>, d)
    BY <2>4, ShortEncodes
  <2> QED BY <1>1, <2>2, <2>5
<1>6. o = << >> => n # 0
  <2>1. o = << >> => e = 0
    BY DEF Written
  <2>2. Len(d) # 0
    OBVIOUS
  <2> QED BY <1>1, <2>1, <2>2
<1>7. n = 0 \/ n \in 1..238 \/ n >= 239
  <2>1. n \in Nat
    BY <1>1
  <2> QED BY ONLY <2>1
<1> QED BY <1>3, <1>4, <1>5, <1>6, <1>7

\* What is written says what is encoded: up to the literals carried over, up to the literals
\* not yet encoded, and in the end all of the chunk.
Progress ==
  /\ pc = "block" => Written(out, data, at - t)
  /\ pc \in {"literal", "next"} => Written(out, data, ii - t) /\ (out = << >> => ip >= 4)
  /\ pc = "stored" => Encodes(out, data)

LEMMA ProgressInit ==
  ASSUME \A g \in GameMade : Encodes(g.stream, g.text), Init
  PROVE  Progress
<1>1. CASE data \in Inputs /\ out = << >> /\ pc = "block"
  <2>1. at - t = 0
    BY DEF Init
  <2>2. Written(out, data, at - t)
    BY <1>1, <2>1 DEF Written
  <2> QED BY <1>1, <2>2 DEF Progress, Compressing
<1>2. CASE \E g \in GameMade : data = g.text /\ out = g.stream /\ pc = "stored"
  <2>1. Encodes(out, data) /\ pc = "stored"
    BY <1>2
  <2> QED BY <2>1 DEF Progress, Compressing
<1> QED BY <1>1, <1>2 DEF Init

\* Literals taken from the chunk are its bytes.
LEMMA LiteralsTaken ==
  ASSUME NEW d \in Seq(Octet), NEW e \in Nat, NEW q \in Nat, e <= q, q <= Len(d)
  PROVE  /\ SubSeq(d, e + 1, q) \in Seq(Octet) /\ Len(SubSeq(d, e + 1, q)) = q - e
         /\ Literal(SubSeq(d, e + 1, q), d, e)
<1> DEFINE lits == SubSeq(d, e + 1, q)
<1>1. lits \in Seq(Octet) /\ Len(lits) = q - e
  BY Part
<1>2. \A k \in 1..q - e : lits[k] = d[e + k]
  OBVIOUS
<1> HIDE DEF lits
<1>3. e + Len(lits) <= Len(d)
  BY <1>1
<1> QED BY <1>1, <1>2, <1>3 DEF Literal, lits

LEMMA StartBlockProgress == Inv /\ Progress /\ StartBlock => Progress'
<1> SUFFICES ASSUME Inv, Progress, StartBlock PROVE Progress'
  OBVIOUS
<1>1. /\ pc = "block" /\ pc' = "literal" /\ ii' = at /\ ip' = at + Greatest(0, 4 - t)
      /\ data' = data /\ out' = out /\ t' = t
  BY DEF StartBlock
<1>2. Written(out, data, at - t)
  BY <1>1 DEF Progress
<1>3. at \in Nat /\ t \in Nat
  BY DEF Inv, Types
<1>4. ASSUME out = << >> PROVE ip' >= 4
  <2>1. at = t
    BY <1>2, <1>3, <1>4 DEF Written
  <2> QED BY <1>1, <1>3, <2>1 DEF Greatest
<1> QED BY <1>1, <1>2, <1>4 DEF Progress, Compressing

LEMMA SkipProgress == Inv /\ Progress /\ Skip => Progress'
<1> SUFFICES ASSUME Inv, Progress, Skip PROVE Progress'
  OBVIOUS
<1>1. /\ pc = "literal" /\ pc' = "next" /\ ip' = ip + 1 + (ip - ii) \div 32
      /\ data' = data /\ out' = out /\ t' = t /\ ii' = ii
  BY DEF Skip, compressor
<1>2. Written(out, data, ii - t) /\ (out = << >> => ip >= 4)
  BY <1>1 DEF Progress
<1>3. ip \in Nat /\ ii \in Nat /\ ii <= ip
  BY <1>1 DEF Inv, Types, CompressorInv
<1>4. ip' >= ip /\ ip' \in Nat
  BY <1>1, <1>3
<1>5. out' = << >> => ip' >= 4
  BY <1>1, <1>2, <1>3, <1>4
<1> QED BY <1>1, <1>2, <1>5 DEF Progress, Compressing

LEMMA LeaveBlockProgress == Inv /\ Progress /\ LeaveBlock => Progress'
<1> SUFFICES ASSUME Inv, Progress, LeaveBlock PROVE Progress'
  OBVIOUS
<1>1. /\ pc = "next" /\ pc' = "block" /\ t' = BlockEnd - (ii - t) /\ at' = BlockEnd
      /\ data' = data /\ out' = out
  BY DEF LeaveBlock
<1>2. Written(out, data, ii - t)
  BY <1>1 DEF Progress
<1>3. at <= Len(data) /\ ii \in Nat /\ t \in Nat
  BY <1>1 DEF Inv, Types, CompressorInv, Compressing
<1>4. BlockEnd \in Nat
  BY <1>3, BlockBounds DEF Inv
<1>5. at' - t' = ii - t
  BY <1>1, <1>3, <1>4
<1> QED BY <1>1, <1>2, <1>5 DEF Progress, Compressing

LEMMA MissProgress == Inv /\ Progress /\ Miss => Progress'
<1> SUFFICES ASSUME Inv, Progress, Miss PROVE Progress'
  OBVIOUS
<1>1. /\ pc = "next" /\ pc' = "literal" /\ data' = data /\ out' = out /\ t' = t /\ ii' = ii /\ ip' = ip
  BY DEF Miss
<1> QED BY <1>1 DEF Progress, Compressing

LEMMA HitProgress == Inv /\ Progress /\ Hit => Progress'
<1> SUFFICES ASSUME Inv, Progress, Hit PROVE Progress'
  OBVIOUS
<1> DEFINE m    == Candidate
           n    == MatchLen(m)
           e    == ii - t
           lits == SubSeq(data, ii - t + 1, ip)
           off  == ip - m
<1>1. /\ pc = "next" /\ pc' = pc /\ ip < IpEnd /\ Remember /\ Word(ip) = Word(m)
      /\ data' = data /\ t' = 0 /\ ii' = ip + n /\ out' = Match(Run(out, lits), n, off)
  BY DEF Hit
<1>2. /\ at <= Len(data) /\ t <= ii /\ at <= ii /\ ii <= ip /\ ii <= BlockEnd
      /\ \A s \in 0..Slots - 1 : at + dict[s] < ip
  BY <1>1 DEF Inv, CompressorInv, Compressing
<1>3. /\ at \in Nat /\ ip \in Nat /\ ii \in Nat /\ t \in Nat /\ data \in Seq(Octet) /\ out \in Seq(Octet)
      /\ Len(data) \in Nat
  BY DEF Inv, Types
<1>4. Types
  BY DEF Inv
<1>5. at <= ip
  BY <1>2, <1>3
<1>6. m \in Nat /\ at <= m /\ m < ip
  BY <1>1, <1>2, <1>4, <1>5, RememberGood
<1> HIDE DEF m
<1>7. n \in Nat /\ n >= 4
  BY <1>1, <1>2, <1>4, MatchLenGood
<1>8. Repeats(data, ip, off, n)
  BY <1>1, <1>2, <1>4, <1>6, MatchRepeats
<1>9. /\ BlockEnd \in Nat /\ BlockEnd <= Len(data) /\ IpEnd = BlockEnd - 20 /\ BlockEnd <= at + Block
      /\ Block \in Nat /\ Block <= M3Max + 2 * Hi /\ M3Max \in Nat /\ Hi \in Nat
  <2>1. /\ BlockLen \in Nat /\ BlockLen <= Block /\ BlockEnd \in Nat /\ BlockEnd = at + BlockLen
        /\ BlockEnd <= Len(data) /\ IpEnd = BlockEnd - 20
    BY <1>2, <1>4, BlockBounds
  <2> QED BY <1>3, <2>1, Limits
<1> HIDE DEF n
<1>10. off \in Nat \ {0} /\ off < M3Max + 2 * Hi
  BY <1>1, <1>3, <1>6, <1>9
<1>11. e \in Nat /\ e <= ip /\ ip <= Len(data) /\ lits = SubSeq(data, e + 1, ip)
  BY <1>1, <1>2, <1>3, <1>9
<1> HIDE DEF off, e, lits
<1>12. lits \in Seq(Octet) /\ Len(lits) = ip - e /\ Literal(lits, data, e)
  BY <1>3, <1>11, LiteralsTaken
<1>13. Written(out, data, e) /\ (out = << >> => ip >= 4)
  BY <1>1 DEF Progress, e
<1>14. ip = e + Len(lits) /\ (out = << >> => Len(lits) >= 4)
  <2>1. ip = e + Len(lits)
    BY <1>3, <1>11, <1>12
  <2>2. out = << >> => e = 0
    BY <1>13 DEF Written
  <2> QED BY <1>3, <1>11, <1>12, <1>13, <2>1, <2>2
<1>15. Written(Run(out, lits) \o MatchCode(n, off), data, ip + n)
  BY <1>3, <1>7, <1>8, <1>10, <1>11, <1>12, <1>13, <1>14, HitWrites
<1>16. out' = Run(out, lits) \o MatchCode(n, off)
  BY <1>1, MatchIsCode
<1>17. ii' - t' = ip + n
  BY <1>1, <1>3, <1>7
<1>18. out' # << >>
  BY <1>3, <1>7, <1>15, <1>16 DEF Written
<1> QED BY <1>1, <1>15, <1>16, <1>17, <1>18 DEF Progress, Compressing

LEMMA SealProgress == Inv /\ Progress /\ Seal => Progress'
<1> SUFFICES ASSUME Inv, Progress, Seal PROVE Progress'
  OBVIOUS
<1> DEFINE e    == at - t
           lits == SubSeq(data, at - t + 1, Len(data))
<1>1. pc = "block" /\ pc' = "stored" /\ out' = Ending(out, lits) /\ data' = data
  BY DEF Seal
<1>2. /\ data \in Seq(Octet) /\ data # << >> /\ out \in Seq(Octet) /\ Len(data) \in Nat
      /\ e \in Nat /\ e <= Len(data) /\ lits = SubSeq(data, e + 1, Len(data))
  BY <1>1 DEF Inv, Types, CompressorInv, Compressing
<1>3. Written(out, data, e)
  BY <1>1 DEF Progress
<1> HIDE DEF e, lits
<1>4. lits \in Seq(Octet) /\ Len(lits) = Len(data) - e /\ Literal(lits, data, e)
  BY <1>2, LiteralsTaken
<1>5. e + Len(lits) = Len(data)
  BY <1>2, <1>4
<1>6. Encodes(Ending(out, lits), data)
  BY <1>2, <1>3, <1>4, <1>5, EndingEncodes
<1> QED BY <1>1, <1>6 DEF Progress, Compressing

-----------------------------------------------------------------------------
(* The decompressor goes where the stream leads. *)

\* What arrived is what was written, as far as both go, and either all is well, or there is a
\* byte too many, or one too few of room, or the end is missing.
Arrived ==
  /\ \A k \in 1..Len(src) : k <= Len(out) => src[k] = out[k]
  /\ room = Len(data) \/ room = Len(data) - 1

Whole == src = out /\ room = Len(data)

Right(bytes) == Len(bytes) <= Len(data) /\ \A k \in 1..Len(bytes) : bytes[k] = data[k]

\* Every byte made is right, and the place reached is one from which the stream as it was
\* written says the rest; at the end, only the whole chunk was accepted.
Following ==
  pc \in Decompressing =>
    /\ Arrived
    /\ Right(got)
    /\ pc # "done" => Reads(out, data, <<pc, ip, t, Len(got)>>)
    /\ pc = "done" => /\ res = "ok" => Whole
                      /\ Whole => res = "ok" /\ Len(got) = Len(data)

Followed == Following' /\ pc' \in Decompressing

\* What every step of the decompressor starts from.
Standing == Inv /\ Following /\ pc \in Labels

LEMMA Stand ==
  ASSUME Standing
  PROVE  /\ data \in Seq(Octet) /\ Len(data) \in Nat /\ out \in Seq(Octet) /\ Len(out) \in Nat
         /\ src \in Seq(Octet) /\ Len(src) \in Nat /\ room \in Nat /\ got \in Seq(Octet) /\ Len(got) \in Nat
         /\ ip \in Nat /\ t \in Nat /\ ip <= Len(src) /\ Len(got) <= room /\ ip + 3 <= Len(out)
         /\ pc \in {"match", "after"} => ip + 3 <= Len(src)
         /\ pc \in Decompressing /\ Inv /\ Arrived /\ Right(got)
         /\ Reads(out, data, <<pc, ip, t, Len(got)>>)
<1>1. pc \in Decompressing /\ pc # "done" /\ Inv /\ pc \in Labels
  BY DEF Standing, Labels, Decompressing
<1>2. /\ src \in Seq(Octet) /\ Len(src) \in Nat /\ room \in Nat /\ got \in Seq(Octet) /\ Len(got) \in Nat
      /\ ip \in Nat /\ t \in Nat /\ ip <= Len(src) /\ Len(got) <= room
      /\ pc \in {"match", "after"} => ip + 3 <= Len(src)
  BY <1>1, Given
<1>3. data \in Seq(Octet) /\ Len(data) \in Nat /\ out \in Seq(Octet) /\ Len(out) \in Nat
  BY <1>1 DEF Inv, Types
<1>4. Arrived /\ Right(got) /\ Reads(out, data, <<pc, ip, t, Len(got)>>)
  BY <1>1, Zenon DEF Standing, Following
<1>5. ip + 3 <= Len(out)
  <2> DEFINE x == <<pc, ip, t, Len(got)>>
  <2>1. x[2] = ip /\ Reads(out, data, x)
    BY <1>4
  <2> HIDE DEF x
  <2>2. x[2] + 3 <= Len(out)
    BY <2>1, Onward
  <2> QED BY <2>1, <2>2
<1> QED BY <1>1, <1>2, <1>3, <1>4, <1>5

\* A byte there to be read is the one written.
LEMMA ByteThere ==
  ASSUME Standing, NEW k \in Nat, k + 1 <= Len(src), k + 1 <= Len(out)
  PROVE  Byte(k) = out[k + 1]
<1>1. Len(src) \in Nat /\ Arrived
  BY Stand
<1>2. k + 1 \in 1..Len(src) /\ k < Len(src)
  BY <1>1
<1> QED BY <1>1, <1>2 DEF Arrived, Byte

LEMMA GoFollows ==
  ASSUME Standing, NEW label \in Labels, NEW p, NEW n, NEW bytes, Go(label, p, n, bytes),
         Right(bytes), Reads(out, data, <<label, p, n, Len(bytes)>>)
  PROVE  Followed
<1>1. /\ pc' = label /\ ip' = p /\ t' = n /\ got' = bytes
      /\ data' = data /\ out' = out /\ src' = src /\ room' = room
  BY DEF Go
<1>2. Arrived' /\ Right(got)'
  BY <1>1, Stand DEF Arrived, Right
<1>3. Reads(out, data, <<pc, ip, t, Len(got)>>)'
  BY <1>1
<1>4. pc' # "done" /\ pc' \in Decompressing
  BY <1>1 DEF Labels, Decompressing
<1> QED BY <1>2, <1>3, <1>4, Zenon DEF Followed, Following

\* An error is returned only if the chunk is damaged.
LEMMA ErrorFollows ==
  ASSUME Standing, NEW code, NEW p, Return(code, p), code # "ok", ~ Whole
  PROVE  Followed
<1>1. /\ pc' = "done" /\ res' = code /\ got' = got
      /\ data' = data /\ out' = out /\ src' = src /\ room' = room
  BY DEF Return
<1>2. Arrived' /\ Right(got)'
  BY <1>1, Stand DEF Arrived, Right
<1>3. res' # "ok" /\ ~ Whole' /\ pc' \in Decompressing
  BY <1>1 DEF Whole, Decompressing
<1> QED BY <1>1, <1>2, <1>3, Zenon DEF Followed, Following

\* Bytes made longer by right ones stay right.
LEMMA RightLonger ==
  ASSUME NEW u \in Seq(Octet), NEW v \in Seq(Octet), data \in Seq(Octet), Right(u),
         Len(u) + Len(v) <= Len(data), \A k \in 1..Len(v) : v[k] = data[Len(u) + k]
  PROVE  Right(u \o v) /\ Len(u \o v) = Len(u) + Len(v)
<1> DEFINE w == u \o v
           l == Len(u)
           m == Len(v)
<1>1. /\ Len(w) = l + m
      /\ \A k \in 1..l : w[k] = u[k]
      /\ \A k \in 1..m : w[l + k] = v[k]
  BY Joined
<1>2. l \in Nat /\ m \in Nat
  OBVIOUS
<1>3. \A k \in 1..l : u[k] = data[k]
  BY DEF Right
<1>4. \A k \in 1..m : v[k] = data[l + k]
  OBVIOUS
<1>5. l + m <= Len(data)
  OBVIOUS
<1> HIDE DEF w, l, m
<1>6. ASSUME NEW k \in 1..Len(w) PROVE w[k] = data[k]
  <2>1. CASE k <= l
    <3>1. k \in 1..l
      BY <1>1, <1>2, <2>1
    <3> QED BY <1>1, <1>3, <3>1
  <2>2. CASE k > l
    <3> DEFINE j == k - l
    <3>1. j \in 1..m /\ l + j = k
      BY <1>1, <1>2, <2>2
    <3> HIDE DEF j
    <3>2. w[l + j] = v[j] /\ v[j] = data[l + j]
      BY <1>1, <1>4, <3>1
    <3> QED BY <3>1, <3>2
  <2> QED BY <1>1, <1>2, <2>1, <2>2
<1>7. Right(w)
  BY <1>1, <1>5, <1>6 DEF Right
<1> QED BY <1>1, <1>7 DEF w, l, m

LEMMA CopyRunFollows ==
  ASSUME Standing, NEW p \in Nat, p <= Len(src), NEW n \in Nat, NEW label \in {"match", "after"}, NEW y,
         SaysRun(out, data, p, Len(got), n, label, y), Reads(out, data, y), CopyRun(p, n, label)
  PROVE  Followed
<1> DEFINE q == Len(got)
<1>1. /\ q \in Nat /\ Len(src) \in Nat /\ Len(out) \in Nat /\ Len(data) \in Nat /\ room \in Nat
      /\ got \in Seq(Octet) /\ data \in Seq(Octet) /\ out \in Seq(Octet) /\ q <= room
      /\ Inv /\ pc \in Decompressing /\ Right(got)
  BY Stand
<1>2. /\ p + n <= Len(out) /\ q + n <= Len(data) /\ \A k \in 1..n : out[p + k] = data[q + k]
      /\ y = <<label, p + n, 0, q + n>>
  BY DEF SaysRun, Same
<1>3. p + n + 3 <= Len(out)
  <2>1. y[2] = p + n
    BY <1>2
  <2>2. y[2] + 3 <= Len(out)
    BY Onward
  <2> QED BY <2>1, <2>2
<1>4. CASE ~ NEED_OP(n)
  <2>1. Return("output overrun", p)
    BY <1>4, Zenon DEF CopyRun
  <2>2. ~ Whole
    BY <1>1, <1>2, <1>4 DEF NEED_OP, Whole
  <2> QED BY <2>1, <2>2, ErrorFollows
<1>5. CASE NEED_OP(n) /\ ~ NEED_IP(p, n + 3)
  <2>1. Return("input overrun", p)
    BY <1>5, Zenon DEF CopyRun
  <2>2. ~ Whole
    BY <1>1, <1>3, <1>5 DEF NEED_IP, Whole
  <2> QED BY <2>1, <2>2, ErrorFollows
<1>6. CASE NEED_OP(n) /\ NEED_IP(p, n + 3)
  <2> DEFINE bytes == Bytes(p, n)
             more  == got \o bytes
  <2>1. Go(label, p + n, 0, more)
    BY <1>6, Zenon DEF CopyRun
  <2>2. p + n + 3 <= Len(src)
    BY <1>1, <1>6 DEF NEED_IP
  <2>3. bytes \in Seq(Octet) /\ Len(bytes) = n /\ \A k \in 1..n : bytes[k] = Byte(p + k - 1)
    <3>1. \A k \in 1..n : Byte(p + k - 1) \in Octet
      BY <1>1, ByteGood
    <3> QED BY <3>1 DEF Bytes
  <2> HIDE DEF bytes
  <2>4. ASSUME NEW k \in 1..Len(bytes) PROVE bytes[k] = data[q + k]
    <3> DEFINE i == p + k - 1
    <3>1. i \in Nat /\ i + 1 <= Len(src) /\ i + 1 <= Len(out) /\ i + 1 = p + k
      BY <1>1, <1>2, <2>2, <2>3
    <3>2. k \in 1..n
      BY <2>3
    <3> HIDE DEF i
    <3>3. Byte(i) = out[i + 1]
      BY <3>1, ByteThere
    <3> QED BY <1>2, <2>3, <3>1, <3>2, <3>3 DEF i
  <2>5. Right(more) /\ Len(more) = q + n
    BY <1>1, <1>2, <2>3, <2>4, RightLonger
  <2> HIDE DEF more
  <2>6. Reads(out, data, <<label, p + n, 0, Len(more)>>)
    BY <1>2, <2>5
  <2>7. label \in Labels
    BY DEF Labels
  <2> QED BY <2>1, <2>5, <2>6, <2>7, GoFollows
<1> QED BY <1>4, <1>5, <1>6

LEMMA CopyMatchFollows ==
  ASSUME Standing, NEW p \in Nat, p >= 2, p <= Len(src), NEW dist, NEW n \in Nat, NEW y,
         SaysMatch(out, data, p, Len(got), dist, n, y), Reads(out, data, y), CopyMatch(p, dist, n)
  PROVE  Followed
<1> DEFINE q == Len(got)
<1>1. /\ q \in Nat /\ Len(src) \in Nat /\ Len(out) \in Nat /\ Len(data) \in Nat /\ room \in Nat
      /\ got \in Seq(Octet) /\ data \in Seq(Octet) /\ out \in Seq(Octet) /\ q <= room
      /\ Right(got)
  BY Stand
<1>2. /\ p <= Len(out) /\ dist \in 1..q /\ q + n <= Len(data)
      /\ \A k \in 1..n : data[q + k] = data[q - dist + ((k - 1) % dist) + 1]
      /\ y = <<IF out[p - 1] % 4 = 0 THEN "literals" ELSE "trailing", p, out[p - 1] % 4, q + n>>
  BY DEF SaysMatch, Repeats
<1>3. CASE ~ NEED_OP(n)
  <2>1. Return("output overrun", p)
    BY <1>2, <1>3, Zenon DEF CopyMatch
  <2>2. ~ Whole
    BY <1>1, <1>2, <1>3 DEF NEED_OP, Whole
  <2> QED BY <2>1, <2>2, ErrorFollows
<1>4. CASE NEED_OP(n)
  <2> DEFINE copy  == [k \in 1..n |-> got[q - dist + ((k - 1) % dist) + 1]]
             lits  == Byte(p - 2) % 4
             label == IF lits = 0 THEN "literals" ELSE "trailing"
             more  == got \o copy
  <2>1. Go(label, p, lits, more)
    BY <1>2, <1>4, Zenon DEF CopyMatch
  <2>2. lits = out[p - 1] % 4
    <3> DEFINE i == p - 2
    <3>1. i \in Nat /\ i + 1 <= Len(src) /\ i + 1 <= Len(out) /\ i + 1 = p - 1
      BY <1>1, <1>2
    <3> HIDE DEF i
    <3>2. Byte(i) = out[i + 1]
      BY <3>1, ByteThere
    <3> QED BY <3>1, <3>2 DEF i
  <2>3. ASSUME NEW k \in 1..n
        PROVE  /\ got[q - dist + ((k - 1) % dist) + 1] \in Octet
               /\ got[q - dist + ((k - 1) % dist) + 1] = data[q + k]
    <3> DEFINE i == q - dist + ((k - 1) % dist) + 1
    <3>1. (k - 1) % dist \in 0..dist - 1
      <4> DEFINE a == k - 1
      <4>1. a \in Nat /\ dist \in Nat \ {0}
        BY <1>1, <1>2
      <4> HIDE DEF a
      <4>2. a % dist \in 0..dist - 1
        BY ONLY <4>1
      <4> QED BY <4>2 DEF a
    <3>2. i \in 1..q
      <4> DEFINE rest == (k - 1) % dist
      <4>1. rest \in 0..dist - 1 /\ dist \in 1..q
        BY <1>2, <3>1
      <4> HIDE DEF rest
      <4>2. q - dist + rest + 1 \in 1..q
        BY <1>1, <4>1
      <4> QED BY <4>2 DEF rest
    <3>3. data[q + k] = data[i]
      BY <1>2
    <3> HIDE DEF i
    <3>4. got[i] = data[i] /\ got[i] \in Octet
      BY <1>1, <3>2, Element DEF Right
    <3> QED BY <3>3, <3>4 DEF i
  <2>4. copy \in Seq(Octet) /\ Len(copy) = n
    BY <2>3
  <2>5. \A k \in 1..Len(copy) : copy[k] = data[q + k]
    <3>1. \A k \in 1..n : copy[k] = got[q - dist + ((k - 1) % dist) + 1]
      OBVIOUS
    <3> HIDE DEF copy
    <3> QED BY <2>3, <2>4, <3>1
  <2> HIDE DEF copy
  <2>6. Right(more) /\ Len(more) = q + n
    BY <1>1, <1>2, <2>4, <2>5, RightLonger
  <2> HIDE DEF more, lits
  <2>7. y = <<label, p, lits, Len(more)>> /\ label \in Labels
    BY <1>2, <2>2, <2>6 DEF Labels
  <2> HIDE DEF label
  <2>8. Reads(out, data, <<label, p, lits, Len(more)>>)
    BY <2>7
  <2> QED BY <2>1, <2>6, <2>7, <2>8, GoFollows
<1> QED BY <1>3, <1>4

\* A count that was written is read as it was, or cut off with the end of the stream.
LEMMA CountFollows ==
  ASSUME Standing, NEW p \in Nat, NEW z \in Nat, SaysCount(out, p, z)
  PROVE  /\ CountCut(p) => ~ Whole
         /\ ~ CountCut(p) => /\ CountEnd(p) = p + z + 1 /\ p + z + 1 <= Len(src)
                             /\ CountAt(p) = 255 * z + out[p + z + 1]
<1> DEFINE zeros == {k \in 0..Len(src) : p + k >= Len(src) \/ Byte(p + k) # 0}
           m == ZerosAt(p)
<1>1. /\ Len(src) \in Nat /\ Len(out) \in Nat /\ p + z + 1 <= Len(out) /\ out[p + z + 1] # 0
      /\ \A k \in 1..z : out[p + k] = 0
  BY Stand DEF SaysCount
<1>2. m \in zeros /\ m \in Nat /\ \A k \in zeros : m <= k
  <2>1. Len(src) \in zeros /\ zeros \in SUBSET Nat
    BY <1>1
  <2>2. m = Min(zeros)
    BY DEF ZerosAt
  <2> HIDE DEF zeros, m
  <2> QED BY <2>1, <2>2, LeastElement
<1>3. /\ CountCut(p) <=> p + m >= Len(src)
      /\ CountEnd(p) = p + m + 1 /\ CountAt(p) = 255 * m + Byte(p + m)
  BY DEF CountCut, CountEnd, CountAt
<1>4. ASSUME NEW k \in Nat, k <= z, p + k < Len(src) PROVE Byte(p + k) = out[p + k + 1]
  <2> DEFINE i == p + k
  <2>1. i \in Nat /\ i + 1 <= Len(src) /\ i + 1 <= Len(out)
    BY <1>1, <1>4
  <2> HIDE DEF i
  <2>2. Byte(i) = out[i + 1]
    BY <2>1, ByteThere
  <2> QED BY <2>2 DEF i
<1>5. p + z < Len(src) => z \in zeros
  <2> SUFFICES ASSUME p + z < Len(src) PROVE z \in zeros
    OBVIOUS
  <2>1. Byte(p + z) # 0
    BY <1>1, <1>4
  <2> QED BY <1>1, <2>1
<1>6. p + m < Len(src) => Byte(p + m) # 0
  BY <1>1, <1>2
<1> HIDE DEF zeros, m
<1>7. ASSUME p + m < Len(src) PROVE m = z
  <2>1. ASSUME m < z PROVE FALSE
    <3>1. Byte(p + m) = out[p + m + 1]
      <4>1. m \in Nat /\ m <= z /\ p + m < Len(src)
        BY <1>2, <1>7, <2>1
      <4> QED BY <1>4, <4>1
    <3>2. m + 1 \in 1..z /\ p + (m + 1) = p + m + 1
      BY <1>2, <2>1
    <3>3. out[p + m + 1] = 0
      BY <1>1, <3>2
    <3> QED BY <1>6, <1>7, <3>1, <3>3
  <2>2. ASSUME m > z PROVE FALSE
    <3>1. p + z < Len(src)
      BY <1>1, <1>2, <1>7, <2>2
    <3> QED BY <1>2, <1>5, <2>2, <3>1
  <2> QED BY <1>2, <2>1, <2>2
<1>8. ASSUME CountCut(p) PROVE ~ Whole
  <2>1. ~ (p + z < Len(src))
    <3>1. ASSUME p + z < Len(src) PROVE FALSE
      <4>1. m <= z
        BY <1>2, <1>5, <3>1
      <4> QED BY <1>1, <1>2, <1>3, <1>8, <3>1, <4>1
    <3> QED BY <3>1
  <2> QED BY <1>1, <2>1 DEF Whole
<1>9. ASSUME ~ CountCut(p)
      PROVE  /\ CountEnd(p) = p + z + 1 /\ p + z + 1 <= Len(src)
             /\ CountAt(p) = 255 * z + out[p + z + 1]
  <2>1. p + m < Len(src)
    BY <1>1, <1>2, <1>3, <1>9
  <2>2. m = z
    BY <1>7, <2>1
  <2>3. Byte(p + z) = out[p + z + 1]
    <3>1. z \in Nat /\ z <= z /\ p + z < Len(src)
      BY <2>1, <2>2
    <3> QED BY <1>4, <3>1
  <2> QED BY <1>1, <1>3, <2>1, <2>2, <2>3
<1> QED BY <1>8, <1>9

\* Before a match the stream leads on; only a match may be the end.
LEMMA Leads ==
  ASSUME Standing, pc # "match"
  PROVE  \E y \in Place : Says(out, data, <<pc, ip, t, Len(got)>>, y) /\ Reads(out, data, y)
<1> DEFINE x == <<pc, ip, t, Len(got)>>
<1>1. x[1] = pc /\ Reads(out, data, x)
  BY Stand
<1> HIDE DEF x
<1>2. ~ Stops(out, data, x)
  BY <1>1 DEF Stops
<1>3. \E y \in Place : Says(out, data, x, y) /\ Reads(out, data, y)
  BY <1>1, <1>2, Onward
<1> QED BY <1>3 DEF x

LEMMA FirstByteFollows == Standing /\ FirstByte => Followed
<1> SUFFICES ASSUME Standing, FirstByte PROVE Followed
  OBVIOUS
<1> DEFINE x == <<pc, ip, t, Len(got)>>
           b == Byte(0)
<1>1. /\ Len(src) \in Nat /\ Len(out) \in Nat /\ ip + 3 <= Len(out) /\ ip \in Nat
      /\ Right(got) /\ out \in Seq(Octet) /\ pc = "first" /\ x[1] = "first"
  BY Stand DEF FirstByte
<1>2. PICK y \in Place : Says(out, data, x, y) /\ Reads(out, data, y)
  BY <1>1, Leads
<1>3. x = <<"first", 0, 0, 0>> /\ FirstSays(out, data, y)
  <2> HIDE DEF x
  <2>1. "first" # "literals" /\ "first" # "trailing" /\ "first" # "after" /\ "first" # "match"
    OBVIOUS
  <2> QED BY <1>1, <1>2, <2>1, Zenon DEF Says
<1>4. Len(got) = 0
  BY <1>3
<1> HIDE DEF x, b
<1>5. NEED_IP(0, 1) => b = out[1]
  <2> DEFINE k == 0
  <2>1. NEED_IP(0, 1) => k \in Nat /\ k + 1 <= Len(src) /\ k + 1 <= Len(out)
    BY <1>1 DEF NEED_IP
  <2> HIDE DEF k
  <2>2. NEED_IP(0, 1) => Byte(k) = out[k + 1]
    BY <2>1, ByteThere
  <2> QED BY <2>2 DEF k, b
<1>6. out[1] \in Nat
  <2>1. 1 \in 1..Len(out)
    BY <1>1
  <2> QED BY <1>1, <2>1, Element, OctetIsNat
<1>7. CASE ~ NEED_IP(0, 1) /\ Return("input overrun", 0)
  <2>1. ~ Whole
    <3>1. Len(src) < 1
      <4>1. ~ NEED_IP(0, 1)
        BY <1>7
      <4> QED BY <1>1, <4>1 DEF NEED_IP
    <3> QED BY <1>1, <3>1 DEF Whole
  <2> QED BY <1>7, <2>1, ErrorFollows
<1>8. CASE NEED_IP(0, 1) /\ b <= 17 /\ Go("literals", 0, 0, got)
  <2>1. y = <<"literals", 0, 0, 0>>
    <3>1. ~ (out[1] \in 18..20) /\ ~ (out[1] > 20)
      BY <1>5, <1>6, <1>8
    <3> QED BY <1>3, <3>1, Zenon DEF FirstSays
  <2>2. Reads(out, data, <<"literals", 0, 0, Len(got)>>)
    BY <1>2, <1>4, <2>1
  <2>3. "literals" \in Labels
    BY DEF Labels
  <2> QED BY <1>1, <1>8, <2>2, <2>3, GoFollows
<1>9. CASE NEED_IP(0, 1) /\ b \in 18..20 /\ Go("trailing", 1, b - 17, got)
  <2>1. y = <<"trailing", 1, out[1] - 17, 0>>
    <3>1. ~ (out[1] <= 17) /\ ~ (out[1] > 20)
      BY <1>5, <1>6, <1>9
    <3> QED BY <1>3, <3>1, Zenon DEF FirstSays
  <2>2. Reads(out, data, <<"trailing", 1, b - 17, Len(got)>>)
    BY <1>2, <1>4, <1>5, <1>9, <2>1
  <2>3. "trailing" \in Labels
    BY DEF Labels
  <2> QED BY <1>1, <1>9, <2>2, <2>3, GoFollows
<1>10. CASE NEED_IP(0, 1) /\ b > 20 /\ CopyRun(1, b - 17, "after")
  <2> DEFINE n == b - 17
  <2>1. SaysRun(out, data, 1, 0, out[1] - 17, "after", y)
    <3>1. ~ (out[1] <= 17) /\ ~ (out[1] \in 18..20)
      BY <1>5, <1>6, <1>10
    <3> QED BY <1>3, <3>1, Zenon DEF FirstSays
  <2>2. n \in Nat /\ n = out[1] - 17
    BY <1>5, <1>6, <1>10
  <2> HIDE DEF n
  <2>3. SaysRun(out, data, 1, Len(got), n, "after", y)
    BY <1>4, <2>1, <2>2
  <2>4. 1 <= Len(src) /\ 1 \in Nat /\ "after" \in {"match", "after"} /\ CopyRun(1, n, "after")
    BY <1>1, <1>10 DEF NEED_IP, n
  <2> DEFINE p == 1
             label == "after"
  <2>5. p \in Nat /\ p <= Len(src) /\ label \in {"match", "after"} /\ CopyRun(p, n, label)
        /\ SaysRun(out, data, p, Len(got), n, label, y) /\ Reads(out, data, y)
    BY <1>2, <2>3, <2>4
  <2> HIDE DEF p, label
  <2> QED BY <2>2, <2>5, CopyRunFollows
<1>11. \/ ~ NEED_IP(0, 1) /\ Return("input overrun", 0)
       \/ NEED_IP(0, 1) /\ b <= 17 /\ Go("literals", 0, 0, got)
       \/ NEED_IP(0, 1) /\ b \in 18..20 /\ Go("trailing", 1, b - 17, got)
       \/ NEED_IP(0, 1) /\ b > 20 /\ CopyRun(1, b - 17, "after")
  BY Zenon DEF FirstByte, b
<1> QED BY <1>7, <1>8, <1>9, <1>10, <1>11

LEMMA LiteralsFollows == Standing /\ Literals => Followed
<1> SUFFICES ASSUME Standing, Literals PROVE Followed
  OBVIOUS
<1> DEFINE q == Len(got)
           b == Byte(ip)
<1>1. /\ Len(src) \in Nat /\ Len(out) \in Nat /\ ip + 3 <= Len(out) /\ ip \in Nat /\ t \in Nat /\ q \in Nat
      /\ ip <= Len(src) /\ Right(got) /\ out \in Seq(Octet) /\ pc = "literals"
  BY Stand DEF Literals
<1> HIDE DEF q, b
<1>2. PICK y \in Place : LiteralsSay(out, data, ip, q, y) /\ Reads(out, data, y)
  <2>1. PICK y \in Place : Says(out, data, <<pc, ip, t, q>>, y) /\ Reads(out, data, y)
    BY <1>1, Leads DEF q
  <2>2. LiteralsSay(out, data, ip, q, y)
    BY <1>1, <2>1, SaysAt DEF Labels
  <2> QED BY <2>1, <2>2
<1>3. NEED_IP(ip, 3) => ip + 3 <= Len(src)
  BY <1>1 DEF NEED_IP
<1>4. NEED_IP(ip, 3) => b = out[ip + 1]
  <2>1. NEED_IP(ip, 3) => ip + 1 <= Len(src) /\ ip + 1 <= Len(out)
    BY <1>1, <1>3
  <2> QED BY <1>1, <2>1, ByteThere DEF b
<1>5. out[ip + 1] \in Nat
  <2>1. ip + 1 \in 1..Len(out)
    BY <1>1
  <2> QED BY <1>1, <2>1, Element, OctetIsNat
<1>6. CASE ~ NEED_IP(ip, 3) /\ Return("input overrun", ip)
  <2>1. ~ Whole
    <3>1. Len(src) < ip + 3
      <4>1. ~ NEED_IP(ip, 3)
        BY <1>6
      <4> QED BY <1>1, <4>1 DEF NEED_IP
    <3> QED BY <1>1, <3>1 DEF Whole
  <2> QED BY <1>6, <2>1, ErrorFollows
<1>7. CASE NEED_IP(ip, 3) /\ b >= 16 /\ Go("match", ip, 0, got)
  <2>1. y = <<"match", ip, 0, q>>
    <3>1. ~ (out[ip + 1] \in 1..15) /\ ~ (out[ip + 1] = 0)
      BY <1>4, <1>5, <1>7
    <3> QED BY <1>2, <3>1, Zenon DEF LiteralsSay
  <2>2. Reads(out, data, <<"match", ip, 0, Len(got)>>) /\ "match" \in Labels
    BY <1>2, <2>1 DEF q, Labels
  <2> QED BY <1>1, <1>7, <2>2, GoFollows
<1>8. CASE NEED_IP(ip, 3) /\ b \in 1..15 /\ CopyRun(ip + 1, b + 3, "after")
  <2> DEFINE n == b + 3
             p == ip + 1
             label == "after"
  <2>1. SaysRun(out, data, ip + 1, q, out[ip + 1] + 3, "after", y)
    <3>1. ~ (out[ip + 1] >= 16) /\ ~ (out[ip + 1] = 0)
      BY <1>4, <1>5, <1>8
    <3> QED BY <1>2, <3>1, Zenon DEF LiteralsSay
  <2>2. n \in Nat /\ n = out[ip + 1] + 3 /\ p \in Nat /\ p <= Len(src)
    BY <1>1, <1>3, <1>4, <1>5, <1>8
  <2>3. /\ label \in {"match", "after"} /\ CopyRun(p, n, label)
        /\ SaysRun(out, data, p, Len(got), n, label, y) /\ Reads(out, data, y)
    BY <1>2, <1>4, <1>8, <2>1 DEF q
  <2> HIDE DEF n, p, label
  <2> QED BY <2>2, <2>3, CopyRunFollows
<1>9. CASE /\ NEED_IP(ip, 3) /\ b = 0
           /\ IF CountCut(ip + 1) THEN Return("input overrun", Len(src))
              ELSE CopyRun(CountEnd(ip + 1), CountAt(ip + 1) + 18, "after")
  <2>1. PICK z \in Nat : /\ SaysCount(out, ip + 1, z)
                         /\ SaysRun(out, data, ip + z + 2, q, 255 * z + out[ip + z + 2] + 18, "after", y)
    <3>1. ~ (out[ip + 1] >= 16) /\ ~ (out[ip + 1] \in 1..15)
      <4>1. out[ip + 1] = 0
        <5>1. NEED_IP(ip, 3) /\ b = 0
          BY <1>9
        <5> QED BY <1>4, <5>1
      <4> QED BY <4>1
    <3> QED BY <1>2, <3>1, Zenon DEF LiteralsSay
  <2> DEFINE f == ip + 1
             p == ip + z + 2
             n == 255 * z + out[ip + z + 2] + 18
             label == "after"
  <2>2. f \in Nat /\ p = f + z + 1 /\ p \in Nat
    BY <1>1
  <2>3. SaysCount(out, f, z)
    BY <2>1
  <2>4. n \in Nat
    <3>1. out[p] \in Nat
      <4>1. p \in 1..Len(out)
        <5>1. f + z + 1 <= Len(out)
          BY <2>3 DEF SaysCount
        <5> QED BY <2>2, <5>1, <1>1
      <4> QED BY <1>1, <4>1, Element, OctetIsNat
    <3> QED BY <3>1
  <2>5. n = 255 * z + out[p] + 18
    OBVIOUS
  <2>6. label \in {"match", "after"} /\ SaysRun(out, data, p, Len(got), n, label, y) /\ Reads(out, data, y)
    BY <1>2, <2>1 DEF q
  <2>7. /\ CountCut(f) => Return("input overrun", Len(src))
        /\ ~ CountCut(f) => CopyRun(CountEnd(f), CountAt(f) + 18, label)
    BY <1>9
  <2> HIDE DEF f, p, n, label
  <2>8. CASE CountCut(f)
    <3>1. ~ Whole
      BY <2>2, <2>3, <2>8, CountFollows
    <3> QED BY <2>7, <2>8, <3>1, ErrorFollows
  <2>9. CASE ~ CountCut(f)
    <3>1. CountEnd(f) = p /\ p <= Len(src) /\ CountAt(f) = 255 * z + out[p]
      BY <2>2, <2>3, <2>9, CountFollows
    <3>2. CopyRun(p, n, label)
      BY <2>5, <2>7, <2>9, <3>1
    <3> QED BY <2>2, <2>4, <2>6, <3>1, <3>2, CopyRunFollows
  <2> QED BY <2>8, <2>9
<1>10. \/ ~ NEED_IP(ip, 3) /\ Return("input overrun", ip)
       \/ NEED_IP(ip, 3) /\ b >= 16 /\ Go("match", ip, 0, got)
       \/ NEED_IP(ip, 3) /\ b \in 1..15 /\ CopyRun(ip + 1, b + 3, "after")
       \/ /\ NEED_IP(ip, 3) /\ b = 0
          /\ IF CountCut(ip + 1) THEN Return("input overrun", Len(src))
             ELSE CopyRun(CountEnd(ip + 1), CountAt(ip + 1) + 18, "after")
  BY Zenon DEF Literals, b
<1> QED BY <1>6, <1>7, <1>8, <1>9, <1>10

LEMMA AfterLiteralsFollows == Standing /\ AfterLiterals => Followed
<1> SUFFICES ASSUME Standing, AfterLiterals PROVE Followed
  OBVIOUS
<1> DEFINE q == Len(got)
           b == Byte(ip)
<1>1. /\ Len(src) \in Nat /\ Len(out) \in Nat /\ ip + 3 <= Len(out) /\ ip + 3 <= Len(src)
      /\ ip \in Nat /\ t \in Nat /\ q \in Nat
      /\ Right(got) /\ out \in Seq(Octet) /\ pc = "after"
  BY Stand DEF AfterLiterals
<1> HIDE DEF q, b
<1>2. PICK y \in Place : AfterSays(out, data, ip, q, y) /\ Reads(out, data, y)
  <2>1. PICK y \in Place : Says(out, data, <<pc, ip, t, q>>, y) /\ Reads(out, data, y)
    BY <1>1, Leads DEF q
  <2>2. AfterSays(out, data, ip, q, y)
    BY <1>1, <2>1, SaysAt DEF Labels
  <2> QED BY <2>1, <2>2
<1>3. b = out[ip + 1] /\ Byte(ip + 1) = out[ip + 2]
  <2>1. ip + 1 <= Len(src) /\ ip + 1 <= Len(out)
    BY <1>1
  <2>2. b = out[ip + 1]
    BY <1>1, <2>1, ByteThere DEF b
  <2> DEFINE k == ip + 1
  <2>3. k \in Nat /\ k + 1 <= Len(src) /\ k + 1 <= Len(out) /\ k + 1 = ip + 2
    BY <1>1
  <2> HIDE DEF k
  <2>4. Byte(k) = out[k + 1]
    BY <2>3, ByteThere
  <2> QED BY <2>2, <2>3, <2>4 DEF k
<1>4. out[ip + 1] \in Nat
  <2>1. ip + 1 \in 1..Len(out)
    BY <1>1
  <2> QED BY <1>1, <2>1, Element, OctetIsNat
<1>5. CASE b >= 16 /\ Go("match", ip, 0, got)
  <2>1. y = <<"match", ip, 0, q>>
    <3>1. ~ (out[ip + 1] < 16)
      BY <1>3, <1>4, <1>5
    <3> QED BY <1>2, <3>1, Zenon DEF AfterSays
  <2>2. Reads(out, data, <<"match", ip, 0, Len(got)>>) /\ "match" \in Labels
    BY <1>2, <2>1 DEF q, Labels
  <2> QED BY <1>1, <1>5, <2>2, GoFollows
<1>6. CASE b < 16 /\ CopyMatch(ip + 2, 1 + M2Max + (b \div 4) + 4 * Byte(ip + 1), 3)
  <2> DEFINE p == ip + 2
             dist == 1 + M2Max + (b \div 4) + 4 * Byte(ip + 1)
             n == 3
  <2>1. SaysMatch(out, data, p, Len(got), dist, n, y)
    <3>1. ~ (out[ip + 1] >= 16)
      BY <1>3, <1>4, <1>6
    <3>2. SaysMatch(out, data, ip + 2, q, 1 + M2Max + (out[ip + 1] \div 4) + 4 * out[ip + 2], 3, y)
      BY <1>2, <3>1, Zenon DEF AfterSays
    <3> QED BY <1>3, <3>2 DEF q
  <2>2. p \in Nat /\ p >= 2 /\ p <= Len(src) /\ n \in Nat
    BY <1>1
  <2>3. CopyMatch(p, dist, n)
    BY <1>6
  <2> HIDE DEF p, dist, n
  <2> QED BY <1>2, <2>1, <2>2, <2>3, CopyMatchFollows
<1>7. \/ b >= 16 /\ Go("match", ip, 0, got)
      \/ b < 16 /\ CopyMatch(ip + 2, 1 + M2Max + (b \div 4) + 4 * Byte(ip + 1), 3)
  BY Zenon DEF AfterLiterals, b
<1> QED BY <1>5, <1>6, <1>7

LEMMA TrailingFollows == Standing /\ Trailing => Followed
<1> SUFFICES ASSUME Standing, Trailing PROVE Followed
  OBVIOUS
<1> DEFINE q == Len(got)
<1>1. ip <= Len(src) /\ ip \in Nat /\ t \in Nat /\ q \in Nat /\ pc = "trailing" /\ CopyRun(ip, t, "match")
  BY Stand DEF Trailing
<1> HIDE DEF q
<1>2. PICK y \in Place : SaysRun(out, data, ip, q, t, "match", y) /\ Reads(out, data, y)
  <2>1. PICK y \in Place : Says(out, data, <<pc, ip, t, q>>, y) /\ Reads(out, data, y)
    BY <1>1, Leads DEF q
  <2>2. SaysRun(out, data, ip, q, t, "match", y)
    BY <1>1, <2>1, SaysAt DEF Labels
  <2> QED BY <2>1, <2>2
<1> DEFINE label == "match"
<1>3. label \in {"match", "after"} /\ CopyRun(ip, t, label) /\ SaysRun(out, data, ip, Len(got), t, label, y)
  BY <1>1, <1>2 DEF q
<1> HIDE DEF label
<1> QED BY <1>1, <1>2, <1>3, CopyRunFollows

\* The first three bytes of a match's instruction.
LEMMA MatchBytes ==
  ASSUME Standing, pc = "match"
  PROVE  /\ Byte(ip) = out[ip + 1] /\ Byte(ip + 1) = out[ip + 2] /\ Byte(ip + 2) = out[ip + 3]
         /\ out[ip + 1] \in Nat /\ out[ip + 2] \in Nat /\ out[ip + 3] \in Nat
         /\ out[ip + 1] <= 255 /\ ip \in Nat /\ ip + 3 <= Len(src) /\ ip + 3 <= Len(out)
<1>1. ip \in Nat /\ ip + 3 <= Len(src) /\ ip + 3 <= Len(out) /\ out \in Seq(Octet) /\ Len(src) \in Nat /\ Len(out) \in Nat
  BY Stand
<1>2. ASSUME NEW j \in 0..2 PROVE Byte(ip + j) = out[ip + j + 1] /\ out[ip + j + 1] \in Octet
  <2> DEFINE k == ip + j
  <2>1. k \in Nat /\ k + 1 <= Len(src) /\ k + 1 <= Len(out) /\ k + 1 \in 1..Len(out)
    BY <1>1
  <2> HIDE DEF k
  <2>2. Byte(k) = out[k + 1] /\ out[k + 1] \in Octet
    BY <1>1, <2>1, ByteThere, Element
  <2> QED BY <2>2 DEF k
<1>3. 0 \in 0..2 /\ 1 \in 0..2 /\ 2 \in 0..2
  OBVIOUS
<1>4. /\ ip + 0 = ip /\ ip + 0 + 1 = ip + 1 /\ ip + 1 + 1 = ip + 2 /\ ip + 2 + 1 = ip + 3
  BY <1>1
<1>5. /\ Byte(ip + 0) = out[ip + 0 + 1] /\ out[ip + 0 + 1] \in Octet
      /\ Byte(ip + 1) = out[ip + 1 + 1] /\ out[ip + 1 + 1] \in Octet
      /\ Byte(ip + 2) = out[ip + 2 + 1] /\ out[ip + 2 + 1] \in Octet
  BY <1>2, <1>3
<1>6. /\ Byte(ip) = out[ip + 1] /\ Byte(ip + 1) = out[ip + 2] /\ Byte(ip + 2) = out[ip + 3]
      /\ out[ip + 1] \in Octet /\ out[ip + 2] \in Octet /\ out[ip + 3] \in Octet
  BY <1>4, <1>5
<1> QED BY <1>1, <1>6, OctetIsNat

\* The offset read is the one written.
LEMMA OffsetFollows ==
  ASSUME Standing, NEW p \in Nat, p + 2 <= Len(src), p + 2 <= Len(out)
  PROVE  Offset(p) = OffsetIn(out, p) /\ Offset(p) \in Nat
<1>1. out \in Seq(Octet) /\ Len(src) \in Nat /\ Len(out) \in Nat
  BY Stand
<1>2. Byte(p) = out[p + 1] /\ out[p + 1] \in Nat
  <2>1. p + 1 <= Len(src) /\ p + 1 <= Len(out) /\ p + 1 \in 1..Len(out)
    BY <1>1
  <2> QED BY <1>1, <2>1, ByteThere, Element, OctetIsNat
<1>3. Byte(p + 1) = out[p + 2] /\ out[p + 2] \in Nat
  <2> DEFINE k == p + 1
  <2>1. k \in Nat /\ k + 1 <= Len(src) /\ k + 1 <= Len(out) /\ k + 1 \in 1..Len(out) /\ k + 1 = p + 2
    BY <1>1
  <2> HIDE DEF k
  <2>2. Byte(k) = out[k + 1] /\ out[k + 1] \in Nat
    BY <1>1, <2>1, ByteThere, Element, OctetIsNat
  <2> QED BY <2>1, <2>2 DEF k
<1>4. (out[p + 1] + 256 * out[p + 2]) \div 4 \in Nat
  BY <1>2, <1>3
<1> QED BY <1>2, <1>3, <1>4, Zenon DEF Offset, OffsetIn

LEMMA FarMatchFollows ==
  ASSUME Standing, NEW p \in Nat, p + 2 <= Len(src), NEW hi \in Nat, NEW n \in Nat, NEW y,
         SaysFar(out, data, p, Len(got), hi, n, y), Reads(out, data, y), FarMatch(p, hi, n)
  PROVE  Followed
<1> DEFINE dist == hi + Offset(p) + M3Max
           pp == p + 2
<1>1. /\ hi + OffsetIn(out, p) # 0
      /\ SaysMatch(out, data, p + 2, Len(got), hi + OffsetIn(out, p) + M3Max, n, y)
  BY DEF SaysFar
<1>2. p + 2 <= Len(out)
  BY <1>1 DEF SaysMatch
<1>3. Offset(p) = OffsetIn(out, p)
  BY <1>2, OffsetFollows
<1>4. CopyMatch(pp, dist, n)
  BY <1>1, <1>3 DEF FarMatch
<1>5. SaysMatch(out, data, pp, Len(got), dist, n, y)
  BY <1>1, <1>3
<1>6. pp \in Nat /\ pp >= 2 /\ pp <= Len(src)
  OBVIOUS
<1> HIDE DEF pp, dist
<1> QED BY <1>4, <1>5, <1>6, CopyMatchFollows

LEMMA M1MatchFollows ==
  ASSUME Standing, pc = "match", NEW y, MatchSays(out, data, ip, Len(got), y), Reads(out, data, y), M1Match
  PROVE  Followed
<1> DEFINE p == ip + 2
           b == Byte(ip)
           dist == 1 + (b \div 4) + 4 * Byte(ip + 1)
           n == 2
           x1 == out[ip + 1]
<1>1. /\ b = x1 /\ Byte(ip + 1) = out[ip + 2] /\ x1 \in Nat
      /\ ip \in Nat /\ ip + 3 <= Len(src) /\ Len(src) \in Nat
  BY MatchBytes, Stand
<1>2. b < 16 /\ CopyMatch(p, dist, n)
  BY DEF M1Match
<1>3. SaysMatch(out, data, p, Len(got), dist, n, y)
  <2>1. ~ (x1 >= 64) /\ ~ (x1 \in 32..63) /\ ~ (x1 \in 16..31)
    <3> HIDE DEF dist, n, p, x1, b
    <3> QED BY <1>1, <1>2
  <2>2. SaysMatch(out, data, ip + 2, Len(got), 1 + (x1 \div 4) + 4 * out[ip + 2], 2, y)
    BY <2>1, Zenon DEF MatchSays
  <2>3. 1 + (x1 \div 4) + 4 * out[ip + 2] = dist
    BY <1>1, Zenon
  <2> QED BY <2>2, <2>3
<1>4. p \in Nat /\ p >= 2 /\ p <= Len(src) /\ n \in Nat
  BY <1>1
<1> HIDE DEF dist, n, p
<1> QED BY <1>2, <1>3, <1>4, CopyMatchFollows

LEMMA M2MatchFollows ==
  ASSUME Standing, pc = "match", NEW y, MatchSays(out, data, ip, Len(got), y), Reads(out, data, y), M2Match
  PROVE  Followed
<1> DEFINE p == ip + 2
           b == Byte(ip)
           dist == 1 + ((b \div 4) % 8) + 8 * Byte(ip + 1)
           n == (b \div 32) + 1
           x1 == out[ip + 1]
<1>1. /\ b = x1 /\ Byte(ip + 1) = out[ip + 2] /\ x1 \in Nat
      /\ ip \in Nat /\ ip + 3 <= Len(src) /\ Len(src) \in Nat
  BY MatchBytes, Stand
<1>2. b >= 64 /\ CopyMatch(p, dist, n)
  BY DEF M2Match
<1>3. SaysMatch(out, data, p, Len(got), dist, n, y)
  <2>1. ~ (x1 < 16) /\ ~ (x1 \in 32..63) /\ ~ (x1 \in 16..31)
    <3> HIDE DEF dist, n, p, x1, b
    <3> QED BY <1>1, <1>2
  <2>2. SaysMatch(out, data, ip + 2, Len(got), 1 + ((x1 \div 4) % 8) + 8 * out[ip + 2], (x1 \div 32) + 1, y)
    BY <2>1, Zenon DEF MatchSays
  <2>3. 1 + ((x1 \div 4) % 8) + 8 * out[ip + 2] = dist /\ (x1 \div 32) + 1 = n
    BY <1>1, Zenon
  <2> QED BY <2>2, <2>3
<1>4. p \in Nat /\ p >= 2 /\ p <= Len(src) /\ n \in Nat
  BY <1>1
<1> HIDE DEF dist, n, p
<1> QED BY <1>2, <1>3, <1>4, CopyMatchFollows

LEMMA M3MatchFollows ==
  ASSUME Standing, pc = "match", NEW y, MatchSays(out, data, ip, Len(got), y), Reads(out, data, y), M3Match
  PROVE  Followed
<1> DEFINE q == Len(got)
           f == ip + 1
           x1 == out[ip + 1]
           b == Byte(ip)
<1>1. /\ b = x1 /\ x1 \in Nat /\ ip \in Nat /\ ip + 3 <= Len(src) /\ ip + 3 <= Len(out)
      /\ Len(src) \in Nat /\ Len(out) \in Nat /\ out \in Seq(Octet) /\ f \in Nat
  <2>1. b = x1 /\ x1 \in Nat /\ ip \in Nat /\ ip + 3 <= Len(src) /\ ip + 3 <= Len(out)
    BY MatchBytes
  <2>2. Len(src) \in Nat /\ Len(out) \in Nat /\ out \in Seq(Octet)
    BY Stand
  <2>3. f \in Nat
    BY <2>1
  <2> QED BY <2>1, <2>2, <2>3
<1>2. b \in 32..63
  BY DEF M3Match
<1> HIDE DEF q, b
<1>3. M3Says(out, data, ip, q, y)
  <2>1. ~ (x1 < 16) /\ ~ (x1 >= 64) /\ ~ (x1 \in 16..31)
    <3> HIDE DEF x1
    <3> QED BY <1>1, <1>2
  <2> QED BY <2>1, Zenon DEF MatchSays, q
<1>4. CASE b > 32
  <2> DEFINE p == f + 2
             dist == 1 + Offset(f)
             n == (b - 32) + 2
  <2>1. CopyMatch(p, dist, n)
    <3>1. ~ (b = 32)
      BY <1>4
    <3> QED BY <1>4, <3>1, Zenon DEF M3Match, b
  <2>2. SaysMatch(out, data, ip + 3, q, 1 + OffsetIn(out, ip + 1), (x1 - 32) + 2, y)
    <3>1. ~ (x1 = 32)
      <4> HIDE DEF x1
      <4> QED BY <1>1, <1>4
    <3> QED BY <1>3, <3>1, Zenon DEF M3Says
  <2>3. Offset(f) = OffsetIn(out, f)
    <3>1. f + 2 <= Len(src) /\ f + 2 <= Len(out)
      BY <1>1
    <3> HIDE DEF f
    <3> QED BY <1>1, <3>1, OffsetFollows
  <2>4. SaysMatch(out, data, p, Len(got), dist, n, y)
    <3>1. p = ip + 3 /\ dist = 1 + OffsetIn(out, ip + 1) /\ n = (x1 - 32) + 2
      BY <1>1, <2>3
    <3> HIDE DEF p, dist, n
    <3> QED BY <2>2, <3>1 DEF q
  <2>5. p \in Nat /\ p >= 2 /\ p <= Len(src)
    BY <1>1
  <2>6. n \in Nat
    BY <1>1, <1>4
  <2> HIDE DEF p, dist, n
  <2> QED BY <2>1, <2>4, <2>5, <2>6, CopyMatchFollows
<1>5. CASE b = 32
  <2>1. PICK z \in Nat :
             /\ SaysCount(out, ip + 1, z)
             /\ SaysMatch(out, data, ip + z + 4, q, 1 + OffsetIn(out, ip + z + 2), 255 * z + out[ip + z + 2] + 33, y)
    <3>1. ~ (x1 > 32)
      <4> HIDE DEF x1
      <4> QED BY <1>1, <1>5
    <3> QED BY <1>3, <3>1, Zenon DEF M3Says
  <2> DEFINE e == ip + z + 2
             p == e + 2
             dist == 1 + OffsetIn(out, e)
             n == 255 * z + out[e] + 33
  <2>2. /\ e \in Nat /\ e = f + z + 1 /\ p \in Nat /\ p >= 2 /\ p = ip + z + 4
    BY <1>1
  <2>3. SaysCount(out, f, z)
    BY <2>1
  <2>4. SaysMatch(out, data, p, Len(got), dist, n, y)
    BY <2>1, <2>2 DEF q
  <2>5. p <= Len(out)
    BY <2>4 DEF SaysMatch
  <2>6. n \in Nat
    <3>1. out[e] \in Nat
      <4>1. e \in 1..Len(out)
        BY <1>1, <2>2, <2>5
      <4> QED BY <1>1, <4>1, Element, OctetIsNat
    <3> QED BY <3>1
  <2>7. /\ CountCut(f) => ~ Whole
        /\ ~ CountCut(f) => CountEnd(f) = e /\ e <= Len(src) /\ CountAt(f) = 255 * z + out[e]
    <3> HIDE DEF e, f
    <3> QED BY <1>1, <2>2, <2>3, CountFollows
  <2>8. ~ (b > 32)
    BY <1>5
  <2>9. CASE CountCut(f)
    <3>1. Return("input overrun", Len(src))
      BY <1>5, <2>8, <2>9, Zenon DEF M3Match, b
    <3> QED BY <2>7, <2>9, <3>1, ErrorFollows
  <2>10. CASE ~ CountCut(f) /\ ~ NEED_IP(CountEnd(f), 2)
    <3>1. Return("input overrun", CountEnd(f))
      BY <1>5, <2>8, <2>10, Zenon DEF M3Match, b
    <3>2. ~ Whole
      <4>1. ~ NEED_IP(e, 2)
        BY <2>7, <2>10
      <4>2. e <= Len(src)
        BY <2>7, <2>10
      <4> HIDE DEF e
      <4>3. Len(src) < e + 2
        BY <1>1, <2>2, <4>1, <4>2 DEF NEED_IP
      <4> QED BY <1>1, <2>2, <2>5, <4>3 DEF Whole
    <3> QED BY <3>1, <3>2, ErrorFollows
  <2>11. CASE ~ CountCut(f) /\ NEED_IP(CountEnd(f), 2)
    <3>1. CopyMatch(CountEnd(f) + 2, 1 + Offset(CountEnd(f)), CountAt(f) + 31 + 2)
      BY <1>5, <2>8, <2>11, Zenon DEF M3Match, b
    <3>2. CountEnd(f) = e /\ e <= Len(src) /\ CountAt(f) = 255 * z + out[e]
      BY <2>7, <2>11
    <3>3. e + 2 <= Len(src) /\ e + 2 <= Len(out)
      <4>1. NEED_IP(e, 2)
        BY <2>11, <3>2
      <4> HIDE DEF e
      <4> QED BY <1>1, <2>2, <2>5, <3>2, <4>1 DEF NEED_IP
    <3>4. Offset(e) = OffsetIn(out, e)
      <4> HIDE DEF e
      <4> QED BY <2>2, <3>3, OffsetFollows
    <3>5. CountAt(f) + 31 + 2 = n
      <4> DEFINE last == out[e]
      <4>1. last \in Nat
        <5>1. e \in 1..Len(out)
          BY <1>1, <2>2, <2>5
        <5> QED BY <1>1, <5>1, Element, OctetIsNat
      <4>2. CountAt(f) = 255 * z + last
        BY <3>2
      <4> HIDE DEF last
      <4>3. CountAt(f) + 31 + 2 = 255 * z + last + 33
        BY <4>1, <4>2
      <4> QED BY <4>3 DEF last
    <3>6. CopyMatch(p, dist, n)
      BY <3>1, <3>2, <3>4, <3>5
    <3>7. p <= Len(src)
      BY <3>3
    <3> HIDE DEF p, dist, n
    <3> QED BY <2>2, <2>4, <2>6, <3>6, <3>7, CopyMatchFollows
  <2> QED BY <2>9, <2>10, <2>11
<1>6. b > 32 \/ b = 32
  BY <1>2
<1> QED BY <1>4, <1>5, <1>6

LEMMA M4MatchFollows ==
  ASSUME Standing, pc = "match", NEW y, MatchSays(out, data, ip, Len(got), y), Reads(out, data, y), M4Match
  PROVE  Followed
<1> DEFINE q == Len(got)
           f == ip + 1
           x1 == out[ip + 1]
           b == Byte(ip)
           hi == Hi * ((b \div 8) % 2)
<1>1. /\ b = x1 /\ x1 \in Nat /\ ip \in Nat /\ ip + 3 <= Len(src) /\ ip + 3 <= Len(out)
      /\ Len(src) \in Nat /\ Len(out) \in Nat /\ out \in Seq(Octet) /\ f \in Nat
  <2>1. b = x1 /\ x1 \in Nat /\ ip \in Nat /\ ip + 3 <= Len(src) /\ ip + 3 <= Len(out)
    BY MatchBytes
  <2>2. Len(src) \in Nat /\ Len(out) \in Nat /\ out \in Seq(Octet)
    BY Stand
  <2>3. f \in Nat
    BY <2>1
  <2> QED BY <2>1, <2>2, <2>3
<1>2. b \in 16..31
  BY DEF M4Match
<1> HIDE DEF q, b
<1>3. hi \in Nat
  <2> DEFINE w == (b \div 8) % 2
  <2>1. w \in {0, 1} /\ Hi \in Nat
    BY <1>2, Limits
  <2> HIDE DEF w
  <2>2. Hi * w \in Nat
    BY <2>1
  <2> QED BY <2>2 DEF w
<1>4. M4Says(out, data, ip, q, y)
  <2>1. ~ (x1 < 16) /\ ~ (x1 >= 64) /\ ~ (x1 \in 32..63)
    <3> HIDE DEF x1
    <3> QED BY <1>1, <1>2
  <2> QED BY <2>1, Zenon DEF MatchSays, q
<1>5. hi = Hi * ((x1 \div 8) % 2)
  BY <1>1
<1>6. CASE b % 8 # 0
  <2> DEFINE n == (b % 8) + 2
  <2>1. FarMatch(f, hi, n)
    BY <1>6, Zenon DEF M4Match, b
  <2>2. SaysFar(out, data, ip + 1, q, Hi * ((x1 \div 8) % 2), (x1 % 8) + 2, y)
    <3>1. x1 % 8 # 0
      BY <1>1, <1>6
    <3> QED BY <1>4, <3>1, Zenon DEF M4Says
  <2>3. n \in Nat
    BY <1>2
  <2>4. SaysFar(out, data, f, Len(got), hi, n, y)
    BY <1>1, <1>5, <2>2 DEF q
  <2>5. f + 2 <= Len(src)
    BY <1>1
  <2> HIDE DEF n, f, hi
  <2> QED BY <1>1, <1>3, <2>1, <2>3, <2>4, <2>5, FarMatchFollows
<1>7. CASE b % 8 = 0
  <2>1. PICK z \in Nat :
             /\ SaysCount(out, ip + 1, z)
             /\ SaysFar(out, data, ip + z + 2, q, Hi * ((x1 \div 8) % 2), 255 * z + out[ip + z + 2] + 9, y)
    <3>1. ~ (x1 % 8 # 0)
      BY <1>1, <1>7
    <3> QED BY <1>4, <3>1, Zenon DEF M4Says
  <2> DEFINE e == ip + z + 2
             n == 255 * z + out[e] + 9
  <2>2. e \in Nat /\ e = f + z + 1
    BY <1>1
  <2>3. SaysCount(out, f, z)
    BY <2>1
  <2>4. SaysFar(out, data, e, Len(got), hi, n, y)
    BY <1>5, <2>1 DEF q
  <2>5. e + 2 <= Len(out)
    BY <2>4 DEF SaysFar, SaysMatch
  <2>6. out[e] \in Nat /\ n \in Nat
    <3>1. out[e] \in Nat
      <4>1. e \in 1..Len(out)
        BY <1>1, <2>2, <2>5
      <4> QED BY <1>1, <4>1, Element, OctetIsNat
    <3> QED BY <3>1
  <2>7. /\ CountCut(f) => ~ Whole
        /\ ~ CountCut(f) => CountEnd(f) = e /\ e <= Len(src) /\ CountAt(f) = 255 * z + out[e]
    <3> HIDE DEF e, f
    <3> QED BY <1>1, <2>2, <2>3, CountFollows
  <2>8. ~ (b % 8 # 0)
    BY <1>7
  <2>9. CASE CountCut(f)
    <3>1. Return("input overrun", Len(src))
      BY <1>7, <2>8, <2>9, Zenon DEF M4Match, b
    <3> QED BY <2>7, <2>9, <3>1, ErrorFollows
  <2>10. CASE ~ CountCut(f) /\ ~ NEED_IP(CountEnd(f), 2)
    <3>1. Return("input overrun", CountEnd(f))
      BY <1>7, <2>8, <2>10, Zenon DEF M4Match, b
    <3>2. ~ Whole
      <4>1. ~ NEED_IP(e, 2)
        BY <2>7, <2>10
      <4>2. e <= Len(src)
        BY <2>7, <2>10
      <4> HIDE DEF e
      <4>3. Len(src) < e + 2
        BY <1>1, <2>2, <4>1, <4>2 DEF NEED_IP
      <4> QED BY <1>1, <2>2, <2>5, <4>3 DEF Whole
    <3> QED BY <3>1, <3>2, ErrorFollows
  <2>11. CASE ~ CountCut(f) /\ NEED_IP(CountEnd(f), 2)
    <3>1. FarMatch(CountEnd(f), hi, CountAt(f) + 7 + 2)
      BY <1>7, <2>8, <2>11, Zenon DEF M4Match, b
    <3>2. CountEnd(f) = e /\ e <= Len(src) /\ CountAt(f) = 255 * z + out[e]
      BY <2>7, <2>11
    <3>3. e + 2 <= Len(src)
      <4>1. NEED_IP(e, 2)
        BY <2>11, <3>2
      <4> HIDE DEF e
      <4> QED BY <1>1, <2>2, <3>2, <4>1 DEF NEED_IP
    <3>4. CountAt(f) + 7 + 2 = n
      <4> DEFINE last == out[e]
      <4>1. last \in Nat /\ CountAt(f) = 255 * z + last
        BY <2>6, <3>2
      <4> HIDE DEF last
      <4>2. CountAt(f) + 7 + 2 = 255 * z + last + 9
        BY <4>1
      <4> QED BY <4>2 DEF last
    <3>5. FarMatch(e, hi, n)
      BY <3>1, <3>2, <3>4
    <3> HIDE DEF e, n, hi
    <3> QED BY <1>3, <2>2, <2>4, <2>6, <3>3, <3>5, FarMatchFollows
  <2> QED BY <2>9, <2>10, <2>11
<1> QED BY <1>6, <1>7

\* The end of the stream as it was written is the end of the one that arrived, or more follows.
LEMMA StopFollows ==
  ASSUME Standing, pc = "match", Stops(out, data, <<pc, ip, t, Len(got)>>), Matches
  PROVE  Followed
<1>1. /\ Byte(ip) = out[ip + 1] /\ Byte(ip + 1) = out[ip + 2] /\ Byte(ip + 2) = out[ip + 3]
      /\ ip \in Nat /\ ip + 3 <= Len(src)
  BY MatchBytes
<1>2. /\ Len(src) \in Nat /\ Len(out) \in Nat /\ Len(data) \in Nat /\ room \in Nat /\ Len(got) \in Nat
      /\ Len(got) <= room /\ Arrived /\ Right(got)
      /\ src \in Seq(Octet) /\ out \in Seq(Octet)
  BY Stand
<1>3. /\ ip = Len(out) - 3 /\ Len(got) = Len(data)
      /\ out[Len(out) - 2] = 17 /\ out[Len(out) - 1] = 0 /\ out[Len(out)] = 0
  BY DEF Stops
<1>4. Byte(ip) = 17 /\ Byte(ip + 1) = 0 /\ Byte(ip + 2) = 0
  <2>1. ip + 1 = Len(out) - 2 /\ ip + 2 = Len(out) - 1 /\ ip + 3 = Len(out)
    BY <1>2, <1>3
  <2> QED BY <1>1, <1>3, <2>1
<1> DEFINE f == ip + 1
           b == Byte(ip)
           hi == Hi * ((b \div 8) % 2)
<1>5. FarMatch(f, hi, (b % 8) + 2)
  <2>1. ~ M1Match /\ ~ M2Match /\ ~ M3Match
    BY <1>4 DEF M1Match, M2Match, M3Match
  <2>2. M4Match
    BY <2>1 DEF Matches
  <2>3. b % 8 # 0
    BY <1>4
  <2> QED BY <2>2, <2>3, Zenon DEF M4Match
<1>6. hi + Offset(f) = 0
  <2>1. (17 \div 8) % 2 = 0 /\ (0 + 256 * 0) \div 4 = 0
    OBVIOUS
  <2>2. hi = 0
    BY <1>4, <2>1, Limits
  <2>3. ip + 1 + 1 = ip + 2
    BY <1>1
  <2>4. Offset(f) = 0
    BY <1>4, <2>1, <2>3 DEF Offset
  <2> QED BY <2>2, <2>4
<1> DEFINE code == CASE f + 2 = Len(src) -> "ok"
                     [] f + 2 < Len(src) -> "input not consumed"
                     [] OTHER -> "input overrun"
<1>7. Return(code, f + 2)
  BY <1>5, <1>6, Zenon DEF FarMatch
<1>8. /\ pc' = "done" /\ res' = code /\ got' = got
      /\ data' = data /\ out' = out /\ src' = src /\ room' = room
  BY <1>7 DEF Return
<1>9. f + 2 = Len(out) /\ f + 2 <= Len(src)
  BY <1>1, <1>2, <1>3
<1>10. code = "ok" <=> Whole
  <2>1. CASE f + 2 = Len(src)
    <3>1. code = "ok"
      BY <2>1, <1>2, <1>9
    <3>2. Len(src) = Len(out)
      BY <1>9, <2>1
    <3>3. src = out
      <4>1. \A k \in 1..Len(src) : src[k] = out[k]
        BY <1>2, <3>2 DEF Arrived
      <4> HIDE DEF Octet
      <4> QED BY <1>2, <3>2, <4>1
    <3>4. room = Len(data)
      BY <1>2, <1>3 DEF Arrived
    <3> QED BY <3>1, <3>3, <3>4 DEF Whole
  <2>2. CASE f + 2 # Len(src)
    <3>1. f + 2 < Len(src) /\ f + 2 \in Nat
      BY <1>1, <1>2, <1>9, <2>2
    <3>2. code = "input not consumed"
      <4> HIDE DEF f
      <4> QED BY <2>2, <3>1, Zenon
    <3>3. src # out
      BY <1>2, <1>9, <3>1
    <3> HIDE DEF code
    <3> QED BY <3>2, <3>3 DEF Whole
  <2> QED BY <2>1, <2>2
<1> HIDE DEF code
<1>11. Arrived' /\ Right(got)' /\ (Whole' <=> Whole)
  BY <1>2, <1>8 DEF Arrived, Right, Whole
<1>12. Len(got)' = Len(data)' /\ pc' \in Decompressing
  BY <1>3, <1>8 DEF Decompressing
<1> QED BY <1>8, <1>10, <1>11, <1>12, Zenon DEF Followed, Following

LEMMA MatchesFollows == Standing /\ Matches => Followed
<1> SUFFICES ASSUME Standing, Matches PROVE Followed
  OBVIOUS
<1> DEFINE x == <<pc, ip, t, Len(got)>>
<1>1. pc = "match" /\ ip \in Nat /\ t \in Nat /\ Len(got) \in Nat /\ Reads(out, data, x)
  BY Stand DEF Matches
<1>2. \/ Stops(out, data, x)
      \/ \E y \in Place : MatchSays(out, data, ip, Len(got), y) /\ Reads(out, data, y)
  <2>1. \A y : Says(out, data, x, y) => MatchSays(out, data, ip, Len(got), y)
    BY <1>1, SaysAt DEF Labels
  <2> HIDE DEF x
  <2> QED BY <1>1, <2>1, Onward
<1>3. CASE Stops(out, data, x)
  BY <1>1, <1>3, StopFollows
<1>4. CASE \E y \in Place : MatchSays(out, data, ip, Len(got), y) /\ Reads(out, data, y)
  <2>1. PICK y \in Place : MatchSays(out, data, ip, Len(got), y) /\ Reads(out, data, y)
    BY <1>4
  <2>2. M1Match \/ M2Match \/ M3Match \/ M4Match
    BY DEF Matches
  <2> QED BY <1>1, <2>1, <2>2, M1MatchFollows, M2MatchFollows, M3MatchFollows, M4MatchFollows
<1> QED BY <1>2, <1>3, <1>4

LEMMA DeliverFollows == Inv /\ Progress /\ Deliver => Following'
<1> SUFFICES ASSUME Inv, Progress, Deliver PROVE Following'
  OBVIOUS
<1>1. /\ pc = "stored" /\ pc' = "first" /\ ip' = 0 /\ t' = 0
      /\ data' = data /\ out' = out /\ got' = got
  BY DEF Deliver, compressor
<1>2. PICK d \in Deliveries : src' = d[1] /\ room' = d[2]
  BY DEF Deliver
<1>3. data \in Seq(Octet) /\ out \in Seq(Octet) /\ Len(data) \in Nat /\ Len(out) \in Nat
  BY DEF Inv, Types
<1>4. got' = << >> /\ Len(got') = 0
  BY <1>1 DEF Inv, DecompressorInv, Decompressing
<1>5. /\ \A k \in 1..Len(d[1]) : k <= Len(out) => d[1][k] = out[k]
      /\ d[2] = Len(data) \/ d[2] = Len(data) - 1
  <2>1. CASE d \in {<<out, Len(data)>>, <<out, Len(data) - 1>>}
    BY <2>1
  <2>2. CASE d = <<out \o <<0>>, Len(data)>>
    <3> DEFINE zero == <<0>>
               more == out \o zero
    <3>1. zero \in Seq(Octet)
      BY DEF Octet
    <3> HIDE DEF zero
    <3>2. more \in Seq(Octet) /\ \A k \in 1..Len(out) : more[k] = out[k]
      BY <1>3, <3>1, Joined
    <3>3. d[1] = more /\ d[2] = Len(data)
      BY <2>2 DEF zero
    <3> HIDE DEF more
    <3>4. \A k \in 1..Len(more) : k <= Len(out) => k \in 1..Len(out)
      BY <1>3, <3>2
    <3> QED BY <3>2, <3>3, <3>4
  <2>3. CASE d \in {<<SubSeq(out, 1, k), Len(data)>> : k \in 0..Len(out) - 1}
    <3>1. PICK n \in 0..Len(out) - 1 : d = <<SubSeq(out, 1, n), Len(data)>>
      BY <2>3
    <3> DEFINE cut == SubSeq(out, 1, n)
    <3>2. cut \in Seq(Octet) /\ Len(cut) = n /\ Literal(cut, out, 0)
      <4> DEFINE e == 0
      <4>1. e \in Nat /\ n \in Nat /\ e <= n /\ n <= Len(out) /\ cut = SubSeq(out, e + 1, n) /\ n - e = n
        BY <1>3
      <4> HIDE DEF e, cut
      <4>2. cut \in Seq(Octet) /\ Len(cut) = n /\ Literal(cut, out, e)
        BY <1>3, <4>1, LiteralsTaken
      <4> QED BY <4>2 DEF e
    <3>3. d[1] = cut /\ d[2] = Len(data)
      BY <3>1
    <3> HIDE DEF cut
    <3>4. \A k \in 1..Len(cut) : cut[k] = out[k]
      <4>1. \A k \in 1..Len(cut) : cut[k] = out[0 + k] /\ 0 + k = k
        BY <3>2 DEF Literal
      <4> QED BY <4>1
    <3> QED BY <3>3, <3>4
  <2> QED BY <2>1, <2>2, <2>3, Zenon DEF Deliveries
<1>6. Arrived'
  BY <1>1, <1>2, <1>5 DEF Arrived
<1>7. Right(got)'
  BY <1>1, <1>3, <1>4 DEF Right
<1>8. Reads(out, data, <<"first", 0, 0, 0>>)
  BY <1>1 DEF Progress, Compressing, Encodes
<1>9. Reads(out, data, <<pc, ip, t, Len(got)>>)'
  BY <1>1, <1>4, <1>8
<1>10. pc' # "done"
  BY <1>1
<1> QED BY <1>6, <1>7, <1>9, <1>10, Zenon DEF Following

\* The three together.
Faithful == Inv /\ Progress /\ Following

LEMMA FaithfulInit ==
  ASSUME \A g \in GameMade : Encodes(g.stream, g.text), Init
  PROVE  Faithful
<1>1. pc \notin Decompressing
  BY DEF Init, Decompressing
<1>2. Inv /\ Progress
  BY InitGood, ProgressInit
<1> QED BY <1>1, <1>2 DEF Faithful, Following

LEMMA FaithfulNext == Faithful /\ [Next]_vars => Faithful'
<1> SUFFICES ASSUME Faithful, [Next]_vars PROVE Faithful'
  OBVIOUS
<1>1. Inv /\ Progress /\ Following /\ Inv'
  BY NextGood DEF Faithful
<1>2. CASE StartBlock \/ Skip \/ LeaveBlock \/ Miss \/ Hit \/ Seal
  <2>1. Progress'
    BY <1>1, <1>2, StartBlockProgress, SkipProgress, LeaveBlockProgress, MissProgress, HitProgress, SealProgress
  <2>2. pc' \in Compressing \cup {"stored"}
    BY <1>2 DEF StartBlock, Skip, LeaveBlock, Miss, Hit, Seal, Compressing
  <2>3. pc' \notin Decompressing
    BY <2>2 DEF Compressing, Decompressing
  <2> QED BY <1>1, <2>1, <2>3 DEF Faithful, Following
<1>3. CASE Deliver
  <2>1. pc = "stored" /\ pc' = "first" /\ data' = data /\ out' = out
    BY <1>3 DEF Deliver
  <2>2. Progress'
    BY <1>1, <2>1 DEF Progress, Compressing
  <2>3. Following'
    BY <1>1, <1>3, DeliverFollows
  <2> QED BY <1>1, <2>2, <2>3 DEF Faithful
<1>4. CASE FirstByte \/ Literals \/ AfterLiterals \/ Matches \/ Trailing
  <2>1. pc \in Labels
    BY <1>4 DEF FirstByte, Literals, AfterLiterals, Matches, Trailing, Labels
  <2>2. Standing
    BY <1>1, <2>1 DEF Standing
  <2>3. Followed
    BY <1>4, <2>2, FirstByteFollows, LiteralsFollows, AfterLiteralsFollows, MatchesFollows, TrailingFollows
  <2>4. Following' /\ pc' \in Decompressing
    BY <2>3 DEF Followed
  <2>5. Progress'
    BY <2>4 DEF Progress, Decompressing
  <2> QED BY <1>1, <2>4, <2>5 DEF Faithful
<1>5. CASE Ended \/ UNCHANGED vars
  <2>1. /\ data' = data /\ out' = out /\ pc' = pc /\ ip' = ip /\ t' = t /\ at' = at /\ ii' = ii
        /\ src' = src /\ room' = room /\ got' = got /\ res' = res
    BY <1>5 DEF Ended, vars, compressor, decompressor
  <2>2. Progress'
    BY <1>1, <2>1 DEF Progress
  <2>3. Following'
    BY <1>1, <2>1 DEF Following, Arrived, Right, Whole
  <2> QED BY <1>1, <2>2, <2>3 DEF Faithful
<1> QED BY <1>2, <1>3, <1>4, <1>5 DEF Next

LEMMA FaithfulAlways ==
  ASSUME \A g \in GameMade : Encodes(g.stream, g.text)
  PROVE  Spec => []Faithful
<1>1. Init => Faithful
  BY FaithfulInit
<1> QED BY <1>1, FaithfulNext, PTL DEF Spec

(* For every chunk, every choice of the limits, every dictionary and every chunk of the game's
   own that some reading of the format decodes to its text: each byte the decompressor makes is
   the chunk's, whatever was cut from or added to what the compressor wrote, and of a chunk that
   arrives whole it makes all and returns LZO_E_OK (lzo1x_1_compress, lzo1x_decompress_safe). *)
THEOREM ChunksRestored ==
  ASSUME \A g \in GameMade : Encodes(g.stream, g.text)
  PROVE  Spec => []Restored
<1>1. Faithful => Restored
  <2> SUFFICES ASSUME Faithful PROVE Restored
    OBVIOUS
  <2>1. ASSUME pc \in Decompressing PROVE got = SubSeq(data, 1, Len(got))
    <3>1. got \in Seq(Octet) /\ Len(got) \in Nat /\ data \in Seq(Octet) /\ Right(got)
      BY <2>1, Given DEF Faithful, Following, Inv, Types
    <3> DEFINE part == SubSeq(data, 1, Len(got))
    <3>2. part \in Seq(Octet) /\ Len(part) = Len(got) /\ Literal(part, data, 0)
      <4> DEFINE e == 0
                 n == Len(got)
      <4>1. e \in Nat /\ n \in Nat /\ e <= n /\ n <= Len(data) /\ part = SubSeq(data, e + 1, n) /\ n - e = n
        BY <3>1 DEF Right
      <4> HIDE DEF e, n, part
      <4>2. part \in Seq(Octet) /\ Len(part) = n /\ Literal(part, data, e)
        BY <3>1, <4>1, LiteralsTaken
      <4> QED BY <4>2 DEF e, n
    <3> HIDE DEF part
    <3>3. \A k \in 1..Len(got) : part[k] = got[k]
      <4>1. \A k \in 1..Len(got) : part[k] = data[0 + k] /\ 0 + k = k
        BY <3>2 DEF Literal
      <4> QED BY <3>1, <4>1 DEF Right
    <3>4. got = part
      <4> HIDE DEF Octet
      <4> QED BY <3>1, <3>2, <3>3
    <3> QED BY <3>4 DEF part
  <2>2. ASSUME pc \notin {"block", "literal", "next", "stored"} PROVE pc \in Decompressing
    BY <2>2 DEF Faithful, Inv, Types, Compressing
  <2>3. ASSUME pc = "done", src = out, room = Len(data) PROVE res = "ok" /\ got = data
    <3>1. pc \in Decompressing /\ Whole
      BY <2>3 DEF Decompressing, Whole
    <3>2. res = "ok" /\ Len(got) = Len(data)
      BY <2>3, <3>1, Zenon DEF Faithful, Following
    <3>3. got = SubSeq(data, 1, Len(data)) /\ data \in Seq(Octet)
      BY <2>1, <3>1, <3>2 DEF Faithful, Inv, Types
    <3>4. SubSeq(data, 1, Len(data)) = data
      <4> HIDE DEF Octet
      <4> QED BY <3>3
    <3> QED BY <3>2, <3>3, <3>4
  <2> QED BY <2>1, <2>2, <2>3, Zenon DEF Restored
<1> QED BY <1>1, FaithfulAlways, PTL

(* Under the same hypothesis: a chunk cut short anywhere, one with a byte too many, and one whose
   header leaves a byte too little room are never accepted: LZO_E_OK means that what arrived is
   what was written (lzo1x_decompress_safe, decompress_one_chunk). *)
THEOREM DamageIsRefused ==
  ASSUME \A g \in GameMade : Encodes(g.stream, g.text)
  PROVE  Spec => []DamageRefused
<1>1. Faithful => DamageRefused
  BY DEF Faithful, Following, DamageRefused, Decompressing, Whole
<1> QED BY <1>1, FaithfulAlways, PTL
=============================================================================
