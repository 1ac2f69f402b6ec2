-------------------------------- MODULE Lzo --------------------------------
(***************************************************************************)
(* The LZO1X-1 compressor and the checked decompressor that                *)
(* compress_one_chunk and decompress_one_chunk call on every PC save, as   *)
(* they are built on x86-64 (64-bit unaligned loads, a dictionary of       *)
(* offsets cleared for each block).  One action is one trip round a loop   *)
(* of the C code.  The bytes of the format are kept exactly; the offset    *)
(* limits and the block size are parameters, so that every encoding occurs *)
(* on short inputs, and the multiplicative hash is any hash with           *)
(* collisions.  The compressed chunk then reaches the reader whole, cut    *)
(* short, with a byte too many, or with too small a size in its header.    *)
(***************************************************************************)
EXTENDS Integers, Sequences, FiniteSetsExt

CONSTANTS
  Inputs,    \* the chunks to compress, sequences of bytes
  GameMade,  \* chunks of the game's own compressor: records [text, stream]
  Block,     \* 49152, the bytes compressed with one dictionary
  M2Max,     \* 0x800, the longest offset of a two-byte match
  M3Max,     \* 0x4000, the longest offset of a three-byte match
  Hi,        \* 0x4000, the weight of the bit of the offset kept in an M4's first byte
  Slots      \* 1 << D_BITS, the slots of the dictionary

\* Every offset of a block fits the last encoding; the others fit their fields.
OffsetFields    == M2Max \in 1..2048 /\ M3Max \in M2Max..16384 /\ Hi \in 1..16384
LimitAssumption ==
  OffsetFields /\ Block \in Nat /\ Block <= M3Max + 2 * Hi /\ Slots \in Nat \ {0}
ASSUME LimitAssumption

\* Chunks are bytes, and it can be told from a chunk who compressed it.
ChunksAssumption ==
  /\ \A d \in Inputs : d \in Seq(0..255) /\ d # << >>
  /\ \A g \in GameMade : /\ g.text \in Seq(0..255) /\ g.text # << >> /\ g.text \notin Inputs
                         /\ g.stream \in Seq(0..255)
ASSUME ChunksAssumption

VARIABLES
  data,      \* the chunk
  out,       \* the compressed bytes written so far
  pc,        \* where the compressor or the decompressor is
  at,        \* where the current block starts in data
  ip, ii, t, \* the locals of those names: the next byte to read, the first byte
             \* not yet encoded, and the literals carried over from the last block
  dict,      \* the positions, in the block, last seen for each hash
  reach,     \* the ends of the bytes of data and of out touched by wide loads and stores
  src, room, \* what the decompressor is given: bytes and the size of its buffer
  got,       \* the bytes it has produced
  res        \* its return code

compressor   == <<at, ii, dict, reach>>
decompressor == <<src, room, got, res>>
vars == <<data, out, pc, ip, t, compressor, decompressor>>

Least(a, b)   == IF a < b THEN a ELSE b
Greatest(a, b) == IF a < b THEN b ELSE a
Zeros(n) == [k \in 1..n |-> 0]

-----------------------------------------------------------------------------
(* What the compressor emits. *)

\* A count over its field: zero bytes worth 255 each, then the rest, never zero.
LongCount(n) == LET z == (n - 1) \div 255 IN Zeros(z) \o <<n - 255 * z>>

\* x | n, for an n of two bits.
Or(x, n) == 4 * (x \div 4) + 2 * Greatest((x \div 2) % 2, n \div 2) + Greatest(x % 2, n % 2)

\* op[-2] = op[-2] | n
OrCount(op, n) == [op EXCEPT ![Len(op) - 1] = Or(@, n)]

\* mutant: nineteen literals are counted in the short form.
RunHeadLate(n) == IF n <= 19 THEN <<n - 3>> ELSE <<0>> \o LongCount(n - 18)

RunHead(n) == IF n <= 18 THEN <<n - 3>> ELSE <<0>> \o LongCount(n - 18)

\* The literals in front of a match.
Run(op, lits) ==
  LET n == Len(lits) IN
  CASE n = 0 -> op
    [] n \in 1..3 -> OrCount(op, n) \o lits
    [] OTHER -> op \o RunHead(n) \o lits

\* The end of what Run stores: short runs are copied 4 or 16 bytes at a time.
RunReach(op, n) ==
  CASE n = 0 -> Len(op)
    [] n \in 1..3 -> Len(op) + 4
    [] n \in 4..16 -> Len(op) + 1 + 16
    [] OTHER -> Len(op) + Len(RunHead(n)) + n

Offset14(o) == <<(o * 4) % 256, (o \div 64) % 256>>

MatchHead(marker, field, n) == IF n <= field + 2 THEN <<marker + (n - 2)>> ELSE <<marker>> \o LongCount(n - field - 2)

Match(op, n, off) ==
  op \o CASE n <= 8 /\ off <= M2Max ->
               LET o == off - 1 IN <<(n - 1) * 32 + (o % 8) * 4, (o \div 8) % 256>>
         [] ~(n <= 8 /\ off <= M2Max) /\ off <= M3Max ->
               MatchHead(32, 31, n) \o Offset14(off - 1)
         [] OTHER ->
               LET o == off - M3Max IN
               MatchHead(16 + 8 * ((o \div Hi) % 2), 7, n) \o Offset14(o % Hi)

\* The literals after the last match, then the end-of-stream code.
Ending(op, lits) ==
  LET n == Len(lits) IN
  (CASE n = 0 -> op
     [] op = << >> /\ n \in 1..238 -> <<17 + n>> \o lits
     [] op # << >> /\ n \in 1..3 -> OrCount(op, n) \o lits
     [] OTHER -> op \o RunHead(n) \o lits) \o <<17, 0, 0>>

-----------------------------------------------------------------------------
(* The compressor. *)

BlockLen == Least(Len(data) - at, Block)
BlockEnd == at + BlockLen
\* mutant: matches start up to twelve bytes before the end of the block.
IpEndClose == BlockEnd - 12

IpEnd    == BlockEnd - 20

\* The loop of lzo1x_1_compress; its address comparison fails when the shifted sum is zero.
Worthwhile == Len(data) - at > 20 /\ (t + BlockLen) \div 32 > 0

StartBlock ==
  /\ pc = "block" /\ Worthwhile
  /\ dict' = [s \in 0..Slots - 1 |-> 0]
  /\ ip' = at + Greatest(0, 4 - t)
  /\ ii' = at
  /\ pc' = "literal"
  /\ UNCHANGED <<data, out, at, t, reach, decompressor>>

\* label literal
Skip ==
  /\ pc = "literal"
  /\ ip' = ip + 1 + (ip - ii) \div 32
  /\ pc' = "next"
  /\ UNCHANGED <<data, out, t, compressor, decompressor>>

Word(i) == SubSeq(data, i + 1, i + 4)
DINDEX(w) == (w[1] + 3 * w[2] + 5 * w[3] + 7 * w[4]) % Slots
Candidate == at + dict[DINDEX(Word(ip))]
Remember  == dict' = [dict EXCEPT ![DINDEX(Word(ip))] = ip - at]

LeaveBlock ==
  /\ pc = "next" /\ ip >= IpEnd
  /\ t' = BlockEnd - (ii - t)
  /\ at' = BlockEnd
  /\ pc' = "block"
  /\ UNCHANGED <<data, out, ip, ii, dict, reach, decompressor>>

Miss ==
  /\ pc = "next" /\ ip < IpEnd
  /\ Word(ip) # Word(Candidate)
  /\ Remember
  /\ pc' = "literal"
  /\ UNCHANGED <<data, out, at, ip, ii, t, reach, decompressor>>

\* The length of the match of ip at m: eight bytes are compared at a time, until they differ
\* or ip_end is passed.
MatchLen(m) ==
  LET passed == {n \in 12..(BlockEnd - ip) : (n - 4) % 8 = 0 /\ ip + n >= IpEnd}
      differ == {n \in 4..(BlockEnd - ip - 1) : data[ip + n + 1] # data[m + n + 1]}
  IN  Min(passed \cup differ)

Hit ==
  /\ pc = "next" /\ ip < IpEnd
  /\ Word(ip) = Word(Candidate)
  /\ Remember
  /\ LET n    == MatchLen(Candidate)
         lits == SubSeq(data, ii - t + 1, ip)
     IN  /\ out' = Match(Run(out, lits), n, ip - Candidate)
         /\ ip' = ip + n
         /\ ii' = ip + n
         /\ reach' = [in  |-> Greatest(reach.in, ip + 4 + 8 * ((n - 4) \div 8) + 8),
                      out |-> Greatest(reach.out, RunReach(out, Len(lits)))]
  /\ t' = 0
  /\ UNCHANGED <<data, pc, at, decompressor>>

Seal ==
  /\ pc = "block" /\ ~Worthwhile
  /\ out' = Ending(out, SubSeq(data, at - t + 1, Len(data)))
  /\ pc' = "stored"
  /\ UNCHANGED <<data, ip, t, compressor, decompressor>>

-----------------------------------------------------------------------------
(* The chunk on its way to the decompressor. *)

\* Whole, with one byte more, or cut anywhere; the size in the chunk header right or too small.
Deliveries ==
  {<<out, Len(data)>>, <<out \o <<0>>, Len(data)>>, <<out, Len(data) - 1>>}
  \cup {<<SubSeq(out, 1, k), Len(data)>> : k \in 0..Len(out) - 1}

Deliver ==
  /\ pc = "stored"
  /\ \E d \in Deliveries : src' = d[1] /\ room' = d[2]
  /\ ip' = 0 /\ t' = 0 /\ pc' = "first"
  /\ UNCHANGED <<data, out, compressor, got, res>>

-----------------------------------------------------------------------------
(* The decompressor. *)

Byte(p) == IF p < Len(src) THEN src[p + 1] ELSE 0
Bytes(p, n) == [k \in 1..n |-> Byte(p + k - 1)]

\* The macros compare unsigned differences: past the end the difference is huge.
NEED_IP(p, n) == p > Len(src) \/ Len(src) - p >= n
NEED_OP(n)    == room - Len(got) >= n

Go(label, p, n, bytes) ==
  /\ pc' = label /\ ip' = p /\ t' = n /\ got' = bytes
  /\ UNCHANGED <<data, out, compressor, src, room, res>>

Return(code, p) ==
  /\ pc' = "done" /\ ip' = p /\ res' = code
  /\ UNCHANGED <<data, out, t, compressor, src, room, got>>

\* mutant: the instruction after the literals is not asked for.
CopyRunTight(p, n, label) ==
  CASE ~NEED_OP(n) -> Return("output overrun", p)
    [] NEED_OP(n) /\ ~NEED_IP(p, n) -> Return("input overrun", p)
    [] OTHER -> Go(label, p + n, 0, got \o Bytes(p, n))

\* n literals at p; a following instruction of three bytes must fit too.
CopyRun(p, n, label) ==
  CASE ~NEED_OP(n) -> Return("output overrun", p)
    [] NEED_OP(n) /\ ~NEED_IP(p, n + 3) -> Return("input overrun", p)
    [] OTHER -> Go(label, p + n, 0, got \o Bytes(p, n))

\* A count over its field, at p: its value above the field's, and the byte after it.
ZerosAt(p) == Min({k \in 0..Len(src) : p + k >= Len(src) \/ Byte(p + k) # 0})
CountCut(p) == p + ZerosAt(p) >= Len(src)
CountAt(p)  == 255 * ZerosAt(p) + Byte(p + ZerosAt(p))
CountEnd(p) == p + ZerosAt(p) + 1

FirstByte ==
  /\ pc = "first"
  /\ \/ ~NEED_IP(0, 1) /\ Return("input overrun", 0)
     \/ NEED_IP(0, 1) /\ Byte(0) <= 17 /\ Go("literals", 0, 0, got)
     \/ NEED_IP(0, 1) /\ Byte(0) \in 18..20 /\ Go("trailing", 1, Byte(0) - 17, got)
     \/ NEED_IP(0, 1) /\ Byte(0) > 20 /\ CopyRun(1, Byte(0) - 17, "after")

Literals ==
  /\ pc = "literals"
  /\ \/ ~NEED_IP(ip, 3) /\ Return("input overrun", ip)
     \/ NEED_IP(ip, 3) /\ Byte(ip) >= 16 /\ Go("match", ip, 0, got)
     \/ NEED_IP(ip, 3) /\ Byte(ip) \in 1..15 /\ CopyRun(ip + 1, Byte(ip) + 3, "after")
     \/ /\ NEED_IP(ip, 3) /\ Byte(ip) = 0
        /\ IF CountCut(ip + 1) THEN Return("input overrun", Len(src))
           ELSE CopyRun(CountEnd(ip + 1), CountAt(ip + 1) + 18, "after")

\* n bytes from dist bytes back, which may overlap the bytes written; then the count of
\* trailing literals kept in the second byte before p.
CopyMatch(p, dist, n) ==
  CASE dist \notin 1..Len(got) -> Return("lookbehind overrun", p)
    [] dist \in 1..Len(got) /\ ~NEED_OP(n) -> Return("output overrun", p)
    [] OTHER ->
         LET copy  == [k \in 1..n |-> got[Len(got) - dist + ((k - 1) % dist) + 1]]
             lits  == Byte(p - 2) % 4
         IN  Go(IF lits = 0 THEN "literals" ELSE "trailing", p, lits, got \o copy)

\* label first_literal_run
AfterLiterals ==
  /\ pc = "after"
  /\ \/ Byte(ip) >= 16 /\ Go("match", ip, 0, got)
     \/ Byte(ip) < 16 /\ CopyMatch(ip + 2, 1 + M2Max + (Byte(ip) \div 4) + 4 * Byte(ip + 1), 3)

\* A match whose length field is `field` bits of one: p is past the field's byte.
Offset(p) == (Byte(p) + 256 * Byte(p + 1)) \div 4
\* mutant: the end-of-stream code ends the stream wherever it stands.
FarMatchLax(p, hi, n) ==
  IF hi + Offset(p) = 0 THEN Return("ok", p + 2)
  ELSE CopyMatch(p + 2, hi + Offset(p) + M3Max, n)

FarMatch(p, hi, n) ==
  IF hi + Offset(p) = 0
  THEN Return(CASE p + 2 = Len(src) -> "ok"
                [] p + 2 < Len(src) -> "input not consumed"
                [] OTHER -> "input overrun", p + 2)
  ELSE CopyMatch(p + 2, hi + Offset(p) + M3Max, n)

M2Match == Byte(ip) >= 64 /\ CopyMatch(ip + 2, 1 + ((Byte(ip) \div 4) % 8) + 8 * Byte(ip + 1), (Byte(ip) \div 32) + 1)

M3Match ==
  /\ Byte(ip) \in 32..63
  /\ LET p == ip + 1 IN
     CASE Byte(ip) > 32 -> CopyMatch(p + 2, 1 + Offset(p), (Byte(ip) - 32) + 2)
       [] Byte(ip) = 32 /\ CountCut(p) -> Return("input overrun", Len(src))
       [] Byte(ip) = 32 /\ ~CountCut(p) /\ ~NEED_IP(CountEnd(p), 2) -> Return("input overrun", CountEnd(p))
       [] OTHER -> CopyMatch(CountEnd(p) + 2, 1 + Offset(CountEnd(p)), CountAt(p) + 31 + 2)

M4Match ==
  /\ Byte(ip) \in 16..31
  /\ LET p  == ip + 1
         hi == Hi * ((Byte(ip) \div 8) % 2)
     IN
     CASE Byte(ip) % 8 # 0 -> FarMatch(p, hi, (Byte(ip) % 8) + 2)
       [] Byte(ip) % 8 = 0 /\ CountCut(p) -> Return("input overrun", Len(src))
       [] Byte(ip) % 8 = 0 /\ ~CountCut(p) /\ ~NEED_IP(CountEnd(p), 2) -> Return("input overrun", CountEnd(p))
       [] OTHER -> FarMatch(CountEnd(p), hi, CountAt(p) + 7 + 2)

M1Match == Byte(ip) < 16 /\ CopyMatch(ip + 2, 1 + (Byte(ip) \div 4) + 4 * Byte(ip + 1), 2)

Matches == pc = "match" /\ (M1Match \/ M2Match \/ M3Match \/ M4Match)

\* label match_next
Trailing == pc = "trailing" /\ CopyRun(ip, t, "match")

-----------------------------------------------------------------------------

Init ==
  /\ \/ data \in Inputs /\ out = << >> /\ pc = "block"
     \/ \E g \in GameMade : data = g.text /\ out = g.stream /\ pc = "stored"
  /\ at = 0 /\ ip = 0 /\ ii = 0 /\ t = 0
  /\ dict = [s \in 0..Slots - 1 |-> 0]
  /\ reach = [in |-> 0, out |-> 0]
  /\ src = << >> /\ room = 0 /\ got = << >> /\ res = "none"

Ended == pc = "done" /\ UNCHANGED vars

Next ==
  \/ StartBlock \/ Skip \/ LeaveBlock \/ Miss \/ Hit \/ Seal
  \/ Deliver
  \/ FirstByte \/ Literals \/ AfterLiterals \/ Matches \/ Trailing
  \/ Ended

Spec == Init /\ [][Next]_vars

-----------------------------------------------------------------------------
(* Every byte the decompressor makes is right, until it notices that the chunk was damaged, and
   of a chunk that arrives whole it makes all: the read side of a PC save gives
   write_xcom_save's bytes back. *)
Restored ==
  /\ pc \notin {"block", "literal", "next", "stored"} => got = SubSeq(data, 1, Len(got))
  /\ pc = "done" /\ src = out /\ room = Len(data) => res = "ok" /\ got = data

(* A chunk cut short, followed by anything, or whose header states too small a size never
   returns LZO_E_OK, so decompress_one_chunk throws. *)
DamageRefused ==
  pc = "done" /\ res = "ok" => src = out /\ room = Len(data)

(* The wide loads of the compressor stay inside the chunk and what it stores, the spill of its
   wide stores included, inside the worst case its test program allots (testmini.c). *)
CompressorInside ==
  /\ reach.in <= Len(data)
  /\ pc \in {"block", "literal", "next", "stored"} /\ data \in Inputs =>
       Greatest(reach.out, Len(out)) <= Len(data) + Len(data) \div 16 + 64 + 3

(* Whatever it is given, the decompressor reads nothing past its bytes and writes nothing past
   its buffer: an instruction is looked at only if its first three bytes are there. *)
DecompressorInside ==
  pc \notin {"block", "literal", "next", "stored"} =>
    /\ ip <= Len(src)
    /\ pc \in {"match", "after"} => ip + 3 <= Len(src)
    /\ Len(got) <= room
=============================================================================
