----------------------------- MODULE ChunkWalk ------------------------------
(***************************************************************************)
(* The two loops of the reader over the compressed chunks,                 *)
(* calculate_uncompressed_size() and decompress() (xcomreader.cpp), for    *)
(* any file whose checksums match, one the writer made or not: what a      *)
(* chunk header says is anything, and so is what the decompressor makes of *)
(* the bytes.  SaveContainer has the files the writer makes, and damage    *)
(* the checksums notice.                                                   *)
(*                                                                         *)
(* A header is chosen when it is read first, and is the same the second    *)
(* time: both loops walk over one buffer that nobody changes.  Headers     *)
(* that overlap are chosen independently, which admits more than there is. *)
(***************************************************************************)
EXTENDS Integers, TLC

CONSTANTS
  Start,     \* compressed_data_start: 1024 in the code
  Length,    \* bytes of the file
  HeadSize,  \* of a chunk header: six ints, 24 bytes
  HeadRead,  \* the part of it that is read: four ints, 16 bytes
  MaxInt,    \* largest int32_t
  PackedSizes, \* what a header may give as the compressed size,
  Sizes        \* and as the uncompressed size

\* Ints are int32_t, and the file is well below the largest.
ASSUME WalkAssumption ==
  /\ {Start, Length, HeadSize, HeadRead, MaxInt} \subseteq Nat
  /\ 0 < HeadRead /\ HeadRead <= HeadSize /\ Length + HeadSize <= MaxInt
  /\ PackedSizes \cup Sizes \subseteq -MaxInt - 1..MaxInt

VARIABLES
  stage,     \* "scan", "inflate", "delivered" or "refused"
  pos,       \* the cursor
  heads,     \* the headers read so far, by their position
  total,     \* uncompressed_size
  remaining  \* bytes_remaining

vars == <<stage, pos, heads, total, remaining>>

\* What int32_t arithmetic gives on overflow, as built.
Wrap(n) == ((n + MaxInt + 1) % (2 * (MaxInt + 1))) - (MaxInt + 1)

NoMagic == [magic |-> FALSE]
Heads   == {NoMagic} \cup [magic : {TRUE}, packed : PackedSizes, size : Sizes]

HeadsAt(p) == IF p \in DOMAIN heads THEN {heads[p]} ELSE Heads
HeadFits   == Length >= pos + HeadRead

\* From the cursor behind the four ints to the next header.
SkipShort(h) == h.packed                                              \* mutant
Skip(h) == Wrap(h.packed + (HeadSize - HeadRead))
NextPos(h) == pos + HeadRead + Skip(h)

\* eof() compares as size_t: what is before the buffer is past its end.
Eof(p) == p < 0 \/ p >= Length

Refuse == stage' = "refused" /\ UNCHANGED <<pos, total, remaining>>

CountedWithHeader(h) == h.size + HeadSize                             \* mutant
Counted(h) == h.size

\* One chunk of calculate_uncompressed_size(), and behind the last the check in decompress().
NextChunk(h) ==
  /\ total' = Wrap(total + Counted(h))
  /\ IF ~Eof(NextPos(h)) THEN stage' = "scan" /\ pos' = NextPos(h) /\ UNCHANGED remaining
     ELSE /\ stage' = IF total' < 0 THEN "refused" ELSE "inflate"
          /\ pos' = Start /\ remaining' = total'

ScanCut ==
  /\ stage = "scan" /\ ~HeadFits
  /\ Refuse /\ UNCHANGED heads

Scan ==
  /\ stage = "scan" /\ HeadFits
  /\ \E h \in HeadsAt(pos) :
       /\ heads' = (pos :> h) @@ heads
       /\ IF h.magic THEN NextChunk(h) ELSE Refuse

\* What decompress_one_chunk() returns is compared with the header.
RightSize(n, h) == n = h.size

\* One chunk of decompress(); its header was scanned, so it is there and has its magic.  The
\* decompressor, which is given the bytes remaining, may make any number of bytes up to them,
\* or fail.
Inflate(n) ==
  /\ stage = "inflate"
  /\ LET h == heads[pos] IN
     IF ~RightSize(n, h) THEN Refuse
     ELSE /\ remaining' = remaining - h.size
          /\ pos' = NextPos(h)
          /\ stage' = IF Eof(NextPos(h)) THEN "delivered" ELSE "inflate"
          /\ UNCHANGED total
  /\ UNCHANGED heads

InflateFails == stage = "inflate" /\ Refuse /\ UNCHANGED heads

Init ==
  /\ stage = "scan" /\ pos = Start
  /\ heads = << >>
  /\ total = 0 /\ remaining = 0

Next == Scan \/ ScanCut \/ InflateFails \/ \E n \in 0..remaining : Inflate(n)

\* The reader is one thread that nothing stops.
Spec == Init /\ [][Next]_vars /\ WF_vars(Next)

-----------------------------------------------------------------------------
(* Properties *)

\* The next header is the same, with a compressed size of -24 in the code, or one before it.
LeadsBack(h) == h.magic /\ h.packed <= -HeadSize

\* The reader goes round in circles.
Circles == stage = "scan" /\ pos \in DOMAIN heads /\ \E p \in DOMAIN heads : LeadsBack(heads[p])

\* Whatever the headers say, both loops end, or the first goes in circles because of a header that
\* leads back.  Nothing in the code prevents that, because it moves by what the file says
\* (xcomreader.cpp:647, 730); no other sizes, of chunks that are empty, overlap, add up to too much
\* or end behind the file, keep it.
Ends == <>(stage \in {"delivered", "refused"}) \/ <>[]Circles

\* The decompressor is never given more room than the buffer has left, and a save that is delivered
\* fills it, no byte being left as allocated: whatever the sizes add up to, a sum that is negative
\* or wrapped, a chunk that is negative or larger than the rest, a header that promises more or
\* less than there is (xcomreader.cpp:695-735).
FillsBuffer ==
  /\ stage = "inflate"   => remaining \in 0..total
  /\ stage = "delivered" => remaining = 0
=============================================================================
