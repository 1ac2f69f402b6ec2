------------------------------ MODULE LzoFormat ------------------------------
(***************************************************************************)
(* What it means that a stream is a compressed form of a chunk, as a       *)
(* relation between the two: no compressor and no decompressor is in it.   *)
(* The theorems of Lzo_proofs assume it of the streams of the game's own   *)
(* compressor, which is not in the code, and prove it of what              *)
(* lzo1x_1_compress writes.                                                *)
(***************************************************************************)
EXTENDS Lzo

(* A place in a stream is the label the decompressor stands at, the next byte it reads, the
   trailing literals it owes, and how many bytes of the chunk it has made. *)
Labels == {"first", "literals", "trailing", "after", "match"}
Place  == Labels \X Nat \X Nat \X Nat

\* n bytes at p are the bytes of d from q on.
Same(s, p, d, q, n) ==
  /\ p + n <= Len(s) /\ q + n <= Len(d)
  /\ \A k \in 1..n : s[p + k] = d[q + k]

SaysRun(s, d, p, q, n, label, y) ==
  /\ Same(s, p, d, q, n)
  /\ y = <<label, p + n, 0, q + n>>

\* n bytes of d from q on are those dist bytes before them, over and over.
Repeats(d, q, dist, n) ==
  /\ dist \in 1..q /\ q + n <= Len(d)
  /\ \A k \in 1..n : d[q + k] = d[q - dist + ((k - 1) % dist) + 1]

SaysMatch(s, d, p, q, dist, n, y) ==
  /\ p <= Len(s)
  /\ Repeats(d, q, dist, n)
  /\ y = <<IF s[p - 1] % 4 = 0 THEN "literals" ELSE "trailing", p, s[p - 1] % 4, q + n>>

\* z zero bytes at p, then another byte.
SaysCount(s, p, z) ==
  /\ p + z + 1 <= Len(s)
  /\ s[p + z + 1] # 0
  /\ \A k \in 1..z : s[p + k] = 0

OffsetIn(s, p) == (s[p + 1] + 256 * s[p + 2]) \div 4

SaysFar(s, d, p, q, hi, n, y) ==
  /\ hi + OffsetIn(s, p) # 0
  /\ SaysMatch(s, d, p + 2, q, hi + OffsetIn(s, p) + M3Max, n, y)

FirstSays(s, d, y) ==
  \/ s[1] <= 17 /\ y = <<"literals", 0, 0, 0>>
  \/ s[1] \in 18..20 /\ y = <<"trailing", 1, s[1] - 17, 0>>
  \/ s[1] > 20 /\ SaysRun(s, d, 1, 0, s[1] - 17, "after", y)

LiteralsSay(s, d, p, q, y) ==
  \/ s[p + 1] >= 16 /\ y = <<"match", p, 0, q>>
  \/ s[p + 1] \in 1..15 /\ SaysRun(s, d, p + 1, q, s[p + 1] + 3, "after", y)
  \/ /\ s[p + 1] = 0
     /\ \E z \in Nat : /\ SaysCount(s, p + 1, z)
                       /\ SaysRun(s, d, p + z + 2, q, 255 * z + s[p + z + 2] + 18, "after", y)

AfterSays(s, d, p, q, y) ==
  \/ s[p + 1] >= 16 /\ y = <<"match", p, 0, q>>
  \/ s[p + 1] < 16 /\ SaysMatch(s, d, p + 2, q, 1 + M2Max + (s[p + 1] \div 4) + 4 * s[p + 2], 3, y)

M3Says(s, d, p, q, y) ==
  \/ s[p + 1] > 32 /\ SaysMatch(s, d, p + 3, q, 1 + OffsetIn(s, p + 1), (s[p + 1] - 32) + 2, y)
  \/ /\ s[p + 1] = 32
     /\ \E z \in Nat : /\ SaysCount(s, p + 1, z)
                       /\ SaysMatch(s, d, p + z + 4, q, 1 + OffsetIn(s, p + z + 2), 255 * z + s[p + z + 2] + 33, y)

M4Says(s, d, p, q, y) ==
  LET hi == Hi * ((s[p + 1] \div 8) % 2) IN
  \/ s[p + 1] % 8 # 0 /\ SaysFar(s, d, p + 1, q, hi, (s[p + 1] % 8) + 2, y)
  \/ /\ s[p + 1] % 8 = 0
     /\ \E z \in Nat : /\ SaysCount(s, p + 1, z)
                       /\ SaysFar(s, d, p + z + 2, q, hi, 255 * z + s[p + z + 2] + 9, y)

MatchSays(s, d, p, q, y) ==
  \/ s[p + 1] < 16 /\ SaysMatch(s, d, p + 2, q, 1 + (s[p + 1] \div 4) + 4 * s[p + 2], 2, y)
  \/ s[p + 1] >= 64 /\ SaysMatch(s, d, p + 2, q, 1 + ((s[p + 1] \div 4) % 8) + 8 * s[p + 2], (s[p + 1] \div 32) + 1, y)
  \/ s[p + 1] \in 32..63 /\ M3Says(s, d, p, q, y)
  \/ s[p + 1] \in 16..31 /\ M4Says(s, d, p, q, y)

\* From place x the stream s of the chunk d leads to place y.
Says(s, d, x, y) ==
  \/ x = <<"first", 0, 0, 0>> /\ FirstSays(s, d, y)
  \/ x[1] = "literals" /\ LiteralsSay(s, d, x[2], x[4], y)
  \/ x[1] = "trailing" /\ SaysRun(s, d, x[2], x[4], x[3], "match", y)
  \/ x[1] = "after" /\ AfterSays(s, d, x[2], x[4], y)
  \/ x[1] = "match" /\ MatchSays(s, d, x[2], x[4], y)

\* The end-of-stream code, at the end of the stream and of the chunk.
Stops(s, d, x) ==
  /\ x = <<"match", Len(s) - 3, 0, Len(d)>>
  /\ s[Len(s) - 2] = 17 /\ s[Len(s) - 1] = 0 /\ s[Len(s)] = 0

\* Every place of the way leads to another of it, or is the end of both s and d, and has three
\* more bytes in front of it.
IsWay(s, d, way) ==
  \A here \in way : /\ here[2] + 3 <= Len(s)
                    /\ Stops(s, d, here) \/ \E y \in way : Says(s, d, here, y)

\* From place x on, s says the rest of d and nothing else.
Reads(s, d, x) == \E way \in SUBSET Place : x \in way /\ IsWay(s, d, way)

\* The stream s is a compressed form of the chunk d.
Encodes(s, d) == Reads(s, d, <<"first", 0, 0, 0>>)
=============================================================================
