---------------------------- MODULE Conversions -----------------------------
(***************************************************************************)
(* What happens to the characters: a string of a save on its way into the  *)
(* JSON document and back, raw bytes in hexadecimal digits, the checksum,  *)
(* and actor names, which are flattened into one string and split again.   *)
(* Every loop of the code over characters takes one step a character.      *)
(* The bounds of strings in the file are the matter of XcomIOReader.       *)
(*                                                                         *)
(* Bytes, UTF-16 units and characters are numbers; `job' is what is        *)
(* converted.  iconv and the string parser of json11 are not part of the   *)
(* repository; they are modelled as UTF-16 <-> UTF-8 and RFC 8259 have it. *)
(***************************************************************************)
EXTENDS Integers, Sequences, FiniteSets

CONSTANTS
  Jobs,      \* what is converted: [kind, data]
  Poly       \* bits 31..0 of the generator of crc32_table_b: 0x04c11db7

Bit    == 0..1
Byte   == 0..255
Unit16 == {u \in Nat : u < 65536}
Int32  == {n \in Int : -2147483647 - 1 <= n /\ n <= 2147483647}

ASSUME PolyAssumption == Poly \in [1..32 -> Bit]
ASSUME HexJobsAssumption == \A j \in Jobs : j.kind = "hex" => j.data \in Seq(Byte)
ASSUME CrcJobsAssumption == \A j \in Jobs : j.kind = "crc" => j.data \in Seq(Byte)

\* Strings are made of Latin-1 bytes or of UTF-16 units.
ASSUME StringJobsAssumption ==
  \A j \in Jobs : /\ j.kind = "narrow" => j.data \in Seq(Byte)
                  /\ j.kind = "wide" => j.data \in Seq(Unit16)

\* A name of XCOM: Enemy Unknown has no package; an instance is an int, and so is the number
\* before it, which is printed.
ASSUME NameJobsAssumption ==
  \A j \in Jobs : j.kind = "name" =>
    /\ j.data \in [eu : BOOLEAN, package : Seq(Byte), cls : Seq(Byte), instance : Int32]
    /\ j.data.instance - 1 \in Int32
    /\ j.data.eu => j.data.package = << >>

VARIABLES
  job,
  stage,     \* which loop is running
  text,      \* what the loop runs over
  at,        \* how far it has got: i
  out        \* what it has made

vars == <<job, stage, text, at, out>>

-----------------------------------------------------------------------------
(* Characters *)

Quote      == 34
Backslash  == 92
Dot        == 46
Underscore == 95
Minus      == 45
Zero       == 48

\* str[k], counted from 1; behind the last character of a std::string is a NUL.
CharAt(s, k) == IF k <= Len(s) THEN s[k] ELSE 0

\* iso8859_1_to_utf8, one character
Utf8OfLate(p) == IF p <= 128 THEN <<p>> ELSE <<192 + p \div 64, 128 + (p % 64)>>   \* mutant
Utf8Of(p) == IF p < 128 THEN <<p>> ELSE <<192 + p \div 64, 128 + (p % 64)>>

\* utf8_to_iso8859_1, one character; a char has 8 bits.
Latin1Of(p, p2) == IF p < 128 THEN p ELSE ((p * 64) % 256) + (p2 % 64)

\* to_hex_nibble, from_hex_nibble: 'A'..'F' give 5..10, and every other character throws.
HexDigit(nib)    == IF nib < 10 THEN nib + Zero ELSE nib - 10 + 97
IsDigit(c)       == c \in 48..57
IsHexDigit(c)    == IsDigit(c) \/ c \in 97..102 \/ c \in 65..70
HexValue(c)      == IF IsDigit(c) THEN c - 48 ELSE IF c >= 97 THEN c - 97 + 10 ELSE (c - 70 + 10) % 256
HexPairSwapped(b) == <<HexDigit(b % 16), HexDigit(b \div 16)>>                  \* mutant
HexPair(b)       == <<HexDigit(b \div 16), HexDigit(b % 16)>>
ByteOfHex(hi, lo) == ((HexValue(hi) * 16) % 256) + HexValue(lo)

\* escape, one character
EscapedBare(c) ==                                                               \* mutant
  CASE c \in {Quote, Backslash} -> <<Backslash, c>>
    [] c = 10 -> <<Backslash, 110>>
    [] OTHER  -> <<c>>
Escaped(c) ==
  CASE c \in {Quote, Backslash} -> <<Backslash, c>>
    [] c = 10 -> <<Backslash, 110>>
    [] c = 13 -> <<Backslash, 114>>
    [] c = 9  -> <<Backslash, 116>>
    [] c \in 1..31 \ {9, 10, 13} -> <<Backslash, 117, Zero, Zero>> \o HexPair(c)
    [] OTHER  -> <<c>>

-----------------------------------------------------------------------------
(* Code points: iconv *)

High(u) == u \in 55296..56319
Low(u)  == u \in 56320..57343

\* Surrogates come in pairs.
Paired(units) ==
  \A k \in 1..Len(units) : /\ High(units[k]) => k < Len(units) /\ Low(units[k + 1])
                           /\ Low(units[k])  => k > 1 /\ High(units[k - 1])

Points(units) ==
  LET from[k \in 1..Len(units) + 1] ==
        IF k > Len(units) THEN << >>
        ELSE IF High(units[k])
        THEN <<65536 + (units[k] - 55296) * 1024 + units[k + 1] - 56320>> \o from[k + 2]
        ELSE <<units[k]>> \o from[k + 1]
  IN from[1]

Utf8OfPoint(c) ==
  CASE c < 128   -> <<c>>
    [] c >= 128 /\ c < 2048 -> <<192 + c \div 64, 128 + (c % 64)>>
    [] c >= 2048 /\ c < 65536 -> <<224 + c \div 4096, 128 + ((c \div 64) % 64), 128 + (c % 64)>>
    [] OTHER -> <<240 + c \div 262144, 128 + ((c \div 4096) % 64), 128 + ((c \div 64) % 64), 128 + (c % 64)>>

Utf8(points) ==
  LET upto[k \in 0..Len(points)] == IF k = 0 THEN << >> ELSE upto[k - 1] \o Utf8OfPoint(points[k])
  IN upto[Len(points)]

\* The point whose UTF-8 starts at k, and how long that is.
PointLen(c) == IF c < 128 THEN 1 ELSE IF c < 224 THEN 2 ELSE IF c < 240 THEN 3 ELSE 4
PointAt(s, k) ==
  CASE PointLen(s[k]) = 1 -> s[k]
    [] PointLen(s[k]) = 2 -> (s[k] - 192) * 64 + s[k + 1] - 128
    [] PointLen(s[k]) = 3 -> (s[k] - 224) * 4096 + (s[k + 1] - 128) * 64 + s[k + 2] - 128
    [] PointLen(s[k]) = 4 -> (s[k] - 240) * 262144 + (s[k + 1] - 128) * 4096 + (s[k + 2] - 128) * 64 + s[k + 3] - 128

UnitsOf(c) ==
  IF c < 65536 THEN <<c>> ELSE <<55296 + (c - 65536) \div 1024, 56320 + ((c - 65536) % 1024)>>

Utf16(s) ==
  LET from[k \in 1..Len(s) + 4] ==
        IF k > Len(s) THEN << >> ELSE UnitsOf(PointAt(s, k)) \o from[k + PointLen(s[k])]
  IN from[1]

-----------------------------------------------------------------------------
(* The checksum: a register of 32 bits, most significant first *)

Xor(a, b)  == [k \in DOMAIN a |-> (a[k] + b[k]) % 2]
Not(a)     == [k \in DOMAIN a |-> 1 - a[k]]
Bits(b)    == [k \in 1..8 |-> (b \div 2^(8 - k)) % 2]
Zeros(n)   == [k \in 1..n |-> 0]

\* crc32_table_b: what eight shifts make of a byte in the top of an empty register.
TableEntry(byte) ==
  LET shifted[k \in 0..8] ==
        IF k = 0 THEN byte \o Zeros(24)
        ELSE LET r == shifted[k - 1] IN
             IF r[1] = 1 THEN Xor(Tail(r) \o <<0>>, Poly) ELSE Tail(r) \o <<0>>
  IN shifted[8]

CrcStepLow(crc, b) == Xor(SubSeq(crc, 9, 32) \o Zeros(8), TableEntry(Xor(SubSeq(crc, 25, 32), Bits(b))))  \* mutant
CrcStep(crc, b)    == Xor(SubSeq(crc, 9, 32) \o Zeros(8), TableEntry(Xor(SubSeq(crc, 1, 8), Bits(b))))

-----------------------------------------------------------------------------
(* Actor names *)

Digits(n) ==
  LET size == CHOOSE d \in 1..10 : n < 10^d /\ (d > 1 => n >= 10^(d - 1))
  IN [k \in 1..size |-> Zero + ((n \div 10^(size - k)) % 10)]

\* operator<< of an int, and std::stoi.
Printed(n) == IF n < 0 THEN <<Minus>> \o Digits(-n) ELSE Digits(n)
Value(digits) ==
  LET upto[k \in 0..Len(digits)] == IF k = 0 THEN 0 ELSE 10 * upto[k - 1] + digits[k] - Zero
  IN upto[Len(digits)]
Stoi(s) == IF s[1] = Minus THEN -Value(Tail(s)) ELSE Value(s)

Places(s, c) == {k \in 1..Len(s) : s[k] = c}
FirstOf(s, c) == CHOOSE k \in Places(s, c) : \A j \in Places(s, c) : k <= j
LastOf(s, c)  == CHOOSE k \in Places(s, c) : \A j \in Places(s, c) : k >= j

\* build_actor_name and, with no package, build_actor_name_EU
BuildName(n) ==
  (IF n.eu THEN << >> ELSE n.package \o <<Dot>>) \o n.cls \o <<Underscore>> \o Printed(n.instance - 1)

\* decompose_actor_name and decompose_actor_name_EU
DecomposeNameFirst(s, eu) ==                                                    \* mutant
  LET dot == IF eu THEN 0 ELSE FirstOf(s, Dot)
      underscore == FirstOf(s, Underscore)
  IN [eu |-> eu, package |-> SubSeq(s, 1, dot - 1), cls |-> SubSeq(s, dot + 1, underscore - 1),
      instance |-> Stoi(SubSeq(s, underscore + 1, Len(s))) + 1]
DecomposeName(s, eu) ==
  LET dot == IF eu THEN 0 ELSE FirstOf(s, Dot)
      underscore == LastOf(s, Underscore)
  IN [eu |-> eu, package |-> SubSeq(s, 1, dot - 1), cls |-> SubSeq(s, dot + 1, underscore - 1),
      instance |-> Stoi(SubSeq(s, underscore + 1, Len(s))) + 1]

-----------------------------------------------------------------------------
(* The loops *)

Start(next, what) == stage' = next /\ text' = what /\ at' = 0 /\ out' = << >> /\ UNCHANGED job

\* A round of a loop over n characters, and what follows the last.
Round(loop, n, more) ==
  /\ stage = loop /\ at < Len(text)
  /\ at' = at + n /\ out' = out \o more
  /\ UNCHANGED <<job, stage, text>>
After(loop, next) ==
  /\ stage = loop /\ at >= Len(text)
  /\ Start(next, out)

Next1 == CharAt(text, at + 1)
Next2 == CharAt(text, at + 2)

Throw == stage' = "thrown" /\ UNCHANGED <<job, text, at, out>>

\* read_unicode_string: the string must end where its length says.  Empty strings have
\* the length 0 and are not seen here, but for a wide one of nothing but the terminator.
ReadNarrow ==
  /\ stage = "start" /\ job.kind = "narrow"
  /\ IF \E k \in 1..Len(job.data) : job.data[k] = 0 THEN Throw ELSE Start("to_utf8", job.data)

\* utf16_to_utf8 sees the units before the first NUL.
ReadWide ==
  LET nul == {k \in 1..Len(job.data) : job.data[k] = 0}
      seen == IF nul = {} THEN job.data ELSE SubSeq(job.data, 1, FirstOf(job.data, 0) - 1)
  IN
  /\ stage = "start" /\ job.kind = "wide"
  /\ IF Paired(seen) THEN Start("escape", Utf8(Points(seen))) ELSE Throw

\* Strings and digits the player typed into the document.
ReadTyped ==
  \/ stage = "start" /\ job.kind = "typed" /\ Start("parse", job.data)
  \/ stage = "start" /\ job.kind = "digits" /\ Start("from_hex", job.data)

ToUtf8 == Round("to_utf8", 1, Utf8Of(Next1)) \/ After("to_utf8", "escape")

Escape == Round("escape", 1, Escaped(Next1)) \/ After("escape", "parse")

\* json11: a quote or a control character is not part of a string.
ParseString ==
  LET short == [c \in {34, 92, 110, 114, 116} |->
                  CASE c = 110 -> 10 [] c = 114 -> 13 [] c = 116 -> 9 [] OTHER -> c]
  IN
  \/ /\ stage = "parse" /\ at < Len(text)
     /\ \/ Next1 \in {Quote} \cup 0..31 /\ Throw
        \/ Next1 = Backslash /\ Next2 \notin DOMAIN short \cup {117} /\ Throw
        \/ Next1 \notin {Quote, Backslash} \cup 0..31 /\ Round("parse", 1, <<Next1>>)
        \/ Next1 = Backslash /\ Next2 \in DOMAIN short /\ Round("parse", 2, <<short[Next2]>>)
        \/ /\ Next1 = Backslash /\ Next2 = 117
           /\ Round("parse", 6, <<ByteOfHex(CharAt(text, at + 5), CharAt(text, at + 6))>>)
  \/ After("parse", IF job.kind = "wide" THEN "to_utf16" ELSE "to_latin1")

ToLatin1 ==
  \/ Round("to_latin1", IF Next1 < 128 THEN 1 ELSE 2, <<Latin1Of(Next1, Next2)>>)
  \/ After("to_latin1", "written")

ToUtf16 == stage = "to_utf16" /\ Start("written", Utf16(text))

ReadHex == stage = "start" /\ job.kind = "hex" /\ Start("to_hex", job.data)

ToHex == Round("to_hex", 1, HexPair(Next1)) \/ After("to_hex", "from_hex")

FromHex ==
  \/ /\ stage = "from_hex" /\ at < Len(text)
     /\ IF IsHexDigit(Next1) /\ IsHexDigit(Next2)
        THEN Round("from_hex", 2, <<ByteOfHex(Next1, Next2)>>) ELSE Throw
  \/ After("from_hex", "written")

\* crc32b; the register is complemented at the end.
Crc ==
  \/ /\ stage = "start" /\ job.kind = "crc"
     /\ stage' = "crc" /\ text' = job.data /\ at' = 0 /\ out' = Not(Zeros(32)) /\ UNCHANGED job
  \/ /\ stage = "crc" /\ at < Len(text)
     /\ at' = at + 1 /\ out' = CrcStep(out, Next1) /\ UNCHANGED <<job, stage, text>>
  \/ stage = "crc" /\ at = Len(text) /\ Start("written", Not(out))

Name ==
  \/ stage = "start" /\ job.kind = "name" /\ Start("name", BuildName(job.data))
  \/ stage = "name" /\ Start("written", DecomposeName(text, job.data.eu))

Ended == stage \in {"written", "thrown"} /\ UNCHANGED vars

Init == job \in Jobs /\ stage = "start" /\ text = << >> /\ at = 0 /\ out = << >>

Next == \/ ReadNarrow \/ ReadWide \/ ReadTyped \/ ToUtf8 \/ Escape \/ ParseString \/ ToLatin1 \/ ToUtf16
        \/ ReadHex \/ ToHex \/ FromHex \/ Crc \/ Name \/ Ended

Spec == Init /\ [][Next]_vars

-----------------------------------------------------------------------------
(* Properties *)

HasNul(s) == \E k \in 1..Len(s) : s[k] = 0

\* Every string the reader takes comes back out of the document, through four loops that
\* each count characters of another width, as the characters it was; only a wide string
\* loses what is behind a NUL (xcomio.cpp:107-159, util.cpp:172-264, xcom2json.cpp:16-51).
StringsKept ==
  stage = "written" /\ job.kind \in {"narrow", "wide"} /\ ~HasNul(job.data) => text = job.data

\* The text between the quotes is a JSON string and hexadecimal digits are digits: only the
\* reader refuses a string, for a NUL within it or half a surrogate pair, and never the
\* way back, when the save is gone (xcom2json.cpp:38-43, util.cpp:144-146).
RefusedByReaderOnly ==
  stage = "thrown" => \/ job.kind = "narrow" /\ HasNul(job.data)
                      \/ job.kind = "wide" /\ ~Paired(job.data)
                      \/ job.kind \in {"typed", "digits"}

\* Blocks of bytes come back from their hexadecimal digits (util.cpp:108-170).
HexKept == stage = "written" /\ job.kind = "hex" => text = job.data

\* The remainder of a division of polynomials: each 1 takes the generator off the 32 bits
\* behind it.
Remainder(bits) ==
  LET n == Len(bits) - 32
      divided[k \in 0..n] ==
        IF k = 0 THEN bits
        ELSE LET r == divided[k - 1] IN
             IF r[k] = 0 THEN r
             ELSE [i \in 1..Len(r) |-> IF i \in k + 1..k + 32 THEN (r[i] + Poly[i - k]) % 2 ELSE r[i]]
  IN SubSeq(divided[n], n + 1, n + 32)

MessageBits(data) == [k \in 1..8 * Len(data) |-> Bits(data[(k + 7) \div 8])[((k - 1) % 8) + 1]]

\* The table, walked a byte at a time, computes the cyclic redundancy check of the
\* polynomial its comment names: the message with its first 32 bits complemented, divided
\* and complemented again (util.cpp:41-106).
CrcIsRemainder ==
  stage = "written" /\ job.kind = "crc" =>
    LET padded == MessageBits(job.data) \o Zeros(32) IN
    text = Not(Remainder([k \in 1..Len(padded) |-> IF k <= 32 THEN 1 - padded[k] ELSE padded[k]]))

\* An actor name is split where it was joined, whatever underscores its class and dots its
\* class have, and whatever its instance; only a package must not have a dot (util.cpp:396-431).
NamesKept ==
  stage = "written" /\ job.kind = "name" /\ (job.data.eu \/ Places(job.data.package, Dot) = {}) =>
    text = job.data
=============================================================================
