------------------------- MODULE Conversions_proofs -------------------------
(***************************************************************************)
(* What the converters of util.cpp do to characters is undone on the way   *)
(* back, for data of any length: blocks of bytes in hexadecimal digits,    *)
(* Latin-1 and UTF-16 strings through UTF-8, JSON escapes and the parser,  *)
(* actor names and the numbers in them.  The recursive functions of the    *)
(* model are taken one step at a time: a function with the equations       *)
(* exists (CountedUp, Chained), so the chosen one has them, and a set of   *)
(* numbers is all of them if it has the first and each next one (Upwards). *)
(***************************************************************************)
EXTENDS Conversions, SequenceTheorems, WellFoundedInduction, TLAPS

-----------------------------------------------------------------------------
(* Hexadecimal digits *)

\* The two digits of byte k of the block.
IsPairOf(s, k, b) == s[2 * k - 1] = HexDigit(b \div 16) /\ s[2 * k] = HexDigit(b % 16)

ToHexInv ==
  /\ text = job.data
  /\ at \in 0..Len(text)
  /\ out \in Seq(Nat) /\ Len(out) = 2 * at
  /\ \A k \in 1..at : IsPairOf(out, k, job.data[k])

FromHexInv ==
  /\ text \in Seq(Nat) /\ Len(text) = 2 * Len(job.data)
  /\ \A k \in 1..Len(job.data) : IsPairOf(text, k, job.data[k])
  /\ out \in Seq(Byte) /\ at = 2 * Len(out) /\ Len(out) <= Len(job.data)
  /\ \A k \in 1..Len(out) : out[k] = job.data[k]

\* A block of bytes is in one of the loops, at the place the loop has reached.
HexInv ==
  job.kind = "hex" =>
    /\ job.data \in Seq(Byte)
    /\ stage \in {"start", "to_hex", "from_hex", "written"}
    /\ stage = "to_hex" => ToHexInv
    /\ stage = "from_hex" => FromHexInv
    /\ stage = "written" => text = job.data

\* A nibble and its digit.
LEMMA NibbleBack ==
  ASSUME NEW n \in 0..15
  PROVE  HexDigit(n) \in Nat /\ IsHexDigit(HexDigit(n)) /\ HexValue(HexDigit(n)) = n
BY DEF HexDigit, IsHexDigit, IsDigit, HexValue, Zero

\* A byte and its two digits.
LEMMA ByteBack ==
  ASSUME NEW b \in Byte
  PROVE  /\ HexDigit(b \div 16) \in Nat /\ HexDigit(b % 16) \in Nat
         /\ IsHexDigit(HexDigit(b \div 16)) /\ IsHexDigit(HexDigit(b % 16))
         /\ ByteOfHex(HexDigit(b \div 16), HexDigit(b % 16)) = b
<1>1. b \div 16 \in 0..15 /\ b % 16 \in 0..15 /\ 16 * (b \div 16) + (b % 16) = b
  BY DEF Byte
<1>2. HexValue(HexDigit(b \div 16)) = b \div 16 /\ HexValue(HexDigit(b % 16)) = b % 16
  BY <1>1, NibbleBack
<1>3. ((b \div 16) * 16) % 256 = (b \div 16) * 16
  BY <1>1
<1>4. ByteOfHex(HexDigit(b \div 16), HexDigit(b % 16)) = b
  BY <1>1, <1>2, <1>3 DEF ByteOfHex
<1> QED BY <1>1, <1>4, NibbleBack

\* A sequence with two more elements.
LEMMA TwoMore ==
  ASSUME NEW s \in Seq(Nat), NEW a \in Nat, NEW b \in Nat
  PROVE  /\ s \o <<a, b>> \in Seq(Nat) /\ Len(s \o <<a, b>>) = Len(s) + 2
         /\ \A k \in 1..Len(s) : (s \o <<a, b>>)[k] = s[k]
         /\ (s \o <<a, b>>)[Len(s) + 1] = a /\ (s \o <<a, b>>)[Len(s) + 2] = b
OBVIOUS

\* A round of to_hex appends the pair of the next byte.
LEMMA ToHexRound ==
  ASSUME job.data \in Seq(Byte), ToHexInv, at < Len(text), UNCHANGED <<job, text>>,
         at' = at + 1, out' = out \o HexPair(Next1)
  PROVE  ToHexInv'
<1> DEFINE b == job.data[at + 1]
<1>1. at + 1 \in 1..Len(job.data) /\ b \in Byte /\ Next1 = b
  BY DEF ToHexInv, Next1, CharAt
<1>2. HexDigit(b \div 16) \in Nat /\ HexDigit(b % 16) \in Nat
  BY <1>1, ByteBack
<1>3. /\ out' \in Seq(Nat) /\ Len(out') = Len(out) + 2
      /\ \A k \in 1..Len(out) : out'[k] = out[k]
      /\ out'[Len(out) + 1] = HexDigit(b \div 16) /\ out'[Len(out) + 2] = HexDigit(b % 16)
  <2>1. out \in Seq(Nat) /\ out' = out \o <<HexDigit(b \div 16), HexDigit(b % 16)>>
    BY <1>1 DEF HexPair, ToHexInv
  <2>2. ASSUME NEW x \in Nat, NEW y \in Nat, out' = out \o <<x, y>>
        PROVE  /\ out' \in Seq(Nat) /\ Len(out') = Len(out) + 2
               /\ \A k \in 1..Len(out) : out'[k] = out[k]
               /\ out'[Len(out) + 1] = x /\ out'[Len(out) + 2] = y
    BY <2>1, <2>2, TwoMore
  <2> QED BY <1>2, <2>1, <2>2
<1>4. out' \in Seq(Nat) /\ Len(out') = 2 * at'
  BY <1>3 DEF ToHexInv
<1>5. ASSUME NEW k \in 1..at' PROVE IsPairOf(out', k, job'.data[k])
  <2>1. CASE k = at + 1
    <3>1. 2 * k - 1 = Len(out) + 1 /\ 2 * k = Len(out) + 2
      BY <2>1 DEF ToHexInv
    <3> QED BY <2>1, <3>1, <1>3 DEF IsPairOf
  <2>2. CASE k # at + 1
    <3>1. k \in 1..at
      BY <2>2 DEF ToHexInv
    <3>2. 2 * k - 1 \in 1..Len(out) /\ 2 * k \in 1..Len(out)
      BY <3>1 DEF ToHexInv
    <3>3. out'[2 * k - 1] = out[2 * k - 1] /\ out'[2 * k] = out[2 * k]
      BY <1>3, <3>2 DEF ToHexInv
    <3> QED BY <3>1, <3>3 DEF ToHexInv, IsPairOf
  <2> QED BY <2>1, <2>2
<1>6. at' \in 0..Len(text') /\ text' = job'.data
  BY DEF ToHexInv
<1> QED BY <1>4, <1>5, <1>6 DEF ToHexInv

\* In from_hex the next two characters are the digits of the next byte.
LEMMA NextPair ==
  ASSUME job.data \in Seq(Byte), FromHexInv, at < Len(text)
  PROVE  /\ Len(out) + 1 \in 1..Len(job.data)
         /\ Next1 = HexDigit(job.data[Len(out) + 1] \div 16)
         /\ Next2 = HexDigit(job.data[Len(out) + 1] % 16)
<1> DEFINE k == Len(out) + 1
<1>1. k \in 1..Len(job.data) /\ 2 * k - 1 = at + 1 /\ 2 * k = at + 2 /\ 2 * k <= Len(text)
  BY DEF FromHexInv
<1>2. IsPairOf(text, k, job.data[k])
  BY <1>1 DEF FromHexInv
<1>3. Next1 = text[at + 1] /\ Next2 = text[at + 2]
  BY <1>1 DEF Next1, Next2, CharAt, FromHexInv
<1> QED BY <1>1, <1>2, <1>3 DEF IsPairOf

\* A round of from_hex appends that byte.
LEMMA FromHexRound ==
  ASSUME job.data \in Seq(Byte), FromHexInv, at < Len(text), UNCHANGED <<job, text>>,
         at' = at + 2, out' = out \o <<ByteOfHex(Next1, Next2)>>
  PROVE  FromHexInv'
<1> DEFINE b == job.data[Len(out) + 1]
<1>1. Len(out) + 1 \in 1..Len(job.data) /\ b \in Byte
  BY NextPair
<1>2. ByteOfHex(Next1, Next2) = b
  BY <1>1, NextPair, ByteBack
<1>3. /\ out' \in Seq(Byte) /\ Len(out') = Len(out) + 1
      /\ \A k \in 1..Len(out) : out'[k] = out[k]
      /\ out'[Len(out) + 1] = b
  <2>1. out \in Seq(Byte) /\ out' = Append(out, b)
    BY <1>1, <1>2 DEF FromHexInv
  <2> HIDE DEF b
  <2> QED BY <1>1, <2>1, AppendProperties
<1>4. ASSUME NEW k \in 1..Len(out') PROVE out'[k] = job'.data[k]
  <2>1. job' = job /\ out \in Seq(Byte) /\ Len(out) \in Nat
    BY DEF FromHexInv
  <2>2. CASE k = Len(out) + 1
    BY <1>3, <2>1, <2>2
  <2>3. CASE k # Len(out) + 1
    <3>1. k \in 1..Len(out)
      BY <1>3, <2>1, <2>3
    <3> QED BY <1>3, <2>1, <3>1 DEF FromHexInv
  <2> QED BY <2>2, <2>3
<1>5. at' = 2 * Len(out') /\ Len(out') <= Len(job'.data)
  BY <1>1, <1>3 DEF FromHexInv
<1> QED BY <1>3, <1>4, <1>5 DEF FromHexInv

\* No block is in a loop at the start.
LEMMA HexInvStart == Init => HexInv
BY HexJobsAssumption DEF Init, HexInv

\* Where a block of bytes is, no other action is enabled.
LEMMA HexInvStep == HexInv /\ [Next]_vars => HexInv'
<1> SUFFICES ASSUME HexInv, [Next]_vars, job'.kind = "hex" PROVE HexInv'
  BY DEF HexInv
<1>0. job' = job
  BY Zenon DEF Next, vars, ReadNarrow, ReadWide, ReadTyped, ToUtf8, Escape, ParseString, ToLatin1, ToUtf16,
        ReadHex, ToHex, FromHex, Crc, Name, Ended, Start, Round, After, Throw
<1>1. /\ job.kind = "hex" /\ job.data \in Seq(Byte)
      /\ stage \in {"start", "to_hex", "from_hex", "written"}
  BY <1>0 DEF HexInv
<1>2. CASE ReadHex
  <2>1. stage' = "to_hex" /\ text' = job.data /\ at' = 0 /\ out' = << >>
    BY <1>2 DEF ReadHex, Start
  <2>2. ToHexInv'
    BY <1>0, <1>1, <2>1 DEF ToHexInv
  <2> QED BY <1>0, <1>1, <2>1, <2>2 DEF HexInv
<1>3. CASE ToHex
  <2>1. ToHexInv
    BY <1>1, <1>3 DEF HexInv, ToHex, Round, After
  <2>2. CASE Round("to_hex", 1, HexPair(Next1))
    <3>1. ToHexInv'
      BY <1>1, <2>1, <2>2, ToHexRound DEF Round
    <3> QED BY <1>0, <1>1, <2>2, <3>1 DEF HexInv, Round
  <2>3. CASE After("to_hex", "from_hex")
    <3>1. stage' = "from_hex" /\ text' = out /\ at' = 0 /\ out' = << >> /\ at = Len(job.data)
      BY <2>1, <2>3, <1>1 DEF After, Start, ToHexInv
    <3>2. FromHexInv'
      BY <1>0, <1>1, <2>1, <3>1 DEF ToHexInv, FromHexInv
    <3> QED BY <1>0, <1>1, <3>1, <3>2 DEF HexInv
  <2> QED BY <1>3, <2>2, <2>3 DEF ToHex
<1>4. CASE FromHex
  <2>1. FromHexInv
    BY <1>1, <1>4 DEF HexInv, FromHex, After
  <2>2. CASE stage = "from_hex" /\ at < Len(text)
    <3>1. IsHexDigit(Next1) /\ IsHexDigit(Next2)
      BY <1>1, <2>1, <2>2, NextPair, ByteBack
    <3>2. Round("from_hex", 2, <<ByteOfHex(Next1, Next2)>>)
      BY <1>4, <2>2, <3>1, <2>1 DEF FromHex, After, FromHexInv
    <3>3. FromHexInv'
      BY <1>1, <2>1, <2>2, <3>2, FromHexRound DEF Round
    <3> QED BY <1>0, <1>1, <3>2, <3>3 DEF HexInv, Round
  <2>3. CASE After("from_hex", "written")
    <3>1. stage' = "written" /\ text' = out /\ Len(out) = Len(job.data)
      BY <2>1, <2>3, <1>1 DEF After, Start, FromHexInv
    <3>2. out = job.data
      BY <1>1, <2>1, <3>1, SeqEqual DEF FromHexInv
    <3> QED BY <1>0, <1>1, <3>1, <3>2 DEF HexInv
  <2> QED BY <1>4, <2>2, <2>3 DEF FromHex
<1>5. CASE UNCHANGED vars
  BY <1>1, <1>5 DEF HexInv, ToHexInv, FromHexInv, vars
<1>6. CASE Ended
  BY <1>5, <1>6 DEF Ended
<1>7. ~(ReadNarrow \/ ReadWide \/ ReadTyped \/ ToUtf8 \/ Escape \/ ParseString \/ ToLatin1 \/ ToUtf16 \/ Crc \/ Name)
  BY <1>1 DEF ReadNarrow, ReadWide, ReadTyped, ToUtf8, Escape, ParseString, ToLatin1, ToUtf16, Crc, Name, Round, After
<1> QED BY <1>2, <1>3, <1>4, <1>5, <1>6, <1>7 DEF Next

\* Whatever its length, a block of bytes written in hexadecimal digits is read back as it
\* was; from_hex never meets a character it throws for (util.cpp:149-170).
THEOREM HexBlocks == Spec => []HexKept
<1>1. HexInv => HexKept
  BY DEF HexInv, HexKept
<1> QED BY <1>1, HexInvStart, HexInvStep, PTL DEF Spec

-----------------------------------------------------------------------------
(* Recursion over a range of numbers *)

\* Of a set of natural numbers that is not empty, one has nothing below it in the set.
LEMMA LeastElement ==
  ASSUME NEW S \in SUBSET Nat, S # {}
  PROVE  \E x \in S : \A k \in S : x <= k
<1> DEFINE R == {ss \in Nat \X Nat : ss[1] < ss[2]}
<1>1. IsWellFoundedOn(R, Nat)
  BY NatLessThanWellFounded DEF OpToRel
<1>2. PICK x \in S : \A y \in S : ~ (<<y, x>> \in R)
  <2> HIDE DEF R
  <2> QED BY <1>1, WFMin
<1>3. \A y \in S : x <= y
  <2> SUFFICES ASSUME NEW y \in S PROVE x <= y
    OBVIOUS
  <2>1. x \in Nat /\ y \in Nat
    OBVIOUS
  <2>2. ~ (y < x)
    BY <1>2, <2>1
  <2> QED BY <2>1, <2>2
<1> QED BY <1>3

\* Induction, on a set of numbers.
LEMMA Upwards ==
  ASSUME NEW n \in Nat, NEW good, 0 \in good, \A k \in Nat : k < n /\ k \in good => k + 1 \in good
  PROVE  \A k \in 0..n : k \in good
<1> DEFINE bad == {k \in 0..n : k \notin good}
<1>1. SUFFICES ASSUME bad # {} PROVE FALSE
  OBVIOUS
<1>2. PICK m \in bad : \A k \in bad : m <= k
  <2>1. bad \in SUBSET Nat
    OBVIOUS
  <2> HIDE DEF bad
  <2> QED BY <1>1, <2>1, LeastElement
<1>3. m \in 0..n /\ m # 0
  OBVIOUS
<1>4. m - 1 \in Nat /\ m - 1 < n /\ m - 1 \in good /\ (m - 1) + 1 = m
  BY <1>2, <1>3
<1> QED BY <1>4

\* What a loop from 1 to n makes of first.
Counts(f, m, S, first, step) ==
  /\ f \in [0..m -> S] /\ f[0] = first
  /\ \A k \in 1..m : f[k] = step[<<k, f[k - 1]>>]

\* There is a function with the equations of such a loop.
LEMMA CountedUp ==
  ASSUME NEW n \in Nat, NEW S, NEW first \in S, NEW step \in [(1..n) \X S -> S]
  PROVE  \E f : Counts(f, n, S, first, step)
<1> DEFINE good == {m \in 0..n : \E f : Counts(f, m, S, first, step)}
<1>1. 0 \in good
  <2> DEFINE g == [k \in 0..0 |-> first]
  <2>1. Counts(g, 0, S, first, step)
    BY DEF Counts
  <2> QED BY <2>1
<1>2. ASSUME NEW k \in Nat, k < n, k \in good PROVE k + 1 \in good
  <2>1. PICK f : Counts(f, k, S, first, step)
    BY <1>2
  <2> DEFINE v == step[<<k + 1, f[k]>>]
             g == [j \in 0..k + 1 |-> IF j = k + 1 THEN v ELSE f[j]]
  <2>2. f[k] \in S /\ <<k + 1, f[k]>> \in (1..n) \X S
    BY <1>2, <2>1 DEF Counts
  <2>3. v \in S
    BY <2>2
  <2> HIDE DEF v
  <2>4. g \in [0..k + 1 -> S] /\ g[0] = first
    BY <1>2, <2>1, <2>3 DEF Counts
  <2>5. ASSUME NEW j \in 1..k + 1 PROVE g[j] = step[<<j, g[j - 1]>>]
    <3>1. CASE j = k + 1
      <4>1. g[j] = v /\ j - 1 = k /\ g[k] = f[k]
        BY <1>2, <3>1
      <4> HIDE DEF g
      <4> QED BY <3>1, <4>1 DEF v
    <3>2. CASE j # k + 1
      <4>1. j \in 1..k /\ j - 1 \in 0..k /\ j - 1 # k + 1
        BY <1>2, <3>2
      <4>2. g[j] = f[j] /\ g[j - 1] = f[j - 1]
        BY <3>2, <4>1
      <4> HIDE DEF g
      <4> QED BY <2>1, <4>1, <4>2 DEF Counts
    <3> QED BY <3>1, <3>2
  <2> HIDE DEF g
  <2>6. Counts(g, k + 1, S, first, step)
    BY <2>4, <2>5 DEF Counts
  <2> QED BY <1>2, <2>6
<1> HIDE DEF good
<1>3. n \in good
  BY <1>1, <1>2, Upwards
<1> QED BY <1>3 DEF good

\* The number that digits stand for, one digit at a time.
LEMMA ValueSteps ==
  ASSUME NEW d \in Seq(Nat)
  PROVE  \E f \in [0..Len(d) -> Int] :
           /\ f[0] = 0 /\ Value(d) = f[Len(d)]
           /\ \A k \in 1..Len(d) : f[k] = 10 * f[k - 1] + d[k] - Zero
<1> DEFINE n == Len(d)
           step == [x \in (1..n) \X Int |-> 10 * x[2] + d[x[1]] - Zero]
<1>1. n \in Nat /\ step \in [(1..n) \X Int -> Int] /\ 0 \in Int
  BY DEF Zero
<1>2. PICK f : Counts(f, n, Int, 0, step)
  <2> HIDE DEF n, step
  <2> QED BY <1>1, CountedUp
<1>3. f \in [0..n -> Int] /\ f[0] = 0 /\ \A k \in 1..n : f[k] = 10 * f[k - 1] + d[k] - Zero
  <2>1. \A k \in 1..n : f[k - 1] \in Int
    BY <1>2 DEF Counts
  <2> QED BY <1>2, <2>1 DEF Counts
<1> DEFINE Is(g) == g = [k \in 0..n |-> IF k = 0 THEN 0 ELSE 10 * g[k - 1] + d[k] - Zero]
           upto == CHOOSE g : Is(g)
<1>4. Is(f)
  BY <1>1, <1>3
<1>5. Is(upto)
  <2> HIDE DEF Is
  <2> QED BY <1>4
<1>6. Value(d) = upto[n]
  BY DEF Value
<1> HIDE DEF upto
<1>7. upto[0] = 0 /\ \A k \in 1..n : upto[k] = 10 * upto[k - 1] + d[k] - Zero
  BY <1>1, <1>5
<1>8. upto \in [0..n -> Int]
  <2> DEFINE good == {k \in 0..n : upto[k] \in Int}
  <2>1. 0 \in good
    BY <1>1, <1>7
  <2>2. ASSUME NEW k \in Nat, k < n, k \in good PROVE k + 1 \in good
    <3>1. k + 1 \in 1..n /\ (k + 1) - 1 = k /\ upto[k] \in Int
      BY <1>1, <2>2
    <3>2. d[k + 1] \in Nat
      BY <3>1
    <3>3. upto[k + 1] = 10 * upto[k] + d[k + 1] - Zero
      BY <1>7, <3>1
    <3> QED BY <3>1, <3>2, <3>3 DEF Zero
  <2> HIDE DEF good
  <2>3. \A k \in 0..n : k \in good
    BY <1>1, <2>1, <2>2, Upwards
  <2>4. \A k \in 0..n : upto[k] \in Int
    BY <2>3 DEF good
  <2> QED BY <1>5, <2>4
<1> QED BY <1>1, <1>6, <1>7, <1>8

\* A sequence of some things is one of more things.
LEMMA SeqWider ==
  ASSUME NEW S, NEW T, S \subseteq T, NEW s \in Seq(S)
  PROVE  s \in Seq(T)
<1>1. \A k \in 1..Len(s) : s[k] \in T
  <2>1. \A k \in 1..Len(s) : s[k] \in S
    OBVIOUS
  <2> QED BY <2>1
<1>2. s = [k \in 1..Len(s) |-> s[k]] /\ Len(s) \in Nat
  OBVIOUS
<1> QED BY <1>1, <1>2, SeqDef

-----------------------------------------------------------------------------
(* Numbers *)

DigitChar == 48..57

Powers == {1, 10, 100, 1000, 10000, 100000, 1000000, 10000000, 100000000, 1000000000}

\* Powers of ten are positive.
LEMMA PowersAreNumbers == Powers \subseteq Nat \ {0}
BY SMT DEF Powers

\* Each power is ten times the one before.
LEMMA PowersOfTen ==
  ASSUME NEW j \in 0..9
  PROVE  10^j \in Powers /\ 10^(j + 1) = 10 * 10^j
<1>1. /\ 10^0 = 1 /\ 10^1 = 10 /\ 10^2 = 100 /\ 10^3 = 1000 /\ 10^4 = 10000 /\ 10^5 = 100000
      /\ 10^6 = 1000000 /\ 10^7 = 10000000 /\ 10^8 = 100000000 /\ 10^9 = 1000000000
      /\ 10^10 = 10000000000
  OBVIOUS
<1>2. CASE j = 0
  BY <1>1, <1>2 DEF Powers
<1>3. CASE j = 1
  BY <1>1, <1>3 DEF Powers
<1>4. CASE j = 2
  BY <1>1, <1>4 DEF Powers
<1>5. CASE j = 3
  BY <1>1, <1>5 DEF Powers
<1>6. CASE j = 4
  BY <1>1, <1>6 DEF Powers
<1>7. CASE j = 5
  BY <1>1, <1>7 DEF Powers
<1>8. CASE j = 6
  BY <1>1, <1>8 DEF Powers
<1>9. CASE j = 7
  BY <1>1, <1>9 DEF Powers
<1>10. CASE j = 8
  BY <1>1, <1>10 DEF Powers
<1>11. CASE j = 9
  BY <1>1, <1>11 DEF Powers
<1> QED BY <1>2, <1>3, <1>4, <1>5, <1>6, <1>7, <1>8, <1>9, <1>10, <1>11

\* One digit more.
LEMMA DigitMore ==
  ASSUME NEW n \in Nat, NEW p \in Powers
  PROVE  /\ n \div p \in Nat /\ n \div (10 * p) \in Nat /\ (n \div p) % 10 \in 0..9
         /\ 10 * (n \div (10 * p)) + ((n \div p) % 10) = n \div p
<1>1. CASE p = 1
  BY <1>1
<1>2. CASE p = 10
  BY <1>2
<1>3. CASE p = 100
  BY <1>3
<1>4. CASE p = 1000
  BY <1>4
<1>5. CASE p = 10000
  BY <1>5
<1>6. CASE p = 100000
  BY <1>6
<1>7. CASE p = 1000000
  BY <1>7
<1>8. CASE p = 10000000
  BY <1>8
<1>9. CASE p = 100000000
  BY <1>9
<1>10. CASE p = 1000000000
  BY <1>10
<1> QED BY <1>1, <1>2, <1>3, <1>4, <1>5, <1>6, <1>7, <1>8, <1>9, <1>10 DEF Powers

\* How many digits a number has.
HasSize(n, d) == d \in 1..10 /\ n < 10^d /\ (d > 1 => n >= 10^(d - 1))

\* Every number of at most ten digits has a number of digits.
LEMMA SizeExists ==
  ASSUME NEW n \in Nat, n < 10^10
  PROVE  \E d \in 1..10 : HasSize(n, d)
<1> DEFINE long == {d \in Nat : d \in 1..10 /\ n < 10^d}
<1>1. 10 \in long
  <2>1. 10 \in Nat /\ 10 \in 1..10
    OBVIOUS
  <2> QED BY <2>1
<1>2. PICK d \in long : \A k \in long : d <= k
  <2>1. long \in SUBSET Nat /\ long # {}
    BY <1>1
  <2> HIDE DEF long
  <2> QED BY <2>1, LeastElement
<1>3. ASSUME d > 1 PROVE n >= 10^(d - 1)
  <2>1. d - 1 \in Nat /\ d - 1 \in 1..10 /\ d - 1 \in 0..9 /\ d - 1 \notin long
    BY <1>2, <1>3
  <2>2. 10^(d - 1) \in Nat
    BY <2>1, PowersOfTen, PowersAreNumbers
  <2> QED BY <2>1, <2>2
<1> QED BY <1>2, <1>3 DEF HasSize

\* The digits of a number stand for the number.
LEMMA DigitsGood ==
  ASSUME NEW n \in Nat, n < 10^10
  PROVE  /\ Digits(n) \in Seq(DigitChar) /\ Len(Digits(n)) >= 1
         /\ Value(Digits(n)) = n
<1> DEFINE size == CHOOSE d \in 1..10 : n < 10^d /\ (d > 1 => n >= 10^(d - 1))
           digit(k) == Zero + ((n \div 10^(size - k)) % 10)
<1>1. size \in 1..10 /\ n < 10^size
  BY SizeExists DEF HasSize
<1>2. Digits(n) = [k \in 1..size |-> digit(k)]
  BY DEF Digits
<1> HIDE DEF size
<1>3. ASSUME NEW k \in 1..size
      PROVE  /\ 10^(size - k) \in Powers /\ 10^(size - k + 1) = 10 * 10^(size - k)
             /\ digit(k) \in DigitChar
  <2>1. size - k \in 0..9
    BY <1>1
  <2>2. 10^(size - k) \in Powers /\ 10^(size - k + 1) = 10 * 10^(size - k)
    BY <2>1, PowersOfTen
  <2> DEFINE p == 10^(size - k)
  <2>3. (n \div p) % 10 \in 0..9
    <3> HIDE DEF p
    <3> QED BY <2>2, DigitMore DEF p
  <2> QED BY <2>2, <2>3 DEF Zero, DigitChar
<1> DEFINE s == [k \in 1..size |-> digit(k)]
<1>4. s \in Seq(DigitChar) /\ Len(s) = size /\ \A k \in 1..size : s[k] = digit(k)
  <2>1. \A k \in 1..size : digit(k) \in DigitChar
    BY <1>3
  <2> HIDE DEF digit
  <2> QED BY <1>1, <2>1
<1>5. PICK f \in [0..size -> Int] : 
        /\ f[0] = 0 /\ Value(s) = f[size]
        /\ \A k \in 1..size : f[k] = 10 * f[k - 1] + s[k] - Zero
  <2>1. s \in Seq(Nat)
    <3>1. DigitChar \subseteq Nat
      BY DEF DigitChar
    <3> HIDE DEF s
    <3> QED BY <1>4, <3>1, SeqWider
  <2> HIDE DEF s
  <2> QED BY <1>4, <2>1, ValueSteps
<1> DEFINE good == {k \in 0..size : f[k] = n \div 10^(size - k)}
<1>6. 0 \in good
  <2>1. size - 1 \in 0..9 /\ (size - 1) + 1 = size /\ size - 0 = size
    BY <1>1
  <2>2. 10^(size - 1) \in Powers /\ 10^size = 10 * 10^(size - 1)
    BY <2>1, PowersOfTen
  <2>3. 10^size \in Nat \ {0}
    <3>1. 10^(size - 1) \in Nat \ {0}
      BY <2>2, PowersAreNumbers
    <3> QED BY <2>2, <3>1
  <2> DEFINE p == 10^size
  <2>4. n \div p = 0
    <3> HIDE DEF p
    <3> QED BY <1>1, <2>3 DEF p
  <2> QED BY <1>1, <1>5, <2>1, <2>4
<1>7. ASSUME NEW k \in Nat, k < size, k \in good PROVE k + 1 \in good
  <2>1. k + 1 \in 1..size /\ (k + 1) - 1 = k /\ size - (k + 1) + 1 = size - k
    BY <1>1, <1>7
  <2> DEFINE p == 10^(size - (k + 1))
  <2>2. p \in Powers /\ 10^(size - k) = 10 * p
    BY <1>3, <2>1
  <2>3. f[k] = n \div (10 * p)
    BY <1>7, <2>2
  <2>4. f[k + 1] = 10 * f[k] + s[k + 1] - Zero /\ s[k + 1] = Zero + ((n \div p) % 10)
    BY <1>4, <1>5, <2>1
  <2> HIDE DEF p, s, good
  <2>5. f[k + 1] = n \div p
    <3>1. /\ n \div p \in Nat /\ n \div (10 * p) \in Nat /\ (n \div p) % 10 \in 0..9
          /\ 10 * (n \div (10 * p)) + ((n \div p) % 10) = n \div p
      BY <2>2, DigitMore
    <3> DEFINE x == n \div (10 * p)
               y == (n \div p) % 10
               z == n \div p
    <3>2. x \in Nat /\ y \in Nat /\ z \in Nat /\ 10 * x + y = z
      BY ONLY <3>1
    <3>3. f[k + 1] = 10 * x + (48 + y) - 48
      BY ONLY <2>3, <2>4 DEF Zero
    <3> HIDE DEF x, y, z
    <3>4. f[k + 1] = z
      BY ONLY <3>2, <3>3
    <3> QED BY <3>4 DEF z
  <2> QED BY <2>1, <2>5 DEF p, good
<1>8. size \in good
  <2> HIDE DEF good
  <2> QED BY <1>1, <1>6, <1>7, Upwards
<1>9. f[size] = n
  <2>1. f[size] = n \div 10^(size - size)
    BY <1>8
  <2>2. size - size = 0 /\ 10^0 = 1 /\ n \div 1 = n
    BY <1>1
  <2> QED BY <2>1, <2>2
<1> HIDE DEF s, digit
<1>10. Digits(n) = s
  BY <1>2 DEF s
<1> QED BY <1>1, <1>4, <1>5, <1>9, <1>10

\* s is a with b behind it.
IsJoin(s, a, b) ==
  /\ Len(s) = Len(a) + Len(b)
  /\ \A k \in 1..Len(a) : s[k] = a[k]
  /\ \A k \in 1..Len(b) : s[Len(a) + k] = b[k]

\* A concatenation is the join of its parts.
LEMMA Joined ==
  ASSUME NEW S, NEW a \in Seq(S), NEW b \in Seq(S)
  PROVE  a \o b \in Seq(S) /\ IsJoin(a \o b, a, b)
BY DEF IsJoin

\* A piece of a sequence.
LEMMA PieceIs ==
  ASSUME NEW S, NEW s \in Seq(S), NEW b \in Seq(S), NEW k \in Nat, k + Len(b) <= Len(s),
         \A j \in 1..Len(b) : s[k + j] = b[j]
  PROVE  SubSeq(s, k + 1, k + Len(b)) = b
OBVIOUS

\* The magnitude of an int has at most ten digits.
LEMMA Ints ==
  ASSUME NEW m \in Int32
  PROVE  m \in Int /\ m < 10^10 /\ -m < 10^10
<1>1. 10^10 = 10000000000
  BY SMT
<1>2. m \in Int /\ -2147483648 <= m /\ m <= 2147483647
  BY SMT DEF Int32
<1> QED BY ONLY <1>1, <1>2, SMT

\* Digits hold no underscore.
LEMMA NoUnderscore ==
  ASSUME NEW s \in Seq(DigitChar)
  PROVE  s \in Seq(Nat) /\ \A k \in 1..Len(s) : s[k] # Underscore
<1>1. DigitChar \subseteq Nat /\ Underscore \notin DigitChar
  BY DEF DigitChar, Underscore
<1>2. s \in Seq(Nat)
  BY <1>1, SeqWider
<1>3. \A k \in 1..Len(s) : s[k] \in DigitChar
  OBVIOUS
<1> QED BY <1>1, <1>2, <1>3

\* Numbers are printed and read back.
LEMMA PrintedBack ==
  ASSUME NEW m \in Int32
  PROVE  /\ Printed(m) \in Seq(Nat) /\ Len(Printed(m)) >= 1
         /\ \A k \in 1..Len(Printed(m)) : Printed(m)[k] # Underscore
         /\ Stoi(Printed(m)) = m
<1>1. CASE m < 0
  <2> DEFINE s == Digits(-m)
  <2>1. -m \in Nat /\ -m < 10^10
    BY <1>1, Ints
  <2>2. s \in Seq(DigitChar) /\ Len(s) >= 1 /\ Value(s) = -m
    BY <2>1, DigitsGood
  <2>3. Printed(m) = <<Minus>> \o s
    BY <1>1 DEF Printed
  <2> HIDE DEF s
  <2>4. Stoi(<<Minus>> \o s) = m
    <3>1. (<<Minus>> \o s)[1] = Minus /\ Tail(<<Minus>> \o s) = s
      BY <2>2
    <3>2. Stoi(<<Minus>> \o s) = -Value(s)
      BY <3>1, Zenon DEF Stoi
    <3>3. m \in Int
      BY Ints
    <3> QED BY ONLY <2>2, <3>2, <3>3
  <2>5. s \in Seq(Nat) /\ \A k \in 1..Len(s) : s[k] # Underscore
    BY <2>2, NoUnderscore
  <2>6. Minus \in Nat /\ Minus # Underscore
    BY DEF Minus, Underscore
  <2>7. /\ <<Minus>> \o s \in Seq(Nat) /\ Len(<<Minus>> \o s) >= 1
        /\ \A k \in 1..Len(<<Minus>> \o s) : (<<Minus>> \o s)[k] # Underscore
    BY ONLY <2>5, <2>6
  <2> QED BY <2>3, <2>4, <2>7
<1>2. CASE m >= 0
  <2> DEFINE s == Digits(m)
  <2>1. m \in Nat /\ m < 10^10
    BY <1>2, Ints
  <2>2. s \in Seq(DigitChar) /\ Len(s) >= 1 /\ Value(s) = m
    BY <2>1, DigitsGood
  <2>3. Printed(m) = s
    <3>1. ~ (m < 0)
      BY <1>2, <2>1
    <3> QED BY <3>1 DEF Printed
  <2> HIDE DEF s
  <2>4. Stoi(s) = m
    <3>1. s[1] # Minus
      <4>1. s[1] \in DigitChar
        BY <2>2
      <4> QED BY ONLY <4>1 DEF Minus, DigitChar
    <3> QED BY <2>2, <3>1 DEF Stoi
  <2>5. s \in Seq(Nat) /\ \A k \in 1..Len(s) : s[k] # Underscore
    BY <2>2, NoUnderscore
  <2> QED BY <2>2, <2>3, <2>4, <2>5
<1>3. m \in Int
  BY Ints
<1> QED BY <1>1, <1>2, <1>3

\* The first and the last place of a character.
LEMMA FirstPlace ==
  ASSUME NEW s \in Seq(Nat), NEW c, NEW k \in 1..Len(s), s[k] = c, \A j \in 1..k - 1 : s[j] # c
  PROVE  FirstOf(s, c) = k
<1>1. k \in Places(s, c) /\ \A j \in Places(s, c) : k <= j
  BY DEF Places
<1>2. ASSUME NEW i \in Places(s, c), \A j \in Places(s, c) : i <= j PROVE i = k
  <2>1. i \in Nat /\ k \in Nat /\ i <= k /\ k <= i
    BY <1>1, <1>2 DEF Places
  <2> QED BY <2>1
<1> QED BY <1>1, <1>2 DEF FirstOf

\* The last place of a character is the one after which there is none.
LEMMA LastPlace ==
  ASSUME NEW s \in Seq(Nat), NEW c, NEW k \in 1..Len(s), s[k] = c, \A j \in k + 1..Len(s) : s[j] # c
  PROVE  LastOf(s, c) = k
<1>1. k \in Places(s, c) /\ \A j \in Places(s, c) : k >= j
  BY DEF Places
<1>2. ASSUME NEW i \in Places(s, c), \A j \in Places(s, c) : i >= j PROVE i = k
  <2>1. i \in Nat /\ k \in Nat /\ i <= k /\ k <= i
    BY <1>1, <1>2 DEF Places
  <2> QED BY <2>1
<1> QED BY <1>1, <1>2 DEF LastOf

\* Four pieces in a row and what stands where.
InARow(s, a, b, x, c) ==
  /\ s \in Seq(Nat) /\ Len(s) = Len(a) + Len(b) + 1 + Len(c)
  /\ \A k \in 1..Len(a) : s[k] = a[k]
  /\ s[Len(a) + Len(b) + 1] = x
  /\ \A k \in 1..Len(c) : s[Len(a) + Len(b) + 1 + k] = c[k]
  /\ SubSeq(s, Len(a) + 1, Len(a) + Len(b)) = b
  /\ SubSeq(s, Len(a) + Len(b) + 2, Len(s)) = c

\* The parts of a concatenation of four are where the places say.
LEMMA FourPieces ==
  ASSUME NEW a \in Seq(Nat), NEW b \in Seq(Nat), NEW x \in Nat, NEW c \in Seq(Nat),
         NEW s, s = a \o b \o <<x>> \o c
  PROVE  InARow(s, a, b, x, c)
<1> DEFINE ab == a \o b
           one == <<x>>
           abx == ab \o one
<1>1. ab \in Seq(Nat) /\ IsJoin(ab, a, b)
  BY Joined
<1>2. one \in Seq(Nat) /\ Len(one) = 1 /\ one[1] = x
  OBVIOUS
<1>3. abx \in Seq(Nat) /\ IsJoin(abx, ab, one)
  <2> HIDE DEF ab, one
  <2> QED BY <1>1, <1>2, Joined
<1>4. s \in Seq(Nat) /\ IsJoin(s, abx, c)
  <2>1. s = abx \o c
    OBVIOUS
  <2> HIDE DEF abx
  <2> QED BY <1>3, <2>1, Joined
<1> DEFINE la == Len(a)
           lb == Len(b)
           lc == Len(c)
<1> HIDE DEF ab, one, abx
<1>5. la \in Nat /\ lb \in Nat /\ lc \in Nat
  OBVIOUS
<1>6. Len(ab) = la + lb /\ Len(abx) = la + lb + 1 /\ Len(s) = la + lb + 1 + lc
  BY <1>1, <1>2, <1>3, <1>4 DEF IsJoin
<1> HIDE DEF la, lb, lc
<1>7. \A k \in 1..la : s[k] = a[k]
  <2> SUFFICES ASSUME NEW k \in 1..la PROVE s[k] = a[k]
    OBVIOUS
  <2>1. k \in 1..Len(a) /\ k \in 1..Len(ab) /\ k \in 1..Len(abx)
    BY <1>5, <1>6 DEF la
  <2> QED BY ONLY <2>1, <1>1, <1>3, <1>4 DEF IsJoin
<1>8. \A k \in 1..lb : s[la + k] = b[k]
  <2> SUFFICES ASSUME NEW k \in 1..lb PROVE s[la + k] = b[k]
    OBVIOUS
  <2>1. la + k \in 1..Len(ab) /\ la + k \in 1..Len(abx)
    BY <1>5, <1>6
  <2>2. s[la + k] = abx[la + k] /\ abx[la + k] = ab[la + k]
    BY ONLY <2>1, <1>3, <1>4 DEF IsJoin
  <2>3. ab[la + k] = b[k]
    BY <1>1 DEF IsJoin, la, lb
  <2> QED BY <2>2, <2>3
<1>9. s[la + lb + 1] = x
  <2>1. Len(abx) \in 1..Len(abx) /\ abx[Len(ab) + 1] = one[1]
    BY <1>2, <1>3, <1>5, <1>6 DEF IsJoin
  <2>2. s[Len(abx)] = abx[Len(abx)]
    BY ONLY <2>1, <1>4 DEF IsJoin
  <2> QED BY <2>1, <2>2, <1>2, <1>6
<1>10. \A k \in 1..lc : s[la + lb + 1 + k] = c[k]
  BY <1>4, <1>6 DEF IsJoin, lc
<1>11. SubSeq(s, la + 1, la + lb) = b
  <2>1. la + Len(b) <= Len(s)
    BY <1>5, <1>6 DEF lb
  <2>2. \A j \in 1..Len(b) : s[la + j] = b[j]
    BY <1>8 DEF lb
  <2> QED BY <1>4, <1>5, <2>1, <2>2, PieceIs DEF lb
<1>12. SubSeq(s, la + lb + 2, Len(s)) = c
  <2> DEFINE k == la + lb + 1
  <2>1. k \in Nat /\ k + Len(c) <= Len(s) /\ k + 1 = la + lb + 2 /\ k + Len(c) = Len(s)
    BY <1>5, <1>6 DEF lc
  <2>2. \A j \in 1..Len(c) : s[k + j] = c[j]
    BY <1>10 DEF lc
  <2> HIDE DEF k
  <2>3. SubSeq(s, k + 1, k + Len(c)) = c
    BY <1>4, <2>1, <2>2, PieceIs
  <2> QED BY <2>1, <2>3
<1> QED BY <1>4, <1>6, <1>7, <1>8, <1>9, <1>10, <1>11, <1>12 DEF la, lb, lc, InARow

Names == [eu : BOOLEAN, package : Seq(Nat), cls : Seq(Nat), instance : Int32]

\* A name is split where it was joined.
LEMMA NameBack ==
  ASSUME NEW n \in Names, n.instance - 1 \in Int32, n.eu => n.package = << >>, n.eu \/ Places(n.package, Dot) = {}
  PROVE  DecomposeName(BuildName(n), n.eu) = n
<1> DEFINE p == n.package
           b == n.cls
           pre == IF n.eu THEN << >> ELSE p \o <<Dot>>
           digits == Printed(n.instance - 1)
           s == BuildName(n)
           d == IF n.eu THEN 0 ELSE FirstOf(s, Dot)
           u == LastOf(s, Underscore)
<1>1. p \in Seq(Nat) /\ b \in Seq(Nat) /\ n.instance \in Int /\ n.eu \in BOOLEAN
  <2>1. n.instance \in Int32
    BY DEF Names
  <2>2. n.instance \in Int
    BY <2>1, Ints
  <2> QED BY <2>2 DEF Names
<1>2. /\ digits \in Seq(Nat) /\ \A k \in 1..Len(digits) : digits[k] # Underscore
      /\ Stoi(digits) = n.instance - 1
  BY PrintedBack
<1>3. s = pre \o b \o <<Underscore>> \o digits
  BY DEF BuildName
<1> DEFINE la == Len(pre)
           lb == Len(b)
           lc == Len(digits)
<1> HIDE DEF p, b, pre, digits, s
<1>4. pre \in Seq(Nat) /\ Dot \in Nat /\ Underscore \in Nat
  BY <1>1 DEF pre, Dot, Underscore
<1>5. /\ s \in Seq(Nat) /\ Len(s) = la + lb + 1 + lc
      /\ \A k \in 1..la : s[k] = pre[k]
      /\ s[la + lb + 1] = Underscore
      /\ \A k \in 1..lc : s[la + lb + 1 + k] = digits[k]
      /\ SubSeq(s, la + 1, la + lb) = b
      /\ SubSeq(s, la + lb + 2, Len(s)) = digits
  <2>1. InARow(s, pre, b, Underscore, digits)
    BY <1>1, <1>2, <1>3, <1>4, FourPieces
  <2> QED BY <2>1 DEF InARow
<1>6. la \in Nat /\ lb \in Nat /\ lc \in Nat
  BY <1>1, <1>2, <1>4
<1>7. \A k \in 1..lc : digits[k] # Underscore
  BY <1>2
<1> HIDE DEF la, lb, lc
<1>8. u = la + lb + 1
  <2> DEFINE k == la + lb + 1
  <2>1. k \in 1..Len(s) /\ s[k] = Underscore
    BY <1>5, <1>6
  <2>2. ASSUME NEW j \in k + 1..Len(s) PROVE s[j] # Underscore
    <3> DEFINE i == j - k
    <3>1. i \in 1..lc /\ k + i = j
      <4>1. Len(s) = la + lb + 1 + lc
        BY <1>5
      <4> QED BY ONLY <4>1, <1>6, j \in k + 1..Len(s)
    <3> HIDE DEF i
    <3>2. s[k + i] = digits[i] /\ digits[i] # Underscore
      BY ONLY <1>5, <1>7, <3>1
    <3> QED BY ONLY <3>1, <3>2
  <2> HIDE DEF k
  <2> QED BY <1>5, <2>1, <2>2, LastPlace DEF k
<1>9. d = la /\ SubSeq(s, 1, d - 1) = p
  <2>1. CASE n.eu
    <3>1. pre = << >> /\ p = << >> /\ d = 0
      BY <2>1 DEF pre, p
    <3>2. la = 0
      BY <3>1 DEF la
    <3> QED BY <1>5, <3>1, <3>2
  <2>2. CASE ~n.eu
    <3> DEFINE lp == Len(p)
               one == <<Dot>>
    <3>1. IsJoin(pre, p, one) /\ lp \in Nat /\ Len(one) = 1 /\ one[1] = Dot
      <4>1. one \in Seq(Nat) /\ Len(one) = 1 /\ one[1] = Dot
        BY <1>4
      <4>2. pre = p \o one
        BY <2>2 DEF pre
      <4> HIDE DEF one
      <4> QED BY <1>1, <4>1, <4>2, Joined
    <3> HIDE DEF lp, one
    <3>2. la = lp + 1 /\ pre[la] = Dot /\ \A k \in 1..lp : pre[k] = p[k]
      BY <3>1 DEF IsJoin, la, lp
    <3>3. \A k \in 1..lp : p[k] # Dot
      BY <2>2 DEF Places, p, lp
    <3>4. la \in 1..Len(s) /\ s[la] = Dot
      <4>1. la \in 1..la /\ la \in 1..Len(s)
        BY <1>5, <1>6, <3>1, <3>2
      <4> QED BY ONLY <1>5, <3>2, <4>1
    <3>5. \A k \in 1..lp : s[k] = p[k]
      <4> SUFFICES ASSUME NEW k \in 1..lp PROVE s[k] = p[k]
        OBVIOUS
      <4>1. k \in 1..la
        BY ONLY <3>1, <3>2, k \in 1..lp
      <4> QED BY ONLY <1>5, <3>2, <4>1, k \in 1..lp
    <3>6. \A j \in 1..la - 1 : s[j] # Dot
      <4>1. la - 1 = lp
        BY ONLY <3>1, <3>2
      <4> QED BY ONLY <4>1, <3>3, <3>5
    <3>7. d = la
      BY <1>5, <2>2, <3>4, <3>6, FirstPlace
    <3>8. SubSeq(s, 1, lp) = p
      <4>1. \A j \in 1..Len(p) : s[0 + j] = p[j]
        BY <3>5 DEF lp
      <4>2. 0 \in Nat /\ 0 + Len(p) <= Len(s)
        BY <1>5, <1>6, <3>1, <3>2 DEF lp
      <4>3. SubSeq(s, 0 + 1, 0 + Len(p)) = p
        BY <1>1, <1>5, <4>1, <4>2, PieceIs
      <4>4. 0 + 1 = 1 /\ 0 + Len(p) = lp
        BY <3>1 DEF lp
      <4> QED BY <4>3, <4>4
    <3>9. d - 1 = lp
      BY ONLY <3>1, <3>2, <3>7
    <3> QED BY <3>7, <3>8, <3>9
  <2> QED BY <2>1, <2>2
<1> HIDE DEF d, u
<1>10. SubSeq(s, d + 1, u - 1) = b /\ SubSeq(s, u + 1, Len(s)) = digits
  <2>1. d + 1 = la + 1 /\ u - 1 = la + lb /\ u + 1 = la + lb + 2
    BY ONLY <1>6, <1>8, <1>9
  <2> QED BY ONLY <1>5, <2>1
<1>11. DecomposeName(s, n.eu) = [eu |-> n.eu, package |-> p, cls |-> b, instance |-> n.instance]
  <2>1. Stoi(digits) + 1 = n.instance
    BY ONLY <1>1, <1>2
  <2>2. DecomposeName(s, n.eu) =
          [eu |-> n.eu, package |-> SubSeq(s, 1, d - 1), cls |-> SubSeq(s, d + 1, u - 1),
           instance |-> Stoi(SubSeq(s, u + 1, Len(s))) + 1]
    BY DEF DecomposeName, d, u
  <2> QED BY <1>9, <1>10, <2>1, <2>2
<1>12. n = [eu |-> n.eu, package |-> p, cls |-> b, instance |-> n.instance]
  BY DEF Names, p, b
<1> QED BY <1>11, <1>12 DEF s

-----------------------------------------------------------------------------
(* UTF-16 and UTF-8 *)

\* What is made from the last of a chain of places on, each with a piece of its own.
IsChain(f, m, top, pre, next) == f = [k \in 1..top |-> IF k > m THEN << >> ELSE pre[k] \o f[next[k]]]

\* There is such a function, for any steps forward.
LEMMA Chained ==
  ASSUME NEW m \in Nat, NEW top \in Nat, m < top, NEW pre, NEW next,
         \A k \in 1..m : next[k] \in k + 1..top
  PROVE  \E f : IsChain(f, m, top, pre, next)
<1> DEFINE Made(g, low) == /\ g = [k \in low..top |-> g[k]]
                           /\ \A k \in low..top : g[k] = IF k > m THEN << >> ELSE pre[k] \o g[next[k]]
           good == {j \in 0..top : \E g : Made(g, top + 1 - j)}
<1>1. 0 \in good
  <2> DEFINE g == [k \in top + 1..top |-> << >>]
  <2>1. Made(g, top + 1 - 0)
    <3>1. top + 1 - 0 = top + 1 /\ \A k \in top + 1..top : FALSE
      OBVIOUS
    <3>2. g = [k \in top + 1..top |-> g[k]]
      OBVIOUS
    <3> QED BY ONLY <3>1, <3>2, Zenon
  <2> QED BY <2>1
<1>2. ASSUME NEW j \in Nat, j < top, j \in good PROVE j + 1 \in good
  <2> DEFINE low == top + 1 - j
             here == top - j
  <2>1. /\ low \in Nat /\ here \in Nat /\ here >= 1 /\ low = here + 1 /\ top + 1 - (j + 1) = here
        /\ here <= top /\ j + 1 \in 0..top
    BY <1>2
  <2>2. PICK f : Made(f, low)
    BY <1>2
  <2> DEFINE v == IF here > m THEN << >> ELSE pre[here] \o f[next[here]]
             g == [k \in here..top |-> IF k = here THEN v ELSE f[k]]
  <2> HIDE DEF low, here, v, good
  <2>3. g = [k \in here..top |-> g[k]]
    OBVIOUS
  <2>4. \A k \in low..top : k \in here..top /\ k # here
    BY <2>1
  <2>5. ASSUME NEW k \in here..top
        PROVE  g[k] = IF k > m THEN << >> ELSE pre[k] \o g[next[k]]
    <3>1. ASSUME k <= m PROVE next[k] \in low..top /\ g[next[k]] = f[next[k]]
      <4>1. next[k] \in low..top
        BY <2>1, <3>1
      <4>2. next[k] \in here..top /\ next[k] # here
        BY <2>4, <4>1
      <4> QED BY <4>1, <4>2
    <3>2. CASE k = here
      <4>1. g[k] = v
        BY <3>2
      <4> HIDE DEF g
      <4> QED BY <3>1, <3>2, <4>1, <2>1 DEF v
    <3>3. CASE k # here
      <4>1. g[k] = f[k] /\ k \in low..top
        BY <2>1, <3>3
      <4>2. f[k] = IF k > m THEN << >> ELSE pre[k] \o f[next[k]]
        BY <2>2, <4>1
      <4>3. k > m \/ k <= m
        BY <2>1
      <4> HIDE DEF g
      <4> QED BY ONLY <3>1, <4>1, <4>2, <4>3
    <3> QED BY <3>2, <3>3
  <2> HIDE DEF g
  <2>6. Made(g, here)
    BY <2>3, <2>5
  <2> QED BY <2>1, <2>6 DEF good
<1> HIDE DEF good
<1>3. top \in good
  BY <1>1, <1>2, Upwards
<1>4. PICK g : Made(g, top + 1 - top)
  BY <1>3 DEF good
<1>5. top + 1 - top = 1
  OBVIOUS
<1>6. IsChain(g, m, top, pre, next)
  BY <1>4, <1>5 DEF IsChain
<1> QED BY <1>6

\* A byte, a UTF-16 unit and a code point, none of them NUL.
CharByte == 1..255
Unit     == {u \in Nat : u >= 1 /\ u < 65536}
Codes    == {c \in Nat : c >= 1 /\ c <= 1114111}

\* The bytes of a point.
LEMMA PointBytes ==
  ASSUME NEW c \in Codes
  PROVE  Utf8OfPoint(c) \in Seq(CharByte) /\ Len(Utf8OfPoint(c)) \in 1..4
<1>0. c \in Nat /\ c >= 1 /\ c <= 1114111
  BY SMT DEF Codes
<1>1. CASE c < 128
  <2>1. c \in CharByte
    BY <1>0, <1>1, SMT DEF CharByte
  <2>2. Utf8OfPoint(c) = <<c>>
    BY ONLY <1>0, <1>1, SMT DEF Utf8OfPoint
  <2> QED BY ONLY <2>1, <2>2, SMT
<1>2. CASE c >= 128 /\ c < 2048
  <2> DEFINE x == 192 + c \div 64
             y == 128 + (c % 64)
  <2>1. x \in CharByte /\ y \in CharByte
    BY <1>0, <1>2, SMT DEF CharByte
  <2>2. Utf8OfPoint(c) = <<x, y>>
    BY <1>0, <1>2, SMT DEF Utf8OfPoint
  <2> HIDE DEF x, y
  <2> QED BY ONLY <2>1, <2>2, SMT
<1>3. CASE c >= 2048 /\ c < 65536
  <2> DEFINE x == 224 + c \div 4096
             y == 128 + ((c \div 64) % 64)
             z == 128 + (c % 64)
  <2>1. x \in CharByte /\ y \in CharByte /\ z \in CharByte
    BY <1>0, <1>3, SMT DEF CharByte
  <2>2. Utf8OfPoint(c) = <<x, y, z>>
    BY <1>0, <1>3, SMT DEF Utf8OfPoint
  <2> HIDE DEF x, y, z
  <2> QED BY ONLY <2>1, <2>2, SMT
<1>4. CASE c >= 65536
  <2> DEFINE w == 240 + c \div 262144
             x == 128 + ((c \div 4096) % 64)
             y == 128 + ((c \div 64) % 64)
             z == 128 + (c % 64)
  <2>1. w \in CharByte /\ x \in CharByte /\ y \in CharByte /\ z \in CharByte
    BY <1>0, <1>4, SMT DEF CharByte
  <2>2. Utf8OfPoint(c) = <<w, x, y, z>>
    BY <1>0, <1>4, SMT DEF Utf8OfPoint
  <2> HIDE DEF w, x, y, z
  <2> QED BY ONLY <2>1, <2>2, SMT
<1> QED BY <1>0, <1>1, <1>2, <1>3, <1>4, SMT

\* q stands in s from k on.
StandsAt(q, s, k) == \A j \in 1..Len(q) : s[k + j - 1] = q[j]

\* Bytes and the point they stand for.
LEMMA PointBack ==
  ASSUME NEW c \in Codes, NEW s, NEW k \in Nat, StandsAt(Utf8OfPoint(c), s, k)
  PROVE  PointLen(s[k]) = Len(Utf8OfPoint(c)) /\ PointAt(s, k) = c
<1> DEFINE q == Utf8OfPoint(c)
<1>5. c \in Nat /\ c >= 1 /\ c <= 1114111
  BY SMT DEF Codes
<1>6. Len(q) \in Nat
  BY PointBytes
<1>7. \A j \in 1..Len(q) : s[k + j - 1] = q[j]
  BY DEF StandsAt
<1> HIDE DEF q
<1>0. /\ 1 <= Len(q) => s[k] = q[1]
      /\ 2 <= Len(q) => s[k + 1] = q[2]
      /\ 3 <= Len(q) => s[k + 2] = q[3]
      /\ 4 <= Len(q) => s[k + 3] = q[4]
  <2>1. k + 1 - 1 = k /\ k + 2 - 1 = k + 1 /\ k + 3 - 1 = k + 2 /\ k + 4 - 1 = k + 3
    OBVIOUS
  <2>2. /\ 1 <= Len(q) => s[k + 1 - 1] = q[1]
        /\ 2 <= Len(q) => s[k + 2 - 1] = q[2]
        /\ 3 <= Len(q) => s[k + 3 - 1] = q[3]
        /\ 4 <= Len(q) => s[k + 4 - 1] = q[4]
    <3>1. /\ 1 <= Len(q) => 1 \in 1..Len(q)
          /\ 2 <= Len(q) => 2 \in 1..Len(q)
          /\ 3 <= Len(q) => 3 \in 1..Len(q)
          /\ 4 <= Len(q) => 4 \in 1..Len(q)
      BY ONLY <1>6, SMT
    <3> QED BY ONLY <3>1, <1>7, Zenon
  <2> QED BY ONLY <2>1, <2>2, SMT
<1>1. CASE c < 128
  <2>1. Utf8OfPoint(c) = <<c>>
    BY ONLY <1>5, <1>1, SMT DEF Utf8OfPoint
  <2>2. Len(q) = 1 /\ q[1] = c
    BY ONLY <2>1, SMT DEF q
  <2>3. s[k] = c
    BY ONLY <1>0, <2>2, SMT
  <2>4. PointLen(s[k]) = 1
    BY ONLY <1>1, <1>5, <2>3, SMT DEF PointLen
  <2>5. PointAt(s, k) = s[k]
    BY ONLY <2>4, SMT DEF PointAt
  <2> QED BY ONLY <2>2, <2>3, <2>4, <2>5, SMT DEF q
<1>2. CASE c >= 128 /\ c < 2048
  <2> DEFINE a == c \div 64
             b == c % 64
  <2>1. a \in 2..31 /\ b \in 0..63 /\ c = 64 * a + b
    BY ONLY <1>5, <1>2, SMT
  <2>2. Utf8OfPoint(c) = <<192 + a, 128 + b>>
    BY ONLY <1>5, <1>2, SMT DEF Utf8OfPoint
  <2> HIDE DEF a, b
  <2>3. Len(q) = 2 /\ q[1] = 192 + a /\ q[2] = 128 + b
    BY ONLY <2>2, SMT DEF q
  <2>4. s[k] = 192 + a /\ s[k + 1] = 128 + b
    BY ONLY <1>0, <2>3, SMT
  <2>5. PointLen(s[k]) = 2
    BY ONLY <2>1, <2>4, SMT DEF PointLen
  <2>6. PointAt(s, k) = (s[k] - 192) * 64 + s[k + 1] - 128
    BY ONLY <2>5, SMT DEF PointAt
  <2>7. PointAt(s, k) = c
    BY ONLY <2>1, <2>4, <2>6, SMT
  <2> QED BY ONLY <2>3, <2>5, <2>7, SMT DEF q
<1>3. CASE c >= 2048 /\ c < 65536
  <2> DEFINE a == c \div 4096
             b == (c \div 64) % 64
             d == c % 64
  <2>1. a \in 0..15 /\ b \in 0..63 /\ d \in 0..63 /\ c = 4096 * a + 64 * b + d
    BY ONLY <1>5, <1>3, SMT
  <2>2. Utf8OfPoint(c) = <<224 + a, 128 + b, 128 + d>>
    BY ONLY <1>5, <1>3, SMT DEF Utf8OfPoint
  <2> HIDE DEF a, b, d
  <2>3. Len(q) = 3 /\ q[1] = 224 + a /\ q[2] = 128 + b /\ q[3] = 128 + d
    BY ONLY <2>2, SMT DEF q
  <2>4. s[k] = 224 + a /\ s[k + 1] = 128 + b /\ s[k + 2] = 128 + d
    BY ONLY <1>0, <2>3, SMT
  <2>5. PointLen(s[k]) = 3
    BY ONLY <2>1, <2>4, SMT DEF PointLen
  <2>6. PointAt(s, k) = (s[k] - 224) * 4096 + (s[k + 1] - 128) * 64 + s[k + 2] - 128
    BY ONLY <2>5, SMT DEF PointAt
  <2>7. PointAt(s, k) = c
    BY ONLY <2>1, <2>4, <2>6, SMT
  <2> QED BY ONLY <2>3, <2>5, <2>7, SMT DEF q
<1>4. CASE c >= 65536
  <2> DEFINE a == c \div 262144
             b == (c \div 4096) % 64
             d == (c \div 64) % 64
             e == c % 64
  <2>1. a \in 0..4 /\ b \in 0..63 /\ d \in 0..63 /\ e \in 0..63 /\ c = 262144 * a + 4096 * b + 64 * d + e
    BY ONLY <1>5, <1>4, SMT
  <2>2. Utf8OfPoint(c) = <<240 + a, 128 + b, 128 + d, 128 + e>>
    BY ONLY <1>5, <1>4, SMT DEF Utf8OfPoint
  <2> HIDE DEF a, b, d, e
  <2>3. Len(q) = 4 /\ q[1] = 240 + a /\ q[2] = 128 + b /\ q[3] = 128 + d /\ q[4] = 128 + e
    BY ONLY <2>2, SMT DEF q
  <2>4. s[k] = 240 + a /\ s[k + 1] = 128 + b /\ s[k + 2] = 128 + d /\ s[k + 3] = 128 + e
    BY ONLY <1>0, <2>3, SMT
  <2>5. PointLen(s[k]) = 4
    BY ONLY <2>1, <2>4, SMT DEF PointLen
  <2>6. PointAt(s, k) = (s[k] - 240) * 262144 + (s[k + 1] - 128) * 4096 + (s[k + 2] - 128) * 64 + s[k + 3] - 128
    BY ONLY <2>5, SMT DEF PointAt
  <2>7. PointAt(s, k) = c
    BY ONLY <2>1, <2>4, <2>6, SMT
  <2> QED BY ONLY <2>3, <2>5, <2>7, SMT DEF q
<1> QED BY ONLY <1>5, <1>1, <1>2, <1>3, <1>4, SMT DEF q

\* A pair of surrogates, and a unit of its own.
PairPoint(a, b) == 65536 + (a - 55296) * 1024 + b - 56320

\* The two halves of a surrogate pair come back from their point.
LEMMA PairBack ==
  ASSUME NEW a \in Nat, NEW b \in Nat, High(a), Low(b)
  PROVE  PairPoint(a, b) \in Codes /\ UnitsOf(PairPoint(a, b)) = <<a, b>>
<1> DEFINE x == a - 55296
           y == b - 56320
           c == 65536 + x * 1024 + y
<1>1. x \in 0..1023 /\ y \in 0..1023 /\ a = 55296 + x /\ b = 56320 + y /\ PairPoint(a, b) = c
  BY DEF High, Low, PairPoint
<1>2. c \in Nat /\ c >= 65536 /\ c <= 1114111 /\ (c - 65536) \div 1024 = x /\ (c - 65536) % 1024 = y
  <2> HIDE DEF x, y
  <2> QED BY <1>1, SMT
<1>3. UnitsOf(c) = <<55296 + x, 56320 + y>>
  <2>1. ~(c < 65536)
    BY <1>2, SMT
  <2> HIDE DEF x, y, c
  <2> QED BY ONLY <1>2, <2>1, SMT DEF UnitsOf
<1>4. c \in Codes
  <2> HIDE DEF c
  <2> QED BY ONLY <1>2, SMT DEF Codes
<1> HIDE DEF x, y, c
<1> QED BY ONLY <1>1, <1>3, <1>4, SMT

\* The points of units, from each place on.
PointHere(u, k) == IF High(u[k]) THEN PairPoint(u[k], u[k + 1]) ELSE u[k]
UnitsHere(u, k) == IF High(u[k]) THEN 2 ELSE 1
PointsFrom(f, u) ==
  /\ f[Len(u) + 1] = << >>
  /\ \A k \in 1..Len(u) : f[k] = <<PointHere(u, k)>> \o f[k + UnitsHere(u, k)]

\* The points of paired units, one point at a time.
LEMMA PointsSteps ==
  ASSUME NEW u \in Seq(Unit), Paired(u)
  PROVE  \E f : PointsFrom(f, u) /\ Points(u) = f[1]
<1> DEFINE n == Len(u)
           Step(g, k) == IF k > n THEN << >>
                         ELSE IF High(u[k])
                         THEN <<65536 + (u[k] - 55296) * 1024 + u[k + 1] - 56320>> \o g[k + 2]
                         ELSE <<u[k]>> \o g[k + 1]
           Is(g) == g = [k \in 1..n + 1 |-> Step(g, k)]
           pre == [k \in 1..n |-> <<PointHere(u, k)>>]
           next == [k \in 1..n |-> k + UnitsHere(u, k)]
<1>1. n \in Nat /\ n + 1 \in Nat /\ n < n + 1
  OBVIOUS
<1>2. \A k \in 1..n : next[k] \in k + 1..n + 1
  BY DEF Paired, UnitsHere
<1>3. PICK f : IsChain(f, n, n + 1, pre, next)
  <2> HIDE DEF n, pre, next
  <2> QED BY <1>1, <1>2, Chained
<1>4. ASSUME NEW g, NEW k \in 1..n + 1
      PROVE  Step(g, k) = IF k > n THEN << >> ELSE pre[k] \o g[next[k]]
  <2>1. CASE k > n
    BY <2>1
  <2>2. CASE ~(k > n)
    <3>1. k \in 1..n
      BY <1>1, <2>2
    <3>2. pre[k] = <<PointHere(u, k)>> /\ next[k] = k + UnitsHere(u, k)
      BY <3>1
    <3> HIDE DEF n, pre, next
    <3>3. Step(g, k) = <<PointHere(u, k)>> \o g[k + UnitsHere(u, k)]
      <4>1. CASE High(u[k])
        BY ONLY <2>2, <4>1, SMT DEF PointHere, UnitsHere, PairPoint
      <4>2. CASE ~High(u[k])
        BY ONLY <2>2, <4>2, SMT DEF PointHere, UnitsHere, PairPoint
      <4> HIDE DEF Step
      <4> QED BY ONLY <4>1, <4>2, Zenon
    <3> HIDE DEF Step
    <3> QED BY ONLY <2>2, <3>2, <3>3, SMT
  <2> HIDE DEF Step, n, pre, next
  <2> QED BY ONLY <2>1, <2>2, Zenon
<1>5. Is(f)
  <2> HIDE DEF Step, n, pre, next
  <2> QED BY <1>3, <1>4, Zenon DEF IsChain
<1> DEFINE from == CHOOSE g : Is(g)
<1>6. Is(from)
  <2> HIDE DEF Is
  <2> QED BY <1>5
<1>7. Points(u) = from[1]
  BY DEF Points
<1> HIDE DEF from
<1>8. \A k \in 1..n + 1 : from[k] = IF k > n THEN << >> ELSE pre[k] \o from[next[k]]
  <2> HIDE DEF Step, n, pre, next
  <2>1. from = [k \in 1..n + 1 |-> Step(from, k)]
    BY <1>6
  <2> QED BY <1>4, <2>1
<1>9. \A k \in 1..n : pre[k] = <<PointHere(u, k)>> /\ next[k] = k + UnitsHere(u, k)
  OBVIOUS
<1>10. n + 1 \in 1..n + 1 /\ n + 1 > n /\ \A k \in 1..n : k \in 1..n + 1 /\ ~(k > n)
  BY <1>1
<1> HIDE DEF n, pre, next
<1>11. from[n + 1] = << >>
  BY ONLY <1>8, <1>10, Zenon
<1>12. \A k \in 1..n : from[k] = <<PointHere(u, k)>> \o from[k + UnitsHere(u, k)]
  BY ONLY <1>8, <1>9, <1>10, Zenon
<1> QED BY <1>7, <1>11, <1>12 DEF PointsFrom, n

\* The units of bytes, from each place on.
LEMMA Utf16Steps ==
  ASSUME NEW s \in Seq(Nat)
  PROVE  \E f : /\ Utf16(s) = f[1] /\ f[Len(s) + 1] = << >>
                /\ \A k \in 1..Len(s) : f[k] = UnitsOf(PointAt(s, k)) \o f[k + PointLen(s[k])]
<1> DEFINE n == Len(s)
           Is(g) == g = [k \in 1..n + 4 |-> IF k > n THEN << >> ELSE UnitsOf(PointAt(s, k)) \o g[k + PointLen(s[k])]]
           pre == [k \in 1..n |-> UnitsOf(PointAt(s, k))]
           next == [k \in 1..n |-> k + PointLen(s[k])]
<1>1. n \in Nat /\ n + 4 \in Nat /\ n < n + 4
  OBVIOUS
<1>2. \A k \in 1..n : next[k] \in k + 1..n + 4
  BY DEF PointLen
<1>3. PICK f : IsChain(f, n, n + 4, pre, next)
  <2> HIDE DEF n, pre, next
  <2> QED BY <1>1, <1>2, Chained
<1>4. \A k \in 1..n + 4 : k \in 1..n \/ k > n
  BY <1>1
<1>5. Is(f)
  <2>1. \A k \in 1..n : pre[k] = UnitsOf(PointAt(s, k)) /\ next[k] = k + PointLen(s[k])
    OBVIOUS
  <2> HIDE DEF n, pre, next
  <2>2. \A k \in 1..n + 4 : (IF k > n THEN << >> ELSE pre[k] \o f[next[k]])
                          = (IF k > n THEN << >> ELSE UnitsOf(PointAt(s, k)) \o f[k + PointLen(s[k])])
    BY <1>4, <2>1, Zenon
  <2> QED BY <1>3, <2>2, Zenon DEF IsChain
<1> DEFINE from == CHOOSE g : Is(g)
<1>6. Is(from)
  <2> HIDE DEF Is
  <2> QED BY <1>5
<1>7. Utf16(s) = from[1]
  BY DEF Utf16
<1> HIDE DEF from
<1>8. \A k \in 1..n + 4 : from[k] = IF k > n THEN << >> ELSE UnitsOf(PointAt(s, k)) \o from[k + PointLen(s[k])]
  <2> HIDE DEF n
  <2> QED BY <1>6
<1>9. n + 1 \in 1..n + 4 /\ n + 1 > n /\ \A k \in 1..n : k \in 1..n + 4 /\ ~(k > n)
  BY <1>1
<1> HIDE DEF n
<1>10. from[n + 1] = << >>
  BY ONLY <1>8, <1>9, Zenon
<1>11. \A k \in 1..n : from[k] = UnitsOf(PointAt(s, k)) \o from[k + PointLen(s[k])]
  BY ONLY <1>8, <1>9, Zenon
<1> QED BY <1>7, <1>10, <1>11 DEF n

\* The bytes of points, up to each place.
LEMMA Utf8Steps ==
  ASSUME NEW p \in Seq(Codes)
  PROVE  \E f \in [0..Len(p) -> Seq(CharByte)] :
           /\ f[0] = << >> /\ Utf8(p) = f[Len(p)]
           /\ \A k \in 1..Len(p) : f[k] = f[k - 1] \o Utf8OfPoint(p[k])
<1> DEFINE n == Len(p)
           T == Seq(CharByte)
           step == [x \in (1..n) \X T |-> x[2] \o Utf8OfPoint(p[x[1]])]
<1>1. n \in Nat /\ << >> \in T
  OBVIOUS
<1>2. step \in [(1..n) \X T -> T]
  <2>1. ASSUME NEW x \in (1..n) \X T PROVE x[2] \o Utf8OfPoint(p[x[1]]) \in T
    <3>1. x[2] \in Seq(CharByte) /\ p[x[1]] \in Codes
      BY <2>1
    <3>2. Utf8OfPoint(p[x[1]]) \in Seq(CharByte)
      BY <3>1, PointBytes
    <3> QED BY <3>1, <3>2
  <2> HIDE DEF T, n
  <2> QED BY <2>1
<1>3. PICK f : Counts(f, n, T, << >>, step)
  <2> HIDE DEF n, step, T
  <2> QED BY <1>1, <1>2, CountedUp
<1>4. f \in [0..n -> T] /\ f[0] = << >> /\ \A k \in 1..n : f[k] = f[k - 1] \o Utf8OfPoint(p[k])
  <2>1. \A k \in 1..n : f[k - 1] \in T
    <3> HIDE DEF T
    <3> QED BY <1>3 DEF Counts
  <2>2. \A k \in 1..n : <<k, f[k - 1]>> \in (1..n) \X T /\ <<k, f[k - 1]>>[1] = k /\ <<k, f[k - 1]>>[2] = f[k - 1]
    BY <2>1
  <2>3. \A k \in 1..n : step[<<k, f[k - 1]>>] = f[k - 1] \o Utf8OfPoint(p[k])
    <3> HIDE DEF T, n
    <3> QED BY <2>2
  <2> HIDE DEF T, n, step
  <2> QED BY <1>3, <2>3 DEF Counts
<1> DEFINE Is(g) == g = [k \in 0..n |-> IF k = 0 THEN << >> ELSE g[k - 1] \o Utf8OfPoint(p[k])]
           upto == CHOOSE g : Is(g)
<1>5. Is(f)
  <2> HIDE DEF T
  <2> QED BY <1>1, <1>4
<1>6. Is(upto)
  <2> HIDE DEF Is
  <2> QED BY <1>5
<1>7. Utf8(p) = upto[n]
  BY DEF Utf8
<1> HIDE DEF upto
<1>8. upto[0] = << >> /\ \A k \in 1..n : upto[k] = upto[k - 1] \o Utf8OfPoint(p[k])
  BY <1>1, <1>6
<1>9. upto \in [0..n -> T]
  <2> DEFINE good == {k \in 0..n : upto[k] \in T}
  <2>1. 0 \in good
    <3> HIDE DEF T, n
    <3>1. 0 \in 0..n
      BY <1>1
    <3> QED BY <3>1, <1>1, <1>8
  <2>2. ASSUME NEW k \in Nat, k < n, k \in good PROVE k + 1 \in good
    <3>1. k + 1 \in 1..n /\ (k + 1) - 1 = k /\ upto[k] \in T
      BY <1>1, <2>2
    <3>2. p[k + 1] \in Codes
      BY <3>1
    <3>3. Utf8OfPoint(p[k + 1]) \in Seq(CharByte)
      BY <3>2, PointBytes
    <3>4. upto[k + 1] = upto[k] \o Utf8OfPoint(p[k + 1])
      BY <1>8, <3>1
    <3>5. upto[k] \o Utf8OfPoint(p[k + 1]) \in T
      BY <3>1, <3>3
    <3> HIDE DEF T, n
    <3>6. k + 1 \in 0..n
      BY <1>1, <3>1
    <3> QED BY <3>4, <3>5, <3>6
  <2> HIDE DEF good, T
  <2>3. \A k \in 0..n : k \in good
    BY <1>1, <2>1, <2>2, Upwards
  <2>4. \A k \in 0..n : upto[k] \in T
    BY <2>3 DEF good
  <2> QED BY <1>6, <2>4
<1> QED BY <1>7, <1>8, <1>9

\* Strings of bytes can be concatenated in either order.
LEMMA BytesAssociate ==
  ASSUME NEW a \in Seq(CharByte), NEW b \in Seq(CharByte), NEW c \in Seq(CharByte)
  PROVE  (a \o b) \o c = a \o (b \o c)
BY ConcatAssociative

\* The bytes of the first point come first.
LEMMA Utf8First ==
  ASSUME NEW c \in Codes, NEW q \in Seq(Codes)
  PROVE  Utf8(<<c>> \o q) = Utf8OfPoint(c) \o Utf8(q)
<1> DEFINE p == <<c>> \o q
           n == Len(q)
           b == Utf8OfPoint(c)
<1>1. p \in Seq(Codes) /\ Len(p) = n + 1 /\ p[1] = c /\ \A k \in 1..n : p[k + 1] = q[k]
  OBVIOUS
<1>2. b \in Seq(CharByte) /\ n \in Nat
  BY PointBytes
<1> HIDE DEF p, n, b
<1>3. PICK f \in [0..Len(p) -> Seq(CharByte)] :
        /\ f[0] = << >> /\ Utf8(p) = f[Len(p)]
        /\ \A k \in 1..Len(p) : f[k] = f[k - 1] \o Utf8OfPoint(p[k])
  BY <1>1, Utf8Steps
<1>4. PICK g \in [0..n -> Seq(CharByte)] :
        /\ g[0] = << >> /\ Utf8(q) = g[n]
        /\ \A k \in 1..n : g[k] = g[k - 1] \o Utf8OfPoint(q[k])
  BY Utf8Steps DEF n
<1> DEFINE good == {k \in 0..n : f[k + 1] = b \o g[k]}
<1>5. 0 \in good
  <2>1. 1 \in 1..Len(p) /\ 1 - 1 = 0 /\ 0 + 1 = 1 /\ 0 \in 0..n
    BY <1>1, <1>2
  <2>2. f[1] = << >> \o b
    BY <1>1, <1>3, <2>1 DEF b
  <2>3. << >> \o b = b /\ b \o << >> = b
    BY <1>2
  <2> QED BY <1>4, <2>1, <2>2, <2>3
<1>6. ASSUME NEW k \in Nat, k < n, k \in good PROVE k + 1 \in good
  <2>1. /\ k + 1 \in 1..n /\ (k + 1) - 1 = k /\ (k + 1) + 1 \in 1..Len(p) /\ ((k + 1) + 1) - 1 = k + 1
        /\ k \in 0..n /\ k + 1 \in 0..n
    BY <1>1, <1>2, <1>6
  <2> DEFINE x == Utf8OfPoint(q[k + 1])
  <2>2. x \in Seq(CharByte)
    <3>1. q[k + 1] \in Codes
      BY <2>1 DEF n
    <3> QED BY <3>1, PointBytes
  <2>3. f[(k + 1) + 1] = f[k + 1] \o x /\ g[k + 1] = g[k] \o x
    BY <1>1, <1>3, <1>4, <2>1
  <2>4. f[k + 1] = b \o g[k] /\ g[k] \in Seq(CharByte)
    BY <1>4, <1>6, <2>1
  <2> HIDE DEF x
  <2>5. (b \o g[k]) \o x = b \o (g[k] \o x)
    BY <1>2, <2>2, <2>4, BytesAssociate
  <2> QED BY <2>1, <2>3, <2>4, <2>5
<1>7. n \in good
  <2> HIDE DEF good
  <2>1. \A k \in 0..n : k \in good
    BY <1>2, <1>5, <1>6, Upwards
  <2>2. n \in 0..n
    BY <1>2
  <2> QED BY <2>1, <2>2
<1> QED BY <1>1, <1>3, <1>4, <1>7 DEF p, b

\* Induction from the end of a sequence.
LEMMA Backwards ==
  ASSUME NEW n \in Nat, NEW holds, n + 1 \in holds,
         \A k \in 1..n : (\A i \in k + 1..n + 1 : i \in holds) => k \in holds
  PROVE  \A k \in 1..n + 1 : k \in holds
<1> DEFINE good == {j \in 0..n : \A i \in n + 1 - j..n + 1 : i \in holds}
<1>1. 0 \in good
  BY ONLY n \in Nat, n + 1 \in holds
<1>2. ASSUME NEW j \in Nat, j < n, j \in good PROVE j + 1 \in good
  <2> DEFINE k == n + 1 - (j + 1)
  <2>1. k \in 1..n /\ k + 1 = n + 1 - j /\ j + 1 \in 0..n
    BY <1>2
  <2>2. \A i \in k + 1..n + 1 : i \in holds
    BY <1>2, <2>1
  <2> HIDE DEF k
  <2>3. k \in holds
    BY <2>1, <2>2
  <2>4. \A i \in k..n + 1 : i \in holds
    BY <2>1, <2>2, <2>3
  <2> QED BY <2>1, <2>4 DEF k
<1>3. n \in good
  <2> HIDE DEF good
  <2> QED BY <1>1, <1>2, Upwards
<1> QED BY <1>3

\* The front of the rest of a sequence.
IsRest(r, s, p) == SubSeq(s, p + 1, Len(s)) = r

\* What comes first in the rest of a string stands at the place, and the rest of that follows it.
LEMMA FrontOfRest ==
  ASSUME NEW s \in Seq(Nat), NEW p \in 0..Len(s), NEW b \in Seq(Nat), NEW r \in Seq(Nat),
         IsRest(b \o r, s, p)
  PROVE  p + Len(b) \in 0..Len(s) /\ StandsAt(b, s, p + 1) /\ IsRest(r, s, p + Len(b))
<1> DEFINE t == b \o r
           l == Len(b)
           lr == Len(r)
           m == Len(s)
<1>1. t \in Seq(Nat) /\ IsJoin(t, b, r)
  BY Joined
<1>2. Len(t) = m - p /\ \A k \in 1..m - p : t[k] = s[p + k]
  <2>1. t = SubSeq(s, p + 1, m)
    BY Zenon DEF IsRest
  <2>2. m \in Nat /\ p \in Nat /\ p <= m
    OBVIOUS
  <2> HIDE DEF t
  <2> QED BY ONLY <2>1, <2>2, s \in Seq(Nat)
<1>3. l \in Nat /\ lr \in Nat /\ m \in Nat /\ p \in Nat /\ p <= m
  OBVIOUS
<1> HIDE DEF t, l, lr, m
<1>4. /\ Len(t) = l + lr
      /\ \A k \in 1..l : t[k] = b[k]
      /\ \A k \in 1..lr : t[l + k] = r[k]
  BY <1>1 DEF IsJoin, l, lr
<1>5. p + l \in 0..m /\ (p + l) + lr = m
  <2>1. l + lr = m - p
    BY ONLY <1>2, <1>4
  <2> QED BY ONLY <1>3, <2>1
<1>6. \A j \in 1..l : s[p + j] = b[j]
  <2> SUFFICES ASSUME NEW j \in 1..l PROVE s[p + j] = b[j]
    OBVIOUS
  <2>1. j \in 1..m - p
    BY ONLY <1>3, <1>5, j \in 1..l
  <2> QED BY ONLY <1>2, <1>4, <2>1, j \in 1..l
<1>7. \A j \in 1..lr : s[(p + l) + j] = r[j]
  <2> SUFFICES ASSUME NEW j \in 1..lr PROVE s[(p + l) + j] = r[j]
    OBVIOUS
  <2>1. l + j \in 1..m - p /\ p + (l + j) = (p + l) + j
    BY ONLY <1>3, <1>5, j \in 1..lr
  <2>2. t[l + j] = s[p + (l + j)] /\ t[l + j] = r[j]
    BY ONLY <1>2, <1>4, <2>1, j \in 1..lr
  <2> QED BY ONLY <2>1, <2>2
<1>8. SubSeq(s, (p + l) + 1, m) = r
  <2> DEFINE k == p + l
  <2>1. k \in Nat /\ k + Len(r) = m /\ m = Len(s) /\ m \in Nat
    BY <1>3, <1>5 DEF lr, m
  <2>2. \A j \in 1..Len(r) : s[k + j] = r[j]
    BY <1>7 DEF lr
  <2> HIDE DEF k
  <2>3. SubSeq(s, k + 1, k + Len(r)) = r
    <3>1. k + Len(r) <= Len(s)
      BY ONLY <2>1
    <3> QED BY <2>1, <2>2, <3>1, PieceIs
  <2>4. SubSeq(s, k + 1, m) = r
    BY ONLY <2>1, <2>3, Zenon
  <2> QED BY ONLY <2>4, Zenon DEF k
<1>9. StandsAt(b, s, p + 1)
  <2> SUFFICES ASSUME NEW j \in 1..Len(b) PROVE s[(p + 1) + j - 1] = b[j]
    BY DEF StandsAt
  <2>1. (p + 1) + j - 1 = p + j
    BY <1>3
  <2> QED BY <1>6, <2>1 DEF l
<1> QED BY <1>5, <1>8, <1>9 DEF l, m, IsRest

\* Characters of a string are numbers.
LEMMA BytesAreNumbers ==
  ASSUME NEW s \in Seq(CharByte)
  PROVE  s \in Seq(Nat)
<1>1. CharByte \subseteq Nat
  BY DEF CharByte
<1> QED BY <1>1, SeqWider

\* UTF-8 is a string of bytes without NUL.
LEMMA Utf8Bytes ==
  ASSUME NEW p \in Seq(Codes)
  PROVE  Utf8(p) \in Seq(CharByte) /\ Utf8(p) \in Seq(Nat)
<1>1. PICK f \in [0..Len(p) -> Seq(CharByte)] : Utf8(p) = f[Len(p)]
  BY Utf8Steps
<1>2. Len(p) \in 0..Len(p)
  OBVIOUS
<1>3. Utf8(p) \in Seq(CharByte)
  BY ONLY <1>1, <1>2
<1> QED BY <1>3, BytesAreNumbers

\* No unit is both halves of a pair.
LEMMA LowNotHigh ==
  ASSUME NEW a, Low(a)
  PROVE  ~High(a)
<1>1. a \in Int /\ a >= 56320
  BY SMT DEF Low
<1>2. ~(a \in 55296..56319)
  BY ONLY <1>1, SMT
<1> QED BY ONLY <1>2, SMT DEF High

\* What stands at a place of paired units, and where the next place is.
Standing(u, k) == k = Len(u) + 1 \/ ~Low(u[k])

\* From a place where a point begins, the units are those of the point and then the rest.
LEMMA PlaceHere ==
  ASSUME NEW u \in Seq(Unit), Paired(u), NEW k \in 1..Len(u), Standing(u, k)
  PROVE  /\ PointHere(u, k) \in Codes
         /\ k + UnitsHere(u, k) \in k + 1..Len(u) + 1 /\ Standing(u, k + UnitsHere(u, k))
         /\ UnitsOf(PointHere(u, k)) \o SubSeq(u, k + UnitsHere(u, k), Len(u)) = SubSeq(u, k, Len(u))
<1>1. u[k] \in Unit /\ u[k] \in Nat /\ Len(u) \in Nat
  <2>1. u[k] \in Unit /\ Len(u) \in Nat
    BY ONLY u \in Seq(Unit), k \in 1..Len(u)
  <2>2. u[k] \in Nat
    BY ONLY <2>1, SMT DEF Unit
  <2> QED BY <2>1, <2>2
<1>2. CASE High(u[k])
  <2>1. k < Len(u) /\ Low(u[k + 1]) /\ k + 1 \in 1..Len(u)
    BY <1>2 DEF Paired
  <2>2. u[k + 1] \in Nat
    <3>1. u[k + 1] \in Unit
      BY ONLY <2>1, u \in Seq(Unit)
    <3> QED BY ONLY <3>1, SMT DEF Unit
  <2>3. UnitsHere(u, k) = 2 /\ PointHere(u, k) = PairPoint(u[k], u[k + 1])
    BY <1>2 DEF UnitsHere, PointHere
  <2>4. PairPoint(u[k], u[k + 1]) \in Codes /\ UnitsOf(PairPoint(u[k], u[k + 1])) = <<u[k], u[k + 1]>>
    BY <1>1, <1>2, <2>1, <2>2, PairBack, SMT DEF Codes
  <2>5. Standing(u, k + 2)
    <3>1. ASSUME k + 2 \in 1..Len(u) PROVE ~Low(u[k + 2])
      <4>1. Low(u[k + 2]) => High(u[(k + 2) - 1])
        BY <3>1 DEF Paired
      <4>2. (k + 2) - 1 = k + 1
        OBVIOUS
      <4>3. ~High(u[k + 1])
        BY <2>1, LowNotHigh
      <4> QED BY <4>1, <4>2, <4>3
    <3>2. k + 2 = Len(u) + 1 \/ k + 2 \in 1..Len(u)
      BY <1>1, <2>1
    <3> QED BY <3>1, <3>2 DEF Standing
  <2>6. <<u[k], u[k + 1]>> \o SubSeq(u, k + 2, Len(u)) = SubSeq(u, k, Len(u))
    BY <1>1, <2>1
  <2> QED BY <1>1, <2>1, <2>3, <2>4, <2>5, <2>6
<1>3. CASE ~High(u[k])
  <2>1. UnitsHere(u, k) = 1 /\ PointHere(u, k) = u[k]
    BY <1>3 DEF UnitsHere, PointHere
  <2>2. u[k] \in Codes /\ UnitsOf(u[k]) = <<u[k]>>
    BY ONLY <1>1, SMT DEF Codes, UnitsOf, Unit
  <2>3. Standing(u, k + 1)
    <3>1. ASSUME k + 1 \in 1..Len(u) PROVE ~Low(u[k + 1])
      <4>1. Low(u[k + 1]) => High(u[(k + 1) - 1])
        BY <3>1 DEF Paired
      <4>2. (k + 1) - 1 = k
        OBVIOUS
      <4> QED BY <1>3, <4>1, <4>2
    <3>2. k + 1 = Len(u) + 1 \/ k + 1 \in 1..Len(u)
      BY <1>1
    <3> QED BY <3>1, <3>2 DEF Standing
  <2>4. <<u[k]>> \o SubSeq(u, k + 1, Len(u)) = SubSeq(u, k, Len(u))
    BY <1>1
  <2> QED BY <1>1, <2>1, <2>2, <2>3, <2>4
<1> QED BY <1>2, <1>3

\* Points are code points.
LEMMA PointsAreCodes ==
  ASSUME NEW u \in Seq(Unit), Paired(u), NEW f, PointsFrom(f, u)
  PROVE  \A k \in 1..Len(u) + 1 : Standing(u, k) => f[k] \in Seq(Codes)
<1> DEFINE n == Len(u)
           holds == {k \in 1..n + 1 : Standing(u, k) => f[k] \in Seq(Codes)}
<1>1. n + 1 \in holds /\ n \in Nat
  <2>1. f[n + 1] = << >> /\ << >> \in Seq(Codes) /\ n \in Nat
    BY DEF PointsFrom
  <2>2. n + 1 \in 1..n + 1
    BY <2>1
  <2> QED BY ONLY <2>1, <2>2, Zenon
<1>2. ASSUME NEW k \in 1..n, \A i \in k + 1..n + 1 : i \in holds PROVE k \in holds
  <2>1. SUFFICES ASSUME Standing(u, k) PROVE f[k] \in Seq(Codes)
    OBVIOUS
  <2> DEFINE next == k + UnitsHere(u, k)
  <2>2. PointHere(u, k) \in Codes /\ next \in k + 1..n + 1 /\ Standing(u, next)
    BY <2>1, PlaceHere
  <2>3. f[next] \in Seq(Codes)
    BY <1>2, <2>2
  <2>4. f[k] = <<PointHere(u, k)>> \o f[next]
    BY DEF PointsFrom
  <2> QED BY <2>2, <2>3, <2>4
<1>3. \A k \in 1..n + 1 : k \in holds
  <2> HIDE DEF holds, n
  <2> QED BY <1>1, <1>2, Backwards
<1> QED BY <1>3

\* UTF-16 that goes through UTF-8 comes back.
LEMMA WideBack ==
  ASSUME NEW u \in Seq(Unit), Paired(u)
  PROVE  Utf8(Points(u)) \in Seq(CharByte) /\ Utf16(Utf8(Points(u))) = u
<1> DEFINE n == Len(u)
           s == Utf8(Points(u))
<1>1. PICK f : PointsFrom(f, u) /\ Points(u) = f[1]
  BY PointsSteps
<1>2. Standing(u, 1) /\ 1 \in 1..n + 1
  BY DEF Standing, Paired
<1>3. \A k \in 1..n + 1 : Standing(u, k) => f[k] \in Seq(Codes)
  BY <1>1, PointsAreCodes
<1>4. s \in Seq(CharByte)
  <2>1. Points(u) \in Seq(Codes)
    BY <1>1, <1>2, <1>3
  <2> QED BY <2>1, Utf8Bytes
<1> HIDE DEF s
<1>5. s \in Seq(Nat)
  BY <1>4, BytesAreNumbers
<1>6. PICK g : /\ Utf16(s) = g[1] /\ g[Len(s) + 1] = << >>
               /\ \A k \in 1..Len(s) : g[k] = UnitsOf(PointAt(s, k)) \o g[k + PointLen(s[k])]
  BY <1>5, Utf16Steps
<1> DEFINE Rest(p, k) == IsRest(Utf8(f[k]), s, p)
           holds == {k \in 1..n + 1 : Standing(u, k) =>
                       \A p \in 0..Len(s) : Rest(p, k) => g[p + 1] = SubSeq(u, k, n)}
<1>7. n + 1 \in holds
  <2>1. SUFFICES ASSUME NEW p \in 0..Len(s), Rest(p, n + 1) PROVE g[p + 1] = SubSeq(u, n + 1, n)
    OBVIOUS
  <2>2. f[n + 1] = << >>
    BY <1>1 DEF PointsFrom
  <2>3. Utf8(<< >>) = << >>
    <3>1. << >> \in Seq(Codes) /\ Len(<< >>) = 0
      OBVIOUS
    <3> QED BY <3>1, Utf8Steps
  <2>4. p = Len(s)
    <3>1. SubSeq(s, p + 1, Len(s)) = << >>
      BY <2>1, <2>2, <2>3 DEF IsRest
    <3> DEFINE m == Len(s)
    <3>2. m \in Nat /\ p \in 0..m
      BY <1>5
    <3>3. Len(SubSeq(s, p + 1, m)) = m - p
      BY <1>5
    <3>4. Len(<< >>) = 0
      OBVIOUS
    <3> HIDE DEF m
    <3>5. m - p = 0
      BY ONLY <3>1, <3>3, <3>4, Zenon DEF m
    <3> QED BY ONLY <3>2, <3>5 DEF m
  <2>5. SubSeq(u, n + 1, n) = << >>
    OBVIOUS
  <2> QED BY <1>6, <2>4, <2>5
<1>8. ASSUME NEW k \in 1..n, \A i \in k + 1..n + 1 : i \in holds PROVE k \in holds
  <2>1. SUFFICES ASSUME Standing(u, k), NEW p \in 0..Len(s), Rest(p, k) PROVE g[p + 1] = SubSeq(u, k, n)
    BY <1>8
  <2> DEFINE next == k + UnitsHere(u, k)
             c == PointHere(u, k)
             b == Utf8OfPoint(c)
             r == Utf8(f[next])
  <2>2. /\ c \in Codes /\ next \in k + 1..n + 1 /\ Standing(u, next)
        /\ UnitsOf(c) \o SubSeq(u, next, n) = SubSeq(u, k, n)
    BY <2>1, PlaceHere
  <2>3. f[next] \in Seq(Codes) /\ f[k] = <<c>> \o f[next]
    <3>1. next \in 1..n + 1
      BY <2>2
    <3> QED BY <1>1, <1>3, <2>2, <3>1 DEF PointsFrom
  <2> HIDE DEF c, next
  <2>4. Utf8(f[k]) = b \o r
    BY <2>2, <2>3, Utf8First
  <2>5. b \in Seq(Nat) /\ Len(b) \in 1..4 /\ r \in Seq(Nat)
    <3>1. b \in Seq(CharByte) /\ Len(b) \in 1..4
      BY <2>2, PointBytes
    <3>2. r \in Seq(Nat)
      BY <2>3, Utf8Bytes
    <3>3. b \in Seq(Nat)
      BY <3>1, BytesAreNumbers
    <3> QED BY <3>1, <3>2, <3>3
  <2> HIDE DEF b, r
  <2>6. p + Len(b) \in 0..Len(s) /\ StandsAt(b, s, p + 1) /\ IsRest(r, s, p + Len(b))
    <3>1. IsRest(b \o r, s, p)
      BY <2>1, <2>4
    <3> QED BY ONLY <1>5, <2>5, <3>1, FrontOfRest, p \in 0..Len(s)
  <2>7. PointLen(s[p + 1]) = Len(b) /\ PointAt(s, p + 1) = c
    <3>1. c \in Codes /\ p + 1 \in Nat
      BY ONLY <2>2, p \in 0..Len(s), <1>5
    <3>2. StandsAt(Utf8OfPoint(c), s, p + 1)
      BY ONLY <2>6 DEF b
    <3> QED BY ONLY <3>1, <3>2, PointBack, SMT DEF b
  <2>8. p + 1 \in 1..Len(s) /\ (p + 1) + Len(b) = (p + Len(b)) + 1
    <3> DEFINE l == Len(b)
               m == Len(s)
    <3>1. l \in 1..4 /\ m \in Nat /\ p + l \in 0..m /\ p \in 0..m
      BY <1>5, <2>5, <2>6
    <3> HIDE DEF l, m
    <3>2. p + 1 \in 1..m /\ (p + 1) + l = (p + l) + 1
      BY ONLY <3>1
    <3> QED BY ONLY <3>2 DEF l, m
  <2>9. g[p + 1] = UnitsOf(c) \o g[(p + Len(b)) + 1]
    BY <1>6, <2>7, <2>8
  <2>10. g[(p + Len(b)) + 1] = SubSeq(u, next, n)
    <3>1. next \in holds /\ Rest(p + Len(b), next)
      BY <1>8, <2>2, <2>6 DEF r
    <3> QED BY <2>2, <2>6, <3>1
  <2> QED BY <2>2, <2>9, <2>10
<1>9. \A k \in 1..n + 1 : k \in holds
  <2>1. n \in Nat
    OBVIOUS
  <2> HIDE DEF holds, n
  <2> QED BY <1>7, <1>8, <2>1, Backwards
<1>10. g[1] = SubSeq(u, 1, n)
  <2>1. Rest(0, 1) /\ 0 \in 0..Len(s) /\ 0 + 1 = 1
    <3>1. SubSeq(s, 0 + 1, Len(s)) = s /\ 0 \in 0..Len(s)
      BY ONLY <1>5
    <3>2. s = Utf8(f[1])
      BY <1>1 DEF s
    <3>3. 0 + 1 = 1
      OBVIOUS
    <3> QED BY ONLY <3>1, <3>2, <3>3, Zenon DEF IsRest
  <2>2. 1 \in holds
    BY <1>2, <1>9
  <2> QED BY <1>2, <2>1, <2>2
<1>11. SubSeq(u, 1, n) = u
  OBVIOUS
<1> QED BY <1>4, <1>6, <1>10, <1>11 DEF s

-----------------------------------------------------------------------------
(* Lines of pieces *)

\* s is made of the pieces of the first n characters of d; piece k ends at h[k].
IsLayout(s, d, n, h, code) ==
  /\ h \in [0..n -> Nat] /\ h[0] = 0 /\ h[n] = Len(s)
  /\ \A k \in 0..n : k < n => h[k] < h[n]
  /\ \A k \in 1..n : /\ h[k] = h[k - 1] + Len(code[d[k]]) /\ h[k] <= h[n]
                     /\ StandsAt(code[d[k]], s, h[k - 1] + 1)

Spells(s, d, n, code) == s \in Seq(CharByte) /\ \E h : IsLayout(s, d, n, h, code)

\* A code has a piece for every character.
IsCode(code) == \A c \in CharByte : code[c] \in Seq(CharByte) /\ Len(code[c]) >= 1

\* Where pieces stand they still stand when something is appended.
LEMMA StandsLonger ==
  ASSUME NEW q \in Seq(CharByte), NEW s \in Seq(CharByte), NEW t \in Seq(CharByte), NEW k \in Nat,
         StandsAt(q, s, k + 1), k + Len(q) <= Len(s)
  PROVE  StandsAt(q, s \o t, k + 1)
<1> DEFINE u == s \o t
           m == Len(s)
           l == Len(q)
<1>1. IsJoin(u, s, t) /\ m \in Nat /\ l \in Nat /\ k + l <= m
  BY Joined
<1> HIDE DEF u
<1>2. ASSUME NEW j \in 1..Len(q) PROVE u[(k + 1) + j - 1] = q[j]
  <2>1. s[(k + 1) + j - 1] = q[j]
    BY DEF StandsAt
  <2>2. (k + 1) + j - 1 \in 1..Len(s)
    BY <1>1
  <2> QED BY ONLY <1>1, <2>1, <2>2 DEF IsJoin
<1> QED BY <1>2 DEF StandsAt, u

\* What is appended stands at the end.
LEMMA StandsLast ==
  ASSUME NEW s \in Seq(CharByte), NEW t \in Seq(CharByte)
  PROVE  StandsAt(t, s \o t, Len(s) + 1)
<1> DEFINE u == s \o t
<1>1. IsJoin(u, s, t) /\ Len(s) \in Nat
  BY Joined
<1> HIDE DEF u
<1>2. ASSUME NEW j \in 1..Len(t) PROVE u[(Len(s) + 1) + j - 1] = t[j]
  <2>1. u[Len(s) + j] = t[j]
    BY <1>1 DEF IsJoin
  <2>2. (Len(s) + 1) + j - 1 = Len(s) + j
    BY <1>1
  <2> QED BY <2>1, <2>2
<1> QED BY <1>2 DEF StandsAt, u

\* The empty sequence spells nothing.
LEMMA SpellsNothing ==
  ASSUME NEW d, NEW code
  PROVE  Spells(<< >>, d, 0, code)
<1> DEFINE h == [k \in 0..0 |-> 0]
<1>1. h \in [0..0 -> Nat] /\ h[0] = 0 /\ Len(<< >>) = 0 /\ << >> \in Seq(CharByte)
  OBVIOUS
<1>2. IsLayout(<< >>, d, 0, h, code)
  <2> HIDE DEF h
  <2>1. \A k \in 0..0 : ~(k < 0)
    OBVIOUS
  <2>2. \A k \in 1..0 : FALSE
    OBVIOUS
  <2> QED BY ONLY <1>1, <2>1, <2>2, Zenon DEF IsLayout
<1> QED BY <1>1, <1>2 DEF Spells

\* One character more.
LEMMA SpellsMore ==
  ASSUME NEW code, IsCode(code), NEW d \in Seq(CharByte), NEW n \in Nat, n < Len(d), NEW s, Spells(s, d, n, code)
  PROVE  Spells(s \o code[d[n + 1]], d, n + 1, code)
<1> DEFINE q == code[d[n + 1]]
           l == Len(q)
           m == Len(s)
           u == s \o q
<1>1. PICK h : IsLayout(s, d, n, h, code)
  BY DEF Spells
<1>2. s \in Seq(CharByte) /\ q \in Seq(CharByte) /\ l \in Nat /\ l >= 1 /\ m \in Nat
  <2>1. d[n + 1] \in CharByte
    OBVIOUS
  <2> QED BY <2>1 DEF IsCode, Spells
<1> DEFINE g == [k \in 0..n + 1 |-> IF k = n + 1 THEN m + l ELSE h[k]]
<1> HIDE DEF q, l
<1>3. u \in Seq(CharByte) /\ Len(u) = m + l /\ StandsAt(q, u, m + 1)
  BY <1>2, StandsLast DEF l
<1> HIDE DEF u
<1>4. g[n + 1] = m + l /\ \A k \in 0..n : g[k] = h[k]
  <2> HIDE DEF m
  <2> QED OBVIOUS
<1>5. g \in [0..n + 1 -> Nat]
  <2>1. \A k \in 0..n : h[k] \in Nat
    BY <1>1 DEF IsLayout
  <2> HIDE DEF m
  <2> QED BY <1>2, <2>1
<1>6. g[0] = 0 /\ g[n] = m
  <2>1. 0 \in 0..n /\ n \in 0..n /\ h[0] = 0 /\ h[n] = m
    BY <1>1 DEF IsLayout
  <2> QED BY ONLY <1>4, <2>1, Zenon
<1>7. \A k \in 0..n : h[k] \in Nat /\ h[k] <= m
  <2> SUFFICES ASSUME NEW k \in 0..n PROVE h[k] \in Nat /\ h[k] <= m
    OBVIOUS
  <2>1. h[k] \in Nat /\ h[n] = m /\ (k < n => h[k] < h[n])
    BY <1>1 DEF IsLayout
  <2>2. k = n \/ k < n
    OBVIOUS
  <2> HIDE DEF m
  <2> QED BY ONLY <2>1, <2>2, <1>2
<1> HIDE DEF g, m
<1>8. \A k \in 0..n + 1 : k < n + 1 => g[k] < g[n + 1]
  <2> SUFFICES ASSUME NEW k \in 0..n + 1, k < n + 1 PROVE g[k] < g[n + 1]
    OBVIOUS
  <2>1. k \in 0..n
    OBVIOUS
  <2>2. g[k] = h[k] /\ h[k] \in Nat /\ h[k] <= m
    BY ONLY <1>4, <1>7, <2>1
  <2> QED BY ONLY <1>2, <1>4, <2>2
<1>9. ASSUME NEW k \in 1..n + 1
      PROVE  g[k] = g[k - 1] + Len(code[d[k]]) /\ g[k] <= g[n + 1] /\ StandsAt(code[d[k]], u, g[k - 1] + 1)
  <2>1. CASE k = n + 1
    <3>1. k - 1 = n /\ g[k - 1] = m /\ g[k] = m + l /\ code[d[k]] = q
      BY <2>1, <1>4, <1>6 DEF q
    <3>2. m + l <= m + l
      BY ONLY <1>2
    <3> QED BY ONLY <1>3, <1>4, <3>1, <3>2, Zenon DEF l
  <2>2. CASE k # n + 1
    <3>1. k \in 1..n /\ k \in 0..n /\ k - 1 \in 0..n
      BY <2>2
    <3>2. g[k] = h[k] /\ g[k - 1] = h[k - 1]
      BY ONLY <1>4, <3>1
    <3>3. h[k] = h[k - 1] + Len(code[d[k]]) /\ StandsAt(code[d[k]], s, h[k - 1] + 1)
      BY <1>1, <3>1 DEF IsLayout
    <3>4. h[k] \in Nat /\ h[k] <= m /\ h[k - 1] \in Nat
      BY <1>7, <3>1
    <3>5. g[k] <= g[n + 1]
      BY ONLY <1>2, <1>4, <3>2, <3>4
    <3>6. code[d[k]] \in Seq(CharByte)
      <4>1. d[k] \in CharByte
        BY <3>1
      <4> QED BY <4>1 DEF IsCode
    <3>7. StandsAt(code[d[k]], u, h[k - 1] + 1)
      <4>1. h[k - 1] + Len(code[d[k]]) <= Len(s)
        BY ONLY <3>3, <3>4 DEF m
      <4> QED BY <1>2, <3>3, <3>4, <3>6, <4>1, StandsLonger DEF u
    <3> QED BY ONLY <3>2, <3>3, <3>5, <3>7, Zenon
  <2> QED BY <2>1, <2>2
<1>10. IsLayout(u, d, n + 1, g, code)
  BY ONLY <1>3, <1>4, <1>5, <1>6, <1>8, <1>9, Zenon DEF IsLayout
<1>11. Spells(u, d, n + 1, code)
  BY ONLY <1>3, <1>10, Zenon DEF Spells
<1> QED BY <1>11 DEF u, q

\* text spells o, and out has the characters up to the place the loop has reached.
Follows(s, o, i, done, code) ==
  /\ done \in Seq(CharByte) /\ Len(done) <= Len(o)
  /\ \A k \in 1..Len(done) : done[k] = o[k]
  /\ s \in Seq(CharByte) /\ \E h : IsLayout(s, o, Len(o), h, code) /\ i = h[Len(done)]

\* Before the first round nothing is done.
LEMMA FollowsFirst ==
  ASSUME NEW code, NEW o \in Seq(CharByte), NEW s, Spells(s, o, Len(o), code)
  PROVE  Follows(s, o, 0, << >>, code)
<1>1. PICK h : IsLayout(s, o, Len(o), h, code)
  BY DEF Spells
<1>2. << >> \in Seq(CharByte) /\ Len(<< >>) = 0 /\ 0 <= Len(o) /\ \A k \in 1..0 : FALSE
  OBVIOUS
<1>3. 0 = h[0] /\ s \in Seq(CharByte)
  BY <1>1 DEF IsLayout, Spells
<1> QED BY ONLY <1>1, <1>2, <1>3, Zenon DEF Follows

\* The next character, and where its piece ends.
LEMMA FollowsNext ==
  ASSUME NEW code, IsCode(code), NEW o \in Seq(CharByte), NEW s, NEW i, NEW done, Follows(s, o, i, done, code),
         i < Len(s)
  PROVE  LET c == o[Len(done) + 1] IN
         /\ c \in CharByte /\ i \in Nat /\ i + Len(code[c]) <= Len(s) /\ StandsAt(code[c], s, i + 1)
         /\ Follows(s, o, i + Len(code[c]), Append(done, c), code)
<1> DEFINE n == Len(o)
           m == Len(done)
           c == o[m + 1]
           more == Append(done, c)
<1>1. PICK h : IsLayout(s, o, n, h, code) /\ i = h[m]
  BY DEF Follows
<1>2. n \in Nat /\ m \in Nat /\ m <= n /\ done \in Seq(CharByte) /\ s \in Seq(CharByte)
  BY DEF Follows
<1>3. m < n
  <2>1. h[n] = Len(s) /\ h[m] < Len(s)
    BY <1>1 DEF IsLayout
  <2>2. h[n] \in Nat
    <3>1. n \in 0..n
      BY <1>2
    <3> QED BY <1>1, <3>1 DEF IsLayout
  <2>3. m # n
    <3> HIDE DEF m, n
    <3> QED BY ONLY <2>1, <2>2
  <2> HIDE DEF m, n
  <2> QED BY ONLY <1>2, <2>3
<1>4. m + 1 \in 1..n /\ m \in 0..n /\ (m + 1) - 1 = m
  BY <1>2, <1>3
<1>5. c \in CharByte
  BY <1>4
<1>6. /\ h[m + 1] = h[m] + Len(code[c]) /\ StandsAt(code[c], s, h[m] + 1) /\ h[m + 1] <= h[n] /\ h[n] = Len(s)
      /\ h[m] \in Nat
  <2> HIDE DEF m, n
  <2> QED BY ONLY <1>1, <1>4 DEF IsLayout, c
<1>7. more \in Seq(CharByte) /\ Len(more) = m + 1 /\ more[m + 1] = c /\ \A k \in 1..m : more[k] = done[k]
  <2> HIDE DEF c
  <2> QED BY <1>2, <1>5
<1>8. \A k \in 1..m : done[k] = o[k]
  BY DEF Follows
<1> HIDE DEF more, m, n
<1>9. \A k \in 1..m + 1 : more[k] = o[k]
  <2> SUFFICES ASSUME NEW k \in 1..m + 1 PROVE more[k] = o[k]
    OBVIOUS
  <2>1. CASE k = m + 1
    BY <1>7, <2>1 DEF c
  <2>2. CASE k # m + 1
    <3>1. k \in 1..m
      BY <1>2, <2>2
    <3> QED BY ONLY <1>7, <1>8, <3>1
  <2> QED BY <2>1, <2>2
<1>10. Follows(s, o, i + Len(code[c]), more, code)
  <2>1. Len(more) <= Len(o)
    BY <1>4, <1>7 DEF n
  <2>2. \A k \in 1..Len(more) : more[k] = o[k]
    BY <1>7, <1>9
  <2>3. i + Len(code[c]) = h[Len(more)]
    BY ONLY <1>1, <1>6, <1>7, Zenon
  <2>4. IsLayout(s, o, Len(o), h, code)
    BY <1>1 DEF n
  <2> HIDE DEF c
  <2> QED BY ONLY <1>2, <1>7, <2>1, <2>2, <2>3, <2>4, Zenon DEF Follows
<1>11. i \in Nat /\ i + Len(code[c]) <= Len(s) /\ StandsAt(code[c], s, i + 1)
  <2>1. i + Len(code[c]) = h[m + 1] /\ h[m + 1] <= Len(s)
    BY ONLY <1>1, <1>6
  <2>2. i = h[m]
    BY <1>1
  <2> QED BY ONLY <1>6, <2>1, <2>2
<1> QED BY <1>5, <1>10, <1>11 DEF more, c, m

\* At the end of the text all characters have been seen.
LEMMA FollowsLast ==
  ASSUME NEW code, NEW o \in Seq(CharByte), NEW s, NEW i, NEW done, Follows(s, o, i, done, code), i >= Len(s)
  PROVE  done = o
<1> DEFINE n == Len(o)
           m == Len(done)
<1>1. PICK h : IsLayout(s, o, n, h, code) /\ i = h[m]
  BY DEF Follows
<1>2. n \in Nat /\ m \in Nat /\ m <= n /\ done \in Seq(CharByte) /\ s \in Seq(CharByte)
  BY DEF Follows
<1>3. m = n
  <2>1. h[n] = Len(s) /\ h[m] >= Len(s)
    BY <1>1 DEF IsLayout
  <2>2. h[m] \in Nat /\ h[n] \in Nat /\ (m < n => h[m] < h[n])
    <3>1. m \in 0..n /\ n \in 0..n
      BY <1>2
    <3> HIDE DEF m, n
    <3> QED BY ONLY <1>1, <3>1 DEF IsLayout
  <2>3. ~(m < n)
    <3> HIDE DEF m, n
    <3> QED BY ONLY <2>1, <2>2
  <2> HIDE DEF m, n
  <2> QED BY ONLY <1>2, <2>3
<1>4. \A k \in 1..Len(done) : done[k] = o[k]
  BY DEF Follows
<1> QED BY <1>2, <1>3, <1>4, SeqEqual

(* The two codes *)

Utf8Code == [c \in CharByte |-> Utf8Of(c)]
JsonCode == [c \in CharByte |-> Escaped(c)]

\* Every character has one or more bytes in UTF-8.
LEMMA Utf8IsCode == IsCode(Utf8Code)
<1> SUFFICES ASSUME NEW c \in CharByte PROVE Utf8Of(c) \in Seq(CharByte) /\ Len(Utf8Of(c)) >= 1
  BY DEF IsCode, Utf8Code
<1>0. c \in Nat /\ c >= 1 /\ c <= 255
  BY DEF CharByte
<1>1. CASE c < 128
  BY <1>0, <1>1 DEF Utf8Of
<1>2. CASE c >= 128
  <2> DEFINE x == 192 + c \div 64
             y == 128 + (c % 64)
  <2>1. x \in CharByte /\ y \in CharByte
    BY <1>0, <1>2 DEF CharByte
  <2>2. Utf8Of(c) = <<x, y>>
    BY <1>0, <1>2 DEF Utf8Of
  <2> HIDE DEF x, y
  <2> QED BY <2>1, <2>2
<1> QED BY <1>0, <1>1, <1>2

Controls == 1..31 \ {9, 10, 13}

\* Four characters and two are six.
LEMMA SixInARow ==
  ASSUME NEW a \in Nat, NEW b \in Nat, NEW c \in Nat, NEW d \in Nat, NEW x \in Nat, NEW y \in Nat
  PROVE  <<a, b, c, d>> \o <<x, y>> = <<a, b, c, d, x, y>>
<1> DEFINE s == <<a, b, c, d>>
           t == <<x, y>>
           u == s \o t
           w == <<a, b, c, d, x, y>>
<1>1. s \in Seq(Nat) /\ Len(s) = 4 /\ s[1] = a /\ s[2] = b /\ s[3] = c /\ s[4] = d
  OBVIOUS
<1>2. t \in Seq(Nat) /\ Len(t) = 2 /\ t[1] = x /\ t[2] = y
  OBVIOUS
<1>3. /\ w \in Seq(Nat) /\ Len(w) = 6 /\ w[1] = a /\ w[2] = b /\ w[3] = c /\ w[4] = d
      /\ w[5] = x /\ w[6] = y
  OBVIOUS
<1> HIDE DEF s, t, w
<1>4. u \in Seq(Nat) /\ IsJoin(u, s, t)
  BY <1>1, <1>2, Joined
<1> HIDE DEF u
<1>5. /\ Len(u) = 6 /\ u[1] = a /\ u[2] = b /\ u[3] = c /\ u[4] = d
      /\ u[4 + 1] = x /\ u[4 + 2] = y
  BY ONLY <1>1, <1>2, <1>4 DEF IsJoin
<1>6. \A k \in 1..Len(u) : u[k] = w[k]
  BY ONLY <1>3, <1>5
<1>7. u = w
  BY <1>3, <1>4, <1>5, <1>6, SeqEqual
<1> QED BY <1>7 DEF s, t, u, w

\* What escape makes of each kind of character.
LEMMA EscapedIs ==
  ASSUME NEW c \in CharByte
  PROVE  \/ c \in {34, 92} /\ Escaped(c) = <<92, c>>
         \/ c = 10 /\ Escaped(c) = <<92, 110>>
         \/ c = 13 /\ Escaped(c) = <<92, 114>>
         \/ c = 9 /\ Escaped(c) = <<92, 116>>
         \/ /\ c \in Controls
            /\ Escaped(c) = <<92, 117, 48, 48, HexDigit(c \div 16), HexDigit(c % 16)>>
         \/ c \in CharByte \ (1..31 \cup {34, 92}) /\ Escaped(c) = <<c>>
<1>0. c \in Nat
  BY DEF CharByte
<1>1. CASE c \in {34, 92}
  <2>0. c # 10 /\ c # 13 /\ c # 9 /\ c \notin 1..31 \ {9, 10, 13}
    BY <1>1
  <2>1. Escaped(c) = <<92, c>>
    BY ONLY <1>1, <2>0, Zenon DEF Escaped, Quote, Backslash
  <2> QED BY ONLY <1>1, <2>1, Zenon
<1>2. CASE c = 10
  BY <1>2 DEF Escaped, Quote, Backslash
<1>3. CASE c = 13
  BY <1>3 DEF Escaped, Quote, Backslash
<1>4. CASE c = 9
  BY <1>4 DEF Escaped, Quote, Backslash
<1>5. CASE c \in Controls
  <2>1. Escaped(c) = <<92, 117, 48, 48>> \o HexPair(c)
    BY <1>5 DEF Escaped, Quote, Backslash, Zero, Controls
  <2> DEFINE x == HexDigit(c \div 16)
             y == HexDigit(c % 16)
  <2>2. HexPair(c) = <<x, y>>
    BY DEF HexPair
  <2>3. x \in Nat /\ y \in Nat
    BY <1>0 DEF HexDigit, Zero
  <2> HIDE DEF x, y
  <2>4. <<92, 117, 48, 48>> \o <<x, y>> = <<92, 117, 48, 48, x, y>>
    BY <2>3, SixInARow
  <2> QED BY <1>5, <2>1, <2>2, <2>4 DEF x, y
<1>6. CASE c \in CharByte \ (1..31 \cup {34, 92})
  BY <1>6, <1>0 DEF Escaped, Quote, Backslash
<1> QED BY <1>0, <1>1, <1>2, <1>3, <1>4, <1>5, <1>6 DEF Controls

\* Every character has one or more bytes in a JSON string.
LEMMA JsonIsCode == IsCode(JsonCode)
<1> SUFFICES ASSUME NEW c \in CharByte PROVE Escaped(c) \in Seq(CharByte) /\ Len(Escaped(c)) >= 1
  BY DEF IsCode, JsonCode
<1> DEFINE x == HexDigit(c \div 16)
           y == HexDigit(c % 16)
<1>1. x \in CharByte /\ y \in CharByte
  BY DEF HexDigit, CharByte, Zero
<1>2. /\ 92 \in CharByte /\ 110 \in CharByte /\ 114 \in CharByte /\ 116 \in CharByte /\ 117 \in CharByte
      /\ 48 \in CharByte
  BY DEF CharByte
<1> HIDE DEF x, y
<1>3. \/ Escaped(c) = <<92, c>>
      \/ Escaped(c) = <<92, 110>>
      \/ Escaped(c) = <<92, 114>>
      \/ Escaped(c) = <<92, 116>>
      \/ Escaped(c) = <<92, 117, 48, 48, x, y>>
      \/ Escaped(c) = <<c>>
  BY EscapedIs DEF x, y
<1> DEFINE Good(s) == s \in Seq(CharByte) /\ Len(s) >= 1
<1>4. /\ Good(<<92, c>>) /\ Good(<<92, 110>>) /\ Good(<<92, 114>>) /\ Good(<<92, 116>>)
      /\ Good(<<92, 117, 48, 48, x, y>>) /\ Good(<<c>>)
  BY <1>1, <1>2
<1>5. Good(Escaped(c))
  <2> HIDE DEF Good
  <2> QED BY ONLY <1>3, <1>4, Zenon
<1> QED BY <1>5

-----------------------------------------------------------------------------
(* The loops over a string *)

\* The characters of a piece are what the loops look at.
LEMMA PieceChars ==
  ASSUME NEW q \in Seq(CharByte), NEW s \in Seq(CharByte), NEW i \in Nat, StandsAt(q, s, i + 1),
         i + Len(q) <= Len(s), NEW j \in 1..Len(q)
  PROVE  CharAt(s, i + j) = q[j]
<1>1. s[(i + 1) + j - 1] = q[j] /\ (i + 1) + j - 1 = i + j
  BY DEF StandsAt
<1>2. i + j <= Len(s)
  <2>1. Len(q) \in Nat /\ Len(s) \in Nat
    OBVIOUS
  <2> QED BY <2>1
<1> QED BY <1>1, <1>2 DEF CharAt

\* The loops of the way back take the character a piece stands for.
LEMMA LatinOne ==
  ASSUME NEW c \in CharByte, text \in Seq(CharByte), at \in Nat, StandsAt(Utf8Of(c), text, at + 1),
         at + Len(Utf8Of(c)) <= Len(text)
  PROVE  (IF Next1 < 128 THEN 1 ELSE 2) = Len(Utf8Of(c)) /\ Latin1Of(Next1, Next2) = c
<1> DEFINE q == Utf8Of(c)
<1>0. c \in Nat /\ c >= 1 /\ c <= 255
  BY DEF CharByte
<1>1. q \in Seq(CharByte)
  BY Utf8IsCode DEF IsCode, Utf8Code
<1>2. \A j \in 1..Len(q) : CharAt(text, at + j) = q[j]
  <2> HIDE DEF q
  <2> SUFFICES ASSUME NEW j \in 1..Len(q) PROVE CharAt(text, at + j) = q[j]
    OBVIOUS
  <2>1. StandsAt(q, text, at + 1) /\ at + Len(q) <= Len(text)
    BY DEF q
  <2> QED BY <1>1, <2>1, PieceChars
<1>3. CASE c < 128
  <2>1. q = <<c>>
    BY <1>3 DEF Utf8Of
  <2>2. Len(q) = 1 /\ q[1] = c /\ 1 \in 1..1
    BY <2>1
  <2> HIDE DEF q
  <2>3. Next1 = c
    BY ONLY <1>2, <2>2 DEF Next1
  <2> QED BY ONLY <1>0, <1>3, <2>2, <2>3 DEF Latin1Of, q
<1>4. CASE c >= 128
  <2> DEFINE a == c \div 64
             b == c % 64
  <2>1. a \in {2, 3} /\ b \in 0..63 /\ c = 64 * a + b
    BY <1>0, <1>4
  <2>2. q = <<192 + a, 128 + b>>
    BY <1>0, <1>4 DEF Utf8Of
  <2> HIDE DEF a, b
  <2>3. Len(q) = 2 /\ q[1] = 192 + a /\ q[2] = 128 + b /\ 1 \in 1..2 /\ 2 \in 1..2
    BY <2>2
  <2> HIDE DEF q
  <2>4. Next1 = 192 + a /\ Next2 = 128 + b
    BY ONLY <1>2, <2>3 DEF Next1, Next2
  <2>5. ~(Next1 < 128)
    BY ONLY <2>1, <2>4
  <2>6. ((Next1 * 64) % 256) + (Next2 % 64) = c
    BY ONLY <2>1, <2>4
  <2> QED BY ONLY <2>3, <2>5, <2>6 DEF Latin1Of, q
<1> QED BY <1>0, <1>3, <1>4

Short == {34, 92, 110, 114, 116}
ShortOf(c) == CASE c = 110 -> 10 [] c = 114 -> 13 [] c = 116 -> 9 [] OTHER -> c

\* The kinds of characters json11 tells apart.
Refused == {34} \cup 0..31

\* What the parser does at each kind of character.
LEMMA ParseCases ==
  ASSUME at \in Nat, Len(text) \in Nat, at < Len(text), ParseString
  PROVE  \/ Next1 \in Refused /\ Throw
         \/ Next1 = 92 /\ Next2 \notin Short \cup {117} /\ Throw
         \/ Next1 \notin {92} \cup Refused /\ Round("parse", 1, <<Next1>>)
         \/ Next1 = 92 /\ Next2 \in Short /\ Round("parse", 2, <<ShortOf(Next2)>>)
         \/ Next1 = 92 /\ Next2 = 117 /\ Round("parse", 6, <<ByteOfHex(CharAt(text, at + 5), CharAt(text, at + 6))>>)
<1> DEFINE short == [c \in {34, 92, 110, 114, 116} |->
                      CASE c = 110 -> 10 [] c = 114 -> 13 [] c = 116 -> 9 [] OTHER -> c]
<1>1. DOMAIN short = Short
  BY DEF Short
<1>2. Next2 \in Short => short[Next2] = ShortOf(Next2)
  BY DEF Short, ShortOf
<1>3. ~(at >= Len(text))
  OBVIOUS
<1>4. \/ Next1 \in {Quote} \cup 0..31 /\ Throw
      \/ Next1 = Backslash /\ Next2 \notin DOMAIN short \cup {117} /\ Throw
      \/ Next1 \notin {Quote, Backslash} \cup 0..31 /\ Round("parse", 1, <<Next1>>)
      \/ Next1 = Backslash /\ Next2 \in DOMAIN short /\ Round("parse", 2, <<short[Next2]>>)
      \/ /\ Next1 = Backslash /\ Next2 = 117
         /\ Round("parse", 6, <<ByteOfHex(CharAt(text, at + 5), CharAt(text, at + 6))>>)
  BY ONLY ParseString, <1>3, Zenon DEF ParseString, After
<1>5. {Quote} \cup 0..31 = Refused /\ {Quote, Backslash} \cup 0..31 = {92} \cup Refused /\ Backslash = 92
  BY DEF Refused, Quote, Backslash
<1> HIDE DEF short
<1> QED BY ONLY <1>1, <1>2, <1>4, <1>5, Zenon

\* The parser takes one character for the piece of escape.
LEMMA ParseOne ==
  ASSUME NEW c \in CharByte, text \in Seq(CharByte), at \in Nat, StandsAt(Escaped(c), text, at + 1),
         at + Len(Escaped(c)) <= Len(text), at < Len(text), ParseString
  PROVE  Round("parse", Len(Escaped(c)), <<c>>)
<1> DEFINE q == Escaped(c)
<1>0. c \in Nat /\ c >= 1 /\ c <= 255 /\ Len(text) \in Nat
  BY DEF CharByte
<1>1. q \in Seq(CharByte)
  BY JsonIsCode DEF IsCode, JsonCode
<1>2. \A j \in 1..Len(q) : CharAt(text, at + j) = q[j]
  <2> SUFFICES ASSUME NEW j \in 1..Len(q) PROVE CharAt(text, at + j) = q[j]
    OBVIOUS
  <2> HIDE DEF q
  <2>1. StandsAt(q, text, at + 1) /\ at + Len(q) <= Len(text)
    BY DEF q
  <2> QED BY <1>1, <2>1, PieceChars
<1> HIDE DEF q
<1> DEFINE D1 == Next1 \in Refused /\ Throw
           D2 == Next1 = 92 /\ Next2 \notin Short \cup {117} /\ Throw
           D3 == Next1 \notin {92} \cup Refused /\ Round("parse", 1, <<Next1>>)
           D4 == Next1 = 92 /\ Next2 \in Short /\ Round("parse", 2, <<ShortOf(Next2)>>)
           D5 == Next1 = 92 /\ Next2 = 117 /\ Round("parse", 6, <<ByteOfHex(CharAt(text, at + 5), CharAt(text, at + 6))>>)
<1>3. D1 \/ D2 \/ D3 \/ D4 \/ D5
  BY <1>0, ParseCases
<1>4. ASSUME NEW x \in Short, q = <<92, x>>, ShortOf(x) = c PROVE Round("parse", Len(q), <<c>>)
  <2>1. Len(q) = 2 /\ q[1] = 92 /\ q[2] = x /\ 1 \in 1..2 /\ 2 \in 1..2
    BY <1>4
  <2>2. Next1 = 92 /\ Next2 = x
    BY ONLY <1>2, <2>1, Zenon DEF Next1, Next2
  <2>3. x # 117 /\ 92 \notin Refused
    BY DEF Short, Refused
  <2> QED BY ONLY <1>3, <1>4, <2>1, <2>2, <2>3, Zenon
<1>5. CASE c \in {34, 92} /\ q = <<92, c>>
  <2>1. c \in Short /\ ShortOf(c) = c
    BY <1>5 DEF Short, ShortOf
  <2> QED BY <1>4, <1>5, <2>1 DEF q
<1>6. CASE c = 10 /\ q = <<92, 110>>
  <2>1. 110 \in Short /\ ShortOf(110) = c
    BY <1>6 DEF Short, ShortOf
  <2> QED BY <1>4, <1>6, <2>1 DEF q
<1>7. CASE c = 13 /\ q = <<92, 114>>
  <2>1. 114 \in Short /\ ShortOf(114) = c
    BY <1>7 DEF Short, ShortOf
  <2> QED BY <1>4, <1>7, <2>1 DEF q
<1>8. CASE c = 9 /\ q = <<92, 116>>
  <2>1. 116 \in Short /\ ShortOf(116) = c
    BY <1>8 DEF Short, ShortOf
  <2> QED BY <1>4, <1>8, <2>1 DEF q
<1>9. CASE c \in Controls /\ q = <<92, 117, 48, 48, HexDigit(c \div 16), HexDigit(c % 16)>>
  <2> DEFINE x == HexDigit(c \div 16)
             y == HexDigit(c % 16)
  <2>1. ByteOfHex(x, y) = c
    <3>1. c \in Byte
      BY <1>0 DEF Byte
    <3> QED BY <3>1, ByteBack
  <2> HIDE DEF x, y
  <2>2. q = <<92, 117, 48, 48, x, y>>
    BY <1>9 DEF x, y
  <2>3. Len(q) = 6 /\ q[1] = 92 /\ q[2] = 117 /\ q[5] = x /\ q[6] = y
    BY <2>2
  <2>4. 1 \in 1..6 /\ 2 \in 1..6 /\ 5 \in 1..6 /\ 6 \in 1..6
    OBVIOUS
  <2>5. Next1 = 92 /\ Next2 = 117 /\ CharAt(text, at + 5) = x /\ CharAt(text, at + 6) = y
    <3>1. \A j \in 1..6 : CharAt(text, at + j) = q[j]
      BY <1>2, <2>3
    <3>2. CharAt(text, at + 1) = q[1] /\ CharAt(text, at + 2) = q[2] /\ CharAt(text, at + 5) = q[5] /\ CharAt(text, at + 6) = q[6]
      BY ONLY <3>1, <2>4
    <3> QED BY ONLY <3>2, <2>3 DEF Next1, Next2
  <2>6. 117 \notin Short /\ 92 \notin Refused
    BY DEF Short, Refused
  <2>7. Round("parse", Len(q), <<c>>)
    BY ONLY <1>3, <2>1, <2>3, <2>5, <2>6, Zenon
  <2> QED BY <2>7 DEF q
<1>10. CASE c \in CharByte \ (1..31 \cup {34, 92}) /\ q = <<c>>
  <2>1. Len(q) = 1 /\ q[1] = c /\ 1 \in 1..1
    BY <1>10
  <2>2. Next1 = c
    BY ONLY <1>2, <2>1, Zenon DEF Next1
  <2>3. c # 92 /\ c \notin Refused
    BY <1>0, <1>10 DEF Refused
  <2>4. Round("parse", Len(q), <<c>>)
    BY ONLY <1>3, <2>1, <2>2, <2>3, Zenon
  <2> QED BY <2>4 DEF q
<1> QED BY <1>5, <1>6, <1>7, <1>8, <1>9, <1>10, EscapedIs DEF q

-----------------------------------------------------------------------------
(* What the reader takes *)

\* The units before the first NUL.
Seen(d) == IF {k \in 1..Len(d) : d[k] = 0} = {} THEN d ELSE SubSeq(d, 1, FirstOf(d, 0) - 1)

\* The NUL where a string ends is the first one.
LEMMA FirstNul ==
  ASSUME NEW d \in Seq(Unit16), HasNul(d)
  PROVE  /\ FirstOf(d, 0) \in 1..Len(d) /\ d[FirstOf(d, 0)] = 0
         /\ \A j \in 1..Len(d) : d[j] = 0 => FirstOf(d, 0) <= j
<1>1. Places(d, 0) \in SUBSET Nat /\ Places(d, 0) # {}
  BY DEF Places, HasNul
<1>2. \E k \in Places(d, 0) : \A j \in Places(d, 0) : k <= j
  BY <1>1, LeastElement
<1>3. FirstOf(d, 0) \in Places(d, 0) /\ \A j \in Places(d, 0) : FirstOf(d, 0) <= j
  BY <1>2, Zenon DEF FirstOf
<1> HIDE DEF FirstOf
<1> QED BY <1>3 DEF Places

\* A number that is not 0.
LEMMA NotNul ==
  /\ \A c \in Byte : c # 0 => c \in CharByte
  /\ \A u \in Unit16 : u # 0 => u \in Unit
<1>1. \A c \in Byte : c # 0 => c \in CharByte
  BY DEF Byte, CharByte
<1>2. \A u \in Unit16 : u # 0 => u \in Unit
  BY SMT DEF Unit16, Unit
<1> QED BY <1>1, <1>2

\* A sequence whose members are in a smaller set.
LEMMA SeqNarrower ==
  ASSUME NEW S, NEW T, NEW s \in Seq(S), \A k \in 1..Len(s) : s[k] \in T
  PROVE  s \in Seq(T)
<1>1. s = [k \in 1..Len(s) |-> s[k]] /\ Len(s) \in Nat
  OBVIOUS
<1> QED BY <1>1, SeqDef

\* A string without NUL is made of characters.
LEMMA NarrowChars ==
  ASSUME NEW d \in Seq(Byte), ~HasNul(d)
  PROVE  d \in Seq(CharByte)
<1>1. \A k \in 1..Len(d) : d[k] \in CharByte
  <2> SUFFICES ASSUME NEW k \in 1..Len(d) PROVE d[k] \in CharByte
    OBVIOUS
  <2>1. d[k] \in Byte
    OBVIOUS
  <2>2. d[k] # 0
    BY DEF HasNul
  <2> QED BY <2>1, <2>2, NotNul
<1> QED BY <1>1, SeqNarrower

\* The units up to the first NUL, which are all of them when there is none.
LEMMA SeenUnits ==
  ASSUME NEW d \in Seq(Unit16)
  PROVE  Seen(d) \in Seq(Unit) /\ (~HasNul(d) => Seen(d) = d) /\ (Paired(d) => Paired(Seen(d)))
<1>1. CASE ~HasNul(d)
  <2>1. {k \in 1..Len(d) : d[k] = 0} = {}
    BY <1>1 DEF HasNul
  <2>2. Seen(d) = d
    BY <2>1 DEF Seen
  <2>3. \A k \in 1..Len(d) : d[k] \in Unit
    <3> SUFFICES ASSUME NEW k \in 1..Len(d) PROVE d[k] \in Unit
      OBVIOUS
    <3>1. d[k] \in Unit16
      OBVIOUS
    <3>2. d[k] # 0
      BY <1>1 DEF HasNul
    <3> QED BY <3>1, <3>2, NotNul
  <2>4. d \in Seq(Unit)
    BY <2>3, SeqNarrower
  <2> QED BY <2>2, <2>4
<1>2. CASE HasNul(d)
  <2> DEFINE f == FirstOf(d, 0)
             s == SubSeq(d, 1, f - 1)
  <2>1. f \in 1..Len(d) /\ d[f] = 0 /\ \A j \in 1..Len(d) : d[j] = 0 => f <= j
    BY <1>2, FirstNul
  <2>2. Seen(d) = s
    <3>1. {k \in 1..Len(d) : d[k] = 0} # {}
      BY <1>2 DEF HasNul
    <3> QED BY <3>1 DEF Seen
  <2> HIDE DEF f
  <2>3. s \in Seq(Unit16) /\ Len(s) = f - 1 /\ \A k \in 1..f - 1 : s[k] = d[k]
    BY <2>1
  <2> HIDE DEF s
  <2>4. \A k \in 1..f - 1 : k \in 1..Len(d) /\ k + 1 \in 1..Len(d) /\ k < f
    BY <2>1
  <2>5. \A k \in 1..Len(s) : s[k] \in Unit
    <3> SUFFICES ASSUME NEW k \in 1..Len(s) PROVE s[k] \in Unit
      OBVIOUS
    <3>1. s[k] = d[k] /\ k \in 1..Len(d) /\ k < f /\ s[k] \in Unit16
      BY <2>3, <2>4
    <3>2. d[k] # 0
      <4>1. ~(f <= k)
        BY <2>1, <3>1
      <4> QED BY <2>1, <3>1, <4>1
    <3> QED BY <3>1, <3>2, NotNul
  <2>6. s \in Seq(Unit)
    BY <2>3, <2>5, SeqNarrower
  <2>7. ASSUME Paired(d) PROVE Paired(s)
    <3> SUFFICES ASSUME NEW k \in 1..Len(s)
                 PROVE  /\ High(s[k]) => k < Len(s) /\ Low(s[k + 1])
                        /\ Low(s[k]) => k > 1 /\ High(s[k - 1])
      BY DEF Paired
    <3>1. k \in 1..f - 1 /\ k \in Nat /\ f \in Nat /\ s[k] = d[k] /\ k \in 1..Len(d)
      BY <2>1, <2>3, <2>4
    <3>2. /\ High(d[k]) => k < Len(d) /\ Low(d[k + 1])
          /\ Low(d[k]) => k > 1 /\ High(d[k - 1])
      BY <2>7, <3>1 DEF Paired
    <3>3. ASSUME High(d[k]) PROVE k < Len(s) /\ Low(s[k + 1])
      <4>1. Low(d[k + 1])
        BY <3>2, <3>3
      <4>2. ~Low(0)
        BY SMT DEF Low
      <4>3. k + 1 # f
        BY <2>1, <4>1, <4>2
      <4>4. k + 1 \in 1..f - 1
        BY <3>1, <4>3
      <4>5. s[k + 1] = d[k + 1]
        BY <2>3, <4>4
      <4>6. k < f - 1
        BY ONLY <3>1, <4>4
      <4> QED BY <2>3, <4>1, <4>5, <4>6
    <3>4. ASSUME Low(d[k]) PROVE k > 1 /\ High(s[k - 1])
      <4>1. k > 1 /\ High(d[k - 1])
        BY <3>2, <3>4
      <4>2. k - 1 \in 1..f - 1
        BY <3>1, <4>1
      <4>3. s[k - 1] = d[k - 1]
        BY <2>3, <4>2
      <4> QED BY <4>1, <4>3
    <3> QED BY <3>1, <3>3, <3>4
  <2> QED BY <1>2, <2>2, <2>6, <2>7
<1> QED BY <1>1, <1>2

-----------------------------------------------------------------------------
(* Strings, names and checksums on their way *)

\* What lies between the two ways: a text in UTF-8 from which the string comes back.
Middle(j, s) ==
  /\ s \in Seq(CharByte)
  /\ j.kind = "narrow" => j.data \in Seq(CharByte) /\ Spells(s, j.data, Len(j.data), Utf8Code)
  /\ j.kind = "wide" /\ ~HasNul(j.data) => Utf16(s) = j.data

RefusedOnReading ==
  \/ job.kind = "narrow" /\ HasNul(job.data)
  \/ job.kind = "wide" /\ ~Paired(job.data)

ToUtf8Inv   == job.kind = "narrow" /\ text = job.data /\ text \in Seq(CharByte) /\ at \in 0..Len(text) /\ Spells(out, text, at, Utf8Code)
EscapeInv   == Middle(job, text) /\ at \in 0..Len(text) /\ Spells(out, text, at, JsonCode)
ParseInv    == \E s : Middle(job, s) /\ Follows(text, s, at, out, JsonCode)
ToLatin1Inv == job.kind = "narrow" /\ job.data \in Seq(CharByte) /\ Follows(text, job.data, at, out, Utf8Code)
ToUtf16Inv  == job.kind = "wide" /\ Middle(job, text)

\* A string is in one of the loops, at the place the loop has reached.
StringInv ==
  job.kind \in {"narrow", "wide"} =>
    /\ stage \in {"start", "to_utf8", "escape", "parse", "to_latin1", "to_utf16", "written", "thrown"}
    /\ stage = "thrown" => RefusedOnReading
    /\ stage = "to_utf8" => ToUtf8Inv
    /\ stage = "escape" => EscapeInv
    /\ stage = "parse" => ParseInv
    /\ stage = "to_latin1" => ToLatin1Inv
    /\ stage = "to_utf16" => ToUtf16Inv
    /\ stage = "written" => (~HasNul(job.data) => text = job.data)

\* At the start a string is as it was read.
LEMMA StringStart == Init => StringInv
BY DEF Init, StringInv

\* A job is one of the jobs at the start.
LEMMA JobIsOne == ASSUME Init PROVE job \in Jobs
BY DEF Init

\* No step changes the job.
LEMMA JobStays == [Next]_vars => job' = job
BY Zenon DEF Next, vars, ReadNarrow, ReadWide, ReadTyped, ToUtf8, Escape, ParseString, ToLatin1, ToUtf16,
        ReadHex, ToHex, FromHex, Crc, Name, Ended, Start, Round, After, Throw

\* The strings that are read.
LEMMA ReadNarrowStep ==
  ASSUME job \in Jobs, ReadNarrow
  PROVE  (stage' = "thrown" /\ RefusedOnReading') \/ (stage' = "to_utf8" /\ ToUtf8Inv')
<1>1. job.kind = "narrow" /\ job.data \in Seq(Byte) /\ job' = job
  BY StringJobsAssumption DEF ReadNarrow, Throw, Start
<1>2. CASE HasNul(job.data)
  <2>1. Throw
    BY <1>2 DEF ReadNarrow, HasNul
  <2> QED BY <1>1, <1>2, <2>1 DEF Throw, RefusedOnReading
<1>3. CASE ~HasNul(job.data)
  <2>1. Start("to_utf8", job.data)
    BY <1>3 DEF ReadNarrow, HasNul
  <2>2. stage' = "to_utf8" /\ text' = job.data /\ at' = 0 /\ out' = << >>
    BY <2>1 DEF Start
  <2>3. job.data \in Seq(CharByte)
    BY <1>1, <1>3, NarrowChars
  <2>4. Spells(<< >>, job.data, 0, Utf8Code)
    BY SpellsNothing
  <2>5. 0 \in 0..Len(job.data)
    BY <2>3
  <2> QED BY <1>1, <2>2, <2>3, <2>4, <2>5 DEF ToUtf8Inv
<1> QED BY <1>2, <1>3

\* A wide string is refused for half a pair, or its UTF-8 is to be escaped.
LEMMA ReadWideStep ==
  ASSUME job \in Jobs, ReadWide
  PROVE  (stage' = "thrown" /\ RefusedOnReading') \/ (stage' = "escape" /\ EscapeInv')
<1> DEFINE d == job.data
           s == Utf8(Points(Seen(d)))
<1>1. job.kind = "wide" /\ d \in Seq(Unit16) /\ job' = job
  BY StringJobsAssumption DEF ReadWide, Throw, Start
<1>2. IF Paired(Seen(d)) THEN Start("escape", s) ELSE Throw
  BY Zenon DEF ReadWide, Seen
<1>3. Seen(d) \in Seq(Unit) /\ (~HasNul(d) => Seen(d) = d) /\ (Paired(d) => Paired(Seen(d)))
  BY <1>1, SeenUnits
<1>4. CASE Paired(Seen(d))
  <2>1. s \in Seq(CharByte) /\ Utf16(s) = Seen(d)
    BY <1>3, <1>4, WideBack
  <2>2. stage' = "escape" /\ text' = s /\ at' = 0 /\ out' = << >>
    BY <1>2, <1>4 DEF Start
  <2> HIDE DEF s
  <2>3. Middle(job', s)
    BY <1>1, <1>3, <2>1 DEF Middle
  <2>4. Spells(<< >>, s, 0, JsonCode)
    BY SpellsNothing
  <2>5. 0 \in 0..Len(s)
    BY <2>1
  <2> QED BY <2>2, <2>3, <2>4, <2>5 DEF EscapeInv, Middle
<1>5. CASE ~Paired(Seen(d))
  <2>1. Throw /\ ~Paired(d)
    BY <1>2, <1>3, <1>5
  <2> QED BY <1>1, <2>1 DEF Throw, RefusedOnReading
<1> QED BY <1>4, <1>5

\* The character the loop looks at.
LEMMA NextChar ==
  ASSUME text \in Seq(CharByte), at \in 0..Len(text), at < Len(text)
  PROVE  at \in Nat /\ Next1 = text[at + 1] /\ text[at + 1] \in CharByte
BY DEF Next1, CharAt

\* iso8859_1_to_utf8
LEMMA ToUtf8Step ==
  ASSUME ToUtf8Inv, ToUtf8
  PROVE  (stage' = "to_utf8" /\ ToUtf8Inv') \/ (stage' = "escape" /\ EscapeInv')
<1>0. /\ job.kind = "narrow" /\ text = job.data /\ text \in Seq(CharByte) /\ at \in 0..Len(text)
      /\ Spells(out, text, at, Utf8Code)
  BY DEF ToUtf8Inv
<1>1. CASE Round("to_utf8", 1, Utf8Of(Next1))
  <2>1. stage' = "to_utf8" /\ text' = text /\ job' = job /\ at < Len(text) /\ at' = at + 1 /\ out' = out \o Utf8Of(Next1)
    BY <1>1 DEF Round
  <2>2. at \in Nat /\ Next1 = text[at + 1] /\ text[at + 1] \in CharByte
    BY <1>0, <2>1, NextChar
  <2>3. Utf8Of(Next1) = Utf8Code[text[at + 1]]
    BY <2>2 DEF Utf8Code
  <2>4. Spells(out \o Utf8Code[text[at + 1]], text, at + 1, Utf8Code)
    BY <1>0, <2>1, <2>2, SpellsMore, Utf8IsCode
  <2>5. at + 1 \in 0..Len(text)
    BY <1>0, <2>1
  <2> QED BY <1>0, <2>1, <2>3, <2>4, <2>5 DEF ToUtf8Inv
<1>2. CASE After("to_utf8", "escape")
  <2>1. stage' = "escape" /\ text' = out /\ at' = 0 /\ out' = << >> /\ job' = job /\ at >= Len(text)
    BY <1>2 DEF After, Start
  <2>2. at = Len(text)
    BY <1>0, <2>1
  <2>3. out \in Seq(CharByte) /\ 0 \in 0..Len(out)
    BY <1>0 DEF Spells
  <2>4. Middle(job', text')
    BY <1>0, <2>1, <2>2, <2>3 DEF Middle
  <2>5. Spells(<< >>, out, 0, JsonCode)
    BY SpellsNothing
  <2> QED BY <2>1, <2>3, <2>4, <2>5 DEF EscapeInv
<1> QED BY <1>1, <1>2 DEF ToUtf8

\* escape
LEMMA EscapeStep ==
  ASSUME EscapeInv, Escape
  PROVE  (stage' = "escape" /\ EscapeInv') \/ (stage' = "parse" /\ ParseInv')
<1>0. Middle(job, text) /\ text \in Seq(CharByte) /\ at \in 0..Len(text) /\ Spells(out, text, at, JsonCode)
  BY DEF EscapeInv, Middle
<1>1. CASE Round("escape", 1, Escaped(Next1))
  <2>1. stage' = "escape" /\ text' = text /\ job' = job /\ at < Len(text) /\ at' = at + 1 /\ out' = out \o Escaped(Next1)
    BY <1>1 DEF Round
  <2>2. at \in Nat /\ Next1 = text[at + 1] /\ text[at + 1] \in CharByte
    BY <1>0, <2>1, NextChar
  <2>3. Escaped(Next1) = JsonCode[text[at + 1]]
    BY <2>2 DEF JsonCode
  <2>4. Spells(out \o JsonCode[text[at + 1]], text, at + 1, JsonCode)
    BY <1>0, <2>1, <2>2, SpellsMore, JsonIsCode
  <2>5. at + 1 \in 0..Len(text)
    BY <1>0, <2>1
  <2>6. Middle(job', text')
    BY <1>0, <2>1 DEF Middle
  <2> QED BY <2>1, <2>3, <2>4, <2>5, <2>6 DEF EscapeInv
<1>2. CASE After("escape", "parse")
  <2>1. stage' = "parse" /\ text' = out /\ at' = 0 /\ out' = << >> /\ job' = job /\ at >= Len(text)
    BY <1>2 DEF After, Start
  <2>2. at = Len(text)
    BY <1>0, <2>1
  <2>3. Follows(out, text, 0, << >>, JsonCode)
    BY <1>0, <2>2, FollowsFirst
  <2>4. \E s : Middle(job', s) /\ Follows(out, s, 0, << >>, JsonCode)
    BY <1>0, <2>1, <2>3
  <2> QED BY <2>1, <2>4 DEF ParseInv
<1> QED BY <1>1, <1>2 DEF Escape

\* The string parser of json11
LEMMA ParseStep ==
  ASSUME job.kind \in {"narrow", "wide"}, ParseInv, ParseString
  PROVE  \/ stage' = "parse" /\ ParseInv'
         \/ stage' = "to_latin1" /\ ToLatin1Inv'
         \/ stage' = "to_utf16" /\ ToUtf16Inv'
<1>1. PICK s : Middle(job, s) /\ Follows(text, s, at, out, JsonCode)
  BY DEF ParseInv
<1>2. s \in Seq(CharByte) /\ text \in Seq(CharByte) /\ Len(text) \in Nat
  BY <1>1 DEF Middle, Follows
<1>3. CASE at < Len(text)
  <2> DEFINE c == s[Len(out) + 1]
  <2>1. /\ c \in CharByte /\ at \in Nat /\ at + Len(JsonCode[c]) <= Len(text) /\ StandsAt(JsonCode[c], text, at + 1)
        /\ Follows(text, s, at + Len(JsonCode[c]), Append(out, c), JsonCode)
    BY <1>1, <1>2, <1>3, FollowsNext, JsonIsCode
  <2> HIDE DEF c
  <2>2. JsonCode[c] = Escaped(c)
    BY <2>1 DEF JsonCode
  <2>3. Round("parse", Len(Escaped(c)), <<c>>)
    BY <1>2, <1>3, <2>1, <2>2, ParseOne
  <2>4. stage' = "parse" /\ text' = text /\ job' = job /\ at' = at + Len(Escaped(c)) /\ out' = out \o <<c>>
    BY <2>3 DEF Round
  <2>5. out \o <<c>> = Append(out, c)
    <3>1. out \in Seq(CharByte)
      BY <1>1 DEF Follows
    <3> QED BY <2>1, <3>1
  <2> QED BY <1>1, <2>1, <2>2, <2>4, <2>5 DEF ParseInv
<1>4. CASE ~(at < Len(text))
  <2>1. After("parse", IF job.kind = "wide" THEN "to_utf16" ELSE "to_latin1")
    BY <1>4, Zenon DEF ParseString
  <2>2. /\ stage' = (IF job.kind = "wide" THEN "to_utf16" ELSE "to_latin1")
        /\ text' = out /\ at' = 0 /\ out' = << >> /\ job' = job /\ at >= Len(text)
    BY <2>1 DEF After, Start
  <2>3. out = s
    BY <1>1, <1>2, <2>2, FollowsLast
  <2>4. CASE job.kind = "wide"
    BY <1>1, <2>2, <2>3, <2>4 DEF ToUtf16Inv
  <2>5. CASE job.kind = "narrow"
    <3>1. job.data \in Seq(CharByte) /\ Spells(s, job.data, Len(job.data), Utf8Code)
      BY <1>1, <2>5 DEF Middle
    <3>2. Follows(s, job.data, 0, << >>, Utf8Code)
      BY <3>1, FollowsFirst
    <3>3. stage' = "to_latin1"
      BY <2>2, <2>5
    <3> QED BY <2>2, <2>3, <2>5, <3>1, <3>2, <3>3 DEF ToLatin1Inv
  <2> QED BY <2>4, <2>5
<1> QED BY <1>3, <1>4

\* utf8_to_iso8859_1
LEMMA ToLatin1Step ==
  ASSUME ToLatin1Inv, ToLatin1
  PROVE  (stage' = "to_latin1" /\ ToLatin1Inv') \/ (stage' = "written" /\ text' = job'.data)
<1> DEFINE d == job.data
<1>1. job.kind = "narrow" /\ d \in Seq(CharByte) /\ Follows(text, d, at, out, Utf8Code)
  BY DEF ToLatin1Inv
<1>2. text \in Seq(CharByte) /\ out \in Seq(CharByte)
  BY <1>1 DEF Follows
<1>3. CASE Round("to_latin1", IF Next1 < 128 THEN 1 ELSE 2, <<Latin1Of(Next1, Next2)>>)
  <2> DEFINE c == d[Len(out) + 1]
             n == IF Next1 < 128 THEN 1 ELSE 2
             v == Latin1Of(Next1, Next2)
  <2>1. /\ stage' = "to_latin1" /\ text' = text /\ job' = job /\ at < Len(text) /\ at' = at + n
        /\ out' = out \o <<v>>
    BY <1>3 DEF Round
  <2> HIDE DEF n, v
  <2>2. /\ c \in CharByte /\ at \in Nat /\ at + Len(Utf8Code[c]) <= Len(text) /\ StandsAt(Utf8Code[c], text, at + 1)
        /\ Follows(text, d, at + Len(Utf8Code[c]), Append(out, c), Utf8Code)
    BY <1>1, <2>1, FollowsNext, Utf8IsCode
  <2> HIDE DEF c
  <2>3. Utf8Code[c] = Utf8Of(c)
    BY <2>2 DEF Utf8Code
  <2>4. n = Len(Utf8Of(c)) /\ v = c
    BY <1>2, <2>2, <2>3, LatinOne DEF n, v
  <2>5. out \o <<c>> = Append(out, c)
    BY <1>2, <2>2
  <2> QED BY <1>1, <2>1, <2>2, <2>3, <2>4, <2>5 DEF ToLatin1Inv
<1>4. CASE After("to_latin1", "written")
  <2>1. stage' = "written" /\ text' = out /\ job' = job /\ at >= Len(text)
    BY <1>4 DEF After, Start
  <2>2. out = d
    BY <1>1, <2>1, FollowsLast
  <2> QED BY <2>1, <2>2
<1> QED BY <1>3, <1>4 DEF ToLatin1

\* No step loses a character or throws on the way.
LEMMA StringStep == ASSUME job \in Jobs, StringInv, [Next]_vars PROVE StringInv'
<1> SUFFICES ASSUME job'.kind \in {"narrow", "wide"} PROVE StringInv'
  BY DEF StringInv
<1>0. job' = job
  BY JobStays
<1>1. job.kind \in {"narrow", "wide"}
  BY <1>0
<1>2. /\ stage \in {"start", "to_utf8", "escape", "parse", "to_latin1", "to_utf16", "written", "thrown"}
      /\ stage = "thrown" => RefusedOnReading
      /\ stage = "to_utf8" => ToUtf8Inv
      /\ stage = "escape" => EscapeInv
      /\ stage = "parse" => ParseInv
      /\ stage = "to_latin1" => ToLatin1Inv
      /\ stage = "to_utf16" => ToUtf16Inv
      /\ stage = "written" => (~HasNul(job.data) => text = job.data)
  BY <1>1 DEF StringInv
<1>3. CASE ReadNarrow
  <2>1. (stage' = "thrown" /\ RefusedOnReading') \/ (stage' = "to_utf8" /\ ToUtf8Inv')
    BY <1>3, ReadNarrowStep
  <2> QED BY <2>1 DEF StringInv
<1>4. CASE ReadWide
  <2>1. (stage' = "thrown" /\ RefusedOnReading') \/ (stage' = "escape" /\ EscapeInv')
    BY <1>4, ReadWideStep
  <2> QED BY <2>1 DEF StringInv
<1>5. CASE ToUtf8
  <2>1. stage = "to_utf8"
    BY <1>5 DEF ToUtf8, Round, After
  <2>2. (stage' = "to_utf8" /\ ToUtf8Inv') \/ (stage' = "escape" /\ EscapeInv')
    BY <1>2, <1>5, <2>1, ToUtf8Step
  <2> QED BY <2>2 DEF StringInv
<1>6. CASE Escape
  <2>1. stage = "escape"
    BY <1>6 DEF Escape, Round, After
  <2>2. (stage' = "escape" /\ EscapeInv') \/ (stage' = "parse" /\ ParseInv')
    BY <1>2, <1>6, <2>1, EscapeStep
  <2> QED BY <2>2 DEF StringInv
<1>7. CASE ParseString
  <2>1. stage = "parse"
    BY <1>7, Zenon DEF ParseString, After
  <2>2. \/ stage' = "parse" /\ ParseInv'
        \/ stage' = "to_latin1" /\ ToLatin1Inv'
        \/ stage' = "to_utf16" /\ ToUtf16Inv'
    BY <1>1, <1>2, <1>7, <2>1, ParseStep
  <2> QED BY <2>2 DEF StringInv
<1>8. CASE ToLatin1
  <2>1. stage = "to_latin1"
    BY <1>8 DEF ToLatin1, Round, After
  <2>2. (stage' = "to_latin1" /\ ToLatin1Inv') \/ (stage' = "written" /\ text' = job'.data)
    BY <1>2, <1>8, <2>1, ToLatin1Step
  <2> QED BY <2>2 DEF StringInv
<1>9. CASE ToUtf16
  <2>1. stage = "to_utf16" /\ stage' = "written" /\ text' = Utf16(text) /\ job' = job
    BY <1>9 DEF ToUtf16, Start
  <2>2. ~HasNul(job.data) => Utf16(text) = job.data
    BY <1>2, <2>1 DEF ToUtf16Inv, Middle
  <2> QED BY <2>1, <2>2 DEF StringInv
<1>10. CASE UNCHANGED vars
  <2>1. UNCHANGED <<job, stage, text, at, out>>
    BY <1>10 DEF vars
  <2> QED BY <1>2, <2>1 DEF StringInv, RefusedOnReading, ToUtf8Inv, EscapeInv, ParseInv, ToLatin1Inv, ToUtf16Inv
<1>11. CASE Ended
  BY <1>10, <1>11 DEF Ended
<1>12. ~(ReadTyped \/ ReadHex \/ ToHex \/ FromHex \/ Crc \/ Name)
  BY <1>1, <1>2 DEF ReadTyped, ReadHex, ToHex, FromHex, Crc, Name, Round, After
<1> QED BY <1>3, <1>4, <1>5, <1>6, <1>7, <1>8, <1>9, <1>10, <1>11, <1>12, Zenon DEF Next

\* A name or a checksum.
NameInv ==
  job.kind = "name" =>
    /\ stage \in {"start", "name", "written"}
    /\ stage = "name" => text = BuildName(job.data)
    /\ stage = "written" => text = DecomposeName(BuildName(job.data), job.data.eu)

OtherInv ==
  job.kind \notin {"narrow", "wide", "typed", "digits", "hex"} => stage \in {"start", "name", "crc", "written"}

\* At the start nothing is done to a name, nor to any other job.
LEMMA NameStart == Init => NameInv /\ OtherInv
BY DEF Init, NameInv, OtherInv

\* A name is built from its parts and then taken apart.
LEMMA NameStep == NameInv /\ [Next]_vars => NameInv'
<1> SUFFICES ASSUME NameInv, [Next]_vars, job'.kind = "name" PROVE NameInv'
  BY DEF NameInv
<1>0. job' = job
  BY JobStays
<1>1. /\ job.kind = "name" /\ stage \in {"start", "name", "written"}
      /\ stage = "name" => text = BuildName(job.data)
      /\ stage = "written" => text = DecomposeName(BuildName(job.data), job.data.eu)
  BY <1>0 DEF NameInv
<1>2. CASE Name
  <2>1. CASE stage = "start"
    <3>1. stage' = "name" /\ text' = BuildName(job.data)
      BY <1>2, <2>1 DEF Name, Start
    <3> QED BY <1>0, <3>1 DEF NameInv
  <2>2. CASE stage = "name"
    <3>1. stage' = "written" /\ text' = DecomposeName(text, job.data.eu)
      BY <1>2, <2>2 DEF Name, Start
    <3>2. text = BuildName(job.data)
      BY <1>1, <2>2
    <3> QED BY <1>0, <3>1, <3>2 DEF NameInv
  <2> QED BY <1>2, <2>1, <2>2 DEF Name
<1>3. CASE UNCHANGED vars
  BY <1>1, <1>3 DEF NameInv, vars
<1>4. CASE Ended
  BY <1>3, <1>4 DEF Ended
<1>5. ~(ReadNarrow \/ ReadWide \/ ReadTyped \/ ToUtf8 \/ Escape \/ ParseString \/ ToLatin1 \/ ToUtf16
        \/ ReadHex \/ ToHex \/ FromHex \/ Crc)
  BY <1>1, Zenon DEF ReadNarrow, ReadWide, ReadTyped, ToUtf8, Escape, ParseString, ToLatin1, ToUtf16,
        ReadHex, ToHex, FromHex, Crc, Round, After
<1> QED BY <1>2, <1>3, <1>4, <1>5, Zenon DEF Next

\* Names and checksums are never refused.
LEMMA OtherStep == OtherInv /\ [Next]_vars => OtherInv'
<1> SUFFICES ASSUME OtherInv, [Next]_vars, job'.kind \notin {"narrow", "wide", "typed", "digits", "hex"} PROVE OtherInv'
  BY DEF OtherInv
<1>0. job' = job
  BY JobStays
<1>1. /\ job.kind \notin {"narrow", "wide", "typed", "digits", "hex"} /\ stage \in {"start", "name", "crc", "written"}
  BY <1>0 DEF OtherInv
<1>2. CASE Name
  BY <1>1, <1>2 DEF Name, Start, OtherInv
<1>3. CASE Crc
  BY <1>1, <1>3 DEF Crc, Start, OtherInv
<1>4. CASE UNCHANGED vars
  BY <1>1, <1>4 DEF OtherInv, vars
<1>5. CASE Ended
  BY <1>4, <1>5 DEF Ended
<1>6. ~(ReadNarrow \/ ReadWide \/ ReadTyped \/ ToUtf8 \/ Escape \/ ParseString \/ ToLatin1 \/ ToUtf16
        \/ ReadHex \/ ToHex \/ FromHex)
  BY <1>1, Zenon DEF ReadNarrow, ReadWide, ReadTyped, ToUtf8, Escape, ParseString, ToLatin1, ToUtf16,
        ReadHex, ToHex, FromHex, Round, After
<1> QED BY <1>2, <1>3, <1>4, <1>5, <1>6, Zenon DEF Next

\* A job is one of the jobs from beginning to end.
LEMMA JobKept == job \in Jobs /\ [Next]_vars => job' \in Jobs
BY JobStays

\* Every string the reader takes, of any length and any characters, is the string json2xcom
\* writes: to_utf8, escape, the parser of json11 and iconv or utf8_to_iso8859_1 undo each
\* other (xcomio.cpp:107-159, util.cpp:172-264, xcom2json.cpp:16-51).
THEOREM StringsSurvive == Spec => []StringsKept
<1> DEFINE Inv == job \in Jobs /\ StringInv
<1>1. Init => Inv
  BY StringStart, JobIsOne
<1>2. Inv /\ [Next]_vars => Inv'
  BY StringStep, JobKept
<1>3. Inv => StringsKept
  BY DEF StringInv, StringsKept
<1> QED BY <1>1, <1>2, <1>3, PTL DEF Spec

\* A string is refused only while the save is read, for a NUL within it or half a surrogate
\* pair: no string, block of bytes, name or checksum that reached the document makes
\* json2xcom throw (xcom2json.cpp:38-43, util.cpp:144-146, 149-170).
THEOREM OnlyTheReaderRefuses == Spec => []RefusedByReaderOnly
<1> DEFINE Inv == job \in Jobs /\ StringInv /\ HexInv /\ OtherInv
<1>1. Init => Inv
  BY StringStart, JobIsOne, HexInvStart, NameStart
<1>2. Inv /\ [Next]_vars => Inv'
  BY StringStep, JobKept, HexInvStep, OtherStep
<1>3. Inv => RefusedByReaderOnly
  BY DEF StringInv, HexInv, OtherInv, RefusedOnReading, RefusedByReaderOnly
<1> QED BY <1>1, <1>2, <1>3, PTL DEF Spec

\* Every actor name with an instance of 32 bits is split into the parts it was joined from,
\* whatever its class is called; its package must not have a dot (util.cpp:396-431).
THEOREM NamesSurvive == Spec => []NamesKept
<1> DEFINE Inv == job \in Jobs /\ NameInv
<1>1. Init => Inv
  BY NameStart, JobIsOne
<1>2. Inv /\ [Next]_vars => Inv'
  BY NameStep, JobKept
<1>3. Inv => NamesKept
  <2> SUFFICES ASSUME Inv, stage = "written", job.kind = "name", job.data.eu \/ Places(job.data.package, Dot) = {}
               PROVE  text = job.data
    BY DEF NamesKept
  <2> DEFINE n == job.data
  <2>1. text = DecomposeName(BuildName(n), n.eu)
    BY DEF NameInv
  <2>2. /\ n \in [eu : BOOLEAN, package : Seq(Byte), cls : Seq(Byte), instance : Int32]
        /\ n.instance - 1 \in Int32
        /\ n.eu => n.package = << >>
    BY NameJobsAssumption
  <2>3. n \in Names
    <3> HIDE DEF n
    <3>1. Byte \subseteq Nat
      BY DEF Byte
    <3>2. n.package \in Seq(Byte) /\ n.cls \in Seq(Byte)
      BY <2>2
    <3>3. n.package \in Seq(Nat)
      BY ONLY <3>1, <3>2, SeqWider
    <3>4. n.cls \in Seq(Nat)
      BY ONLY <3>1, <3>2, SeqWider
    <3> QED BY <2>2, <3>3, <3>4 DEF Names
  <2> HIDE DEF n
  <2>4. n.eu \/ Places(n.package, Dot) = {}
    BY DEF n
  <2>5. DecomposeName(BuildName(n), n.eu) = n
    BY <2>2, <2>3, <2>4, NameBack
  <2> QED BY <2>1, <2>5 DEF n
<1> QED BY <1>1, <1>2, <1>3, PTL DEF Spec

-----------------------------------------------------------------------------
(* The checksum *)

\* A string of n bits.
Word(n) == [1..n -> Bit]

\* A sequence of bits by its bits.
LEMMA WordLen ==
  ASSUME NEW n \in Nat, NEW r \in Word(n)
  PROVE  Len(r) = n /\ r \in Seq(Bit) /\ DOMAIN r = 1..n
<1>1. r = [k \in 1..n |-> r[k]] /\ DOMAIN r = 1..n /\ \A k \in 1..n : r[k] \in Bit
  BY DEF Word
<1>2. r \in Seq(Bit)
  BY <1>1, SeqDef DEF Word
<1> QED BY <1>1, <1>2

\* A bit added to a bit.
LEMMA BitSums ==
  ASSUME NEW a \in Bit, NEW b \in Bit
  PROVE  (a + b) % 2 \in Bit /\ (a + 0) % 2 = a /\ (((a + b) % 2) + b) % 2 = a
<1>1. (a = 0 \/ a = 1) /\ (b = 0 \/ b = 1)
  BY DEF Bit
<1> QED BY <1>1 DEF Bit

\* The generator taken off behind the 1 at place k.
Taken(r, k) ==
  IF r[k] = 0 THEN r
  ELSE [i \in 1..Len(r) |-> IF i \in k + 1..k + 32 THEN (r[i] + Poly[i - k]) % 2 ELSE r[i]]

\* The bits after the generator is taken off, or not.
LEMMA TakenIs ==
  ASSUME NEW m \in Nat, NEW r \in Word(m), NEW k \in 1..m
  PROVE  /\ Taken(r, k) \in Word(m)
         /\ \A i \in 1..m : Taken(r, k)[i] = IF r[k] = 1 /\ k < i /\ i <= k + 32
                                             THEN (r[i] + Poly[i - k]) % 2 ELSE r[i]
<1>1. Len(r) = m /\ r[k] \in {0, 1} /\ \A i \in 1..m : r[i] \in Bit
  BY WordLen DEF Word, Bit
<1>2. CASE r[k] = 0
  BY <1>2 DEF Taken
<1>3. CASE r[k] = 1
  <2>1. Taken(r, k) = [i \in 1..m |-> IF i \in k + 1..k + 32 THEN (r[i] + Poly[i - k]) % 2 ELSE r[i]]
    BY <1>1, <1>3 DEF Taken
  <2>2. ASSUME NEW i \in 1..m, k < i, i <= k + 32 PROVE (r[i] + Poly[i - k]) % 2 \in Bit
    <3>1. i - k \in 1..32
      BY <2>2
    <3>2. Poly[i - k] \in Bit /\ r[i] \in Bit
      BY <1>1, <3>1, PolyAssumption
    <3> QED BY <3>2, BitSums
  <2>3. \A i \in 1..m : i \in k + 1..k + 32 <=> k < i /\ i <= k + 32
    OBVIOUS
  <2>4. \A i \in 1..m : Taken(r, k)[i] = IF k < i /\ i <= k + 32 THEN (r[i] + Poly[i - k]) % 2 ELSE r[i]
    BY <2>1, <2>3
  <2>5. \A i \in 1..m : Taken(r, k)[i] \in Bit
    BY ONLY <1>1, <2>2, <2>4
  <2>6. Taken(r, k) \in Word(m)
    BY ONLY <2>1, <2>5 DEF Word
  <2> QED BY <1>3, <2>4, <2>6
<1> QED BY <1>1, <1>2, <1>3

\* A division, one place at a time.
IsDivision(f, n, bits) ==
  /\ f[0] = bits
  /\ \A k \in 0..n : f[k] \in Word(n + 32)
  /\ \A k \in 1..n : f[k] = Taken(f[k - 1], k)

\* The remainder is what the last place leaves.
LEMMA DivisionSteps ==
  ASSUME NEW n \in Nat, NEW bits \in Word(n + 32)
  PROVE  \E f : IsDivision(f, n, bits) /\ Remainder(bits) = SubSeq(f[n], n + 1, n + 32)
<1> DEFINE W == Word(n + 32)
           step == [x \in (1..n) \X W |-> Taken(x[2], x[1])]
<1>1. \A k \in 1..n : k \in 1..n + 32
  OBVIOUS
<1>2. n + 32 \in Nat /\ Len(bits) = n + 32 /\ Len(bits) - 32 = n
  BY WordLen
<1>3. \A k \in 1..n, r \in W : Taken(r, k) \in W
  BY <1>1, <1>2, TakenIs
<1> HIDE DEF W
<1>4. step \in [(1..n) \X W -> W]
  BY <1>3
<1>5. PICK f : Counts(f, n, W, bits, step)
  <2>1. bits \in W
    BY DEF W
  <2> HIDE DEF step
  <2> QED BY <1>4, <2>1, CountedUp
<1>6. f \in [0..n -> W] /\ f[0] = bits /\ \A k \in 1..n : f[k] = Taken(f[k - 1], k)
  <2>1. \A k \in 1..n : f[k - 1] \in W
    BY <1>5 DEF Counts
  <2> QED BY <1>5, <2>1 DEF Counts
<1> DEFINE Is(g) == g = [k \in 0..n |-> IF k = 0 THEN bits ELSE Taken(g[k - 1], k)]
           divided == CHOOSE g : Is(g)
<1>7. Is(f)
  BY <1>6
<1>8. Is(divided)
  <2> HIDE DEF Is
  <2> QED BY <1>7
<1>9. Remainder(bits) = SubSeq(divided[n], n + 1, n + 32)
  BY <1>2, Zenon DEF Remainder, Taken
<1> HIDE DEF divided
<1>10. divided[0] = bits /\ \A k \in 1..n : divided[k] = Taken(divided[k - 1], k)
  BY <1>8
<1>11. \A k \in 0..n : divided[k] \in W
  <2> DEFINE good == {k \in 0..n : divided[k] \in W}
  <2>1. 0 \in good
    BY <1>10 DEF W
  <2>2. ASSUME NEW k \in Nat, k < n, k \in good PROVE k + 1 \in good
    <3>1. k + 1 \in 1..n /\ (k + 1) - 1 = k /\ divided[k] \in W
      BY <2>2
    <3> QED BY <1>3, <1>10, <3>1
  <2> HIDE DEF good
  <2>3. \A k \in 0..n : k \in good
    BY <2>1, <2>2, Upwards
  <2> QED BY <2>3 DEF good
<1> QED BY <1>9, <1>10, <1>11 DEF IsDivision, W

\* The division does not touch what is more than 32 places ahead.
LEMMA AheadUntouched ==
  ASSUME NEW n \in Nat, NEW bits \in Word(n + 32), NEW f, IsDivision(f, n, bits)
  PROVE  \A k \in 0..n : \A i \in 1..n + 32 : i > k + 32 => f[k][i] = bits[i]
<1> DEFINE m == n + 32
           good == {k \in 0..n : \A i \in 1..m : i > k + 32 => f[k][i] = bits[i]}
<1>1. 0 \in good
  BY DEF IsDivision
<1>2. ASSUME NEW k \in Nat, k < n, k \in good PROVE k + 1 \in good
  <2>1. k + 1 \in 1..m /\ k + 1 \in 1..n /\ (k + 1) - 1 = k /\ k \in 0..n /\ m \in Nat
    BY <1>2
  <2>2. f[k] \in Word(m) /\ f[k + 1] = Taken(f[k], k + 1)
    BY <2>1 DEF IsDivision
  <2>3. ASSUME NEW i \in 1..m, i > (k + 1) + 32 PROVE f[k + 1][i] = bits[i]
    <3>1. f[k][i] = bits[i]
      BY <1>2, <2>3
    <3>2. f[k + 1][i] = f[k][i]
      BY <2>1, <2>2, <2>3, TakenIs
    <3> QED BY <3>1, <3>2
  <2> QED BY <2>1, <2>3
<1> HIDE DEF good
<1>3. \A k \in 0..n : k \in good
  BY <1>1, <1>2, Upwards
<1> QED BY <1>3 DEF good

\* A sequence of n bits is a string of n bits.
LEMMA SeqWord ==
  ASSUME NEW n \in Nat, NEW s \in Seq(Bit), Len(s) = n
  PROVE  s \in Word(n)
BY DEF Word

\* What is left of a sequence without its first member.
LEMMA TailIs ==
  ASSUME NEW S, NEW s \in Seq(S), NEW n \in Nat, Len(s) = n + 1
  PROVE  Tail(s) \in Seq(S) /\ Len(Tail(s)) = n /\ \A i \in 1..n : Tail(s)[i] = s[i + 1]
OBVIOUS

\* A string of bits shifted by one place.
Shifted(r) == Tail(r) \o <<0>>

\* The bits of a shifted string.
LEMMA ShiftedBy ==
  ASSUME NEW n \in Nat, NEW r \in Word(n + 1)
  PROVE  /\ Shifted(r) \in Word(n + 1)
         /\ \A i \in 1..n + 1 : Shifted(r)[i] = IF i < n + 1 THEN r[i + 1] ELSE 0
<1>1. r \in Seq(Bit) /\ Len(r) = n + 1
  BY WordLen
<1> DEFINE t == Tail(r)
           z == <<0>>
           s == t \o z
<1>2. t \in Seq(Bit) /\ Len(t) = n /\ \A i \in 1..n : t[i] = r[i + 1]
  BY <1>1, TailIs
<1>3. z \in Seq(Bit) /\ Len(z) = 1 /\ z[1] = 0
  <2>1. 0 \in Bit
    BY DEF Bit
  <2> QED BY <2>1
<1> HIDE DEF t, z
<1>4. s \in Seq(Bit) /\ IsJoin(s, t, z)
  BY <1>2, <1>3, Joined
<1> HIDE DEF s
<1>5. Len(s) = n + 1 /\ (\A i \in 1..n : s[i] = t[i]) /\ s[n + 1] = z[1]
  BY <1>2, <1>3, <1>4 DEF IsJoin
<1>6. \A i \in 1..n + 1 : s[i] = IF i < n + 1 THEN r[i + 1] ELSE 0
  BY <1>2, <1>3, <1>5
<1>7. s \in Word(n + 1)
  BY <1>4, <1>5, SeqWord
<1> QED BY <1>6, <1>7 DEF s, t, z, Shifted

\* The bits of a shifted register.
LEMMA ShiftedIs ==
  ASSUME NEW r \in Word(32)
  PROVE  /\ Shifted(r) \in Word(32)
         /\ \A i \in 1..32 : Shifted(r)[i] = IF i < 32 THEN r[i + 1] ELSE 0
<1> DEFINE n == 31
<1>1. n \in Nat /\ n + 1 = 32
  OBVIOUS
<1> HIDE DEF n
<1> QED BY <1>1, ShiftedBy

\* One of the eight rounds that make an entry of the table.
Rolled(r) == IF r[1] = 1 THEN Xor(Shifted(r), Poly) ELSE Shifted(r)

\* The bits after a round.
LEMMA RolledIs ==
  ASSUME NEW r \in Word(32)
  PROVE  /\ Rolled(r) \in Word(32)
         /\ \A i \in 1..32 : LET s == IF i < 32 THEN r[i + 1] ELSE 0
                             IN Rolled(r)[i] = IF r[1] = 1 THEN (s + Poly[i]) % 2 ELSE s
<1> DEFINE t == Shifted(r)
<1>1. t \in Word(32) /\ DOMAIN t = 1..32 /\ \A i \in 1..32 : t[i] = IF i < 32 THEN r[i + 1] ELSE 0
  BY ShiftedIs DEF Word
<1> HIDE DEF t
<1>2. Xor(t, Poly) = [i \in 1..32 |-> (t[i] + Poly[i]) % 2]
  BY <1>1 DEF Xor
<1>3. ASSUME NEW i \in 1..32 PROVE (t[i] + Poly[i]) % 2 \in Bit
  <2>1. t[i] \in Bit /\ Poly[i] \in Bit
    BY <1>1, PolyAssumption DEF Word
  <2> QED BY <2>1, BitSums
<1>4. Xor(t, Poly) \in Word(32)
  BY <1>2, <1>3 DEF Word
<1> QED BY <1>1, <1>2, <1>4 DEF Rolled, t

\* Bits with zeros behind them.
LEMMA PaddedIs ==
  ASSUME NEW m \in Nat, NEW n \in Nat, NEW b \in Word(m)
  PROVE  /\ b \o Zeros(n) \in Word(m + n)
         /\ \A i \in 1..m + n : (b \o Zeros(n))[i] = IF i <= m THEN b[i] ELSE 0
<1> DEFINE z == Zeros(n)
           s == b \o z
<1>1. b \in Seq(Bit) /\ Len(b) = m
  BY WordLen
<1>2. z = [k \in 1..n |-> 0] /\ 0 \in Bit
  BY DEF Zeros, Bit
<1>3. z \in Seq(Bit) /\ Len(z) = n /\ \A k \in 1..n : z[k] = 0
  <2>1. z \in Word(n)
    BY <1>2 DEF Word
  <2> QED BY <1>2, <2>1, WordLen
<1> HIDE DEF z
<1>4. s \in Seq(Bit) /\ IsJoin(s, b, z)
  BY <1>1, <1>3, Joined
<1> HIDE DEF s
<1>5. Len(s) = m + n /\ (\A i \in 1..m : s[i] = b[i]) /\ \A k \in 1..n : s[m + k] = z[k]
  BY <1>1, <1>3, <1>4 DEF IsJoin
<1>6. ASSUME NEW i \in 1..m + n PROVE s[i] = IF i <= m THEN b[i] ELSE 0
  <2>1. CASE i <= m
    BY <1>5, <2>1
  <2>2. CASE i > m
    <3>1. i - m \in 1..n /\ m + (i - m) = i
      BY <2>2
    <3> QED BY <1>3, <1>5, <2>2, <3>1
  <2> QED BY <2>1, <2>2
<1>7. s \in Word(m + n)
  BY <1>4, <1>5, SeqWord
<1> QED BY <1>6, <1>7 DEF s, z

\* A byte with 24 zeros behind it.
LEMMA WidenedIs ==
  ASSUME NEW b \in Word(8)
  PROVE  /\ b \o Zeros(24) \in Word(32)
         /\ \A i \in 1..32 : (b \o Zeros(24))[i] = IF i <= 8 THEN b[i] ELSE 0
<1> DEFINE m == 8
           n == 24
<1>1. m = 8 /\ n = 24 /\ m \in Nat /\ n \in Nat /\ m + n = 32
  OBVIOUS
<1>2. b \in Word(m)
  OBVIOUS
<1> HIDE DEF m, n
<1>3. /\ b \o Zeros(n) \in Word(m + n)
      /\ \A i \in 1..m + n : (b \o Zeros(n))[i] = IF i <= m THEN b[i] ELSE 0
  BY ONLY <1>1, <1>2, PaddedIs
<1> QED BY <1>1, <1>3

\* The rounds behind an entry of the table.
IsRolling(g, b) ==
  /\ g[0] = b \o Zeros(24)
  /\ \A k \in 0..8 : g[k] \in Word(32)
  /\ \A k \in 1..8 : g[k] = Rolled(g[k - 1])

\* An entry of the table is what the eight rounds leave.
LEMMA TableSteps ==
  ASSUME NEW b \in Word(8)
  PROVE  \E g : IsRolling(g, b) /\ TableEntry(b) = g[8]
<1> DEFINE W == Word(32)
           first == b \o Zeros(24)
           step == [x \in (1..8) \X W |-> Rolled(x[2])]
<1>1. first \in W
  BY WidenedIs
<1>2. \A r \in W : Rolled(r) \in W
  BY RolledIs
<1> HIDE DEF W, first
<1>3. step \in [(1..8) \X W -> W]
  BY <1>2
<1>4. PICK f : Counts(f, 8, W, first, step)
  <2> HIDE DEF step
  <2> QED BY <1>1, <1>3, CountedUp
<1>5. f \in [0..8 -> W] /\ f[0] = first /\ \A k \in 1..8 : f[k] = Rolled(f[k - 1])
  <2>1. \A k \in 1..8 : f[k - 1] \in W
    BY <1>4 DEF Counts
  <2> QED BY <1>4, <2>1 DEF Counts
<1> DEFINE Is(g) == g = [k \in 0..8 |-> IF k = 0 THEN first ELSE Rolled(g[k - 1])]
           shifted == CHOOSE g : Is(g)
<1>6. Is(f)
  BY <1>5
<1>7. Is(shifted)
  <2> HIDE DEF Is
  <2> QED BY <1>6
<1>8. TableEntry(b) = shifted[8]
  BY Zenon DEF TableEntry, Rolled, Shifted, first
<1> HIDE DEF shifted
<1>9. shifted[0] = first /\ \A k \in 1..8 : shifted[k] = Rolled(shifted[k - 1])
  BY <1>7
<1>10. \A k \in 0..8 : shifted[k] \in W
  <2> DEFINE good == {k \in 0..8 : shifted[k] \in W}
  <2>1. 0 \in good
    BY <1>1, <1>9
  <2>2. ASSUME NEW k \in Nat, k < 8, k \in good PROVE k + 1 \in good
    <3>1. k + 1 \in 1..8 /\ (k + 1) - 1 = k /\ shifted[k] \in W
      BY <2>2
    <3> QED BY <1>2, <1>9, <3>1
  <2> HIDE DEF good
  <2>3. \A k \in 0..8 : k \in good
    BY <2>1, <2>2, Upwards
  <2> QED BY <2>3 DEF good
<1> QED BY <1>8, <1>9, <1>10 DEF IsRolling, W, first

\* Three bits added without carry.
Sum3(a, b, c) == (a + b + c) % 2

\* Sums of three bits, one of which may be 0 or another of them.
LEMMA Sums3 ==
  ASSUME NEW a \in Bit, NEW b \in Bit, NEW c \in Bit, NEW p \in Bit
  PROVE  /\ Sum3(a, b, c) \in Bit /\ Sum3(a, 0, 0) = a /\ Sum3(a, b, b) = a /\ Sum3(a, a, 0) = 0
         /\ Sum3(a, b, 0) = (a + b) % 2 /\ Sum3((a + b) % 2, b, 0) = a
         /\ Sum3((a + p) % 2, b, c) = (Sum3(a, b, c) + p) % 2
         /\ (c + Sum3(a, b, c)) % 2 = (a + b) % 2 /\ (0 + Sum3(a, b, 0)) % 2 = (a + b) % 2
         /\ Sum3(a, b, (a + b) % 2) = 0 /\ Sum3(a, 0, 0) = a /\ (((a + b) % 2) + b) % 2 = a
<1>1. (a = 0 \/ a = 1) /\ (b = 0 \/ b = 1) /\ (c = 0 \/ c = 1) /\ (p = 0 \/ p = 1)
  BY DEF Bit
<1>2. 0 \in Bit /\ 1 \in Bit
  BY DEF Bit
<1> QED BY ONLY <1>1, <1>2, SMT DEF Sum3

\* What stands in the register of the table after k shifts of a byte: the window of the
\* division, the bits of the message that the register has not met, and the rest of the
\* register that the table does not know.
IsAhead(t, d, q, crc, at8, k) ==
  \A i \in 1..32 : t[i] = Sum3(d[at8 + k + i], IF k + i > 8 THEN q[at8 + k + i] ELSE 0,
                               IF 9 <= k + i /\ k + i <= 32 THEN crc[k + i] ELSE 0)

\* The register is the window of the division and the bits of the message there.
IsWindow(r, d, q, k) == \A i \in 1..32 : r[i] = (d[k + i] + q[k + i]) % 2

\* One shift, of the table's register and of the division.
LEMMA ShiftAhead ==
  ASSUME NEW n \in Nat, NEW at8 \in Nat, at8 + 8 <= n, NEW k \in 0..7,
         NEW t \in Word(32), NEW d \in Word(n + 32), NEW q \in Word(n + 32), NEW crc \in Word(32),
         IsAhead(t, d, q, crc, at8, k), d[at8 + k + 33] = q[at8 + k + 33]
  PROVE  IsAhead(Rolled(t), Taken(d, at8 + k + 1), q, crc, at8, k + 1)
<1> DEFINE j == at8 + k + 1
           m == n + 32
           Q(i) == IF k + i > 8 THEN q[at8 + k + i] ELSE 0
           C(i) == IF 9 <= k + i /\ k + i <= 32 THEN crc[k + i] ELSE 0
<1>1. /\ j \in 1..m /\ m \in Nat /\ j \in Nat /\ k \in Nat
      /\ \A i \in 1..32 : /\ j + i \in 1..m /\ j < j + i /\ j + i <= j + 32 /\ (j + i) - j = i
                          /\ at8 + k + i \in 1..m /\ at8 + (k + 1) + i = j + i
  OBVIOUS
<1>2. \A i \in 1..m : d[i] \in Bit /\ q[i] \in Bit
  BY DEF Word
<1>3. 0 \in Bit /\ \A i \in 1..32 : crc[i] \in Bit /\ t[i] \in Bit /\ Poly[i] \in Bit
  BY PolyAssumption DEF Word, Bit
<1>4. t[1] = d[j]
  <2>1. 1 \in 1..32 /\ ~(k + 1 > 8) /\ ~(9 <= k + 1 /\ k + 1 <= 32) /\ at8 + k + 1 = j
    OBVIOUS
  <2>2. t[1] = Sum3(d[j], 0, 0)
    <3> HIDE DEF j
    <3> QED BY <2>1 DEF IsAhead
  <2> QED BY <1>1, <1>2, <2>2, Sums3
<1>5. \A i \in 1..m : Taken(d, j)[i] = IF d[j] = 1 /\ j < i /\ i <= j + 32 THEN (d[i] + Poly[i - j]) % 2 ELSE d[i]
  BY <1>1, TakenIs
<1> SUFFICES ASSUME NEW i \in 1..32
             PROVE  Rolled(t)[i] = Sum3(Taken(d, j)[at8 + (k + 1) + i],
                                        IF (k + 1) + i > 8 THEN q[at8 + (k + 1) + i] ELSE 0,
                                        IF 9 <= (k + 1) + i /\ (k + 1) + i <= 32 THEN crc[(k + 1) + i] ELSE 0)
  BY Zenon DEF IsAhead
<1> SUFFICES Rolled(t)[i] = Sum3(Taken(d, j)[j + i], Q(i + 1), C(i + 1))
  <2>1. at8 + (k + 1) + i = j + i /\ (k + 1) + i = k + (i + 1) /\ at8 + k + (i + 1) = j + i
    OBVIOUS
  <2> HIDE DEF j
  <2> QED BY ONLY <2>1, Rolled(t)[i] = Sum3(Taken(d, j)[j + i], Q(i + 1), C(i + 1)), SMT
<1> DEFINE e == d[j + i]
           s == IF i < 32 THEN t[i + 1] ELSE 0
           b == Q(i + 1)
           c == C(i + 1)
<1>6. e \in Bit /\ b \in Bit /\ c \in Bit /\ Poly[i] \in Bit
  <2>1. i + 1 \in Nat /\ at8 + k + (i + 1) = j + i /\ j + i \in 1..m
    BY <1>1
  <2>2. (9 <= k + (i + 1) /\ k + (i + 1) <= 32) => k + (i + 1) \in 1..32
    OBVIOUS
  <2> HIDE DEF j, m
  <2> QED BY <1>2, <1>3, <2>1, <2>2
<1>7. s = Sum3(e, b, c)
  <2>1. CASE i < 32
    <3>1. i + 1 \in 1..32 /\ at8 + k + (i + 1) = j + i
      BY <2>1
    <3>2. t[i + 1] = Sum3(d[at8 + k + (i + 1)], Q(i + 1), C(i + 1))
      BY <3>1 DEF IsAhead
    <3> HIDE DEF j, Q, C
    <3> QED BY <2>1, <3>1, <3>2
  <2>2. CASE i = 32
    <3>1. /\ k + (i + 1) > 8 /\ ~(k + (i + 1) <= 32) /\ at8 + k + (i + 1) = at8 + k + 33
          /\ j + i = at8 + k + 33 /\ ~(i < 32)
      BY <2>2
    <3>2. c = 0 /\ b = q[at8 + k + 33] /\ s = 0 /\ e = d[at8 + k + 33]
      <4> HIDE DEF j
      <4> QED BY <3>1
    <3>3. b = e
      BY <3>2
    <3> HIDE DEF e, b, c, s
    <3> QED BY <1>6, <3>2, <3>3, Sums3
  <2> QED BY <2>1, <2>2
<1>8. Rolled(t)[i] = IF t[1] = 1 THEN (s + Poly[i]) % 2 ELSE s
  BY RolledIs
<1>9. Taken(d, j)[j + i] = IF d[j] = 1 THEN (e + Poly[i]) % 2 ELSE e
  <2> HIDE DEF j, m
  <2> QED BY <1>1, <1>5
<1> HIDE DEF e, s, b, c, j
<1>10. CASE d[j] = 1
  BY <1>4, <1>6, <1>7, <1>8, <1>9, <1>10, Sums3 DEF b, c
<1>11. CASE d[j] # 1
  BY <1>4, <1>6, <1>7, <1>8, <1>9, <1>11 DEF b, c
<1> QED BY <1>10, <1>11

\* Powers of two that a byte has bits for.
Two == {1, 2, 4, 8, 16, 32, 64, 128}

\* They are positive.
LEMMA PowersOfTwo ==
  ASSUME NEW e \in 0..7
  PROVE  2^e \in Nat /\ 2^e > 0
<1>1. 2^0 = 1 /\ 2^1 = 2 /\ 2^2 = 4 /\ 2^3 = 8 /\ 2^4 = 16 /\ 2^5 = 32 /\ 2^6 = 64 /\ 2^7 = 128
  OBVIOUS
<1>2. e = 0 \/ e = 1 \/ e = 2 \/ e = 3 \/ e = 4 \/ e = 5 \/ e = 6 \/ e = 7
  OBVIOUS
<1>3. e = 0 => 2^e \in Two
  BY <1>1, Zenon DEF Two
<1>4. e = 1 => 2^e \in Two
  BY <1>1, Zenon DEF Two
<1>5. e = 2 => 2^e \in Two
  BY <1>1, Zenon DEF Two
<1>6. e = 3 => 2^e \in Two
  BY <1>1, Zenon DEF Two
<1>7. e = 4 => 2^e \in Two
  BY <1>1, Zenon DEF Two
<1>8. e = 5 => 2^e \in Two
  BY <1>1, Zenon DEF Two
<1>9. e = 6 => 2^e \in Two
  BY <1>1, Zenon DEF Two
<1>10. e = 7 => 2^e \in Two
  BY <1>1, Zenon DEF Two
<1>11. 2^e \in Two
  BY <1>2, <1>3, <1>4, <1>5, <1>6, <1>7, <1>8, <1>9, <1>10
<1>12. \A p \in Two : p \in Nat /\ p > 0
  BY SMT DEF Two
<1> QED BY <1>11, <1>12

\* The bits of a byte.
LEMMA BitsAre ==
  ASSUME NEW b \in Byte
  PROVE  Bits(b) \in Word(8)
<1>1. b \in Nat
  BY DEF Byte
<1>2. ASSUME NEW k \in 1..8 PROVE (b \div 2^(8 - k)) % 2 \in Bit
  <2> DEFINE e == 8 - k
             p == 2^e
             v == b \div p
  <2>1. p \in Nat /\ p > 0
    <3>1. e \in 0..7
      OBVIOUS
    <3> HIDE DEF e
    <3> QED BY <3>1, PowersOfTwo
  <2> HIDE DEF p
  <2>2. v \in Int
    BY <1>1, <2>1
  <2> HIDE DEF v
  <2>3. v % 2 \in Bit
    BY ONLY <2>2, SMT DEF Bit
  <2> QED BY <2>3 DEF p, v
<1> QED BY <1>2 DEF Bits, Word

\* The bits of a message are those of its bytes.
LEMMA MessageBitsAre ==
  ASSUME NEW data \in Seq(Byte)
  PROVE  /\ MessageBits(data) \in Word(8 * Len(data))
         /\ \A j \in 0..Len(data) - 1, i \in 1..8 : MessageBits(data)[8 * j + i] = Bits(data[j + 1])[i]
<1> DEFINE l == Len(data)
<1>1. l \in Nat
  OBVIOUS
<1>2. MessageBits(data) = [k \in 1..8 * l |-> Bits(data[(k + 7) \div 8])[((k - 1) % 8) + 1]]
  BY DEF MessageBits
<1>3. ASSUME NEW k \in 1..8 * l PROVE Bits(data[(k + 7) \div 8])[((k - 1) % 8) + 1] \in Bit
  <2>1. (k + 7) \div 8 \in 1..l /\ ((k - 1) % 8) + 1 \in 1..8
    <3> HIDE DEF l
    <3> QED BY <1>1
  <2>2. data[(k + 7) \div 8] \in Byte
    BY <2>1
  <2>3. Bits(data[(k + 7) \div 8]) \in Word(8)
    BY <2>2, BitsAre
  <2> QED BY <2>1, <2>3 DEF Word
<1>4. MessageBits(data) \in Word(8 * l)
  BY <1>2, <1>3 DEF Word
<1>5. ASSUME NEW j \in 0..l - 1, NEW i \in 1..8 PROVE MessageBits(data)[8 * j + i] = Bits(data[j + 1])[i]
  <2> HIDE DEF l
  <2> DEFINE k == 8 * j + i
  <2>1. k \in 1..8 * l /\ (k + 7) \div 8 = j + 1 /\ ((k - 1) % 8) + 1 = i
    BY <1>1
  <2>2. MessageBits(data)[k] = Bits(data[(k + 7) \div 8])[((k - 1) % 8) + 1]
    <3> HIDE DEF k
    <3> QED BY <1>2, <2>1
  <2> QED BY <2>1, <2>2
<1> QED BY <1>4, <1>5

\* The message as it is divided.
Padded(data) == MessageBits(data) \o Zeros(32)
Flipped(data) == [k \in 1..Len(Padded(data)) |-> IF k <= 32 THEN 1 - Padded(data)[k] ELSE Padded(data)[k]]

\* The bits that are divided, and the message they are made of.
LEMMA PaddedBits ==
  ASSUME NEW data \in Seq(Byte), NEW n, n = 8 * Len(data)
  PROVE  /\ n \in Nat /\ Padded(data) \in Word(n + 32) /\ Flipped(data) \in Word(n + 32)
         /\ \A j \in 0..Len(data) - 1, i \in 1..8 : Padded(data)[8 * j + i] = Bits(data[j + 1])[i]
         /\ \A i \in 1..32 : Padded(data)[n + i] = 0 /\ Flipped(data)[i] = 1 - Padded(data)[i]
         /\ \A i \in 33..n + 32 : Flipped(data)[i] = Padded(data)[i]
<1> DEFINE q == Padded(data)
           m == n + 32
<1>1. n \in Nat /\ m \in Nat /\ MessageBits(data) \in Word(n)
  BY MessageBitsAre
<1>2. q \in Word(n + 32) /\ \A i \in 1..n + 32 : q[i] = IF i <= n THEN MessageBits(data)[i] ELSE 0
  <2> DEFINE z == 32
  <2>1. z \in Nat
    OBVIOUS
  <2>2. q = MessageBits(data) \o Zeros(z)
    BY DEF Padded
  <2> HIDE DEF z, q
  <2>3. q \in Word(n + z) /\ \A i \in 1..n + z : q[i] = IF i <= n THEN MessageBits(data)[i] ELSE 0
    BY <1>1, <2>1, <2>2, PaddedIs
  <2> QED BY <2>3 DEF z
<1> HIDE DEF q
<1>3. Len(q) = m /\ \A i \in 1..m : q[i] \in Bit
  BY <1>1, <1>2, WordLen DEF Word
<1>4. Flipped(data) = [k \in 1..m |-> IF k <= 32 THEN 1 - q[k] ELSE q[k]]
  BY <1>3 DEF Flipped, q
<1>5. \A i \in 1..m : 1 - q[i] \in Bit
  BY <1>3 DEF Bit
<1>6. Flipped(data) \in Word(n + 32)
  BY <1>3, <1>4, <1>5 DEF Word
<1>7. ASSUME NEW j \in 0..Len(data) - 1, NEW i \in 1..8 PROVE q[8 * j + i] = Bits(data[j + 1])[i]
  <2>1. 8 * j + i \in 1..n + 32 /\ 8 * j + i <= n
    BY <1>1
  <2> QED BY <1>2, <2>1, MessageBitsAre
<1>8. \A i \in 1..32 : q[n + i] = 0 /\ Flipped(data)[i] = 1 - q[i]
  <2>1. \A i \in 1..32 : n + i \in 1..m /\ ~(n + i <= n) /\ i \in 1..m /\ i <= 32
    BY <1>1
  <2> QED BY <1>2, <1>4, <2>1
<1>9. \A i \in 33..m : Flipped(data)[i] = q[i]
  BY <1>1, <1>4
<1> QED BY <1>1, <1>2, <1>6, <1>7, <1>8, <1>9 DEF q

\* The division of a message.
Divides(f, data) == IsDivision(f, 8 * Len(data), Flipped(data))

\* A piece of a string of bits.
LEMMA BitsWithin ==
  ASSUME NEW s \in Seq(Bit), NEW a \in Nat, NEW n \in Nat, a + n <= Len(s)
  PROVE  SubSeq(s, a + 1, a + n) \in Word(n) /\ \A i \in 1..n : SubSeq(s, a + 1, a + n)[i] = s[a + i]
<1> DEFINE p == SubSeq(s, a + 1, a + n)
<1>1. p = [i \in 1..n |-> s[a + i]]
  <2>1. /\ a + 1 \in Int /\ a + n \in Int /\ (a + n) - (a + 1) + 1 = n
        /\ \A i \in 1..n : (a + 1) + i - 1 = a + i
    OBVIOUS
  <2> QED BY <2>1
<1> HIDE DEF p
<1>2. \A i \in 1..n : s[a + i] \in Bit
  <2>1. \A i \in 1..n : a + i \in 1..Len(s)
    OBVIOUS
  <2>2. \A i \in 1..Len(s) : s[i] \in Bit
    OBVIOUS
  <2> QED BY <2>1, <2>2
<1> QED BY <1>1, <1>2 DEF p, Word

\* The table does in one step what the division does in eight.
LEMMA ByteStep ==
  ASSUME NEW data \in Seq(Byte), NEW f, Divides(f, data), NEW j \in 0..Len(data) - 1,
         NEW crc \in Word(32), IsWindow(crc, f[8 * j], Padded(data), 8 * j)
  PROVE  /\ CrcStep(crc, data[j + 1]) \in Word(32)
         /\ IsWindow(CrcStep(crc, data[j + 1]), f[8 * (j + 1)], Padded(data), 8 * (j + 1))
<1> DEFINE n == 8 * Len(data)
           q == Padded(data)
           m == n + 32
           s == 8 * j
           b == Bits(data[j + 1])
           top == SubSeq(crc, 1, 8)
           x == Xor(top, b)
<1>1. /\ n \in Nat /\ q \in Word(n + 32) /\ Flipped(data) \in Word(n + 32)
      /\ \A i \in 1..8 : q[s + i] = b[i]
      /\ \A i \in 33..n + 32 : Flipped(data)[i] = q[i]
  <2>1. n = 8 * Len(data)
    OBVIOUS
  <2> HIDE DEF n
  <2> QED BY <2>1, PaddedBits
<1>2. s \in Nat /\ s + 8 <= n /\ m \in Nat /\ j \in Nat
  OBVIOUS
<1>3. b \in Word(8)
  <2>1. data[j + 1] \in Byte
    OBVIOUS
  <2> QED BY <2>1, BitsAre
<1>4. IsDivision(f, n, Flipped(data))
  BY DEF Divides
<1>5. \A k \in 0..8 : s + k \in 0..n /\ f[s + k] \in Word(n + 32)
  <2>1. \A k \in 0..8 : s + k \in 0..n
    BY <1>1, <1>2
  <2> QED BY <1>4, <2>1 DEF IsDivision
<1>6. \A i \in 1..32 : crc[i] \in Bit /\ s + i \in 1..n + 32 /\ f[s][s + i] \in Bit /\ q[s + i] \in Bit
  <2>1. ASSUME NEW i \in 1..32 PROVE s + i \in 1..n + 32
    <3>1. n \in Nat
      BY <1>1
    <3> HIDE DEF n, s
    <3> QED BY ONLY <1>2, <3>1, i \in 1..32
  <2>2. f[s] \in Word(n + 32)
    <3>1. s + 0 = s /\ 0 \in 0..8
      BY <1>2
    <3> QED BY <1>5, <3>1
  <2> HIDE DEF s, n, q
  <2> QED BY <1>1, <2>1, <2>2 DEF Word
<1>7. \A i \in 1..32 : crc[i] = (f[s][s + i] + q[s + i]) % 2
  BY DEF IsWindow
<1> HIDE DEF n, q, m, s, b
<1>8. x \in Word(8) /\ \A i \in 1..8 : x[i] = (crc[i] + b[i]) % 2
  <2>1. crc \in Seq(Bit) /\ Len(crc) = 32
    BY WordLen
  <2>2. top \in Word(8) /\ \A i \in 1..8 : top[i] = crc[i]
    <3> DEFINE w == 8
               o == 0
    <3>1. w \in Nat /\ o \in Nat /\ o + w <= Len(crc) /\ w = 8 /\ o + w = 8 /\ o + 1 = 1 /\ \A i \in 1..w : o + i = i
      BY <2>1
    <3> HIDE DEF w, o
    <3>2. SubSeq(crc, o + 1, o + w) \in Word(w) /\ \A i \in 1..w : SubSeq(crc, o + 1, o + w)[i] = crc[o + i]
      BY <2>1, <3>1, BitsWithin
    <3>3. top = SubSeq(crc, o + 1, o + w)
      BY <3>1
    <3> HIDE DEF top
    <3> QED BY <3>1, <3>2, <3>3
  <2>3. DOMAIN top = 1..8
    BY <2>2 DEF Word
  <2> HIDE DEF top
  <2>4. x = [i \in 1..8 |-> (top[i] + b[i]) % 2]
    BY <2>3 DEF Xor
  <2>5. ASSUME NEW i \in 1..8 PROVE x[i] = (crc[i] + b[i]) % 2 /\ x[i] \in Bit
    <3>1. i \in 1..32
      OBVIOUS
    <3>2. crc[i] \in Bit /\ b[i] \in Bit
      BY <1>3, <1>6, <3>1 DEF Word
    <3>3. x[i] = (crc[i] + b[i]) % 2
      BY <2>2, <2>4
    <3> QED BY <3>2, <3>3, BitSums
  <2>6. x \in Word(8)
    BY <2>4, <2>5 DEF Word
  <2> QED BY <2>5, <2>6
<1> HIDE DEF x, top
<1>9. PICK g : IsRolling(g, x) /\ TableEntry(x) = g[8]
  BY <1>8, TableSteps
<1> DEFINE good == {k \in 0..8 : IsAhead(g[k], f[s + k], q, crc, s, k)}
<1>10. 0 \in good
  <2>1. g[0] = x \o Zeros(24)
    BY <1>9 DEF IsRolling
  <2>2. \A i \in 1..32 : g[0][i] = IF i <= 8 THEN x[i] ELSE 0
    <3> DEFINE w == x \o Zeros(24)
    <3>1. x \in Word(8)
      BY <1>8
    <3>2. \A i \in 1..32 : w[i] = IF i <= 8 THEN x[i] ELSE 0
      BY ONLY <3>1, WidenedIs
    <3>3. g[0] = w
      BY <2>1
    <3> HIDE DEF w
    <3> QED BY ONLY <3>2, <3>3
  <2>3. ASSUME NEW i \in 1..32
        PROVE  g[0][i] = Sum3(f[s][s + i], IF i > 8 THEN q[s + i] ELSE 0, IF 9 <= i /\ i <= 32 THEN crc[i] ELSE 0)
    <3> DEFINE d == f[s][s + i]
               c == crc[i]
               r == q[s + i]
    <3>1. d \in Bit /\ c \in Bit /\ r \in Bit /\ c = (d + r) % 2
      BY <1>6, <1>7
    <3> HIDE DEF d, c, r
    <3>2. CASE i <= 8
      <4>1. i \in 1..8 /\ ~(i > 8) /\ ~(9 <= i /\ i <= 32)
        BY <3>2
      <4>2. g[0][i] = (c + r) % 2
        <5>1. x[i] = (crc[i] + b[i]) % 2 /\ q[s + i] = b[i]
          BY <1>1, <1>8, <4>1
        <5> QED BY <2>2, <3>2, <5>1 DEF c, r
      <4>3. (c + r) % 2 = d /\ Sum3(d, 0, 0) = d
        BY <3>1, Sums3
      <4> QED BY <4>1, <4>2, <4>3 DEF d
    <3>3. CASE i > 8
      <4>1. ~(i <= 8) /\ 9 <= i /\ i <= 32
        BY <3>3
      <4>2. g[0][i] = 0
        BY <2>2, <4>1
      <4>3. Sum3(d, r, c) = 0
        BY <3>1, Sums3
      <4> QED BY <3>3, <4>1, <4>2, <4>3 DEF d, c, r
    <3> QED BY <3>2, <3>3
  <2>4. s + 0 = s
    BY <1>2
  <2>5. \A i \in 1..32 : s + 0 + i = s + i /\ 0 + i = i
    BY <1>2
  <2>6. IsAhead(g[0], f[s + 0], q, crc, s, 0)
    BY <2>3, <2>4, <2>5 DEF IsAhead
  <2> QED BY <2>6
<1>11. ASSUME NEW k \in Nat, k < 8, k \in good PROVE k + 1 \in good
  <2>1. k \in 0..7 /\ k \in 0..8 /\ k + 1 \in 0..8 /\ k + 1 \in 1..8 /\ (k + 1) - 1 = k /\ s + (k + 1) = s + k + 1
    BY <1>2, <1>11
  <2>2. IsAhead(g[k], f[s + k], q, crc, s, k)
    BY <1>11
  <2>3. g[k] \in Word(32) /\ g[k + 1] = Rolled(g[k])
    BY <1>9, <2>1 DEF IsRolling
  <2>4. s + k + 1 \in 1..n /\ (s + k + 1) - 1 = s + k /\ s + k \in 0..n
    BY <1>1, <1>2, <2>1
  <2>5. f[s + k] \in Word(n + 32) /\ f[s + k + 1] = Taken(f[s + k], s + k + 1)
    BY <1>4, <2>4 DEF IsDivision
  <2>6. f[s + k][s + k + 33] = q[s + k + 33]
    <3>1. s + k + 33 \in 1..n + 32 /\ s + k + 33 > (s + k) + 32 /\ s + k + 33 \in 33..n + 32
      BY <1>1, <1>2, <2>1
    <3>2. \A u \in 0..n : \A i \in 1..n + 32 : i > u + 32 => f[u][i] = Flipped(data)[i]
      BY ONLY <1>1, <1>4, AheadUntouched
    <3>3. f[s + k][s + k + 33] = Flipped(data)[s + k + 33]
      BY ONLY <2>4, <3>1, <3>2
    <3> QED BY <1>1, <3>1, <3>3
  <2>7. IsAhead(Rolled(g[k]), Taken(f[s + k], s + k + 1), q, crc, s, k + 1)
    BY ONLY <1>1, <1>2, <2>1, <2>2, <2>3, <2>5, <2>6, crc \in Word(32), ShiftAhead
  <2>8. IsAhead(g[k + 1], f[s + (k + 1)], q, crc, s, k + 1)
    BY ONLY <2>1, <2>3, <2>5, <2>7
  <2> QED BY <2>1, <2>8
<1> HIDE DEF good
<1>12. 8 \in good
  <2>1. \A k \in 0..8 : k \in good
    BY <1>10, <1>11, Upwards
  <2> QED BY <2>1
<1>13. IsAhead(g[8], f[s + 8], q, crc, s, 8) /\ g[8] \in Word(32)
  BY <1>9, <1>12 DEF good, IsRolling

<1> DEFINE rest == SubSeq(crc, 9, 32)
           low == rest \o Zeros(8)
<1>14. low \in Word(32) /\ \A i \in 1..32 : low[i] = IF i <= 24 THEN crc[i + 8] ELSE 0
  <2>1. crc \in Seq(Bit) /\ Len(crc) = 32
    BY WordLen
  <2> DEFINE u == 24
             v == 8
  <2>2. u = 24 /\ v = 8 /\ v + 1 = 9 /\ v + u = 32 /\ u + v = 32
    OBVIOUS
  <2>3. u \in Nat /\ v \in Nat /\ v + u <= Len(crc)
    BY <2>1
  <2> HIDE DEF u, v
  <2>4. rest = SubSeq(crc, v + 1, v + u)
    BY <2>2
  <2>5. rest \in Word(u) /\ \A i \in 1..u : rest[i] = crc[v + i]
    <3> HIDE DEF rest
    <3> QED BY ONLY <2>1, <2>3, <2>4, BitsWithin
  <2> HIDE DEF rest
  <2>6. /\ rest \o Zeros(v) \in Word(u + v)
        /\ \A i \in 1..u + v : (rest \o Zeros(v))[i] = IF i <= u THEN rest[i] ELSE 0
    BY ONLY <2>3, <2>5, PaddedIs
  <2>7. low = rest \o Zeros(v)
    BY <2>2
  <2> HIDE DEF low
  <2>8. low \in Word(32) /\ \A i \in 1..32 : low[i] = IF i <= 24 THEN rest[i] ELSE 0
    BY ONLY <2>2, <2>6, <2>7
  <2>9. \A i \in 1..32 : i <= 24 => rest[i] = crc[i + 8]
    <3>1. \A i \in 1..32 : i <= 24 => i \in 1..u /\ v + i = i + 8
      BY <2>2
    <3> QED BY <2>5, <3>1
  <2> QED BY ONLY <2>8, <2>9
<1> DEFINE next == CrcStep(crc, data[j + 1])
<1>15. next = Xor(low, g[8])
  BY <1>9 DEF CrcStep, x, top, b
<1> HIDE DEF rest, low
<1>16. next = [i \in 1..32 |-> (low[i] + g[8][i]) % 2]
  BY <1>14, <1>15 DEF Xor, Word
<1>17. ASSUME NEW i \in 1..32
       PROVE  next[i] = (f[s + 8][s + 8 + i] + q[s + 8 + i]) % 2 /\ next[i] \in Bit
  <2> DEFINE d == f[s + 8][s + 8 + i]
             r == q[s + 8 + i]
             c == IF i <= 24 THEN crc[i + 8] ELSE 0
  <2>1. s + 8 + i \in 1..n + 32 /\ 8 \in 0..8 /\ (i <= 24 => i + 8 \in 1..32)
    <3>1. n \in Nat
      BY <1>1
    <3> QED BY ONLY <1>2, <3>1, i \in 1..32
  <2>2. d \in Bit /\ r \in Bit
    BY <1>1, <1>5, <2>1 DEF Word
  <2>3. c \in Bit /\ low[i] \in Bit /\ low[i] = c /\ g[8][i] \in Bit
    <3>1. low[i] = c
      BY <1>14
    <3>2. low[i] \in Bit /\ g[8][i] \in Bit
      BY ONLY <1>13, <1>14, i \in 1..32 DEF Word
    <3> QED BY ONLY <3>1, <3>2
  <2>4. g[8][i] = Sum3(d, r, c)
    <3>1. 8 + i > 8 /\ 8 + i = i + 8 /\ (9 <= 8 + i /\ 8 + i <= 32 <=> i <= 24)
      OBVIOUS
    <3>2. g[8][i] = Sum3(d, IF 8 + i > 8 THEN q[s + 8 + i] ELSE 0, IF 9 <= 8 + i /\ 8 + i <= 32 THEN crc[8 + i] ELSE 0)
      BY <1>13 DEF IsAhead
    <3> HIDE DEF d
    <3> QED BY ONLY <3>1, <3>2 DEF r, c
  <2>5. next[i] = (low[i] + g[8][i]) % 2
    BY <1>16
  <2> HIDE DEF d, r, c, next
  <2>6. (c + Sum3(d, r, c)) % 2 = (d + r) % 2 /\ (d + r) % 2 \in Bit
    BY <2>2, <2>3, Sums3, BitSums
  <2> QED BY <2>3, <2>4, <2>5, <2>6 DEF d, r
<1>18. next \in Word(32)
  BY <1>16, <1>17 DEF Word
<1>19. s + 8 = 8 * (j + 1)
  BY <1>2 DEF s
<1> HIDE DEF next
<1>20. IsWindow(next, f[s + 8], q, s + 8)
  BY <1>17 DEF IsWindow
<1> QED BY <1>18, <1>19, <1>20 DEF next, q

\* The register after the first j bytes of a message.
IsRegister(r, data, j) ==
  \E f : /\ Divides(f, data) /\ Remainder(Flipped(data)) = SubSeq(f[8 * Len(data)], 8 * Len(data) + 1, 8 * Len(data) + 32)
         /\ IsWindow(r, f[8 * j], Padded(data), 8 * j)

\* At the start every bit is 1: the first 32 bits of the message are complemented.
LEMMA RegisterFirst ==
  ASSUME NEW data \in Seq(Byte)
  PROVE  Not(Zeros(32)) \in Word(32) /\ IsRegister(Not(Zeros(32)), data, 0)
<1> DEFINE n == 8 * Len(data)
           r == Not(Zeros(32))
<1>1. r = [i \in 1..32 |-> 1] /\ 1 \in Bit
  BY DEF Not, Zeros, Bit
<1>2. r \in Word(32)
  BY <1>1 DEF Word
<1>3. n = 8 * Len(data) /\ n \in Nat
  OBVIOUS
<1> HIDE DEF n, r
<1>4. /\ Padded(data) \in Word(n + 32) /\ Flipped(data) \in Word(n + 32)
      /\ \A i \in 1..32 : Flipped(data)[i] = 1 - Padded(data)[i]
  BY <1>3, PaddedBits
<1>5. PICK f : IsDivision(f, n, Flipped(data)) /\ Remainder(Flipped(data)) = SubSeq(f[n], n + 1, n + 32)
  BY <1>3, <1>4, DivisionSteps
<1>6. ASSUME NEW i \in 1..32 PROVE r[i] = (f[8 * 0][8 * 0 + i] + Padded(data)[8 * 0 + i]) % 2
  <2> DEFINE q == Padded(data)[i]
  <2>1. f[0][i] = 1 - q
    BY <1>4, <1>5 DEF IsDivision
  <2>2. q \in Bit
    <3>1. i \in 1..n + 32
      BY <1>3
    <3> QED BY <1>4, <3>1 DEF Word
  <2> HIDE DEF q
  <2>3. ((1 - q) + q) % 2 = 1
    BY ONLY <2>2, SMT DEF Bit
  <2>4. 8 * 0 = 0 /\ 8 * 0 + i = i /\ r[i] = 1
    BY <1>1
  <2> QED BY ONLY <2>1, <2>3, <2>4 DEF q
<1>7. IsWindow(r, f[8 * 0], Padded(data), 8 * 0)
  BY <1>6 DEF IsWindow
<1>8. Divides(f, data)
  BY <1>3, <1>5 DEF Divides
<1> QED BY <1>2, <1>3, <1>5, <1>7, <1>8 DEF IsRegister, r

\* Each byte takes it on.
LEMMA RegisterNext ==
  ASSUME NEW data \in Seq(Byte), NEW j \in 0..Len(data) - 1, NEW r \in Word(32), IsRegister(r, data, j)
  PROVE  CrcStep(r, data[j + 1]) \in Word(32) /\ IsRegister(CrcStep(r, data[j + 1]), data, j + 1)
<1>1. PICK f : /\ Divides(f, data)
               /\ Remainder(Flipped(data)) = SubSeq(f[8 * Len(data)], 8 * Len(data) + 1, 8 * Len(data) + 32)
               /\ IsWindow(r, f[8 * j], Padded(data), 8 * j)
  BY DEF IsRegister
<1>2. /\ CrcStep(r, data[j + 1]) \in Word(32)
      /\ IsWindow(CrcStep(r, data[j + 1]), f[8 * (j + 1)], Padded(data), 8 * (j + 1))
  BY <1>1, ByteStep
<1> QED BY <1>1, <1>2, Zenon DEF IsRegister

\* After the last byte it is the remainder.
LEMMA RegisterLast ==
  ASSUME NEW data \in Seq(Byte), NEW r \in Word(32), IsRegister(r, data, Len(data))
  PROVE  r = Remainder(Flipped(data))
<1> DEFINE n == 8 * Len(data)
<1>1. n = 8 * Len(data) /\ n \in Nat
  OBVIOUS
<1> HIDE DEF n
<1>2. PICK f : /\ IsDivision(f, n, Flipped(data))
               /\ Remainder(Flipped(data)) = SubSeq(f[n], n + 1, n + 32)
               /\ IsWindow(r, f[n], Padded(data), n)
  BY <1>1, Zenon DEF IsRegister, Divides
<1>3. f[n] \in Word(n + 32) /\ n + 32 \in Nat
  BY <1>1, <1>2 DEF IsDivision
<1>4. \A i \in 1..32 : Padded(data)[n + i] = 0
  BY <1>1, PaddedBits
<1>5. f[n] \in Seq(Bit) /\ Len(f[n]) = n + 32
  BY <1>3, WordLen
<1> DEFINE s == SubSeq(f[n], n + 1, n + 32)
           w == 32
<1>6. w = 32 /\ w \in Nat /\ n + w <= Len(f[n])
  BY <1>1, <1>5
<1>7. s \in Word(32) /\ \A i \in 1..32 : s[i] = f[n][n + i]
  <2> HIDE DEF w
  <2>1. n + w <= Len(f[n]) /\ w \in Nat
    BY <1>6
  <2>2. SubSeq(f[n], n + 1, n + w) \in Word(w) /\ \A i \in 1..w : SubSeq(f[n], n + 1, n + w)[i] = f[n][n + i]
    BY ONLY <1>1, <1>5, <2>1, BitsWithin
  <2> QED BY ONLY <2>2, <1>6
<1> HIDE DEF s, w
<1>8. ASSUME NEW i \in 1..32 PROVE r[i] = s[i]
  <2> DEFINE d == f[n][n + i]
  <2>1. d \in Bit
    <3>1. n + i \in 1..n + 32
      BY <1>1
    <3> QED BY <1>3, <3>1 DEF Word
  <2>2. r[i] = (d + 0) % 2 /\ s[i] = d
    BY <1>2, <1>4, <1>7 DEF IsWindow
  <2> HIDE DEF d
  <2>3. (d + 0) % 2 = d
    BY ONLY <2>1, SMT DEF Bit
  <2> QED BY <2>2, <2>3
<1>9. r = s
  <2>1. r = [i \in 1..32 |-> r[i]] /\ s = [i \in 1..32 |-> s[i]]
    BY <1>7 DEF Word
  <2> QED BY ONLY <2>1, <1>8, Zenon
<1> QED BY <1>2, <1>9 DEF s

\* A message is in the loop, its register as far as the loop has reached.
CrcInv ==
  job.kind = "crc" =>
    /\ job.data \in Seq(Byte)
    /\ stage \in {"start", "crc", "written"}
    /\ stage = "crc" => /\ text = job.data /\ at \in 0..Len(text) /\ out \in Word(32)
                        /\ IsRegister(out, job.data, at)
    /\ stage = "written" => text = Not(Remainder(Flipped(job.data)))

\* No message is in the loop at the start.
LEMMA CrcStart == Init => CrcInv
BY CrcJobsAssumption DEF Init, CrcInv

\* A message meets no other action than Crc.
LEMMA CrcInvStep == CrcInv /\ [Next]_vars => CrcInv'
<1> SUFFICES ASSUME CrcInv, [Next]_vars, job'.kind = "crc" PROVE CrcInv'
  BY DEF CrcInv
<1>0. job' = job
  BY JobStays
<1>1. /\ job.kind = "crc" /\ job.data \in Seq(Byte) /\ stage \in {"start", "crc", "written"}
      /\ stage = "crc" => /\ text = job.data /\ at \in 0..Len(text) /\ out \in Word(32)
                          /\ IsRegister(out, job.data, at)
      /\ stage = "written" => text = Not(Remainder(Flipped(job.data)))
  BY <1>0 DEF CrcInv
<1>2. CASE Crc
  <2>1. CASE stage = "start"
    <3>1. stage' = "crc" /\ text' = job.data /\ at' = 0 /\ out' = Not(Zeros(32))
      BY <1>2, <2>1 DEF Crc
    <3>2. out' \in Word(32) /\ IsRegister(out', job'.data, at')
      BY <1>0, <1>1, <3>1, RegisterFirst
    <3>3. at' \in 0..Len(text')
      BY <1>1, <3>1
    <3> QED BY <1>0, <1>1, <3>1, <3>2, <3>3 DEF CrcInv
  <2>2. CASE stage = "crc" /\ at < Len(text) /\ at' = at + 1
    <3>1. stage' = "crc" /\ text' = text /\ out' = CrcStep(out, Next1)
      BY <1>1, <1>2, <2>2 DEF Crc, Start
    <3>2. at \in 0..Len(job.data) - 1 /\ at + 1 \in 0..Len(text) /\ Next1 = job.data[at + 1]
      BY <1>1, <2>2 DEF Next1, CharAt
    <3>3. out' \in Word(32) /\ IsRegister(out', job.data, at + 1)
      BY <1>1, <2>2, <3>1, <3>2, RegisterNext
    <3> QED BY <1>0, <1>1, <2>2, <3>1, <3>2, <3>3 DEF CrcInv
  <2>3. CASE stage = "crc" /\ at = Len(text)
    <3>1. stage' = "written" /\ text' = Not(out)
      BY <1>1, <1>2, <2>3 DEF Crc, Start
    <3>2. out = Remainder(Flipped(job.data))
      BY <1>1, <2>3, RegisterLast
    <3> QED BY <1>0, <1>1, <3>1, <3>2 DEF CrcInv
  <2> QED BY <1>2, <2>1, <2>2, <2>3 DEF Crc
<1>3. CASE UNCHANGED vars
  BY <1>1, <1>3 DEF CrcInv, vars
<1>4. CASE Ended
  BY <1>3, <1>4 DEF Ended
<1>5. ~(ReadNarrow \/ ReadWide \/ ReadTyped \/ ToUtf8 \/ Escape \/ ParseString \/ ToLatin1 \/ ToUtf16
        \/ ReadHex \/ ToHex \/ FromHex \/ Name)
  BY <1>1, Zenon DEF ReadNarrow, ReadWide, ReadTyped, ToUtf8, Escape, ParseString, ToLatin1, ToUtf16,
        ReadHex, ToHex, FromHex, Name, Round, After
<1> QED BY <1>2, <1>3, <1>4, <1>5, Zenon DEF Next

\* For every message and every polynomial of degree 32, walking the table a byte at a time
\* computes the remainder of the division by the polynomial (util.cpp:41-106).
THEOREM CrcIsDivision == Spec => []CrcIsRemainder
<1>1. Init => CrcInv
  BY CrcStart
<1>2. CrcInv /\ [Next]_vars => CrcInv'
  BY CrcInvStep
<1>3. CrcInv => CrcIsRemainder
  BY Zenon DEF CrcInv, CrcIsRemainder, Flipped, Padded
<1> QED BY <1>1, <1>2, <1>3, PTL DEF Spec
=============================================================================
