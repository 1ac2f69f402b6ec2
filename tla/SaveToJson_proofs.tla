------------------------- MODULE SaveToJson_proofs -------------------------
(***************************************************************************)
(* Proofs about JsonWriter and SaveToJson.  First the writer, for every    *)
(* nesting depth: whatever legal calls are made, the text is the beginning *)
(* of a JSON text.  Then the walk, for every nesting of the containers and *)
(* every length of the arrays: it makes no other calls, and when it is     *)
(* over the text is complete.                                              *)
(***************************************************************************)
EXTENDS SaveToJson, SequenceTheorems, WellFoundedInduction, TLAPS

Brackets == {"{", "["}

\* A position in a text, given by its parts.
Pos(s, ph) == [stack |-> s, phase |-> ph]

Separated(ph) == ph \in {"more", "done"}
Resting == {"value", "first", "more", "done"}

\* The invariant.  WellFormed is not inductive: a separator is right only because
\* needs_comma says exactly whether an item is complete, and a bracket can be closed
\* only because an empty or a complete group has one.
Inv ==
  /\ j = Writer(Separated(j.text.phase), Len(j.text.stack), Pos(j.text.stack, j.text.phase))
  /\ j.text.stack \in Seq(Brackets)
  /\ j.text.phase \in Resting
  /\ j.text.phase \in {"first", "more"} => j.text.stack # << >>
  /\ j.text.phase = "done" => j.text.stack = << >>

-----------------------------------------------------------------------------
(* The calls, seen from the text alone *)

Calls == {"{", "}", "[", "]", "key", "named", "raw", "end_item"}

ValueAt(p) == p.phase = "value" \/ (p.stack # << >> /\ p.stack[Len(p.stack)] = "[")
KeyAt(p)   == p.phase # "value" /\ p.stack # << >> /\ p.stack[Len(p.stack)] = "{"

\* A call that is legal where the text is p takes it to q.
Legal(call, p, q) ==
  \/ call \in Brackets /\ ValueAt(p) /\ Len(p.stack) < MaxDepth /\ q = Pos(Append(p.stack, call), "first")
  \/ /\ call \in {"}", "]"} /\ p.stack # << >> /\ Closer(p.stack[Len(p.stack)]) = call /\ p.phase # "value"
     /\ q = Pos(Pop(p.stack), After(Pop(p.stack)))
  \/ call = "key" /\ KeyAt(p) /\ q = Pos(p.stack, "value")
  \/ call = "raw" /\ ValueAt(p) /\ q = Pos(p.stack, After(p.stack))
  \/ call = "named" /\ KeyAt(p) /\ q = Pos(p.stack, After(p.stack))
  \/ call = "end_item" /\ p.stack # << >> /\ p.phase = "more" /\ q = p

-----------------------------------------------------------------------------
(* Sequences of brackets *)

\* Removing the innermost bracket.
LEMMA PopBrackets ==
  ASSUME NEW s \in Seq(Brackets), s # << >>
  PROVE  Pop(s) \in Seq(Brackets) /\ Len(Pop(s)) = Len(s) - 1 /\ s[Len(s)] \in Brackets
<1>1. Len(s) \in Nat /\ Len(s) # 0
  BY EmptySeq
<1>2. Len(s) \in 1..Len(s)
  BY <1>1
<1>3. s[Len(s)] \in Brackets
  BY <1>2, ElementOfSeq
<1>4. Len(s) - 1 \in Int /\ \A i \in 1..Len(s) - 1 : s[i] \in Brackets
  BY <1>1, ElementOfSeq
<1>5. /\ SubSeq(s, 1, Len(s) - 1) \in Seq(Brackets)
      /\ Len(SubSeq(s, 1, Len(s) - 1)) =
           IF 1 <= Len(s) - 1 THEN (Len(s) - 1) - 1 + 1 ELSE 0
  BY <1>4, SubSeqProperties
<1>6. \A k \in Nat : k # 0 => (IF 1 <= k - 1 THEN (k - 1) - 1 + 1 ELSE 0) = k - 1
  OBVIOUS
<1> QED BY <1>1, <1>3, <1>5, <1>6 DEF Pop

\* Opening a bracket.
LEMMA PushBracket ==
  ASSUME NEW s \in Seq(Brackets), NEW b \in Brackets
  PROVE  Append(s, b) \in Seq(Brackets) /\ Len(Append(s, b)) = Len(s) + 1 /\ Append(s, b) # << >>
BY AppendProperties, EmptySeq

-----------------------------------------------------------------------------
(* The writer's operations *)

\* indent() writes a comma exactly after a complete item.
LEMMA IndentResult ==
  ASSUME NEW w, NEW s, NEW ph \in {"value", "first", "more"},
         w.text = Pos(s, ph), w.needs_comma = Separated(ph)
  PROVE  Indent(w) = Pos(s, IF ph = "more" THEN "next" ELSE ph)
<1>1. CASE ph = "more"
  <2>1. Accept(Pos(s, "more"), ",") = Pos(s, "next")
    BY DEF Accept, Pos
  <2>2. w.needs_comma = TRUE
    BY <1>1 DEF Separated
  <2> QED BY <1>1, <2>1, <2>2 DEF Indent
<1>2. CASE ph # "more"
  BY <1>2 DEF Indent, Pos, Separated
<1> QED BY <1>1, <1>2

\* Where a caller may write a value, the recogniser takes one after indent().
LEMMA ValueTaken ==
  ASSUME NEW s, NEW ph \in {"value", "first", "next"},
         ph = "value" \/ (s # << >> /\ s[Len(s)] = "[")
  PROVE  /\ Accept(Pos(s, ph), "scalar") = Pos(s, After(s))
         /\ \A b \in Brackets : Accept(Pos(s, ph), b) = Pos(Append(s, b), "first")
BY DEF Accept, TakesValue, Top, Pos, Brackets

\* Where a caller may write a key, the recogniser takes one after indent().
LEMMA KeyTaken ==
  ASSUME NEW s, NEW ph \in {"first", "next"}, s # << >>, s[Len(s)] = "{"
  PROVE  Accept(Pos(s, ph), "key") = Pos(s, "value")
BY DEF Accept, TakesKey, TakesValue, Top, Pos

\* The bracket that is open can be closed after an opening bracket or an item.
LEMMA CloserTaken ==
  ASSUME NEW s, s # << >>, NEW ph \in {"first", "more"}, NEW close \in {"}", "]"},
         Closer(s[Len(s)]) = close
  PROVE  Accept(Pos(s, ph), close) = Pos(Pop(s), After(Pop(s)))
BY DEF Accept, TakesCloser, TakesValue, TakesKey, Top, Pos

-----------------------------------------------------------------------------
(* The inductive invariant *)

\* A writer that satisfies the invariant with its text at q.
Fits(w, q) ==
  /\ w = Writer(Separated(q.phase), Len(q.stack), q)
  /\ q = Pos(q.stack, q.phase)
  /\ q.stack \in Seq(Brackets)
  /\ q.phase \in Resting
  /\ q.phase \in {"first", "more"} => q.stack # << >>
  /\ q.phase = "done" => q.stack = << >>

\* The same, by the parts of the position.
LEMMA FitsPos ==
  ASSUME NEW c, NEW n, NEW s \in Seq(Brackets), NEW ph \in Resting,
         c = Separated(ph), n = Len(s),
         ph \in {"first", "more"} => s # << >>,
         ph = "done" => s = << >>
  PROVE  Fits(Writer(c, n, Pos(s, ph)), Pos(s, ph))
<1>1. Pos(s, ph).stack = s /\ Pos(s, ph).phase = ph
  BY DEF Pos
<1> QED BY <1>1 DEF Fits

\* After a complete value.
LEMMA FitsAfter ==
  ASSUME NEW s \in Seq(Brackets), NEW n, n = Len(s)
  PROVE  Fits(Writer(TRUE, n, Pos(s, After(s))), Pos(s, After(s)))
<1>1. After(s) \in Resting /\ Separated(After(s)) = TRUE
  BY DEF After, Resting, Separated
<1>2. (After(s) \in {"first", "more"} => s # << >>) /\ (After(s) = "done" => s = << >>)
  BY DEF After
<1> QED BY <1>1, <1>2, FitsPos

\* It is all the invariant says of the next state.
LEMMA FitsInv ==
  ASSUME NEW q, Fits(j', q)
  PROVE  Inv' /\ j'.text = q
<1>1. j'.text = q
  BY DEF Fits, Writer
<1> QED BY <1>1 DEF Fits, Inv

\* A fresh json_writer satisfies it.
LEMMA InitInv == Init => Inv
<1> SUFFICES ASSUME Init PROVE Inv
  OBVIOUS
<1>1. << >> \in Seq(Brackets) /\ Len(<< >>) = 0
  BY EmptySeq
<1>2. j = Writer(FALSE, 0, Pos(<< >>, "value"))
  BY DEF Init, Start, Pos
<1>3. j.text = Pos(<< >>, "value")
  BY <1>2 DEF Writer
<1>4. j.text.stack = << >> /\ j.text.phase = "value"
  BY <1>3 DEF Pos
<1>5. Separated("value") = FALSE /\ "value" \in Resting
  BY DEF Separated, Resting
<1> QED BY <1>1, <1>2, <1>4, <1>5 DEF Inv

\* A legal call takes the writer where it takes the text.
LEMMA CallTakes ==
  ASSUME Inv, NEW call, NEW q, Legal(call, j.text, q)
  PROVE  Fits(Do(call), q)
<1> DEFINE s == j.text.stack
           ph == j.text.phase
           n == Len(s)
           after == IF ph = "more" THEN "next" ELSE ph
<1>a. /\ s \in Seq(Brackets)
      /\ ph \in Resting
      /\ ph \in {"first", "more"} => s # << >>
      /\ ph = "done" => s = << >>
  BY DEF Inv
<1>w. j.needs_comma = Separated(ph) /\ j.indent_level = n /\ j.text = Pos(s, ph)
  BY DEF Inv, Writer
<1>b. n \in Nat /\ (n > 0 <=> s # << >>)
  BY <1>a, EmptySeq
<1>p. ValueAt(j.text) => ph = "value" \/ (s # << >> /\ s[Len(s)] = "[")
  BY DEF ValueAt
<1>q. KeyAt(j.text) => ph # "value" /\ s # << >> /\ s[Len(s)] = "{"
  BY DEF KeyAt
\* Where a value or a key may stand, indent() separates it from what precedes it.
<1>c. ValueAt(j.text) \/ KeyAt(j.text) =>
        /\ Indent(j) = Pos(s, after)
        /\ after \in {"value", "first", "next"}
        /\ after = "value" <=> ph = "value"
  <2> SUFFICES ASSUME ValueAt(j.text) \/ KeyAt(j.text)
               PROVE  /\ Indent(j) = Pos(s, after)
                      /\ after \in {"value", "first", "next"}
                      /\ after = "value" <=> ph = "value"
    OBVIOUS
  <2>1. ph \in {"value", "first", "more"}
    BY <1>a, <1>p, <1>q DEF Resting
  <2> QED BY <1>w, <2>1, IndentResult
<1> HIDE DEF s, ph, n, after
<1>1. CASE call \in Brackets /\ ValueAt(j.text) /\ q = Pos(Append(s, call), "first")
  <2>1. Accept(Indent(j), call) = Pos(Append(s, call), "first")
    BY <1>1, <1>c, <1>p, ValueTaken
  <2>2. Do(call) = Begin(j, call)
    BY <1>1 DEF Do, Brackets
  <2>3. Do(call) = Writer(FALSE, n + 1, Pos(Append(s, call), "first"))
    BY <1>w, <2>1, <2>2 DEF Begin
  <2>4. /\ Append(s, call) \in Seq(Brackets)
        /\ Len(Append(s, call)) = n + 1
        /\ Append(s, call) # << >>
    BY <1>1, <1>a, PushBracket DEF n
  <2>5. "first" \in Resting /\ Separated("first") = FALSE
    BY DEF Resting, Separated
  <2> QED BY <1>1, <2>3, <2>4, <2>5, FitsPos
<1>2. CASE /\ call \in {"}", "]"} /\ s # << >> /\ Closer(s[Len(s)]) = call /\ ph # "value"
           /\ q = Pos(Pop(s), After(Pop(s)))
  <2>1. ph \in {"first", "more"}
    BY <1>2, <1>a DEF Resting
  <2>2. Accept(Pos(s, ph), call) = Pos(Pop(s), After(Pop(s)))
    BY <1>2, <2>1, CloserTaken
  <2>3. Do(call) = End(j, call)
    BY <1>2 DEF Do
  <2>4. Do(call) = Writer(TRUE, n - 1, Pos(Pop(s), After(Pop(s))))
    BY <1>w, <2>2, <2>3 DEF End, Indent, Writer
  <2>5. Pop(s) \in Seq(Brackets) /\ Len(Pop(s)) = n - 1
    BY <1>2, <1>a, PopBrackets DEF n
  <2> QED BY <1>2, <2>4, <2>5, FitsAfter
<1>3. KeyAt(j.text) => Accept(Indent(j), "key") = Pos(s, "value")
  BY <1>c, <1>q, KeyTaken
<1>4. CASE call = "key" /\ KeyAt(j.text) /\ q = Pos(s, "value")
  <2>1. Do(call) = Key(j)
    BY <1>4 DEF Do
  <2>2. Do(call) = Writer(FALSE, n, Pos(s, "value"))
    BY <1>3, <1>4, <1>w, <2>1 DEF Key
  <2>3. "value" \in Resting /\ Separated("value") = FALSE
    BY DEF Resting, Separated
  <2> QED BY <1>4, <1>a, <2>2, <2>3, FitsPos DEF n
<1>5. CASE call = "raw" /\ ValueAt(j.text) /\ q = Pos(s, After(s))
  <2>1. Do(call) = Raw(j)
    BY <1>5 DEF Do
  <2>2. Accept(Indent(j), "scalar") = Pos(s, After(s))
    BY <1>5, <1>c, <1>p, ValueTaken
  <2>3. Do(call) = Writer(TRUE, n, Pos(s, After(s)))
    BY <1>w, <2>1, <2>2 DEF Raw, EndItem, Writer
  <2> QED BY <1>5, <1>a, <2>3, FitsAfter DEF n
<1>6. CASE call = "named" /\ KeyAt(j.text) /\ q = Pos(s, After(s))
  <2>1. Do(call) = Named(j)
    BY <1>6 DEF Do
  <2>2. Accept(Pos(s, "value"), "scalar") = Pos(s, After(s))
    BY ValueTaken
  <2>3. Key(j).text = Pos(s, "value")
    BY <1>3, <1>6 DEF Key, Writer
  <2>4. Do(call) = Writer(TRUE, n, Pos(s, After(s)))
    BY <1>w, <2>1, <2>2, <2>3 DEF Named, EndItem, Writer
  <2> QED BY <1>6, <1>a, <2>4, FitsAfter DEF n
<1>7. CASE call = "end_item" /\ s # << >> /\ ph = "more" /\ q = j.text
  <2>1. Do(call) = EndItem(j)
    BY <1>7 DEF Do
  <2>2. q = Pos(s, After(s))
    BY <1>7, <1>w DEF After
  <2>3. Do(call) = Writer(TRUE, n, Pos(s, After(s)))
    BY <1>7, <1>w, <2>1, <2>2 DEF EndItem
  <2> QED BY <1>a, <2>2, <2>3, FitsAfter DEF n
<1> QED BY <1>1, <1>2, <1>4, <1>5, <1>6, <1>7 DEF Legal, s, ph

\* The steps of the writer are the legal calls.
LEMMA StepIsCall ==
  ASSUME Inv
  PROVE  /\ \A call, q : Legal(call, j.text, q) /\ j' = Do(call) => Next
         /\ Next => \E call, q : Legal(call, j.text, q) /\ j' = Do(call)
<1> DEFINE s == j.text.stack
           ph == j.text.phase
<1>a. s \in Seq(Brackets) /\ Len(s) \in Nat /\ (Len(s) > 0 <=> s # << >>)
  <2>1. s \in Seq(Brackets)
    BY DEF Inv
  <2> QED BY <2>1, EmptySeq
<1>b. /\ ValueAt(j.text) <=> AtValue(j)
      /\ KeyAt(j.text) <=> AtKey(j)
  BY <1>a DEF ValueAt, KeyAt, AtValue, AtKey, Keyed, InArray, InObject, Depth, Top
<1>c. Depth(j) = Len(s) /\ Top(j.text) = s[Len(s)] /\ (Keyed(j) <=> ph = "value")
  BY DEF Depth, Top, Keyed
<1> HIDE DEF s, ph
<1>1. ASSUME NEW call, NEW q, Legal(call, j.text, q), j' = Do(call) PROVE Next
  <2>1. CASE call \in Brackets /\ ValueAt(j.text) /\ Len(s) < MaxDepth
    <3>1. Do(call) = Begin(j, call)
      BY <2>1 DEF Do, Brackets
    <3> QED BY <1>1, <1>b, <1>c, <2>1, <3>1 DEF Next, BeginBracket, Brackets
  <2>2. CASE call \in {"}", "]"} /\ s # << >> /\ Closer(s[Len(s)]) = call /\ ph # "value"
    <3>1. Do(call) = End(j, call)
      BY <2>2 DEF Do
    <3> QED BY <1>1, <1>a, <1>c, <2>2, <3>1 DEF Next, EndBracket
  <2>3. CASE call = "key" /\ KeyAt(j.text)
    BY <1>1, <1>b, <2>3 DEF Do, Next, WriteKey
  <2>4. CASE call = "raw" /\ ValueAt(j.text)
    BY <1>1, <1>b, <2>4 DEF Do, Next, WriteRaw
  <2>5. CASE call = "named" /\ KeyAt(j.text)
    BY <1>1, <1>b, <2>5 DEF Do, Next, WriteNamed
  <2>6. CASE call = "end_item" /\ s # << >> /\ ph = "more"
    <3>1. EndItemAgain
      BY <1>1, <1>a, <1>c, <2>6 DEF Do, EndItemAgain, ph
    <3> QED BY <3>1 DEF Next
  <2> QED BY <1>1, <2>1, <2>2, <2>3, <2>4, <2>5, <2>6 DEF Legal, s, ph
<1>2. ASSUME Next PROVE \E call, q : Legal(call, j.text, q) /\ j' = Do(call)
  <2>1. ASSUME NEW open \in Brackets, BeginBracket(open)
        PROVE  Legal(open, j.text, Pos(Append(s, open), "first")) /\ j' = Do(open)
    BY <1>b, <1>c, <2>1 DEF BeginBracket, Legal, Do, Brackets, s
  <2>2. ASSUME NEW close \in {"}", "]"}, EndBracket(close)
        PROVE  Legal(close, j.text, Pos(Pop(s), After(Pop(s)))) /\ j' = Do(close)
    BY <1>a, <1>c, <2>2 DEF EndBracket, Legal, Do, s, ph
  <2>3. WriteKey => Legal("key", j.text, Pos(s, "value")) /\ j' = Do("key")
    BY <1>b DEF WriteKey, Legal, Do, s
  <2>4. WriteRaw => Legal("raw", j.text, Pos(s, After(s))) /\ j' = Do("raw")
    BY <1>b DEF WriteRaw, Legal, Do, s
  <2>5. WriteNamed => Legal("named", j.text, Pos(s, After(s))) /\ j' = Do("named")
    BY <1>b DEF WriteNamed, Legal, Do, s
  <2>6. EndItemAgain => Legal("end_item", j.text, j.text) /\ j' = Do("end_item")
    BY <1>a, <1>c DEF EndItemAgain, Legal, Do, s
  <2> QED BY <1>2, <2>1, <2>2, <2>3, <2>4, <2>5, <2>6 DEF Next, Brackets
<1> QED BY <1>1, <1>2

\* Every call keeps it.
LEMMA StepInv == Inv /\ [Next]_j => Inv'
<1> SUFFICES ASSUME Inv, [Next]_j PROVE Inv'
  OBVIOUS
<1>1. CASE Next
  <2>1. PICK call, q : Legal(call, j.text, q) /\ j' = Do(call)
    BY <1>1, StepIsCall
  <2>2. Fits(j', q)
    BY <2>1, CallTakes
  <2> QED BY <2>2, FitsInv
<1>2. CASE UNCHANGED j
  BY <1>2 DEF Inv
<1> QED BY <1>1, <1>2

\* The invariant holds in every reachable state.
LEMMA Invariant == Spec => []Inv
BY InitInv, StepInv, PTL DEF Spec

-----------------------------------------------------------------------------
(* What it gives *)

\* The properties of JsonWriter follow from it.
LEMMA InvGives == Inv => TypeOK /\ WellFormed /\ FlagIsPosition
<1> SUFFICES ASSUME Inv PROVE TypeOK /\ WellFormed /\ FlagIsPosition
  OBVIOUS
<1>1. /\ j = Writer(Separated(j.text.phase), Len(j.text.stack), Pos(j.text.stack, j.text.phase))
      /\ j.text.stack \in Seq(Brackets)
      /\ j.text.phase \in Resting
  BY DEF Inv
<1>2. /\ j.needs_comma = Separated(j.text.phase)
      /\ j.indent_level = Len(j.text.stack)
      /\ j.text = Pos(j.text.stack, j.text.phase)
  BY <1>1 DEF Writer
<1>3. Len(j.text.stack) \in Nat
  BY <1>1
<1>4. TypeOK
  <2>1. Separated(j.text.phase) \in BOOLEAN
    BY DEF Separated
  <2>2. j = Writer(j.needs_comma, j.indent_level, j.text)
    BY <1>1, <1>2
  <2> QED BY <1>1, <1>2, <1>3, <2>1, <2>2 DEF TypeOK, Pos, Brackets, Resting, Phases
<1>5. WellFormed
  BY <1>1 DEF WellFormed, Resting
<1>6. FlagIsPosition
  BY <1>2 DEF FlagIsPosition, Separated, Depth
<1> QED BY <1>4, <1>5, <1>6

\* Types, for every nesting depth: indent_level never wraps (xcom2json.cpp:69, 85).
THEOREM TypesHold == Spec => []TypeOK
BY Invariant, InvGives, PTL

\* Whatever legal calls are made, the text is the beginning of a JSON text: every
\* comma is where it must be (xcom2json.cpp:61-203).
THEOREM TextIsWellFormed == Spec => []WellFormed
BY Invariant, InvGives, PTL

\* needs_comma and indent_level always tell the writer's position in the document.
THEOREM FlagTellsPosition == Spec => []FlagIsPosition
BY Invariant, InvGives, PTL

-----------------------------------------------------------------------------
(* Counting *)

\* Of a set of natural numbers that is not empty, one has nothing below it in the set.
LEMMA LeastElement ==
  ASSUME NEW S \in SUBSET Nat, S # {}
  PROVE  \E x \in S : \A k \in S : x <= k
<1> DEFINE R == {ss \in Nat \X Nat : ss[1] < ss[2]}
<1>1. IsWellFoundedOn(R, Nat)
  BY NatLessThanWellFounded DEF OpToRel
<1>2. PICK x \in S : \A y \in S : ~ (<<y, x>> \in R)
  <2> HIDE DEF R
  <2> QED BY <1>1, WFMin
<1>3. \A y \in S : x <= y
  <2> SUFFICES ASSUME NEW y \in S PROVE x <= y
    OBVIOUS
  <2>1. x \in Nat /\ y \in Nat
    OBVIOUS
  <2>2. ~ (y < x)
    BY <1>2, <2>1
  <2> QED BY <2>1, <2>2
<1> QED BY <1>3

\* Induction, on a set of numbers.
LEMMA Upwards ==
  ASSUME NEW n \in Nat, NEW good, 0 \in good, \A k \in Nat : k < n /\ k \in good => k + 1 \in good
  PROVE  \A k \in 0..n : k \in good
<1> DEFINE bad == {k \in 0..n : k \notin good}
<1>1. SUFFICES ASSUME bad # {} PROVE FALSE
  OBVIOUS
<1>2. PICK m \in bad : \A k \in bad : m <= k
  <2>1. bad \in SUBSET Nat
    OBVIOUS
  <2> HIDE DEF bad
  <2> QED BY <1>1, <2>1, LeastElement
<1>3. m \in 0..n /\ m # 0
  OBVIOUS
<1>4. m - 1 \in Nat /\ m - 1 < n /\ m - 1 \in good /\ (m - 1) + 1 = m
  BY <1>2, <1>3
<1> QED BY <1>4

\* What the loop of Times has after each round.
IsTimes(g, m, calls) == g = [k \in 0..m |-> IF k = 0 THEN << >> ELSE g[k - 1] \o calls]

\* What is done n times is once more than what is done n - 1 times.
LEMMA TimesSteps ==
  ASSUME NEW n \in Nat, NEW calls
  PROVE  \E t : t[0] = << >> /\ (\A k \in 1..n : t[k] = t[k - 1] \o calls) /\ Times(n, calls) = t[n]
<1> DEFINE good == {m \in 0..n : \E g : IsTimes(g, m, calls)}
<1>1. 0 \in good
  <2> DEFINE g == [k \in 0..0 |-> << >>]
  <2>1. IsTimes(g, 0, calls)
    BY DEF IsTimes
  <2> QED BY <2>1
<1>2. ASSUME NEW m \in Nat, m < n, m \in good PROVE m + 1 \in good
  <2>1. PICK f : IsTimes(f, m, calls)
    BY <1>2
  <2>0. \A k \in 0..m : f[k] = IF k = 0 THEN << >> ELSE f[k - 1] \o calls
    BY <2>1 DEF IsTimes
  <2> DEFINE v == f[m] \o calls
             g == [k \in 0..m + 1 |-> IF k = m + 1 THEN v ELSE f[k]]
  <2>2. ASSUME NEW k \in 0..m + 1 PROVE g[k] = IF k = 0 THEN << >> ELSE g[k - 1] \o calls
    <3>1. CASE k = m + 1
      <4>1. g[k] = v /\ k - 1 = m /\ g[m] = f[m] /\ k # 0
        BY <1>2, <3>1
      <4> HIDE DEF g
      <4> QED BY <4>1 DEF v
    <3>2. CASE k = 0
      <4>1. g[k] = f[0] /\ 0 \in 0..m
        BY <1>2, <3>2
      <4>2. f[0] = << >>
        BY <2>0, <4>1
      <4> HIDE DEF g
      <4> QED BY <3>2, <4>1, <4>2
    <3>3. CASE k # m + 1 /\ k # 0
      <4>1. k \in 0..m /\ k - 1 \in 0..m /\ k - 1 # m + 1
        BY <1>2, <3>3
      <4>2. g[k] = f[k] /\ g[k - 1] = f[k - 1]
        BY <3>3, <4>1
      <4>3. f[k] = f[k - 1] \o calls
        BY <2>0, <3>3, <4>1
      <4> HIDE DEF g
      <4> QED BY <3>3, <4>2, <4>3
    <3> QED BY <3>1, <3>2, <3>3
  <2>3. g = [k \in 0..m + 1 |-> g[k]]
    OBVIOUS
  <2> HIDE DEF g
  <2>4. IsTimes(g, m + 1, calls)
    BY <2>2, <2>3 DEF IsTimes
  <2> QED BY <1>2, <2>4
<1> HIDE DEF good
<1>3. n \in good
  BY <1>1, <1>2, Upwards
<1>4. PICK f : IsTimes(f, n, calls)
  BY <1>3 DEF good
<1> DEFINE times == CHOOSE g : IsTimes(g, n, calls)
<1>5. IsTimes(times, n, calls)
  BY <1>4
<1>6. Times(n, calls) = times[n]
  BY Zenon DEF Times, IsTimes
<1> HIDE DEF times
<1>7. \A k \in 0..n : times[k] = IF k = 0 THEN << >> ELSE times[k - 1] \o calls
  BY <1>5, Zenon DEF IsTimes
<1>8. 0 \in 0..n /\ \A k \in 1..n : k \in 0..n /\ k # 0
  OBVIOUS
<1>9. times[0] = << >> /\ \A k \in 1..n : times[k] = times[k - 1] \o calls
  BY ONLY <1>7, <1>8, Zenon
<1> QED BY <1>6, <1>9

-----------------------------------------------------------------------------
(* Runs of calls *)

\* So do the calls of a list, one after the other.
IsRun(f, calls, p, q) ==
  /\ f[0] = p /\ f[Len(calls)] = q
  /\ \A k \in 1..Len(calls) : Legal(calls[k], f[k - 1], f[k])
Runs(calls, p, q) == calls \in Seq(Calls) /\ \E f : IsRun(f, calls, p, q)

\* An empty list of calls leaves the text alone.
LEMMA RunsNothing ==
  ASSUME NEW p
  PROVE  Runs(<< >>, p, p)
<1> DEFINE f == [k \in 0..0 |-> p]
<1>1. << >> \in Seq(Calls) /\ Len(<< >>) = 0 /\ \A k \in 1..0 : FALSE
  OBVIOUS
<1>2. f[0] = p
  OBVIOUS
<1> HIDE DEF f
<1>3. IsRun(f, << >>, p, p)
  BY <1>1, <1>2 DEF IsRun
<1> QED BY <1>1, <1>3 DEF Runs

\* A list of one call.
LEMMA RunsOne ==
  ASSUME NEW c \in Calls, NEW p, NEW q, Legal(c, p, q)
  PROVE  Runs(<<c>>, p, q)
<1> DEFINE f == [k \in 0..1 |-> IF k = 0 THEN p ELSE q]
           one == <<c>>
<1>1. one \in Seq(Calls) /\ Len(one) = 1 /\ one[1] = c
  OBVIOUS
<1>2. f[0] = p /\ f[1] = q
  OBVIOUS
<1> HIDE DEF f, one
<1>3. \A k \in 1..Len(one) : k = 1 /\ k - 1 = 0
  BY <1>1
<1>4. IsRun(f, one, p, q)
  BY <1>1, <1>2, <1>3 DEF IsRun
<1> QED BY <1>1, <1>4 DEF Runs, one

\* One list after another.
LEMMA RunsBoth ==
  ASSUME NEW a, NEW b, NEW p, NEW q, NEW r, Runs(a, p, q), Runs(b, q, r)
  PROVE  Runs(a \o b, p, r)
<1>1. a \in Seq(Calls) /\ b \in Seq(Calls)
  BY DEF Runs
<1>2. PICK f : IsRun(f, a, p, q)
  BY DEF Runs
<1>3. PICK g : IsRun(g, b, q, r)
  BY DEF Runs
<1> DEFINE n == Len(a)
           m == Len(b)
           s == a \o b
           h == [k \in 0..n + m |-> IF k <= n THEN f[k] ELSE g[k - n]]
<1>4. n \in Nat /\ m \in Nat /\ n = Len(a) /\ m = Len(b)
  BY <1>1
<1>5. s \in Seq(Calls) /\ Len(s) = n + m /\ (\A k \in 1..n : s[k] = a[k]) /\ \A k \in 1..m : s[n + k] = b[k]
  BY <1>1
<1> HIDE DEF n, m, s
<1>6. \A k \in 0..n + m : h[k] = IF k <= n THEN f[k] ELSE g[k - n]
  OBVIOUS
<1> HIDE DEF h
<1>7. f[0] = p /\ f[n] = q /\ g[0] = q /\ g[m] = r
  BY <1>2, <1>3, <1>4 DEF IsRun
<1>8. h[0] = p
  BY <1>4, <1>6, <1>7
<1>9. h[n + m] = r
  <2>1. CASE m = 0
    BY <1>4, <1>6, <1>7, <2>1
  <2>2. CASE m # 0
    <3>1. n + m \in 0..n + m /\ ~(n + m <= n) /\ (n + m) - n = m
      BY <1>4, <2>2
    <3> QED BY <1>6, <1>7, <3>1
  <2> QED BY <2>1, <2>2
<1>10. ASSUME NEW k \in 1..n + m PROVE Legal(s[k], h[k - 1], h[k])
  <2>1. CASE k <= n
    <3>1. k \in 1..n /\ k \in 0..n + m /\ k - 1 \in 0..n + m /\ k - 1 <= n
      BY <1>4, <2>1
    <3>2. s[k] = a[k] /\ h[k] = f[k] /\ h[k - 1] = f[k - 1]
      BY <1>5, <1>6, <2>1, <3>1
    <3> QED BY <1>2, <1>4, <3>1, <3>2 DEF IsRun
  <2>2. CASE k > n
    <3>1. k - n \in 1..m /\ k \in 0..n + m /\ k - 1 \in 0..n + m /\ n + (k - n) = k /\ (k - n) - 1 = (k - 1) - n
      BY <1>4, <2>2
    <3>2. s[k] = b[k - n] /\ h[k] = g[k - n]
      <4>1. s[n + (k - n)] = b[k - n]
        BY ONLY <1>5, <3>1
      <4>2. ~(k <= n)
        BY ONLY <1>4, <2>2, k \in 1..n + m
      <4>3. h[k] = g[k - n]
        BY ONLY <1>6, <3>1, <4>2
      <4> QED BY ONLY <3>1, <4>1, <4>3
    <3>3. h[k - 1] = g[(k - n) - 1]
      <4>1. CASE k - 1 <= n
        <5>1. k - 1 = n /\ (k - n) - 1 = 0
          BY <1>4, <2>2, <4>1
        <5> QED BY <1>6, <1>7, <3>1, <4>1, <5>1
      <4>2. CASE ~(k - 1 <= n)
        BY <1>6, <3>1, <4>2
      <4> QED BY <4>1, <4>2
    <3> QED BY <1>3, <1>4, <3>1, <3>2, <3>3 DEF IsRun
  <2> QED BY <1>4, <2>1, <2>2
<1>11. IsRun(h, s, p, r)
  BY <1>5, <1>8, <1>9, <1>10 DEF IsRun
<1> QED BY <1>5, <1>11 DEF Runs, s

\* The first call of a list, and the others.
LEMMA RunsFirst ==
  ASSUME NEW calls, NEW p, NEW q, Runs(calls, p, q), calls # << >>
  PROVE  \E o : Legal(Head(calls), p, o) /\ Runs(Tail(calls), o, q)
<1>1. PICK f : IsRun(f, calls, p, q)
  BY DEF Runs
<1> DEFINE n == Len(calls)
           t == Tail(calls)
           g == [k \in 0..n - 1 |-> f[k + 1]]
<1>2. calls \in Seq(Calls) /\ n \in Nat /\ n >= 1 /\ n = Len(calls) /\ Head(calls) = calls[1]
  <2>1. calls \in Seq(Calls)
    BY DEF Runs
  <2> QED BY <2>1
<1>3. t \in Seq(Calls) /\ Len(t) = n - 1 /\ \A k \in 1..n - 1 : t[k] = calls[k + 1]
  BY <1>2
<1> HIDE DEF n, t
<1>4. \A k \in 0..n - 1 : g[k] = f[k + 1]
  OBVIOUS
<1> HIDE DEF g
<1>5. Legal(Head(calls), p, f[1])
  <2>1. 1 \in 1..n /\ 1 - 1 = 0
    BY <1>2
  <2> QED BY <1>1, <1>2, <2>1 DEF IsRun
<1>6. g[0] = f[1] /\ g[n - 1] = q
  <2>1. 0 \in 0..n - 1 /\ n - 1 \in 0..n - 1 /\ 0 + 1 = 1 /\ (n - 1) + 1 = n
    BY <1>2
  <2>2. f[n] = q
    BY <1>1, <1>2 DEF IsRun
  <2> QED BY <1>4, <2>1, <2>2
<1>7. ASSUME NEW k \in 1..n - 1 PROVE Legal(t[k], g[k - 1], g[k])
  <2>1. k + 1 \in 1..n /\ (k + 1) - 1 = k /\ k \in 0..n - 1 /\ k - 1 \in 0..n - 1 /\ (k - 1) + 1 = k
    BY <1>2
  <2>2. Legal(calls[k + 1], f[k], f[k + 1])
    BY <1>1, <1>2, <2>1 DEF IsRun
  <2>3. g[k - 1] = f[k] /\ g[k] = f[k + 1] /\ t[k] = calls[k + 1]
    BY <1>3, <1>4, <2>1
  <2> QED BY <2>2, <2>3
<1>8. IsRun(g, t, f[1], q)
  BY <1>3, <1>6, <1>7 DEF IsRun
<1> QED BY <1>3, <1>5, <1>8 DEF Runs, t

-----------------------------------------------------------------------------
(* Lists of calls that make items *)

\* A list of one call, and one more.
LEMMA OneAndAnother ==
  ASSUME NEW a, NEW b
  PROVE  <<a>> \o <<b>> = <<a, b>>
<1> DEFINE x == <<a>>
           y == <<b>>
           z == <<a, b>>
           s == x \o y
           S == {a, b}
<1>1. x \in Seq(S) /\ y \in Seq(S) /\ z \in Seq(S) /\ Len(x) = 1 /\ Len(y) = 1 /\ Len(z) = 2
  OBVIOUS
<1>2. x[1] = a /\ y[1] = b /\ z[1] = a /\ z[2] = b
  OBVIOUS
<1> HIDE DEF x, y, z, S
<1>3. /\ s \in Seq(S) /\ Len(s) = 1 + 1
      /\ \A i \in 1..1 + 1 : s[i] = IF i <= 1 THEN x[i] ELSE y[i - 1]
  BY <1>1, ConcatProperties
<1>4. s[1] = a /\ s[2] = b
  <2>1. 1 \in 1..1 + 1 /\ 2 \in 1..1 + 1 /\ 1 <= 1 /\ ~(2 <= 1) /\ 2 - 1 = 1
    OBVIOUS
  <2> QED BY <1>2, <1>3, <2>1
<1> HIDE DEF s
<1>5. \A i \in 1..2 : s[i] = z[i]
  BY <1>2, <1>4
<1>6. s = z
  BY <1>1, <1>3, <1>5, SeqEqual
<1> QED BY <1>6 DEF s, x, y, z

InArr(s) == s \in Seq(Brackets) /\ s # << >> /\ s[Len(s)] = "["
InObj(s) == s \in Seq(Brackets) /\ s # << >> /\ s[Len(s)] = "{"

\* A list of calls that adds items to the brackets that are open in s, or none.
Fills(calls, s) ==
  \A ph \in {"first", "more"} : \E ph2 \in {"first", "more"} : Runs(calls, Pos(s, ph), Pos(s, ph2))

\* The bracket that was just opened.
LEMMA Pushed ==
  ASSUME NEW s \in Seq(Brackets), NEW b \in Brackets
  PROVE  /\ Append(s, b) \in Seq(Brackets) /\ Append(s, b) # << >> /\ Append(s, b)[Len(Append(s, b))] = b
         /\ Len(Append(s, b)) = Len(s) + 1 /\ Pop(Append(s, b)) = s
<1> DEFINE t == Append(s, b)
<1>1. t \in Seq(Brackets) /\ Len(t) = Len(s) + 1 /\ t # << >>
  BY PushBracket
<1>2. t[Len(s) + 1] = b /\ \A k \in 1..Len(s) : t[k] = s[k]
  BY AppendProperties
<1>3. Pop(t) = s
  <2>1. Pop(t) = SubSeq(t, 1, Len(t) - 1) /\ Len(t) - 1 = Len(s) /\ Len(s) \in Nat
    BY <1>1 DEF Pop
  <2> HIDE DEF t
  <2>2. SubSeq(t, 1, Len(s)) = [k \in 1..Len(s) |-> t[k]]
    BY <1>1
  <2>3. s = [k \in 1..Len(s) |-> s[k]]
    OBVIOUS
  <2>4. [k \in 1..Len(s) |-> t[k]] = [k \in 1..Len(s) |-> s[k]]
    BY <1>2
  <2> QED BY <2>1, <2>2, <2>3, <2>4
<1> QED BY <1>1, <1>2, <1>3

\* No calls add no items.
LEMMA FillsNothing ==
  ASSUME NEW s
  PROVE  Fills(<< >>, s)
BY RunsNothing DEF Fills

\* Items after items.
LEMMA FillsBoth ==
  ASSUME NEW s, NEW a, NEW b, Fills(a, s), Fills(b, s)
  PROVE  Fills(a \o b, s)
<1> SUFFICES ASSUME NEW ph \in {"first", "more"}
             PROVE  \E ph2 \in {"first", "more"} : Runs(a \o b, Pos(s, ph), Pos(s, ph2))
  BY Zenon DEF Fills
<1>1. PICK o \in {"first", "more"} : Runs(a, Pos(s, ph), Pos(s, o))
  BY Zenon DEF Fills
<1>2. PICK ph2 \in {"first", "more"} : Runs(b, Pos(s, o), Pos(s, ph2))
  BY Zenon DEF Fills
<1>3. Runs(a \o b, Pos(s, ph), Pos(s, ph2))
  BY <1>1, <1>2, RunsBoth
<1> QED BY <1>3

\* Items again and again.
LEMMA FillsTimes ==
  ASSUME NEW s, NEW calls, Fills(calls, s), NEW n \in Nat
  PROVE  Fills(Times(n, calls), s)
<1>1. PICK t : t[0] = << >> /\ (\A k \in 1..n : t[k] = t[k - 1] \o calls) /\ Times(n, calls) = t[n]
  BY TimesSteps
<1> DEFINE good == {k \in 0..n : Fills(t[k], s)}
<1>2. 0 \in good
  BY <1>1, FillsNothing
<1>3. ASSUME NEW k \in Nat, k < n, k \in good PROVE k + 1 \in good
  <2>1. k + 1 \in 1..n /\ (k + 1) - 1 = k
    BY <1>3
  <2>2. Fills(t[k], s) /\ t[k + 1] = t[k] \o calls
    BY <1>1, <1>3, <2>1
  <2>3. Fills(t[k + 1], s)
    BY <2>2, FillsBoth
  <2> QED BY <2>1, <2>3
<1> HIDE DEF good
<1>4. \A k \in 0..n : k \in good
  BY <1>2, <1>3, Upwards
<1>5. n \in good
  BY <1>4
<1> QED BY <1>1, <1>5 DEF good

\* Values of one call.
LEMMA FillsMembers ==
  ASSUME NEW s, InObj(s), NEW n \in Nat
  PROVE  Fills(Members(n), s)
<1>1. ASSUME NEW ph \in {"first", "more"} PROVE Runs(<<"named">>, Pos(s, ph), Pos(s, "more"))
  <2>1. Legal("named", Pos(s, ph), Pos(s, "more"))
    BY DEF Legal, KeyAt, Pos, After, InObj
  <2> QED BY <2>1, RunsOne DEF Calls
<1>2. Fills(<<"named">>, s)
  BY <1>1 DEF Fills
<1> QED BY <1>2, FillsTimes DEF Members

\* Members of an array, of one call each.
LEMMA FillsRaw ==
  ASSUME NEW s, InArr(s), NEW n \in Nat
  PROVE  Fills(Times(n, <<"raw">>), s)
<1>1. ASSUME NEW ph \in {"first", "more"} PROVE Runs(<<"raw">>, Pos(s, ph), Pos(s, "more"))
  <2>1. Legal("raw", Pos(s, ph), Pos(s, "more"))
    BY DEF Legal, ValueAt, Pos, After, InArr
  <2> QED BY <2>1, RunsOne DEF Calls
<1>2. Fills(<<"raw">>, s)
  BY <1>1 DEF Fills
<1> QED BY <1>2, FillsTimes

\* A group stands for a value.
LEMMA RunsOpen ==
  ASSUME NEW s \in Seq(Brackets), NEW b \in Brackets, NEW ph, ph = "value" \/ InArr(s), Len(s) < MaxDepth
  PROVE  Runs(<<b>>, Pos(s, ph), Pos(Append(s, b), "first"))
<1>1. Legal(b, Pos(s, ph), Pos(Append(s, b), "first"))
  BY DEF Legal, ValueAt, Pos, InArr
<1>2. b \in Calls
  BY DEF Brackets, Calls
<1> QED BY <1>1, <1>2, RunsOne

\* The bracket that was opened is closed by its own kind.
LEMMA RunsClose ==
  ASSUME NEW s \in Seq(Brackets), NEW b \in Brackets, NEW c, c = Closer(b), NEW ph \in {"first", "more"}
  PROVE  Runs(<<c>>, Pos(Append(s, b), ph), Pos(s, After(s)))
<1> DEFINE t == Append(s, b)
<1>1. t # << >> /\ t[Len(t)] = b /\ Pop(t) = s
  BY Pushed
<1> HIDE DEF t
<1>2. c \in {"}", "]"} /\ c \in Calls
  BY DEF Closer, Calls
<1>3. Legal(c, Pos(t, ph), Pos(s, After(s)))
  BY <1>1, <1>2 DEF Legal, Pos
<1> QED BY <1>2, <1>3, RunsOne DEF t

\* A whole group stands for a value.
LEMMA RunsGroup ==
  ASSUME NEW s \in Seq(Brackets), NEW b \in Brackets, NEW c, c = Closer(b), NEW body, NEW ph,
         ph = "value" \/ InArr(s), Len(s) < MaxDepth, Fills(body, Append(s, b))
  PROVE  Runs(<<b>> \o body \o <<c>>, Pos(s, ph), Pos(s, After(s)))
<1>1. Runs(<<b>>, Pos(s, ph), Pos(Append(s, b), "first"))
  BY RunsOpen
<1>2. PICK o \in {"first", "more"} : Runs(body, Pos(Append(s, b), "first"), Pos(Append(s, b), o))
  BY DEF Fills
<1>3. Runs(<<c>>, Pos(Append(s, b), o), Pos(s, After(s)))
  BY RunsClose
<1> QED BY <1>1, <1>2, <1>3, RunsBoth

\* An object is an item of an array.
LEMMA FillsObject ==
  ASSUME NEW s, InArr(s), Len(s) < MaxDepth, NEW body, Fills(body, Append(s, "{"))
  PROVE  Fills(Object(body), s)
<1>1. s \in Seq(Brackets) /\ After(s) = "more" /\ "{" \in Brackets /\ Closer("{") = "}"
  BY DEF InArr, After, Brackets, Closer
<1>2. ASSUME NEW ph \in {"first", "more"} PROVE Runs(Object(body), Pos(s, ph), Pos(s, "more"))
  <2>1. Runs(<<"{">> \o body \o <<"}">>, Pos(s, ph), Pos(s, After(s)))
    BY <1>1, RunsGroup
  <2> QED BY <1>1, <2>1 DEF Object
<1> QED BY <1>2 DEF Fills

\* A key and its value.
LEMMA RunsKey ==
  ASSUME NEW s, InObj(s), NEW ph \in {"first", "more"}
  PROVE  Runs(<<"key">>, Pos(s, ph), Pos(s, "value"))
<1>1. Legal("key", Pos(s, ph), Pos(s, "value"))
  BY DEF Legal, KeyAt, Pos, InObj
<1> QED BY <1>1, RunsOne DEF Calls

\* With a key it is an item of an object.
LEMMA FillsKeyedObject ==
  ASSUME NEW s, InObj(s), Len(s) < MaxDepth, NEW body, Fills(body, Append(s, "{"))
  PROVE  Fills(<<"key">> \o Object(body), s)
<1>1. s \in Seq(Brackets) /\ After(s) = "more" /\ "{" \in Brackets /\ Closer("{") = "}"
  BY DEF InObj, After, Brackets, Closer
<1>2. Runs(Object(body), Pos(s, "value"), Pos(s, "more"))
  <2>1. Runs(<<"{">> \o body \o <<"}">>, Pos(s, "value"), Pos(s, After(s)))
    BY <1>1, RunsGroup
  <2> QED BY <1>1, <2>1 DEF Object
<1>3. ASSUME NEW ph \in {"first", "more"} PROVE Runs(<<"key">> \o Object(body), Pos(s, ph), Pos(s, "more"))
  BY <1>2, RunsKey, RunsBoth
<1> QED BY <1>3 DEF Fills

\* The key of an array and its bracket.
LEMMA RunsKeyOpen ==
  ASSUME NEW s, InObj(s), Len(s) < MaxDepth, NEW ph \in {"first", "more"}
  PROVE  Runs(<<"key", "[">>, Pos(s, ph), Pos(Append(s, "["), "first"))
<1>1. s \in Seq(Brackets) /\ "[" \in Brackets
  BY DEF InObj, Brackets
<1>2. Runs(<<"[">>, Pos(s, "value"), Pos(Append(s, "["), "first"))
  BY <1>1, RunsOpen
<1>3. Runs(<<"key">> \o <<"[">>, Pos(s, ph), Pos(Append(s, "["), "first"))
  BY <1>2, RunsKey, RunsBoth
<1>4. <<"key">> \o <<"[">> = <<"key", "[">>
  BY OneAndAnother
<1> QED BY <1>3, <1>4

\* A list with its key is an item of an object.
LEMMA FillsList ==
  ASSUME NEW s, InObj(s), Len(s) < MaxDepth, NEW body, Fills(body, Append(s, "["))
  PROVE  Fills(List(body), s)
<1>1. s \in Seq(Brackets) /\ After(s) = "more" /\ "[" \in Brackets /\ Closer("[") = "]"
  BY DEF InObj, After, Brackets, Closer
<1>2. ASSUME NEW ph \in {"first", "more"} PROVE Runs(List(body), Pos(s, ph), Pos(s, "more"))
  <2>1. Runs(<<"key", "[">>, Pos(s, ph), Pos(Append(s, "["), "first"))
    BY RunsKeyOpen
  <2>2. PICK o \in {"first", "more"} : Runs(body, Pos(Append(s, "["), "first"), Pos(Append(s, "["), o))
    BY DEF Fills
  <2>3. Runs(<<"]">>, Pos(Append(s, "["), o), Pos(s, "more"))
    <3>1. Runs(<<"]">>, Pos(Append(s, "["), o), Pos(s, After(s)))
      BY <1>1, RunsClose
    <3> QED BY <1>1, <3>1
  <2>4. Runs(<<"key", "[">> \o body \o <<"]">>, Pos(s, ph), Pos(s, "more"))
    BY <2>1, <2>2, <2>3, RunsBoth
  <2> QED BY <2>4 DEF List
<1> QED BY <1>2 DEF Fills

-----------------------------------------------------------------------------
(* What is written between the brackets of a container *)

\* The object just opened, and the array just opened.
LEMMA Opened ==
  ASSUME NEW s \in Seq(Brackets)
  PROVE  /\ InObj(Append(s, "{")) /\ InArr(Append(s, "["))
         /\ Len(Append(s, "{")) = Len(s) + 1 /\ Len(Append(s, "[")) = Len(s) + 1
<1>1. "{" \in Brackets /\ "[" \in Brackets
  BY DEF Brackets
<1> QED BY <1>1, Pushed DEF InObj, InArr

\* A string, as str and is_wide.
LEMMA FillsUnicode ==
  ASSUME NEW s, InObj(s), Len(s) < MaxDepth
  PROVE  Fills(UnicodeString, s)
<1>1. InObj(Append(s, "{"))
  BY Opened DEF InObj
<1>2. Fills(Members(2), Append(s, "{"))
  BY <1>1, FillsMembers
<1> QED BY <1>2, FillsKeyedObject DEF UnicodeString, RawUnicodeString

\* A list of numbers or of names.
LEMMA FillsRawList ==
  ASSUME NEW s, InObj(s), Len(s) < MaxDepth, NEW n \in Nat
  PROVE  Fills(List(Times(n, <<"raw">>)), s)
<1>1. InArr(Append(s, "["))
  BY Opened DEF InObj
<1>2. Fills(Times(n, <<"raw">>), Append(s, "["))
  BY <1>1, FillsRaw
<1> QED BY <1>2, FillsList

\* A list of objects without brackets inside.
LEMMA FillsObjectList ==
  ASSUME NEW s, InObj(s), Len(s) + 1 < MaxDepth, NEW n \in Nat
  PROVE  Fills(List(Times(n, Object(Members(2)))), s)
<1> DEFINE t == Append(s, "[")
<1>1. InArr(t) /\ Len(t) = Len(s) + 1 /\ t \in Seq(Brackets) /\ Len(s) \in Nat /\ MaxDepth \in Nat
  <2>1. s \in Seq(Brackets) /\ MaxDepth \in Nat
    BY DepthAssumption DEF InObj
  <2>2. t \in Seq(Brackets) /\ InArr(t) /\ Len(t) = Len(s) + 1
    BY <2>1, Opened DEF InArr
  <2> QED BY ONLY <2>1, <2>2
<1> HIDE DEF t
<1>2. InObj(Append(t, "{"))
  BY <1>1, Opened
<1>3. Fills(Members(2), Append(t, "{"))
  BY <1>2, FillsMembers
<1>4. Fills(Object(Members(2)), t)
  BY <1>1, <1>3, FillsObject
<1>5. Fills(Times(n, Object(Members(2))), t)
  BY <1>4, FillsTimes
<1> QED BY <1>1, <1>5, FillsList DEF t

\* Every property that has no elements to visit is an item of its array.
LEMMA FillsFlat ==
  ASSUME NEW s, InArr(s), Len(s) + 3 <= MaxDepth, NEW calls \in FlatProperties
  PROVE  Fills(calls, s)
<1> DEFINE o == Append(s, "{")
<1>1. /\ s \in Seq(Brackets) /\ Len(s) \in Nat /\ MaxDepth \in Nat
      /\ InObj(o) /\ Len(o) = Len(s) + 1
  <2>1. s \in Seq(Brackets) /\ MaxDepth \in Nat
    BY DepthAssumption DEF InArr
  <2>2. InObj(o) /\ Len(o) = Len(s) + 1
    BY <2>1, Opened
  <2>3. Len(s) \in Nat
    BY <2>1
  <2> HIDE DEF o
  <2> QED BY <2>1, <2>2, <2>3
<1> HIDE DEF o
<1>2. Len(s) < MaxDepth /\ Len(o) < MaxDepth /\ Len(o) + 1 < MaxDepth
  BY <1>1
<1>3. ASSUME NEW body, Fills(body, o) PROVE Fills(Object(Common \o body), s)
  <2>1. Fills(Common, o)
    BY <1>1, FillsMembers DEF Common
  <2>2. Fills(Common \o body, o)
    BY <1>3, <2>1, FillsBoth
  <2> QED BY <1>2, <2>2, FillsObject DEF o
<1>4. Fills(Members(1), o) /\ Fills(Members(2), o) /\ Fills(Members(3), o)
  BY <1>1, FillsMembers
<1>5. Fills(UnicodeString, o)
  BY <1>1, <1>2, FillsUnicode
<1>6. Fills(Single, s) /\ Fills(StringProp, s) /\ Fills(NameProp, s) /\ Fills(Enum, s) /\ Fills(DataArray, s)
  BY <1>3, <1>4, <1>5, Zenon DEF Single, StringProp, NameProp, Enum, DataArray
<1>7. Fills(NativeStruct, s)
  <2>1. Fills(Common, o)
    BY <1>1, FillsMembers DEF Common
  <2>2. Fills(List(<< >>), o)
    BY <1>1, <1>2, FillsNothing, FillsList
  <2>3. Fills(Common \o Members(2) \o List(<< >>), o)
    BY <1>4, <2>1, <2>2, FillsBoth
  <2> QED BY <1>2, <2>3, FillsObject DEF NativeStruct, o
<1>8. ASSUME NEW n \in 0..MaxElements
      PROVE  Fills(RawArray(n), s) /\ Fills(StringArray(n), s) /\ Fills(EnumArray(n), s)
  <2>1. n \in Nat
    BY WalkAssumption
  <2>2. Fills(List(Times(n, <<"raw">>)), o) /\ Fills(List(Times(n, Object(Members(2)))), o)
    BY <1>1, <1>2, <2>1, FillsRawList, FillsObjectList
  <2> QED BY <1>3, <2>2, Zenon DEF RawArray, StringArray, EnumArray, RawUnicodeString
<1>9. \/ calls \in {Single, StringProp, NameProp, Enum, DataArray, NativeStruct}
      \/ \E n \in 0..MaxElements : calls \in {RawArray(n), StringArray(n), EnumArray(n)}
  BY Zenon DEF FlatProperties
<1> QED BY <1>6, <1>7, <1>8, <1>9

\* The table of actor names.
LEMMA FillsActors ==
  ASSUME NEW s, InObj(s), Len(s) < MaxDepth, NEW calls \in ActorTable
  PROVE  Fills(calls, s)
<1>1. PICK n \in 0..MaxElements : calls = List(Times(n, <<"raw">>))
  BY DEF ActorTable
<1>2. n \in Nat
  BY WalkAssumption
<1> QED BY <1>1, <1>2, FillsRawList

\* The header.
LEMMA FillsHeader ==
  ASSUME NEW s, InObj(s), Len(s) + 2 <= MaxDepth, NEW android \in BOOLEAN
  PROVE  Fills(Header(android), s)
<1> DEFINE o == Append(s, "{")
           profile == IF android THEN Members(1) \o UnicodeString ELSE << >>
<1>1. /\ s \in Seq(Brackets) /\ Len(s) \in Nat /\ MaxDepth \in Nat
      /\ InObj(o) /\ Len(o) = Len(s) + 1
  <2>1. s \in Seq(Brackets) /\ MaxDepth \in Nat
    BY DepthAssumption DEF InObj
  <2>2. InObj(o) /\ Len(o) = Len(s) + 1
    BY <2>1, Opened
  <2>3. Len(s) \in Nat
    BY <2>1
  <2> HIDE DEF o
  <2> QED BY <2>1, <2>2, <2>3
<1> HIDE DEF o
<1>2. Len(s) < MaxDepth /\ Len(o) < MaxDepth
  BY <1>1
<1>3. Fills(Members(1), o) /\ Fills(Members(4), o) /\ Fills(Members(6), o) /\ Fills(UnicodeString, o)
  BY <1>1, <1>2, FillsMembers, FillsUnicode
<1>4. Fills(profile, o)
  <2>1. CASE android
    BY <1>3, <2>1, FillsBoth
  <2>2. CASE ~android
    BY <2>2, FillsNothing
  <2> QED BY <2>1, <2>2
<1> HIDE DEF profile
<1>5. Fills(Members(4) \o UnicodeString \o UnicodeString \o Members(6) \o profile, o)
  <2>1. Fills(Members(4) \o UnicodeString, o)
    BY <1>3, FillsBoth
  <2>2. Fills(Members(4) \o UnicodeString \o UnicodeString, o)
    BY <1>3, <2>1, FillsBoth
  <2>3. Fills(Members(4) \o UnicodeString \o UnicodeString \o Members(6), o)
    BY <1>3, <2>2, FillsBoth
  <2> QED BY <1>4, <2>3, FillsBoth
<1> DEFINE body == Members(4) \o UnicodeString \o UnicodeString \o Members(6) \o profile
<1>6. Fills(body, o)
  BY <1>5
<1>7. Header(android) = <<"key">> \o Object(body)
  BY DEF Header, profile
<1> HIDE DEF body
<1> QED BY <1>2, <1>6, <1>7, FillsKeyedObject DEF o

-----------------------------------------------------------------------------
(* Containers *)

Kinds == {"save", "chunk", "checkpoint", "struct", "struct_array", "static_array", "element"}

\* The brackets open among the elements of a container: an element of a struct array is
\* a bare array, every other container an object with a list at its end.
Within(s, kind) == IF kind = "element" THEN Append(s, "[") ELSE Append(Append(s, "{"), "[")

\* The calls lead from p to where an item may stand in s.
Reaches(calls, p, s) == \E ph \in {"first", "more"} : Runs(calls, p, Pos(s, ph))

\* Items may be added where items may stand.
LEMMA ReachesMore ==
  ASSUME NEW a, NEW b, NEW p, NEW s, Reaches(a, p, s), Fills(b, s)
  PROVE  Reaches(a \o b, p, s)
<1>1. PICK o \in {"first", "more"} : Runs(a, p, Pos(s, o))
  BY DEF Reaches
<1>2. PICK ph \in {"first", "more"} : Runs(b, Pos(s, o), Pos(s, ph))
  BY DEF Fills
<1>3. Runs(a \o b, p, Pos(s, ph))
  BY <1>1, <1>2, RunsBoth
<1> QED BY <1>3 DEF Reaches

\* A list may be opened there.
LEMMA ReachesInto ==
  ASSUME NEW a, NEW p, NEW s, InObj(s), Len(s) < MaxDepth, Reaches(a, p, s)
  PROVE  Reaches(a \o <<"key", "[">>, p, Append(s, "["))
<1>1. PICK o \in {"first", "more"} : Runs(a, p, Pos(s, o))
  BY DEF Reaches
<1>2. Runs(<<"key", "[">>, Pos(s, o), Pos(Append(s, "["), "first"))
  BY RunsKeyOpen
<1>3. Runs(a \o <<"key", "[">>, p, Pos(Append(s, "["), "first"))
  BY <1>1, <1>2, RunsBoth
<1> QED BY <1>3 DEF Reaches

\* Where a value may stand, the opening of a container leads among its elements.
LEMMA OpeningRuns ==
  ASSUME NEW s \in Seq(Brackets), NEW ph, ph = "value" \/ InArr(s), Len(s) + 3 <= MaxDepth,
         NEW kind \in Kinds, NEW calls \in Opening(kind)
  PROVE  Reaches(calls, Pos(s, ph), Within(s, kind))
<1> DEFINE o == Append(s, "{")
           p == Pos(s, ph)
<1>1. /\ Len(s) \in Nat /\ MaxDepth \in Nat
      /\ InObj(o) /\ Len(o) = Len(s) + 1
  <2>1. Len(s) \in Nat /\ MaxDepth \in Nat
    BY DepthAssumption
  <2>2. InObj(o) /\ Len(o) = Len(s) + 1
    BY ONLY s \in Seq(Brackets), Opened
  <2> QED BY <2>1, <2>2
<1>2. Reaches(<<"{">>, p, o)
  <2>1. Runs(<<"{">>, Pos(s, ph), Pos(Append(s, "{"), "first"))
    <3>1. Len(s) < MaxDepth
      <4>1. Len(s) \in Nat /\ MaxDepth \in Nat
        BY <1>1
      <4> HIDE DEF o, p
      <4> QED BY <4>1
    <3>2. "{" \in Brackets
      BY DEF Brackets
    <3> QED BY ONLY <3>1, <3>2, s \in Seq(Brackets), ph = "value" \/ InArr(s), RunsOpen
  <2> QED BY <2>1 DEF Reaches
<1>3. kind # "element" => Within(s, kind) = Append(o, "[")
  BY DEF Within
<1> HIDE DEF o, p
<1>4. Len(s) < MaxDepth /\ Len(o) < MaxDepth /\ Len(o) + 2 <= MaxDepth
  BY <1>1
<1>5. ASSUME NEW a, Reaches(a, p, o), kind # "element" PROVE Reaches(a \o <<"key", "[">>, p, Within(s, kind))
  BY <1>1, <1>3, <1>4, <1>5, ReachesInto
<1>6. Fills(Members(2), o) /\ Fills(Members(3), o) /\ Fills(Common, o)
  BY <1>1, FillsMembers DEF Common
<1>7. CASE kind = "save"
  <2>1. PICK android \in BOOLEAN, actors \in ActorTable :
          calls = <<"{">> \o Header(android) \o actors \o <<"key", "[">>
    BY <1>7 DEF Opening, SaveOpening
  <2>2. Fills(Header(android), o) /\ Fills(actors, o)
    BY <1>1, <1>4, FillsHeader, FillsActors
  <2>3. Reaches(<<"{">> \o Header(android), p, o)
    BY <1>2, <2>2, ReachesMore
  <2>4. Reaches(<<"{">> \o Header(android) \o actors, p, o)
    BY <2>2, <2>3, ReachesMore
  <2> QED BY <1>5, <1>7, <2>1, <2>4 DEF p
<1>8. CASE kind = "chunk"
  <2>1. calls = <<"{">> \o Members(2) \o <<"key", "[">>
    BY <1>8 DEF Opening
  <2>2. Reaches(<<"{">> \o Members(2), p, o)
    BY <1>2, <1>6, ReachesMore
  <2> QED BY <1>5, <1>8, <2>1, <2>2 DEF p
<1>9. CASE kind = "checkpoint"
  <2> DEFINE three == List(Times(3, <<"raw">>))
  <2>1. calls = <<"{">> \o Members(3) \o three \o three \o <<"key", "[">>
    BY <1>9 DEF Opening
  <2>2. Fills(three, o)
    BY <1>1, <1>4, FillsRawList
  <2> HIDE DEF three
  <2>3. Reaches(<<"{">> \o Members(3), p, o)
    BY <1>2, <1>6, ReachesMore
  <2>4. Reaches(<<"{">> \o Members(3) \o three, p, o)
    BY <2>2, <2>3, ReachesMore
  <2>5. Reaches(<<"{">> \o Members(3) \o three \o three, p, o)
    BY <2>2, <2>4, ReachesMore
  <2> QED BY <1>5, <1>9, <2>1, <2>5 DEF p
<1>10. Reaches(<<"{">> \o Common, p, o)
  BY <1>2, <1>6, ReachesMore
<1>11. CASE kind = "struct"
  <2>1. calls = <<"{">> \o Common \o Members(2) \o <<"key", "[">>
    BY <1>11 DEF Opening
  <2>2. Reaches(<<"{">> \o Common \o Members(2), p, o)
    BY <1>6, <1>10, ReachesMore
  <2> QED BY <1>5, <1>11, <2>1, <2>2 DEF p
<1>12. CASE kind \in {"struct_array", "static_array"}
  <2>1. calls = <<"{">> \o Common \o <<"key", "[">>
    BY <1>12 DEF Opening
  <2> QED BY <1>5, <1>10, <1>12, <2>1 DEF p
<1>13. CASE kind = "element"
  <2>1. calls = <<"[">> /\ Within(s, kind) = Append(s, "[")
    BY <1>13 DEF Opening, Within
  <2>2. Runs(<<"[">>, Pos(s, ph), Pos(Append(s, "["), "first"))
    BY <1>4, RunsOpen DEF Brackets
  <2> QED BY <2>1, <2>2 DEF Reaches
<1> QED BY <1>7, <1>8, <1>9, <1>11, <1>12, <1>13 DEF Kinds

\* What closes the object of a container.
LEMMA RunsOut ==
  ASSUME NEW a, NEW p, NEW s \in Seq(Brackets), Reaches(a, p, Append(s, "{"))
  PROVE  Runs(a \o <<"}">>, p, Pos(s, After(s)))
<1>1. PICK o \in {"first", "more"} : Runs(a, p, Pos(Append(s, "{"), o))
  BY DEF Reaches
<1>2. "{" \in Brackets /\ "}" = Closer("{")
  BY DEF Brackets, Closer
<1>3. Runs(<<"}">>, Pos(Append(s, "{"), o), Pos(s, After(s)))
  BY <1>2, RunsClose
<1> QED BY <1>1, <1>3, RunsBoth

\* The closing of a container leads behind it.
LEMMA ClosingRuns ==
  ASSUME NEW s \in Seq(Brackets), NEW ph \in {"first", "more"},
         NEW kind \in Kinds, kind # "save" => s # << >>, Len(s) + 2 <= MaxDepth, NEW calls \in Closing(kind)
  PROVE  Runs(calls, Pos(Within(s, kind), ph), Pos(s, After(s)))
<1> DEFINE o == Append(s, "{")
           p == Pos(Within(s, kind), ph)
           r == Pos(s, After(s))
<1>1. /\ Len(s) \in Nat /\ MaxDepth \in Nat
      /\ InObj(o) /\ Len(o) = Len(s) + 1 /\ o \in Seq(Brackets) /\ o # << >>
  <2>1. Len(s) \in Nat /\ MaxDepth \in Nat
    BY DepthAssumption
  <2>2. InObj(o) /\ Len(o) = Len(s) + 1
    BY Opened
  <2> HIDE DEF o
  <2> QED BY <2>1, <2>2 DEF InObj
<1>2. "[" \in Brackets /\ "]" = Closer("[")
  BY DEF Brackets, Closer
<1>3. kind # "element" => Reaches(<<"]">>, p, o)
  <2> SUFFICES ASSUME kind # "element" PROVE Reaches(<<"]">>, p, o)
    OBVIOUS
  <2>1. p = Pos(Append(o, "["), ph)
    BY DEF Within
  <2> HIDE DEF o, p
  <2>2. Runs(<<"]">>, Pos(Append(o, "["), ph), Pos(o, After(o)))
    BY <1>1, <1>2, RunsClose
  <2>3. After(o) = "more"
    BY <1>1 DEF After
  <2> QED BY <2>1, <2>2, <2>3 DEF Reaches
<1>4. ASSUME NEW a, Reaches(a, p, o) PROVE Runs(a \o <<"}">>, p, r)
  BY <1>4, RunsOut
<1> HIDE DEF o, p, r
<1>5. Fills(Members(2), o) /\ Fills(Members(4), o)
  BY <1>1, FillsMembers
<1>6. CASE kind \in {"save", "struct", "struct_array", "static_array"}
  <2>1. calls = <<"]", "}">>
    BY <1>6 DEF Closing, StructClose
  <2>2. calls = <<"]">> \o <<"}">>
    BY <2>1, OneAndAnother
  <2> QED BY <1>3, <1>4, <1>6, <2>2 DEF p, r
<1>7. CASE kind = "checkpoint"
  <2>1. calls = <<"]">> \o Members(2) \o <<"}">>
    BY <1>7 DEF Closing, CheckpointClose
  <2>2. Reaches(<<"]">> \o Members(2), p, o)
    BY <1>3, <1>5, <1>7, ReachesMore
  <2> QED BY <1>4, <2>1, <2>2 DEF p, r
<1>8. CASE kind = "chunk"
  <2>1. PICK actors \in ActorTable :
          calls = <<"]">> \o Members(2) \o actors \o Members(4) \o <<"}", "end_item">>
    BY <1>8 DEF Closing
  <2> DEFINE most == <<"]">> \o Members(2) \o actors \o Members(4)
  <2>2. Fills(actors, o)
    <3>1. Len(o) < MaxDepth
      BY <1>1
    <3> QED BY <1>1, <3>1, FillsActors
  <2>3. Reaches(<<"]">> \o Members(2), p, o)
    BY <1>3, <1>5, <1>8, ReachesMore
  <2>4. Reaches(<<"]">> \o Members(2) \o actors, p, o)
    BY <2>2, <2>3, ReachesMore
  <2>5. Reaches(most, p, o)
    BY <1>5, <2>4, ReachesMore
  <2>6. calls = most \o <<"}", "end_item">>
    BY <2>1
  <2> HIDE DEF most
  <2>7. PICK w \in {"first", "more"} : Runs(most, p, Pos(o, w))
    BY <2>5 DEF Reaches
  <2>8. Runs(<<"}">>, Pos(o, w), r)
    <3>1. "{" \in Brackets /\ "}" = Closer("{")
      BY DEF Brackets, Closer
    <3> QED BY <3>1, RunsClose DEF o, r
  <2>9. Runs(<<"end_item">>, r, r)
    <3>1. r.stack = s /\ r.phase = "more" /\ s # << >>
      BY <1>8 DEF r, Pos, After
    <3>2. Legal("end_item", r, r) /\ "end_item" \in Calls
      BY <3>1 DEF Legal, Calls
    <3> QED BY <3>2, RunsOne
  <2>10. Runs(<<"}", "end_item">>, Pos(o, w), r)
    <3>1. Runs(<<"}">> \o <<"end_item">>, Pos(o, w), r)
      BY <2>8, <2>9, RunsBoth
    <3> QED BY <3>1, OneAndAnother
  <2> QED BY <2>6, <2>7, <2>10, RunsBoth DEF p, r
<1>9. CASE kind = "element"
  <2>1. calls = <<"]">> /\ p = Pos(Append(s, "["), ph)
    BY <1>9 DEF Closing, Within, p
  <2> QED BY <1>2, <2>1, RunsClose DEF p, r
<1> QED BY <1>6, <1>7, <1>8, <1>9 DEF Kinds

-----------------------------------------------------------------------------
(* The walk *)

\* The brackets open among the elements of each container.
IsStack(h, conts) == h[0] = << >> /\ \A k \in 1..Len(conts) : h[k] = Within(h[k - 1], conts[k])

\* Nothing is written after the last container; inside one an item may follow.
Ends(conts) == IF conts = << >> THEN {"done"} ELSE {"first", "more"}

\* The walk's invariant: the calls it still has to make are legal, and lead to where the
\* next element is written, or to the end.
WalkInv ==
  /\ Inv
  /\ frames \in Seq(Kinds)
  /\ frames # << >> => frames[1] = "save"
  /\ Len(frames) >= 2 => Len(frames) <= MaxFrames
  /\ \E h : /\ IsStack(h, frames)
            /\ \E ph \in Ends(frames) : Runs(todo, j.text, Pos(h[Len(frames)], ph))

\* Among the elements of a container an item may be written.
LEMMA WithinIs ==
  ASSUME NEW s \in Seq(Brackets), NEW kind
  PROVE  InArr(Within(s, kind)) /\ Within(s, kind) \in Seq(Brackets)
         /\ Len(Within(s, kind)) <= Len(s) + 2 /\ Len(Within(s, kind)) > Len(s)
<1>1. CASE kind = "element"
  <2>1. Within(s, kind) = Append(s, "[") /\ Len(s) \in Nat
    BY <1>1 DEF Within
  <2>2. InArr(Append(s, "[")) /\ Len(Append(s, "[")) = Len(s) + 1
    BY Opened
  <2>3. Len(s) + 1 <= Len(s) + 2 /\ Len(s) + 1 > Len(s)
    BY <2>1
  <2> QED BY ONLY <2>1, <2>2, <2>3 DEF InArr
<1>2. CASE kind # "element"
  <2> DEFINE o == Append(s, "{")
  <2>1. Len(s) \in Nat
    OBVIOUS
  <2>2. Within(s, kind) = Append(o, "[")
    BY <1>2 DEF Within
  <2>3. o \in Seq(Brackets) /\ Len(o) = Len(s) + 1
    <3>1. InObj(o) /\ Len(o) = Len(s) + 1
      BY Opened
    <3> HIDE DEF o
    <3> QED BY <3>1 DEF InObj
  <2> HIDE DEF o
  <2>4. InArr(Append(o, "[")) /\ Len(Append(o, "[")) = Len(o) + 1
    BY <2>3, Opened
  <2>5. Len(o) + 1 = Len(s) + 2 /\ Len(o) + 1 > Len(s)
    BY <2>1, <2>3
  <2> QED BY ONLY <2>1, <2>2, <2>4, <2>5 DEF InArr
<1> QED BY <1>1, <1>2

\* Containers open at most two brackets each.
LEMMA StackIs ==
  ASSUME NEW conts, Len(conts) \in Nat, NEW h, IsStack(h, conts)
  PROVE  \A k \in 0..Len(conts) : /\ h[k] \in Seq(Brackets) /\ Len(h[k]) <= 2 * k
                                  /\ k # 0 => InArr(h[k])
<1> DEFINE n == Len(conts)
           good == {k \in 0..n : /\ h[k] \in Seq(Brackets) /\ Len(h[k]) <= 2 * k
                                 /\ k # 0 => InArr(h[k])}
<1>1. 0 \in good
  <2>1. << >> \in Seq(Brackets) /\ Len(<< >>) = 0 /\ 0 <= 2 * 0 /\ 0 \in 0..n
    OBVIOUS
  <2>2. h[0] = << >>
    BY DEF IsStack
  <2> HIDE DEF n
  <2> QED BY <2>1, <2>2
<1>2. ASSUME NEW k \in Nat, k < n, k \in good PROVE k + 1 \in good
  <2>1. k + 1 \in 1..n /\ (k + 1) - 1 = k /\ k + 1 \in 0..n
    BY <1>2
  <2>2. h[k + 1] = Within(h[k], conts[k + 1])
    BY <2>1 DEF IsStack
  <2>3. h[k] \in Seq(Brackets) /\ Len(h[k]) <= 2 * k /\ Len(h[k]) \in Nat
    BY <1>2
  <2>4. /\ InArr(h[k + 1]) /\ h[k + 1] \in Seq(Brackets)
        /\ Len(h[k + 1]) <= Len(h[k]) + 2
    BY <2>2, <2>3, WithinIs
  <2>5. Len(h[k + 1]) \in Nat
    BY <2>4
  <2>6. Len(h[k + 1]) <= 2 * (k + 1)
    BY ONLY <1>2, <2>3, <2>4, <2>5
  <2> QED BY <2>1, <2>4, <2>6
<1> HIDE DEF good
<1>3. \A k \in 0..n : k \in good
  BY <1>1, <1>2, Upwards
<1> QED BY <1>3 DEF good

\* No calls lead nowhere.
LEMMA RunsNowhere ==
  ASSUME NEW p, NEW q, Runs(<< >>, p, q)
  PROVE  p = q
<1>1. PICK f : IsRun(f, << >>, p, q)
  BY DEF Runs
<1> QED BY <1>1 DEF IsRun

\* Among the elements of the innermost container, when nothing is left to write.
LEMMA Between ==
  ASSUME WalkInv, Looking
  PROVE  \E h : /\ IsStack(h, frames)
                /\ \E ph \in {"first", "more"} : j.text = Pos(h[Len(frames)], ph)
<1>1. PICK h : /\ IsStack(h, frames)
               /\ \E ph \in Ends(frames) : Runs(todo, j.text, Pos(h[Len(frames)], ph))
  BY DEF WalkInv
<1>2. PICK ph \in Ends(frames) : Runs(todo, j.text, Pos(h[Len(frames)], ph))
  BY <1>1
<1>3. ph \in {"first", "more"} /\ todo = << >>
  BY DEF Looking, Ends
<1>4. j.text = Pos(h[Len(frames)], ph)
  BY <1>2, <1>3, RunsNowhere
<1> QED BY <1>1, <1>3, <1>4

\* The walk starts in front of the save's opening.
LEMMA WalkStarts ==
  ASSUME WalkInit
  PROVE  WalkInv
<1> DEFINE h == [k \in 0..1 |-> IF k = 0 THEN << >> ELSE Within(<< >>, "save")]
           one == <<"save">>
<1>1. Inv /\ j.text = Pos(<< >>, "value")
  <2>1. j.text = Pos(<< >>, "value")
    BY DEF WalkInit, Init, Writer, Start, Pos
  <2> QED BY <2>1, InitInv DEF WalkInit
<1>2. frames = one /\ one \in Seq(Kinds) /\ Len(one) = 1 /\ one[1] = "save" /\ one # << >>
  BY DEF WalkInit, Kinds
<1> HIDE DEF one
<1>3. h[0] = << >> /\ h[1] = Within(<< >>, "save")
  OBVIOUS
<1> HIDE DEF h
<1>4. IsStack(h, frames)
  BY <1>2, <1>3 DEF IsStack
<1>5. Reaches(todo, Pos(<< >>, "value"), Within(<< >>, "save"))
  <2>1. << >> \in Seq(Brackets) /\ Len(<< >>) = 0 /\ 0 + 3 <= MaxDepth
    BY WalkAssumption, DepthAssumption
  <2>2. "save" \in Kinds /\ todo \in Opening("save")
    BY DEF WalkInit, Kinds
  <2> QED BY <2>1, <2>2, OpeningRuns
<1>6. Ends(frames) = {"first", "more"}
  BY <1>2 DEF Ends
<1> QED BY <1>1, <1>2, <1>3, <1>4, <1>5, <1>6 DEF WalkInv, Reaches

\* Every call of the walk is a step of the writer.
LEMMA CallIsStep ==
  ASSUME WalkInv, Call
  PROVE  Next /\ WalkInv'
<1>1. PICK h : /\ IsStack(h, frames)
               /\ \E ph \in Ends(frames) : Runs(todo, j.text, Pos(h[Len(frames)], ph))
  BY DEF WalkInv
<1>2. PICK ph \in Ends(frames) : Runs(todo, j.text, Pos(h[Len(frames)], ph))
  BY <1>1
<1>3. todo # << >> /\ j' = Do(Head(todo)) /\ todo' = Tail(todo) /\ frames' = frames /\ Inv
  BY DEF Call, WalkInv
<1>4. PICK o : Legal(Head(todo), j.text, o) /\ Runs(Tail(todo), o, Pos(h[Len(frames)], ph))
  BY <1>2, <1>3, RunsFirst
<1>5. Next
  BY <1>3, <1>4, StepIsCall
<1>6. Fits(Do(Head(todo)), o)
  BY <1>3, <1>4, CallTakes
<1>7. Inv' /\ j'.text = o
  BY <1>3, <1>6, FitsInv
<1>8. Runs(todo', j'.text, Pos(h[Len(frames')], ph)) /\ IsStack(h, frames') /\ ph \in Ends(frames')
  BY <1>1, <1>3, <1>4, <1>7
<1> QED BY <1>3, <1>5, <1>7, <1>8 DEF WalkInv

\* Entering a container, which opens at most two brackets, the header's and those of a flat array.
LEMMA EnterKeeps ==
  ASSUME WalkInv, NEW kind \in Kinds, Enter(kind)
  PROVE  WalkInv'
<1>1. PICK h : IsStack(h, frames) /\ \E ph \in {"first", "more"} : j.text = Pos(h[Len(frames)], ph)
  BY Between DEF Enter
<1>2. PICK ph \in {"first", "more"} : j.text = Pos(h[Len(frames)], ph)
  BY <1>1
<1> DEFINE n == Len(frames)
           more == Append(frames, kind)
           g == [k \in 0..n + 1 |-> IF k = n + 1 THEN Within(h[n], kind) ELSE h[k]]
<1>3. /\ frames \in Seq(Kinds) /\ frames # << >> /\ frames[1] = "save" /\ n < MaxFrames
      /\ frames' = more /\ todo' \in Opening(kind) /\ j' = j /\ Inv
  BY DEF WalkInv, Enter, Looking
<1>4. /\ n \in Nat /\ n >= 1 /\ n = Len(frames) /\ more \in Seq(Kinds) /\ Len(more) = n + 1
      /\ \A k \in 1..n : more[k] = frames[k]
      /\ more[n + 1] = kind
  BY <1>3
<1>5. \A k \in 0..n + 1 : g[k] = IF k = n + 1 THEN Within(h[n], kind) ELSE h[k]
  OBVIOUS
<1> HIDE DEF n, more, g
<1>6. IsStack(g, more)
  <2>1. g[0] = << >>
    BY <1>1, <1>4, <1>5 DEF IsStack
  <2>2. ASSUME NEW k \in 1..n + 1 PROVE g[k] = Within(g[k - 1], more[k])
    <3>1. k - 1 \in 0..n + 1 /\ k - 1 # n + 1 /\ k \in 0..n + 1
      BY <1>4
    <3>2. g[k - 1] = h[k - 1]
      BY <1>5, <3>1
    <3>3. CASE k = n + 1
      <4>1. k - 1 = n
        BY <1>4, <3>3
      <4> QED BY <1>4, <1>5, <3>1, <3>2, <3>3, <4>1
    <3>4. CASE k # n + 1
      <4>1. k \in 1..n
        BY <1>4, <3>4
      <4> QED BY <1>1, <1>4, <1>5, <3>1, <3>2, <3>4, <4>1 DEF IsStack
    <3> QED BY <3>3, <3>4
  <2> QED BY <1>4, <2>1, <2>2 DEF IsStack
<1>7. h[n] \in Seq(Brackets) /\ Len(h[n]) <= 2 * n /\ InArr(h[n])
  <2>1. n \in 0..n /\ n # 0
    BY <1>4
  <2> QED BY <1>1, <1>4, <2>1, StackIs
<1>8. Len(h[n]) + 3 <= MaxDepth
  <2>1. Len(h[n]) \in Nat /\ MaxFrames \in Nat /\ MaxDepth \in Nat /\ MaxDepth >= 2 * MaxFrames + 3
    BY <1>7, WalkAssumption, DepthAssumption
  <2> QED BY ONLY <1>3, <1>4, <1>7, <2>1
<1>9. Reaches(todo', Pos(h[n], ph), Within(h[n], kind))
  BY <1>3, <1>7, <1>8, OpeningRuns
<1>10. g[n + 1] = Within(h[n], kind) /\ j'.text = Pos(h[n], ph)
  <2>1. n + 1 \in 0..n + 1
    BY <1>4
  <2> QED BY <1>2, <1>3, <1>4, <1>5, <2>1
<1>11. more # << >> /\ more[1] = "save" /\ Ends(more) = {"first", "more"}
  <2>1. more # << >> /\ 1 \in 1..n
    BY <1>4
  <2> QED BY <1>3, <1>4, <2>1 DEF Ends
<1>12. Inv'
  BY <1>3 DEF Inv
<1>13. n + 1 <= MaxFrames
  BY <1>3, <1>4, WalkAssumption
<1>14. \E w \in Ends(frames') : Runs(todo', j'.text, Pos(g[Len(frames')], w))
  BY <1>3, <1>4, <1>9, <1>10, <1>11 DEF Reaches
<1> QED BY <1>3, <1>4, <1>6, <1>11, <1>12, <1>13, <1>14 DEF WalkInv

\* A property without elements of its own.
LEMMA VisitKeeps ==
  ASSUME WalkInv, Visit
  PROVE  WalkInv'
<1>1. PICK h : IsStack(h, frames) /\ \E ph \in {"first", "more"} : j.text = Pos(h[Len(frames)], ph)
  BY Between DEF Visit
<1>2. PICK ph \in {"first", "more"} : j.text = Pos(h[Len(frames)], ph)
  BY <1>1
<1> DEFINE n == Len(frames)
<1>3. /\ frames \in Seq(Kinds) /\ frames # << >> /\ frames[1] = "save" /\ (n >= 2 => n <= MaxFrames)
      /\ todo' \in FlatProperties /\ frames' = frames /\ j' = j /\ Inv
  BY DEF WalkInv, Visit, Looking
<1>4. n \in Nat /\ n >= 1 /\ n = Len(frames)
  BY <1>3
<1> HIDE DEF n
<1>5. n # 1
  <2>1. ~HoldsProperties("save")
    BY DEF HoldsProperties, Inside
  <2>2. HoldsProperties(frames[n])
    BY <1>4 DEF Visit, Current
  <2> QED BY <1>3, <2>1, <2>2
<1>6. h[n] \in Seq(Brackets) /\ Len(h[n]) <= 2 * n /\ InArr(h[n])
  <2>1. n \in 0..n /\ n # 0
    BY <1>4
  <2> QED BY <1>1, <1>4, <2>1, StackIs
<1>7. Len(h[n]) + 3 <= MaxDepth
  <2>1. Len(h[n]) \in Nat /\ MaxFrames \in Nat /\ MaxDepth \in Nat /\ MaxDepth >= 2 * MaxFrames + 3
    BY <1>6, WalkAssumption, DepthAssumption
  <2> QED BY ONLY <1>3, <1>4, <1>5, <1>6, <2>1
<1>8. PICK w \in {"first", "more"} : Runs(todo', Pos(h[n], ph), Pos(h[n], w))
  <2>1. Fills(todo', h[n])
    BY <1>3, <1>6, <1>7, FillsFlat
  <2> QED BY <2>1 DEF Fills
<1>9. Inv'
  BY <1>3 DEF Inv
<1>10. \E v \in Ends(frames') : Runs(todo', j'.text, Pos(h[Len(frames')], v))
  BY <1>2, <1>3, <1>4, <1>8 DEF Ends
<1>11. IsStack(h, frames')
  BY <1>1, <1>3
<1> QED BY <1>3, <1>4, <1>9, <1>10, <1>11 DEF WalkInv

\* The end of a container, and of the document with the outermost.
LEMMA LeaveKeeps ==
  ASSUME WalkInv, Leave
  PROVE  WalkInv'
<1>1. PICK h : IsStack(h, frames) /\ \E ph \in {"first", "more"} : j.text = Pos(h[Len(frames)], ph)
  BY Between DEF Leave
<1>2. PICK ph \in {"first", "more"} : j.text = Pos(h[Len(frames)], ph)
  BY <1>1
<1> DEFINE n == Len(frames)
           kind == frames[n]
           fewer == SubSeq(frames, 1, n - 1)
           s == h[n - 1]
<1>3. /\ frames \in Seq(Kinds) /\ frames # << >> /\ frames[1] = "save" /\ (n >= 2 => n <= MaxFrames)
      /\ todo' \in Closing(kind) /\ frames' = fewer /\ j' = j /\ Inv
  BY DEF WalkInv, Leave, Looking, Current
<1>4. /\ n \in Nat /\ n >= 1 /\ n = Len(frames) /\ kind \in Kinds /\ fewer \in Seq(Kinds) /\ Len(fewer) = n - 1
      /\ \A k \in 1..n - 1 : fewer[k] = frames[k]
  <2>1. n \in Nat /\ n >= 1 /\ n \in 1..n
    BY <1>3
  <2>2. kind \in Kinds
    BY <1>3, <2>1
  <2>3. fewer \in Seq(Kinds) /\ Len(fewer) = n - 1 /\ \A k \in 1..n - 1 : fewer[k] = frames[k]
    <3> DEFINE m == n - 1
    <3>1. m \in Nat /\ m <= Len(frames) /\ 1 \in 1..Len(frames) + 1
      BY <2>1
    <3>2. m \in Int /\ \A k \in 1..m : frames[k] \in Kinds
      BY <1>3, <3>1
    <3> HIDE DEF m
    <3>3. /\ SubSeq(frames, 1, m) \in Seq(Kinds)
          /\ Len(SubSeq(frames, 1, m)) = m
          /\ \A k \in 1..m : SubSeq(frames, 1, m)[k] = frames[k]
      BY <1>3, <3>1, <3>2
    <3> QED BY <3>3 DEF m
  <2> QED BY <2>1, <2>2, <2>3
<1>5. n - 1 \in 0..n /\ n \in 0..n /\ n # 0 /\ n \in 1..n /\ n - 1 \in Nat
  BY <1>4
<1>6. /\ s \in Seq(Brackets) /\ Len(s) <= 2 * (n - 1) /\ (n - 1 # 0 => InArr(s))
  BY <1>1, <1>4, <1>5, StackIs
<1>7. h[n] = Within(s, kind) /\ (n - 1 = 0 => s = << >> /\ kind = "save")
  BY <1>1, <1>3, <1>4, <1>5 DEF IsStack
<1> HIDE DEF n, kind, fewer, s
<1>8. Len(s) + 2 <= MaxDepth
  <2>1. Len(s) \in Nat /\ MaxFrames \in Nat /\ MaxDepth \in Nat /\ MaxDepth >= 2 * MaxFrames + 3
    BY <1>6, WalkAssumption, DepthAssumption
  <2> QED BY ONLY <1>3, <1>4, <1>6, <2>1
<1>9. kind # "save" => s # << >>
  BY <1>6, <1>7 DEF InArr
<1>10. Runs(todo', Pos(Within(s, kind), ph), Pos(s, After(s)))
  BY <1>3, <1>4, <1>6, <1>8, <1>9, ClosingRuns
<1>11. j'.text = Pos(Within(s, kind), ph)
  BY <1>2, <1>3, <1>4, <1>7
<1>12. IsStack(h, fewer)
  <2>1. \A k \in 1..n - 1 : k \in 1..n
    BY <1>4
  <2> QED BY <1>1, <1>4, <2>1 DEF IsStack
<1>13. After(s) \in Ends(fewer)
  <2>1. CASE n - 1 = 0
    <3>1. fewer = << >>
      BY <1>4, <2>1, EmptySeq
    <3> QED BY <1>7, <2>1, <3>1 DEF After, Ends
  <2>2. CASE n - 1 # 0
    <3>1. fewer # << >> /\ s # << >>
      BY <1>4, <1>6, <2>2 DEF InArr
    <3> QED BY <3>1 DEF After, Ends
  <2> QED BY <2>1, <2>2
<1>14. fewer # << >> => fewer[1] = "save"
  <2>1. fewer # << >> => 1 \in 1..n - 1
    BY <1>4
  <2> QED BY <1>3, <1>4, <2>1
<1>15. n - 1 >= 2 => n - 1 <= MaxFrames
  BY <1>3, <1>4, WalkAssumption
<1>16. Inv'
  BY <1>3 DEF Inv
<1>17. Runs(todo', j'.text, Pos(h[Len(fewer)], After(s)))
  BY <1>4, <1>10, <1>11 DEF s
<1> QED BY <1>3, <1>4, <1>12, <1>13, <1>14, <1>15, <1>16, <1>17 DEF WalkInv

\* The invariant is inductive, and what a step does to the writer is a step of JsonWriter.
LEMMA WalkSteps ==
  ASSUME WalkInv, [WalkNext]_vars
  PROVE  WalkInv' /\ [Next]_j
<1>1. CASE Call
  BY <1>1, CallIsStep
<1>2. CASE Visit
  BY <1>2, VisitKeeps DEF Visit
<1>3. CASE Leave
  BY <1>3, LeaveKeeps DEF Leave
<1>4. ASSUME NEW kind \in {"chunk", "checkpoint", "struct", "struct_array", "static_array", "element"}, Enter(kind)
      PROVE  WalkInv' /\ [Next]_j
  <2>1. kind \in Kinds
    BY DEF Kinds
  <2> QED BY <1>4, <2>1, EnterKeeps DEF Enter
<1>5. CASE UNCHANGED vars
  BY <1>5 DEF vars, WalkInv, Inv
<1> QED BY <1>1, <1>2, <1>3, <1>4, <1>5 DEF WalkNext

\* The walk's invariant holds in every reachable state.
LEMMA WalkInvariant == WalkSpec => []WalkInv
BY WalkStarts, WalkSteps, PTL DEF WalkSpec

\* Whatever is found in a save, every call xcom2json makes is legal where it is made
\* (xcom2json.cpp:215-565): the walk implements JsonWriter.
THEOREM WalkIsLegal == WalkSpec => CallsAreLegal
<1>1. WalkInit => Init
  BY DEF WalkInit
<1>2. WalkInv /\ [WalkNext]_vars => [Next]_j
  BY WalkSteps
<1> QED BY <1>1, <1>2, WalkInvariant, PTL DEF WalkSpec, CallsAreLegal, Spec

\* So the text is the beginning of a JSON text all along.
THEOREM WalkWritesJson == WalkSpec => [](TypeOK /\ WellFormed /\ FlagIsPosition)
BY WalkInvariant, InvGives, PTL DEF WalkInv

\* And one complete value in the end, with nothing left open.
THEOREM WalkCompletes == WalkSpec => []DocumentComplete
<1>1. WalkInv => DocumentComplete
  <2> SUFFICES ASSUME WalkInv, frames = << >>, todo = << >>
               PROVE  j.text.phase = "done" /\ j.indent_level = 0
    BY DEF DocumentComplete
  <2>1. PICK h : /\ IsStack(h, frames)
                 /\ \E ph \in Ends(frames) : Runs(todo, j.text, Pos(h[Len(frames)], ph))
    BY DEF WalkInv
  <2>2. Len(frames) = 0 /\ h[0] = << >> /\ Ends(frames) = {"done"}
    BY <2>1 DEF IsStack, Ends
  <2>3. j.text = Pos(<< >>, "done")
    BY <2>1, <2>2, RunsNowhere
  <2>4. j.text.phase = "done" /\ j.text.stack = << >>
    BY <2>3 DEF Pos
  <2>5. j.indent_level = Len(j.text.stack)
    BY DEF WalkInv, Inv, Writer
  <2> QED BY <2>4, <2>5
<1> QED BY <1>1, WalkInvariant, PTL
=============================================================================
