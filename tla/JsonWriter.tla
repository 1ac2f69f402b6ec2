----------------------------- MODULE JsonWriter -----------------------------
(***************************************************************************)
(* struct json_writer of xcom2json.cpp: the calls that produce the JSON    *)
(* text.  The writer does not know where it is in the document; it decides *)
(* from one flag, needs_comma, whether a separator is due, and counts the  *)
(* open brackets in indent_level.  skip_indent only moves white space and  *)
(* is left out.                                                            *)
(*                                                                         *)
(* The environment makes any call that is legal where it stands: values in *)
(* arrays and after a key, keys in objects, the closing bracket of the     *)
(* innermost object or array.  SaveToJson shows that xcom2json's visitors  *)
(* make no other calls.                                                    *)
(***************************************************************************)
EXTENDS JsonText

CONSTANT MaxDepth      \* bound on nested brackets

ASSUME DepthAssumption == MaxDepth \in Nat

\* The writer: needs_comma, indent_level and, for the properties, what the
\* recogniser makes of the text written so far.
VARIABLE j

Writer(needs_comma, indent_level, text) ==
  [needs_comma |-> needs_comma, indent_level |-> indent_level, text |-> text]

\* indent(): the text with the separator, if one is due.
Indent(w) == IF w.needs_comma THEN Accept(w.text, ",") ELSE w.text

BeginFlat(w, open) == Writer(FALSE, w.indent_level, Accept(Indent(w), open))   \* mutant
Begin(w, open) == Writer(FALSE, w.indent_level + 1, Accept(Indent(w), open))

EndWithComma(w, close) == Writer(TRUE, w.indent_level - 1, Accept(Indent(w), close)) \* mutant
\* end_object and end_array clear the flag before they call indent().
End(w, close) ==
  LET cleared == Writer(FALSE, w.indent_level - 1, w.text)
  IN  Writer(TRUE, cleared.indent_level, Accept(Indent(cleared), close))

KeyKeepsComma(w) == Writer(w.needs_comma, w.indent_level, Accept(Indent(w), "key")) \* mutant
Key(w)     == Writer(FALSE, w.indent_level, Accept(Indent(w), "key"))
EndItem(w) == Writer(TRUE, w.indent_level, w.text)
Raw(w)     == EndItem(Writer(w.needs_comma, w.indent_level, Accept(Indent(w), "scalar")))
Named(w)   == EndItem(Writer(FALSE, w.indent_level, Accept(Key(w).text, "scalar")))

-----------------------------------------------------------------------------
(* The position of a call: what a caller knows without the flag. *)

Depth(w)    == Len(w.text.stack)
InArray(w)  == Depth(w) > 0 /\ Top(w.text) = "["
InObject(w) == Depth(w) > 0 /\ Top(w.text) = "{"
Keyed(w)    == w.text.phase = "value"

Init == j = Writer(FALSE, 0, Start)

AtValue(w) == Keyed(w) \/ InArray(w)
AtKey(w)   == InObject(w) /\ ~Keyed(w)

\* begin_object and begin_array
BeginBracket(open) == AtValue(j) /\ Depth(j) < MaxDepth /\ j' = Begin(j, open)

\* end_object and end_array, for the bracket that is open
EndBracket(close) ==
  /\ Depth(j) > 0 /\ Closer(Top(j.text)) = close /\ ~Keyed(j)
  /\ j' = End(j, close)

\* write_key; write_raw_int, write_raw_float, write_raw_string; write_int,
\* write_float, write_string, write_bool
WriteKey   == AtKey(j) /\ j' = Key(j)
WriteRaw   == AtValue(j) /\ j' = Raw(j)
WriteNamed == AtKey(j) /\ j' = Named(j)

\* end_item by itself, after an item (xcom2json.cpp:561)
EndItemAgain == Depth(j) > 0 /\ j.text.phase = "more" /\ j' = EndItem(j)

Next ==
  \/ \E open \in {"{", "["} : BeginBracket(open)
  \/ \E close \in {"}", "]"} : EndBracket(close)
  \/ WriteKey \/ WriteRaw \/ WriteNamed \/ EndItemAgain

Spec == Init /\ [][Next]_j

-----------------------------------------------------------------------------
(* Properties *)

\* Types; indent_level is a size_t and never wraps.
TypeOK ==
  /\ j = Writer(j.needs_comma, j.indent_level, j.text)
  /\ j.text = [stack |-> j.text.stack, phase |-> j.text.phase]
  /\ j.needs_comma \in BOOLEAN
  /\ j.indent_level \in Nat
  /\ j.text.stack \in Seq({"{", "["})
  /\ j.text.phase \in Phases

\* Everything written so far is the beginning of a JSON text: no comma is missing,
\* doubled or left before a closing bracket (xcom2json.cpp:61-94).
WellFormed == j.text.phase # "bad"

\* One flag is enough: needs_comma is set exactly when an item is complete, and
\* indent_level is the number of open brackets, so it never wraps below zero and
\* the string of blanks built from it is never huge (xcom2json.cpp:69, 85).
FlagIsPosition ==
  /\ j.needs_comma <=> j.text.phase \in {"more", "done"}
  /\ j.indent_level = Depth(j)
=============================================================================
