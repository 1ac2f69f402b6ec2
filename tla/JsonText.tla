------------------------------ MODULE JsonText ------------------------------
(***************************************************************************)
(* JSON as a stream of tokens, recognised one token at a time: the         *)
(* reference xcom2json's output is held against.  White space carries no   *)
(* meaning and is not a token; a key token is the string with its colon, a *)
(* scalar token is a string, a number or a boolean.                        *)
(***************************************************************************)
EXTENDS Integers, Sequences

Tokens == {"{", "}", "[", "]", ",", "key", "scalar"}
Closer(open) == IF open = "{" THEN "}" ELSE "]"

\* stack holds the brackets that are open, innermost last; phase is
\*   value  a value must follow (the start of the text, or after a key)
\*   first  a bracket was just opened: an item or the closing bracket
\*   more   an item is complete: a comma or the closing bracket
\*   next   after a comma: an item must follow
\*   done   the text is complete
\*   bad    no JSON text starts like this
Phases == {"value", "first", "more", "next", "done", "bad"}

Start == [stack |-> << >>, phase |-> "value"]

Top(p) == p.stack[Len(p.stack)]
Bad(p) == [p EXCEPT !.phase = "bad"]

\* A value may stand here / a key may stand here / a bracket may close here.
TakesValue(p) ==
  \/ p.phase = "value"
  \/ p.phase \in {"first", "next"} /\ p.stack # << >> /\ Top(p) = "["
TakesKey(p)    == p.phase \in {"first", "next"} /\ p.stack # << >> /\ Top(p) = "{"
TakesCloser(p) == p.phase \in {"first", "more"} /\ p.stack # << >>

\* The phase after a complete value inside the brackets of stack.
After(stack) == IF stack = << >> THEN "done" ELSE "more"

Pop(stack) == SubSeq(stack, 1, Len(stack) - 1)

\* The recogniser's step.
Accept(p, tok) ==
  CASE tok \in {"{", "["} /\ TakesValue(p) ->
         [stack |-> Append(p.stack, tok), phase |-> "first"]
    [] tok = "scalar" /\ TakesValue(p) -> [p EXCEPT !.phase = After(p.stack)]
    [] tok = "key" /\ TakesKey(p)      -> [p EXCEPT !.phase = "value"]
    [] tok = "," /\ p.phase = "more"   -> [p EXCEPT !.phase = "next"]
    [] tok \in {"}", "]"} /\ TakesCloser(p) /\ Closer(Top(p)) = tok ->
         [stack |-> Pop(p.stack), phase |-> After(Pop(p.stack))]
    [] OTHER -> Bad(p)
=============================================================================
