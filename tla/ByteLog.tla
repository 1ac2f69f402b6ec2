------------------------------ MODULE ByteLog ------------------------------
(***************************************************************************)
(* What the writing half of xcom_io promises to the code that serialises a *)
(* save: an append-only log of cells.  A write either appends one whole    *)
(* record or fails and closes the log for good.  Buffer growth, capacity   *)
(* and the cursor do not exist at this level.                              *)
(***************************************************************************)
EXTENDS Sequences

CONSTANT Records        \* the encodings the writer may append, sequences of cells

VARIABLES log, open

vars == <<log, open>>

Init == log = << >> /\ open = TRUE

\* One write call: the whole encoding goes to the end of the log.
Append1(rec) == open /\ log' = log \o rec /\ UNCHANGED open

\* The call failed ("save file overflow"): nothing was appended.
Fail == open /\ open' = FALSE /\ UNCHANGED log

Next == Fail \/ \E rec \in Records : Append1(rec)

Spec == Init /\ [][Next]_vars
=============================================================================
