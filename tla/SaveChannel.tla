---------------------------- MODULE SaveChannel ----------------------------
(***************************************************************************)
(* What the save-file container promises: a save that was stored is either *)
(* delivered exactly as it was stored, or refused; and it is refused only  *)
(* if the file was damaged or the save is one the reader does not support. *)
(* Chunks, checksums, compression and the header layout do not exist here. *)
(***************************************************************************)
CONSTANTS
  Values,        \* what a save can hold
  Supported(_)   \* the contents read_xcom_save accepts

VARIABLES stored, damaged, result

vars == <<stored, damaged, result>>

Nothing   == << >>
Delivered(c) == <<"delivered", c>>
Refused   == <<"refused">>

Init == stored = Nothing /\ damaged = FALSE /\ result = Nothing

Store(c) == stored = Nothing /\ stored' = c /\ UNCHANGED <<damaged, result>>

Damage == stored # Nothing /\ result = Nothing /\ damaged' = TRUE /\ UNCHANGED <<stored, result>>

Deliver ==
  /\ stored # Nothing /\ result = Nothing /\ Supported(stored)
  /\ result' = Delivered(stored)
  /\ UNCHANGED <<stored, damaged>>

Refuse ==
  /\ stored # Nothing /\ result = Nothing
  /\ damaged \/ ~Supported(stored)
  /\ result' = Refused
  /\ UNCHANGED <<stored, damaged>>

Next == Damage \/ Deliver \/ Refuse \/ \E c \in Values : Store(c)

Spec == Init /\ [][Next]_vars
=============================================================================
