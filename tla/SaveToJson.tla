----------------------------- MODULE SaveToJson -----------------------------
(***************************************************************************)
(* buildJson() and the property visitor of xcom2json.cpp: the walk over a  *)
(* save that calls the json_writer.  The save is discovered as it is       *)
(* walked: whenever the code looks for the next element of a container,    *)
(* there may be one of any kind the container can hold, or none.  Names    *)
(* and values do not matter here, only which calls are made.               *)
(*                                                                         *)
(* A frame is a container being walked; todo holds the calls the code      *)
(* makes before it looks at the next element.  Elements are not counted,   *)
(* so the model covers containers of every length; only the nesting and    *)
(* the arrays that are written without further structure are bounded.      *)
(***************************************************************************)
EXTENDS JsonWriter

CONSTANTS
  MaxFrames,     \* bound on nested containers
  MaxElements    \* bound on the elements of a flat array

\* A flat element adds an object, an array and an object to the containers, which
\* open at most two brackets each.
ASSUME WalkAssumption ==
  MaxFrames \in Nat /\ MaxElements \in Nat /\ MaxDepth >= 2 * MaxFrames + 3

VARIABLES frames, todo

vars == <<j, frames, todo>>

-----------------------------------------------------------------------------
(* The calls, by name *)

Do(call) ==
  CASE call \in {"{", "["} -> Begin(j, call)
    [] call \in {"}", "]"} -> End(j, call)
    [] call = "key"        -> Key(j)
    [] call = "named"      -> Named(j)
    [] call = "raw"        -> Raw(j)
    [] call = "end_item"   -> EndItem(j)

Times(n, calls) ==
  LET times[k \in 0..n] == IF k = 0 THEN << >> ELSE times[k - 1] \o calls
  IN times[n]

Members(n)   == Times(n, <<"named">>)
Object(body) == <<"{">> \o body \o <<"}">>
List(body)   == <<"key", "[">> \o body \o <<"]">>

\* write_raw_unicode_string: str and is_wide
RawUnicodeString == Object(Members(2))
UnicodeString    == <<"key">> \o RawUnicodeString

-----------------------------------------------------------------------------
(* Properties written by one visit() without looking further *)

Common == Members(2)

Single      == Object(Common \o Members(1))      \* int, float, bool, object
StringProp  == Object(Common \o UnicodeString)
NameProp    == Object(Common \o Members(2))
Enum        == Object(Common \o Members(3))
DataArray   == Object(Common \o Members(3))
NativeStruct == Object(Common \o Members(2) \o List(<< >>))
\* object and number arrays, and the static arrays of ints or of narrow strings
RawArray(n)    == Object(Common \o List(Times(n, <<"raw">>)))
StringArray(n) == Object(Common \o List(Times(n, RawUnicodeString)))
EnumArray(n)   == Object(Common \o List(Times(n, Object(Members(2)))))

FlatProperties ==
  {Single, StringProp, NameProp, Enum, DataArray, NativeStruct}
    \cup UNION {{RawArray(n), StringArray(n), EnumArray(n)} : n \in 0..MaxElements}

-----------------------------------------------------------------------------
(* Containers: what is written before and after their elements *)

ActorTable == {List(Times(n, <<"raw">>)) : n \in 0..MaxElements}

\* The header, on Android with the profile.
Header(android) ==
  <<"key">> \o Object(Members(4) \o UnicodeString \o UnicodeString \o Members(6)
                        \o IF android THEN Members(1) \o UnicodeString ELSE << >>)

SaveOpening ==
  UNION {{<<"{">> \o Header(android) \o actors \o <<"key", "[">> : actors \in ActorTable} : android \in BOOLEAN}

Opening(kind) ==
  CASE kind = "save" -> SaveOpening
    [] kind = "chunk" -> {<<"{">> \o Members(2) \o <<"key", "[">>}
    [] kind = "checkpoint" ->
         {<<"{">> \o Members(3) \o List(Times(3, <<"raw">>)) \o List(Times(3, <<"raw">>))
            \o <<"key", "[">>}
    [] kind = "struct" -> {<<"{">> \o Common \o Members(2) \o <<"key", "[">>}
    [] kind \in {"struct_array", "static_array"} -> {<<"{">> \o Common \o <<"key", "[">>}
    [] kind = "element" -> {<<"[">>}

StructCloseShort == <<"]">>                                           \* mutant
StructClose == <<"]", "}">>

CheckpointEnds == <<"]">> \o Members(2)                                 \* mutant
CheckpointClose == <<"]">> \o Members(2) \o <<"}">>

\* After each chunk comes an end_item() of its own.
Closing(kind) ==
  CASE kind = "save" -> {<<"]", "}">>}
    [] kind = "chunk" ->
         {<<"]">> \o Members(2) \o actors \o Members(4) \o <<"}", "end_item">> : actors \in ActorTable}
    [] kind = "checkpoint" -> {CheckpointClose}
    [] kind \in {"struct", "struct_array", "static_array"} -> {StructClose}
    [] kind = "element" -> {<<"]">>}

\* The containers that may be found inside another one.
Inside(kind) ==
  CASE kind = "save"         -> {"chunk"}
    [] kind = "chunk"        -> {"checkpoint"}
    [] kind = "struct_array" -> {"element"}
    [] kind \in {"checkpoint", "struct", "static_array", "element"} ->
         {"struct", "struct_array", "static_array"}

HoldsProperties(kind) == "struct" \in Inside(kind)

-----------------------------------------------------------------------------
Current == frames[Len(frames)]
Looking == todo = << >> /\ frames # << >>

WalkInit ==
  /\ Init
  /\ frames = <<"save">>
  /\ todo \in Opening("save")

\* One call of the writer.
Call ==
  /\ todo # << >>
  /\ j' = Do(Head(todo))
  /\ todo' = Tail(todo)
  /\ UNCHANGED frames

\* The next element is a container.
Enter(kind) ==
  /\ Looking /\ kind \in Inside(Current) /\ Len(frames) < MaxFrames
  /\ frames' = Append(frames, kind)
  /\ todo' \in Opening(kind)
  /\ UNCHANGED j

\* The next element is a property without elements of its own to visit.
Visit ==
  /\ Looking /\ HoldsProperties(Current)
  /\ todo' \in FlatProperties
  /\ UNCHANGED <<j, frames>>

\* There is no next element.
Leave ==
  /\ Looking
  /\ todo' \in Closing(Current)
  /\ frames' = SubSeq(frames, 1, Len(frames) - 1)
  /\ UNCHANGED j

WalkNext ==
  \/ Call \/ Visit \/ Leave
  \/ \E kind \in {"chunk", "checkpoint", "struct", "struct_array", "static_array", "element"} :
       Enter(kind)

WalkSpec == WalkInit /\ [][WalkNext]_vars

-----------------------------------------------------------------------------
(* Properties *)

\* Every call is legal where it is made, whatever the save holds: no value without a
\* key inside an object, no key inside an array, every bracket closed by its own kind
\* (xcom2json.cpp:215-565).  By JsonWriter's theorems the text is then well-formed.
CallsAreLegal == Spec

\* When the walk is over the document is: one value, nothing left open.
DocumentComplete ==
  frames = << >> /\ todo = << >> => j.text.phase = "done" /\ j.indent_level = 0
=============================================================================
