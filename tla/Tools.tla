------------------------------- MODULE Tools --------------------------------
(***************************************************************************)
(* The two programs as USAGE.md has them used: convert a save with         *)
(* xcom2json, edit the document, convert it back with json2xcom.  Runs of  *)
(* the programs share nothing but files; a run may be killed at any point, *)
(* several may be under way at once, and neither the game nor the player   *)
(* waits for one to end.                                                   *)
(*                                                                         *)
(* A file holds a whole save or document (each with what it holds and the  *)
(* save it stands for), or a part of one, left or still being written.     *)
(* That a part of a save is refused is what SaveContainer shows; a part of *)
(* a document does not parse.                                              *)
(*                                                                         *)
(* What the programs make of a save or a document are parameters here, and *)
(* JsonTree their values: what follows from the order of steps alone is    *)
(* proved for any conversion, the rest for one that ConversionsAgree.      *)
(***************************************************************************)
EXTENDS Naturals, Sequences

CONSTANTS
  Names,     \* file names: sequences of parts, of which ".json" and ".out" are two
  GameNames, \* the names the game gives its saves; USAGE.md: "files have no extension"
  Saves,     \* the saves it writes
  Runs,      \* runs that may be under way at the same time
  MaxRuns,   \* bound: runs started
  Tactical(_),   \* is it a tactical save?
  ToJson(_),     \* the document xcom2json makes of a save
  Takes(_),      \* does json2xcom accept the document?
  FromJson(_),   \* the save it builds then
  Edited(_),     \* a save with a value changed
  EditedJson(_), \* a document with that value changed
  Spoilt(_),     \* a document made incomplete
  Whole(_),      \* is a save one the writer can take?
  Regular(_)     \* is it one that JSON can hold without loss?

NamesAssumption ==
  /\ GameNames \subseteq Names /\ Names \subseteq Seq(STRING)
  /\ \A n \in GameNames : \A k \in 1..Len(n) : n[k] \notin {".json", ".out"}
ASSUME NamesAssumption

ASSUME SavesAssumption == \A s \in Saves : Whole(s)

VARIABLES
  files,   \* name -> content
  run,     \* what each run is doing
  started, \* runs started so far
  late     \* history: runs without -o under whose output the game has saved since they chose it

vars == <<files, run, started, late>>

-----------------------------------------------------------------------------
(* Files *)

Absent           == [what |-> "absent"]
Torn(dead)       == [what |-> "torn", dead |-> dead]
Save(s)          == [what |-> "save", data |-> s, of |-> s, game |-> TRUE]
Built(s, of)     == [what |-> "save", data |-> s, of |-> of, game |-> FALSE]
Document(j, of)  == [what |-> "json", data |-> j, of |-> of, spoilt |-> FALSE]
SpoiltDocument(j, of) == [what |-> "json", data |-> j, of |-> of, spoilt |-> TRUE]

Exists(n) == files[n] # Absent

-----------------------------------------------------------------------------
(* main() of both programs: the output file if there is no -o *)

JsonFile(in) == Append(in, ".json")

\* rfind(".json"), and what is before it.
Stem(in) ==
  LET at == {k \in 1..Len(in) : in[k] = ".json"} IN
  SubSeq(in, 1, (CHOOSE k \in at : \A other \in at : k >= other) - 1)

XcomFileUnchecked(in) ==                                                \* mutant
  IF \A k \in 1..Len(in) : in[k] # ".json" THEN Append(in, ".out") ELSE Stem(in)
XcomFile(in) ==
  IF \A k \in 1..Len(in) : in[k] # ".json" THEN Append(in, ".out")
  ELSE IF Exists(Stem(in)) THEN Append(Stem(in), ".out") ELSE Stem(in)

-----------------------------------------------------------------------------
(* A run *)

Idle == [phase |-> "idle"]

Running(prog, in, out, named) ==
  [prog |-> prog, phase |-> "read", in |-> in, out |-> out, named |-> named, content |-> Absent]

Ends(r)   == run' = [run EXCEPT ![r] = Idle] /\ late' = late \ {r}
IsIdle(r) == run[r].phase = "idle"
Reads(r, prog) == run[r].phase = "read" /\ run[r].prog = prog

\* The output is chosen here, and opened much later.  No two runs are given the same.
Starts(r, prog, in, out, named) ==
  /\ IsIdle(r) /\ started < MaxRuns
  /\ out \in Names \ {run[q].out : q \in {q \in Runs : ~IsIdle(q)}}
  /\ run' = [run EXCEPT ![r] = Running(prog, in, out, named)]
  /\ started' = started + 1
  /\ UNCHANGED <<files, late>>

Xcom2Json(r, in) ==
  \/ Starts(r, "xcom2json", in, JsonFile(in), FALSE)
  \/ \E out \in Names : Starts(r, "xcom2json", in, out, TRUE)

Json2Xcom(r, in) ==
  \/ Starts(r, "json2xcom", in, XcomFile(in), FALSE)
  \/ \E out \in Names : Starts(r, "json2xcom", in, out, TRUE)

\* The input is read and converted before the output is opened.  Tactical saves are refused.
Readable(content) == content.what = "save" /\ ~Tactical(content.data)

Converted(r, content) ==
  /\ run' = [run EXCEPT ![r].phase = "open", ![r].content = content]
  /\ UNCHANGED <<files, started, late>>
Refused(r) == run' = [run EXCEPT ![r].phase = "refused"] /\ UNCHANGED <<files, started, late>>

ReadSaveOpened(r) ==                                                    \* mutant
  LET in == files[run[r].in] IN
  /\ Reads(r, "xcom2json")
  /\ IF Readable(in) THEN run' = [run EXCEPT ![r].phase = "write", ![r].content = Document(ToJson(in.data), in.of)]
     ELSE run' = [run EXCEPT ![r].phase = "refused"]
  /\ files' = [files EXCEPT ![run[r].out] = Torn(FALSE)]
  /\ UNCHANGED <<started, late>>
ReadSave(r) ==
  LET in == files[run[r].in] IN
  /\ Reads(r, "xcom2json")
  /\ \/ Readable(in) /\ Converted(r, Document(ToJson(in.data), in.of))
     \/ ~Readable(in) /\ Refused(r)

ReadJson(r) ==
  LET in == files[run[r].in]
      built == in.what = "json" /\ Takes(in.data)
  IN
  /\ Reads(r, "json2xcom")
  /\ \/ built /\ Converted(r, Built(FromJson(in.data), in.of))
     \/ ~built /\ Refused(r)

\* The output is truncated, then written.
Open(r) ==
  /\ run[r].phase = "open"
  /\ files' = [files EXCEPT ![run[r].out] = Torn(FALSE)]
  /\ run' = [run EXCEPT ![r].phase = "write"]
  /\ UNCHANGED <<started, late>>

\* What a run that has written c leaves in its output.  If the file was removed meanwhile, or
\* another put in its place, c is lost; if the game saved into it, any of the two may be there
\* in the end, or parts of both.
EndsWith(r, c) ==
  LET out == run[r].out IN
  \/ files[out] # Absent /\ files' = [files EXCEPT ![out] = c]
  \/ files[out] # Torn(FALSE) /\ UNCHANGED files
  \/ files[out].what = "save" /\ files' = [files EXCEPT ![out] = Torn(TRUE)]

Write(r) ==
  /\ run[r].phase = "write"
  /\ EndsWith(r, run[r].content)
  /\ Ends(r)
  /\ UNCHANGED started

\* The message is printed and main() returns 1.
Fail(r) ==
  /\ run[r].phase = "refused"
  /\ Ends(r)
  /\ UNCHANGED <<files, started>>

Kill(r) ==
  /\ \/ run[r].phase \in {"read", "open"} /\ UNCHANGED files
     \/ run[r].phase = "write" /\ EndsWith(r, Torn(TRUE))
  /\ Ends(r)
  /\ UNCHANGED started

-----------------------------------------------------------------------------
(* The game and the player *)

GameSaves(n) ==
  /\ \E s \in Saves : files' = [files EXCEPT ![n] = Save(s)]
  /\ late' = late \cup {r \in Runs : ~IsIdle(r) /\ ~run[r].named /\ run[r].out = n}
  /\ UNCHANGED <<run, started>>

\* The player changes a value of the document, or makes it one that is incomplete.
Edit(n) ==
  /\ files[n].what = "json" /\ ~files[n].spoilt
  /\ \/ files' = [files EXCEPT ![n] = Document(EditedJson(@.data), Edited(@.of))]
     \/ files' = [files EXCEPT ![n] = SpoiltDocument(Spoilt(@.data), @.of)]
  /\ UNCHANGED <<run, started, late>>

Remove(n) ==
  /\ files' = [files EXCEPT ![n] = Absent]
  /\ UNCHANGED <<run, started, late>>

\* The player begins with a save of the game, or with the document of one.
Only(n, c) == [m \in Names |-> IF m = n THEN c ELSE Absent]

Init ==
  /\ \E s \in Saves, n \in GameNames :
       \/ files = Only(n, Save(s))
       \/ ~Tactical(s) /\ files = Only(JsonFile(n), Document(ToJson(s), s))
  /\ run = [r \in Runs |-> Idle]
  /\ started = 0
  /\ late = {}

Next ==
  \/ \E r \in Runs, in \in Names : Xcom2Json(r, in) \/ Json2Xcom(r, in)
  \/ \E r \in Runs : ReadSave(r) \/ ReadJson(r) \/ Open(r) \/ Write(r) \/ Fail(r) \/ Kill(r)
  \/ \E n \in GameNames : GameSaves(n)
  \/ \E n \in Names : Edit(n) \/ Remove(n)

Spec == Init /\ [][Next]_vars

-----------------------------------------------------------------------------
(* Properties *)

\* The saves that conversions meet: those the game wrote, as they are or edited.
Convertible == {s \in Saves : ~Tactical(s)} \cup {Edited(s) : s \in {t \in Saves : ~Tactical(t)}}

\* What one conversion there and back does, whatever else happens: json2xcom takes the document of
\* every save, refuses it if it is incomplete, and makes a whole save of it that has the same
\* document; it loses nothing of a regular save, and what is edited in the document is edited in
\* the save (xcom2json.cpp:522-565 against json2xcom.cpp:675-693).
ConversionsAgree ==
  \A s \in Convertible :
    /\ Takes(ToJson(s)) /\ ~Takes(Spoilt(ToJson(s)))
    /\ Whole(FromJson(ToJson(s)))
    /\ ToJson(FromJson(ToJson(s))) = ToJson(s)
    /\ Regular(s) => FromJson(ToJson(s)) = s
    /\ Edited(s) \in Convertible /\ EditedJson(ToJson(s)) = ToJson(Edited(s))

\* They do, for the saves of a run: it depends on no state, so the states before the first run
\* of a program are enough.
SavesConvert == started = 0 => ConversionsAgree

\* A save built by json2xcom, after whatever conversions and edits, is the save the game
\* wrote with the player's edits and nothing else changed: the two programs agree on every
\* key, on the fields of every version, and on how arrays are condensed (README.md:10).
Faithful ==
  \A n \in Names : files[n].what = "save" /\ Regular(files[n].of) => files[n].data = files[n].of

\* Whatever a conversion loses, it loses the first time: a document is that of the save it
\* stands for, edits included, however often the save was rebuilt in between, also where floats
\* were rounded and names of array elements dropped (xcom2json.cpp:155, 421-436).
Settled ==
  \A r \in Runs : run[r].phase = "open" /\ run[r].content.what = "json" =>
    run[r].content.data = ToJson(run[r].content.of)

\* What json2xcom hands to the writer is a whole save: no member of the structs it fills is
\* left uninitialised, object properties have the size of the header's version, and a raw
\* array has the bytes its length promises (json2xcom.cpp:150, 350-419, 599-663).
BuiltIsWhole ==
  \A r \in Runs : run[r].phase = "open" /\ run[r].content.what = "save" =>
    Whole(run[r].content.data)

\* A run that refuses its input leaves no file behind and destroys none: a partial file is
\* being written, or is what a killed run left (main() of both programs open their output
\* only when everything that may throw is done).
NothingTornByRefusal ==
  \A n \in Names : files[n] = Torn(FALSE) => \E r \in Runs : run[r].phase = "write" /\ run[r].out = n

\* A run touches a save of the game only if it was told to, with -o, or if the game wrote the save
\* while the run was under way, behind the check for an existing file (json2xcom.cpp:757-768) and
\* before the end of writing (xcomwriter.cpp:480-482): the save a conversion started from, and any
\* other the program could have seen, is safe however conversions, edits, kills and new saves
\* follow each other.
OriginalsKept ==
  [][\A n \in Names :
       files[n].what = "save" /\ files[n].game /\ files'[n] # files[n] =>
         \/ UNCHANGED run  \* the game or the player
         \/ \E r \in Runs :
              /\ run[r].phase \in {"open", "write"} /\ run[r].out = n
              /\ (run[r].named \/ r \in late)]_vars

\* json2xcom refuses no whole document xcom2json wrote, of any version and also when the
\* player changed values, and takes nothing else for one (json2xcom.cpp:103-190, 670-690),
\* as long as all floats are finite: inf and nan are no JSON numbers.
DocumentsAccepted ==
  [][\A r \in Runs :
       LET in == files[run[r].in]
           good == in.what = "json" /\ ~in.spoilt
       IN Reads(r, "json2xcom") => /\ run'[r].phase = "refused" => ~good
                                   /\ run'[r].phase = "open"    => good]_vars
=============================================================================
