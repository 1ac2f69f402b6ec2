---------------------------- MODULE Tools_proofs ----------------------------
(***************************************************************************)
(* Proofs about Tools for any number of runs, names and saves.  What the   *)
(* order of steps alone guarantees holds for every conversion; for a       *)
(* conversion that agrees with itself once (ConversionsAgree), the rest    *)
(* holds after any number of them.                                         *)
(***************************************************************************)
EXTENDS Tools, SequenceTheorems, WellFoundedInduction, TLAPS

Programs == {"xcom2json", "json2xcom"}
Phases   == {"read", "open", "write", "refused"}

\* A run that is not idle.
Rec(prog, phase, in, out, named, content) ==
  [prog |-> prog, phase |-> phase, in |-> in, out |-> out, named |-> named, content |-> content]

Busy(q) ==
  /\ q = Rec(q.prog, q.phase, q.in, q.out, q.named, q.content)
  /\ q.prog \in Programs /\ q.phase \in Phases /\ q.in \in Names /\ q.out \in Names

\* What a file may hold, what the programs write, and what the game does.
Made(c)   == \E d, s : c = Document(d, s) \/ c = Built(d, s)
IsGame(c) == \E s \in Saves : c = Save(s)
Shape(c)  == \/ c = Absent \/ Made(c) \/ IsGame(c)
             \/ \E b \in BOOLEAN : c = Torn(b)
             \/ \E d, s : c = SpoiltDocument(d, s)

FilesInv == files = [n \in Names |-> files[n]] /\ \A n \in Names : Shape(files[n])
RunsInv  == run = [r \in Runs |-> run[r]] /\ \A r \in Runs : run[r] = Idle \/ Busy(run[r])

\* Nobody else writes the output of a run; the game's saves have the game's names; what a run
\* chose as its output by itself is no save of the game, when it starts and as long as it runs,
\* unless the game has saved there since.
Exclusive == \A q, r \in Runs : ~IsIdle(q) /\ ~IsIdle(r) /\ run[q].out = run[r].out => q = r
InPlace   == \A n \in Names : IsGame(files[n]) => n \in GameNames
Unnamed   == \A r \in Runs : ~IsIdle(r) /\ ~run[r].named /\ r \notin late => ~IsGame(files[run[r].out])
Contents  == \A r \in Runs : run[r].phase \in {"open", "write"} => Made(run[r].content)

Inv ==
  /\ FilesInv /\ RunsInv
  /\ Exclusive /\ InPlace /\ Unnamed /\ Contents
  /\ NothingTornByRefusal

-----------------------------------------------------------------------------
(* Records, functions and names *)

LEMMA RecFields ==
  ASSUME NEW prog, NEW phase, NEW in, NEW out, NEW named, NEW content,
         NEW q, q = Rec(prog, phase, in, out, named, content)
  PROVE  /\ q.prog = prog /\ q.phase = phase /\ q.in = in /\ q.out = out
         /\ q.named = named /\ q.content = content
BY Zenon DEF Rec

LEMMA RecPhase ==
  ASSUME NEW prog, NEW phase, NEW in, NEW out, NEW named, NEW content, NEW p,
         NEW q, q = Rec(prog, phase, in, out, named, content)
  PROVE  [q EXCEPT !.phase = p] = Rec(prog, p, in, out, named, content)
BY DEF Rec

LEMMA RecContent ==
  ASSUME NEW prog, NEW phase, NEW in, NEW out, NEW named, NEW content, NEW c,
         NEW q, q = Rec(prog, phase, in, out, named, content)
  PROVE  [q EXCEPT !.content = c] = Rec(prog, phase, in, out, named, c)
BY DEF Rec

\* What a file holds and what it stands for.
LEMMA ContentFields ==
  ASSUME NEW d, NEW s, NEW c,
         \/ c = Document(d, s) \/ c = Built(d, s) \/ c = SpoiltDocument(d, s)
         \/ (c = Save(s) /\ d = s)
  PROVE  c.data = d /\ c.of = s
BY DEF Save, Built, Document, SpoiltDocument

LEMMA IdlePhase == Idle.phase = "idle"
BY DEF Idle

LEMMA BusyFields ==
  ASSUME NEW prog \in Programs, NEW phase \in Phases, NEW in \in Names, NEW out \in Names, NEW named, NEW content,
         NEW q, q = Rec(prog, phase, in, out, named, content)
  PROVE  Busy(q) /\ q.prog = prog /\ q.phase = phase /\ q.in = in /\ q.out = out
         /\ q.named = named /\ q.content = content
<1>1. q.prog = prog /\ q.phase = phase /\ q.in = in /\ q.out = out /\ q.named = named /\ q.content = content
  BY RecFields
<1> QED
  BY <1>1, Zenon DEF Busy

LEMMA PhaseSet ==
  ASSUME NEW q, Busy(q), NEW p \in Phases
  PROVE  LET t == [q EXCEPT !.phase = p] IN
         Busy(t) /\ t.prog = q.prog /\ t.in = q.in /\ t.out = q.out /\ t.named = q.named
         /\ t.phase = p /\ t.content = q.content
<1>1. q = Rec(q.prog, q.phase, q.in, q.out, q.named, q.content)
  BY Zenon DEF Busy
<1>2. [q EXCEPT !.phase = p] = Rec(q.prog, p, q.in, q.out, q.named, q.content)
  BY <1>1, RecPhase
<1> DEFINE t == [q EXCEPT !.phase = p]
<1>3. t = Rec(q.prog, p, q.in, q.out, q.named, q.content)
  BY <1>2
<1>4. q.prog \in Programs /\ q.in \in Names /\ q.out \in Names
  BY Zenon DEF Busy
<1> HIDE DEF t
<1>5. Busy(t) /\ t.prog = q.prog /\ t.phase = p /\ t.in = q.in /\ t.out = q.out
      /\ t.named = q.named /\ t.content = q.content
  BY <1>3, <1>4, BusyFields
<1> QED
  BY <1>5, Zenon DEF t

LEMMA ContentSet ==
  ASSUME NEW q, Busy(q), NEW c
  PROVE  LET t == [q EXCEPT !.content = c] IN
         Busy(t) /\ t.prog = q.prog /\ t.in = q.in /\ t.out = q.out /\ t.named = q.named
         /\ t.phase = q.phase /\ t.content = c
<1>1. q = Rec(q.prog, q.phase, q.in, q.out, q.named, q.content)
  BY Zenon DEF Busy
<1>2. [q EXCEPT !.content = c] = Rec(q.prog, q.phase, q.in, q.out, q.named, c)
  BY <1>1, RecContent
<1> DEFINE t == [q EXCEPT !.content = c]
<1>3. t = Rec(q.prog, q.phase, q.in, q.out, q.named, c)
  BY <1>2
<1>4. q.prog \in Programs /\ q.phase \in Phases /\ q.in \in Names /\ q.out \in Names
  BY Zenon DEF Busy
<1> HIDE DEF t
<1>5. Busy(t) /\ t.prog = q.prog /\ t.phase = q.phase /\ t.in = q.in /\ t.out = q.out
      /\ t.named = q.named /\ t.content = c
  BY <1>3, <1>4, BusyFields
<1> QED
  BY <1>5, Zenon DEF t

\* One value of a function changes.
LEMMA Update ==
  ASSUME NEW S, NEW f, f = [x \in S |-> f[x]], NEW a \in S, NEW c,
         NEW g, g = [f EXCEPT ![a] = c]
  PROVE  /\ g = [x \in S |-> g[x]]
         /\ g[a] = c
         /\ \A x \in S : x # a => g[x] = f[x]
OBVIOUS

LEMMA Kinds ==
  /\ \A c : Made(c) => ~IsGame(c) /\ c # Torn(FALSE) /\ Shape(c)
  /\ \A c : IsGame(c) => c # Torn(FALSE) /\ Shape(c)
  /\ ~IsGame(Absent) /\ Absent # Torn(FALSE) /\ Shape(Absent)
  /\ \A b \in BOOLEAN : ~IsGame(Torn(b)) /\ Shape(Torn(b))
  /\ Torn(TRUE) # Torn(FALSE)
  /\ \A d, s : ~IsGame(SpoiltDocument(d, s)) /\ SpoiltDocument(d, s) # Torn(FALSE) /\ Shape(SpoiltDocument(d, s))
  /\ \A c : Shape(c) /\ c.what = "save" /\ c.game => IsGame(c)
<1>1. /\ \A d, s : Document(d, s).what = "json"
      /\ \A d, s : Built(d, s).what = "save"
      /\ \A d, s : Built(d, s).game = FALSE
      /\ \A s : Save(s).what = "save"
      /\ \A s : Save(s).game = TRUE
      /\ Absent.what = "absent"
      /\ \A b : Torn(b).what = "torn"
      /\ \A b : Torn(b).dead = b
      /\ \A d, s : SpoiltDocument(d, s).what = "json"
  BY Zenon DEF Absent, Torn, Save, Built, Document, SpoiltDocument
<1> DEFINE Rest(c) == c = Absent \/ (\E b \in BOOLEAN : c = Torn(b)) \/ \E d, s : c = SpoiltDocument(d, s)
<1>2. "json" # "save" /\ "torn" # "save" /\ "torn" # "json" /\ "absent" # "torn" /\ "absent" # "save"
  OBVIOUS
<1>3. \A c : Made(c) => ~IsGame(c) /\ c # Torn(FALSE) /\ Shape(c)
  <2> SUFFICES ASSUME NEW c, Made(c) PROVE ~IsGame(c) /\ c # Torn(FALSE) /\ Shape(c)
    OBVIOUS
  <2>1. PICK d, s : c = Document(d, s) \/ c = Built(d, s)
    BY Zenon DEF Made
  <2>2. c.what = "json" \/ (c.what = "save" /\ ~c.game)
    <3>1. CASE c = Document(d, s)
      BY <3>1, <1>1, Zenon
    <3>2. CASE c = Built(d, s)
      BY <3>2, <1>1, Zenon
    <3> QED BY <2>1, <3>1, <3>2, Zenon
  <2>3. c # Torn(FALSE)
    BY <2>2, <1>1, <1>2, Zenon
  <2>4. ~IsGame(c)
    BY <2>2, <1>1, <1>2, Zenon DEF IsGame
  <2> QED
    BY <2>3, <2>4, Zenon DEF Shape
<1>4. \A c : IsGame(c) => c # Torn(FALSE) /\ Shape(c)
  BY <1>1, <1>2, Zenon DEF IsGame, Shape
<1>5. ~IsGame(Absent) /\ Absent # Torn(FALSE) /\ Shape(Absent)
  BY <1>1, <1>2, Zenon DEF IsGame, Shape
<1>6. \A b \in BOOLEAN : ~IsGame(Torn(b)) /\ Shape(Torn(b))
  BY <1>1, <1>2, Zenon DEF IsGame, Shape
<1>7. Torn(TRUE) # Torn(FALSE)
  BY <1>1, Zenon
<1>8. \A d, s : ~IsGame(SpoiltDocument(d, s)) /\ SpoiltDocument(d, s) # Torn(FALSE) /\ Shape(SpoiltDocument(d, s))
  <2> SUFFICES ASSUME NEW d, NEW s
               PROVE  ~IsGame(SpoiltDocument(d, s)) /\ SpoiltDocument(d, s) # Torn(FALSE)
                      /\ Shape(SpoiltDocument(d, s))
    OBVIOUS
  <2>1. SpoiltDocument(d, s).what = "json"
    BY <1>1, Zenon
  <2>2. ~IsGame(SpoiltDocument(d, s))
    BY <2>1, <1>1, <1>2, Zenon DEF IsGame
  <2>3. SpoiltDocument(d, s) # Torn(FALSE)
    BY <2>1, <1>1, <1>2, Zenon
  <2> QED BY <2>2, <2>3, Zenon DEF Shape
<1>9. ASSUME NEW c, Shape(c), c.what = "save", c.game PROVE IsGame(c)
  <2>1. c # Absent /\ (\A b \in BOOLEAN : c # Torn(b)) /\ \A d, s : c # SpoiltDocument(d, s)
    BY <1>9, <1>1, <1>2, Zenon
  <2>2. ~Made(c)
    BY <1>9, <1>1, <1>2, Zenon DEF Made
  <2> QED
    BY <2>1, <2>2, <1>9, Zenon DEF Shape
<1> QED
  BY <1>3, <1>4, <1>5, <1>6, <1>7, <1>8, <1>9, Zenon

\* A non-empty set of naturals has a least element.
LEMMA LeastElement ==
  ASSUME NEW S \in SUBSET Nat, S # {}
  PROVE  \E m \in S : \A k \in S : m <= k
<1> DEFINE R == {ss \in Nat \X Nat : ss[1] < ss[2]}
<1>1. IsWellFoundedOn(R, Nat)
  BY NatLessThanWellFounded DEF OpToRel
<1>2. PICK x \in S : \A y \in S : ~ (<<y, x>> \in R)
  <2> HIDE DEF R
  <2> QED BY <1>1, WFMin
<1>3. ASSUME NEW y \in S PROVE x <= y
  <2>1. x \in Nat /\ y \in Nat /\ <<y, x>> \notin R
    BY <1>2
  <2> QED BY <2>1
<1> QED BY <1>3

\* What is before the last ".json" of a name.
LEMMA StemIsSeq ==
  ASSUME NEW in \in Seq(STRING), NEW j \in 1..Len(in), in[j] = ".json"
  PROVE  Stem(in) \in Seq(STRING)
<1> DEFINE at == {k \in 1..Len(in) : in[k] = ".json"}
           back == {n \in Nat : \E k \in at : n = Len(in) - k}
<1>1. Len(in) \in Nat
  OBVIOUS
<1>2. Len(in) - j \in back
  BY <1>1
<1>3. PICK m \in back : \A n \in back : m <= n
  <2>1. back \in SUBSET Nat /\ back # {}
    BY <1>2
  <2> HIDE DEF back
  <2> QED BY <2>1, LeastElement
<1>4. PICK k \in at : m = Len(in) - k
  OBVIOUS
<1>5. \A other \in at : k >= other
  <2> SUFFICES ASSUME NEW other \in at PROVE k >= other
    OBVIOUS
  <2>1. Len(in) - other \in back
    BY <1>1
  <2>2. m <= Len(in) - other
    BY <2>1, <1>3
  <2> QED BY <2>2, <1>4, <1>1
<1> DEFINE last == CHOOSE x \in at : \A other \in at : x >= other
<1>6. last \in 1..Len(in)
  BY <1>5
<1>7. SubSeq(in, 1, last - 1) \in Seq(STRING)
  <2> HIDE DEF last
  <2> QED BY <1>6, <1>1
<1> QED BY <1>7 DEF Stem

LEMMA Appended ==
  ASSUME NEW in \in Seq(STRING), NEW e \in {".json", ".out"}
  PROVE  Append(in, e) \notin GameNames
<1>1. Len(Append(in, e)) = Len(in) + 1 /\ Append(in, e)[Len(in) + 1] = e /\ Len(in) \in Nat
  OBVIOUS
<1>2. Len(in) + 1 \in 1..(Len(in) + 1)
  BY <1>1
<1>3. SUFFICES ASSUME Append(in, e) \in GameNames PROVE FALSE
  OBVIOUS
<1> DEFINE t == Append(in, e)
<1>4. \A n \in GameNames : \A k \in 1..Len(n) : n[k] \notin {".json", ".out"}
  BY NamesAssumption, Zenon DEF NamesAssumption
<1>5. t \in GameNames /\ Len(t) = Len(in) + 1 /\ t[Len(in) + 1] = e
  BY <1>3, <1>1
<1> HIDE DEF t
<1> QED BY <1>2, <1>4, <1>5, Zenon

\* Without -o no program picks a save of the game as its output.
LEMMA ChosenName ==
  ASSUME InPlace, NEW in \in Names
  PROVE  /\ JsonFile(in) \in Names => ~IsGame(files[JsonFile(in)])
         /\ XcomFile(in) \in Names => ~IsGame(files[XcomFile(in)])
<1>1. in \in Seq(STRING)
  BY NamesAssumption, Zenon DEF NamesAssumption
<1>2. ASSUME JsonFile(in) \in Names PROVE ~IsGame(files[JsonFile(in)])
  BY <1>1, <1>2, Appended, Zenon DEF JsonFile, InPlace
<1>3. ASSUME XcomFile(in) \in Names PROVE ~IsGame(files[XcomFile(in)])
  <2>1. CASE \A k \in 1..Len(in) : in[k] # ".json"
    <3>1. XcomFile(in) = Append(in, ".out")
      BY <2>1, Zenon DEF XcomFile
    <3> QED BY <3>1, <1>1, <1>3, Appended, Zenon DEF InPlace
  <2>2. CASE \E k \in 1..Len(in) : in[k] = ".json"
    <3>1. Stem(in) \in Seq(STRING)
      BY <2>2, <1>1, StemIsSeq, Zenon
    <3>2. CASE Exists(Stem(in))
      <4>1. XcomFile(in) = Append(Stem(in), ".out")
        BY <2>2, <3>2, Zenon DEF XcomFile
      <4> QED BY <4>1, <3>1, <1>3, Appended, Zenon DEF InPlace
    <3>3. CASE ~Exists(Stem(in))
      <4>1. XcomFile(in) = Stem(in)
        BY <2>2, <3>3, Zenon DEF XcomFile
      <4>2. files[Stem(in)] = Absent
        BY <3>3, Zenon DEF Exists
      <4> QED BY <4>1, <4>2, Kinds, Zenon
    <3> QED BY <3>2, <3>3
  <2> QED BY <2>1, <2>2, Zenon
<1> QED BY <1>2, <1>3, Zenon

-----------------------------------------------------------------------------
(* The three kinds of steps preserve the invariant *)

\* A run goes on or ends, and no file changes.
LEMMA FilesKept ==
  ASSUME Inv, NEW r \in Runs, NEW q, q = Idle \/ Busy(q),
         run' = [run EXCEPT ![r] = q], files' = files,
         late' = late \/ (q = Idle /\ late' = late \ {r}),
         run[r].phase = "write" => files[run[r].out] # Torn(FALSE), q.phase # "write",
         q.phase # "idle" =>
           \/ ~IsIdle(r) /\ q.out = run[r].out /\ q.named = run[r].named
           \/ q.out \notin {run[x].out : x \in {y \in Runs : ~IsIdle(y)}} /\ (~q.named => ~IsGame(files[q.out])),
         q.phase = "open" => Made(q.content)
  PROVE  Inv'
<1>1. run = [x \in Runs |-> run[x]]
  BY DEF Inv, RunsInv
<1>2. /\ run' = [x \in Runs |-> run'[x]]
      /\ run'[r] = q
      /\ \A x \in Runs : x # r => run'[x] = run[x]
  BY <1>1, Update
<1>3. RunsInv'
  BY <1>2, Zenon DEF Inv, RunsInv
<1>4. FilesInv' /\ InPlace'
  BY DEF Inv, FilesInv, InPlace, IsGame, Shape, Made
<1>5. Exclusive'
  <2> SUFFICES ASSUME NEW a \in Runs, NEW b \in Runs, run'[a].phase # "idle", run'[b].phase # "idle",
                      run'[a].out = run'[b].out
               PROVE  a = b
    BY Zenon DEF Exclusive, IsIdle
  <2>1. \A x \in Runs : x # r /\ run[x].phase # "idle" /\ q.phase # "idle" => run[x].out # q.out
    BY Zenon DEF Inv, Exclusive, IsIdle
  <2>2. CASE a # r /\ b # r
    BY <2>2, <1>2, Zenon DEF Inv, Exclusive, IsIdle
  <2>3. CASE a = r /\ b # r
    BY <2>1, <2>3, <1>2, Zenon
  <2>4. CASE a # r /\ b = r
    BY <2>1, <2>4, <1>2, Zenon
  <2> QED BY <2>2, <2>3, <2>4, Zenon
<1>6. Unnamed'
  <2> SUFFICES ASSUME NEW x \in Runs, run'[x].phase # "idle", ~run'[x].named, x \notin late'
               PROVE  ~IsGame(files[run'[x].out])
    BY Zenon DEF Unnamed, IsIdle, IsGame
  <2>0. x \notin late
    BY <1>2, IdlePhase
  <2>1. CASE x # r
    BY <2>0, <2>1, <1>2, Zenon DEF Inv, Unnamed, IsIdle
  <2>2. CASE x = r
    BY <2>0, <2>2, <1>2, Zenon DEF Inv, Unnamed, IsIdle
  <2> QED BY <2>1, <2>2
<1>9. Contents'
  <2> SUFFICES ASSUME NEW x \in Runs, run'[x].phase \in {"open", "write"} PROVE Made(run'[x].content)
    BY Zenon DEF Contents, Made
  <2>1. CASE x = r
    BY <2>1, <1>2
  <2>2. CASE x # r
    BY <2>2, <1>2, Zenon DEF Inv, Contents
  <2> QED BY <2>1, <2>2
<1>8. NothingTornByRefusal'
  <2> SUFFICES ASSUME NEW m \in Names, files[m] = Torn(FALSE)
               PROVE  \E x \in Runs : run'[x].phase = "write" /\ run'[x].out = m
    BY Zenon DEF NothingTornByRefusal, Torn
  <2>1. PICK x \in Runs : run[x].phase = "write" /\ run[x].out = m
    BY Zenon DEF Inv, NothingTornByRefusal
  <2>2. x # r
    BY <2>1, Zenon
  <2> QED BY <2>1, <2>2, <1>2, Zenon
<1> QED
  BY <1>3, <1>4, <1>5, <1>6, <1>8, <1>9, Zenon DEF Inv

\* A run truncates its output, or writes the rest of it and ends.
LEMMA OutputChanges ==
  ASSUME Inv, NEW r \in Runs, ~IsIdle(r), NEW q, q = Idle \/ Busy(q),
         run' = [run EXCEPT ![r] = q], late' = late \/ (q = Idle /\ late' = late \ {r}),
         NEW c, files' = [files EXCEPT ![run[r].out] = c], Shape(c), ~IsGame(c),
         \/ /\ q.phase = "write" /\ q.out = run[r].out /\ q.named = run[r].named
            /\ c = Torn(FALSE) /\ Made(q.content)
         \/ q = Idle /\ c # Torn(FALSE)
  PROVE  Inv'
<1> DEFINE n == run[r].out
<1>0. n \in Names
  <2>1. run[r] = Idle \/ Busy(run[r])
    BY Zenon DEF Inv, RunsInv
  <2>2. run[r] # Idle
    BY IdlePhase, Zenon DEF IsIdle
  <2> QED BY <2>1, <2>2, Zenon DEF Busy
<1>1. run = [x \in Runs |-> run[x]] /\ files = [m \in Names |-> files[m]]
  BY DEF Inv, RunsInv, FilesInv
<1>2. /\ run' = [x \in Runs |-> run'[x]]
      /\ run'[r] = q
      /\ \A x \in Runs : x # r => run'[x] = run[x]
  BY <1>1, Update
<1> HIDE DEF n
<1>3. files' = [files EXCEPT ![n] = c]
  BY DEF n
<1>4. /\ files' = [m \in Names |-> files'[m]]
      /\ files'[n] = c
      /\ \A m \in Names : m # n => files'[m] = files[m]
  BY <1>0, <1>1, <1>3, Update
<1>5. RunsInv'
  BY <1>2, Zenon DEF Inv, RunsInv
<1>6. FilesInv'
  BY <1>4, Zenon DEF Inv, FilesInv
<1>7. InPlace'
  BY <1>4, Zenon DEF Inv, InPlace
<1>8. \A x \in Runs : run'[x].phase # "idle" => run[x].phase # "idle" /\ run'[x].out = run[x].out
                                               /\ run'[x].named = run[x].named
  BY <1>2, IdlePhase, Zenon DEF IsIdle
<1>9. Exclusive'
  <2> SUFFICES ASSUME NEW a \in Runs, NEW b \in Runs, run'[a].phase # "idle", run'[b].phase # "idle",
                      run'[a].out = run'[b].out
               PROVE  a = b
    BY Zenon DEF Exclusive, IsIdle
  <2>1. run[a].phase # "idle" /\ run[b].phase # "idle" /\ run[a].out = run[b].out
    BY <1>8, Zenon
  <2>2. Exclusive
    BY Zenon DEF Inv
  <2> QED BY <2>1, <2>2, Zenon DEF Exclusive, IsIdle
<1>10. \A x \in Runs : run'[x].phase # "idle" => run'[x].out \in Names
  <2> SUFFICES ASSUME NEW x \in Runs, run'[x].phase # "idle" PROVE run'[x].out \in Names
    OBVIOUS
  <2>1. Busy(run'[x])
    BY <1>5, IdlePhase, Zenon DEF RunsInv
  <2> QED BY <2>1, Zenon DEF Busy
<1>11. Unnamed'
  <2> SUFFICES ASSUME NEW x \in Runs, run'[x].phase # "idle", ~run'[x].named, x \notin late'
               PROVE  ~IsGame(files'[run'[x].out])
    BY Zenon DEF Unnamed, IsIdle
  <2>0. x \notin late
    BY <1>2, IdlePhase
  <2>1. ~IsGame(files[run'[x].out])
    BY <2>0, <1>8, Zenon DEF Inv, Unnamed, IsIdle
  <2> QED BY <2>1, <1>4, <1>10, Zenon
<1>13. Contents'
  <2> SUFFICES ASSUME NEW x \in Runs, run'[x].phase \in {"open", "write"} PROVE Made(run'[x].content)
    BY Zenon DEF Contents, Made
  <2>1. CASE x = r
    BY <2>1, <1>2, IdlePhase
  <2>2. CASE x # r
    BY <2>2, <1>2, Zenon DEF Inv, Contents
  <2> QED BY <2>1, <2>2
<1>14. NothingTornByRefusal'
  <2> SUFFICES ASSUME NEW m \in Names, files'[m] = Torn(FALSE)
               PROVE  \E x \in Runs : run'[x].phase = "write" /\ run'[x].out = m
    BY Zenon DEF NothingTornByRefusal, Torn
  <2>1. CASE m = n
    BY <2>1, <1>2, <1>4, Zenon DEF n
  <2>2. CASE m # n
    <3>1. PICK x \in Runs : run[x].phase = "write" /\ run[x].out = m
      BY <2>2, <1>4, Zenon DEF Inv, NothingTornByRefusal
    <3>2. x # r
      BY <3>1, <2>2, Zenon DEF n
    <3> QED BY <3>1, <3>2, <1>2, Zenon
  <2> QED BY <2>1, <2>2
<1> QED
  BY <1>5, <1>6, <1>7, <1>9, <1>11, <1>13, <1>14, Zenon DEF Inv

\* The game or the player changes a file.
LEMMA PlayerActs ==
  ASSUME Inv, run' = run, NEW n \in Names, NEW c, files' = [files EXCEPT ![n] = c],
         Shape(c), c # Torn(FALSE), IsGame(c) => n \in GameNames,
         \A x \in late : x \in late',
         IsGame(c) => \A x \in Runs : ~IsIdle(x) /\ ~run[x].named /\ run[x].out = n => x \in late'
  PROVE  Inv'
<1>1. files = [m \in Names |-> files[m]]
  BY DEF Inv, FilesInv
<1>2. /\ files' = [m \in Names |-> files'[m]]
      /\ files'[n] = c
      /\ \A m \in Names : m # n => files'[m] = files[m]
  BY <1>1, Update
<1>3. FilesInv'
  BY <1>2, Zenon DEF Inv, FilesInv
<1>4. RunsInv' /\ Exclusive' /\ Contents'
  BY DEF Inv, RunsInv, Exclusive, Contents, IsIdle, Made
<1>5. InPlace'
  BY <1>2, Zenon DEF Inv, InPlace
<1>6. Unnamed'
  <2> SUFFICES ASSUME NEW x \in Runs, run[x].phase # "idle", ~run[x].named, x \notin late'
               PROVE  ~IsGame(files'[run[x].out])
    BY Zenon DEF Unnamed, IsIdle
  <2>1. run[x].out \in Names
    BY IdlePhase, Zenon DEF Inv, RunsInv, Busy
  <2>2. ~IsGame(files[run[x].out])
    BY Zenon DEF Inv, Unnamed, IsIdle
  <2>3. CASE run[x].out = n
    BY <2>3, <1>2, Zenon DEF IsIdle
  <2> QED BY <2>1, <2>2, <2>3, <1>2, Zenon
<1>7. NothingTornByRefusal'
  BY <1>2, Zenon DEF Inv, NothingTornByRefusal
<1> QED
  BY <1>3, <1>4, <1>5, <1>6, <1>7, Zenon DEF Inv

-----------------------------------------------------------------------------
(* Every step preserves the invariant *)

LEMMA OnlyOne ==
  ASSUME NEW n, NEW c, files = Only(n, c)
  PROVE  /\ files = [m \in Names |-> files[m]]
         /\ \A m \in Names : files[m] = Absent \/ (m = n /\ files[m] = c)
BY DEF Only

LEMMA Init_Inv == Init => Inv
<1> SUFFICES ASSUME Init PROVE Inv
  OBVIOUS
<1>1. PICK s \in Saves, n \in GameNames :
        files = Only(n, Save(s)) \/ files = Only(JsonFile(n), Document(ToJson(s), s))
  BY Zenon DEF Init
<1>2. run = [r \in Runs |-> Idle]
  BY Zenon DEF Init
<1>3. files = [m \in Names |-> files[m]] /\ run = [r \in Runs |-> run[r]]
  BY <1>1, <1>2, OnlyOne
<1>4. \A m \in Names : files[m] = Absent \/ (m = n /\ files[m] = Save(s)) \/ Made(files[m])
  <2>1. CASE files = Only(n, Save(s))
    BY <2>1, OnlyOne
  <2>2. CASE files = Only(JsonFile(n), Document(ToJson(s), s))
    <3>1. Made(Document(ToJson(s), s))
      BY Zenon DEF Made
    <3>2. \A m \in Names : files[m] = Absent \/ files[m] = Document(ToJson(s), s)
      BY <2>2, OnlyOne
    <3> QED
      BY <3>1, <3>2, Zenon
  <2> QED
    BY <1>1, <2>1, <2>2
<1>5. \A r \in Runs : run[r] = Idle /\ run[r].phase = "idle"
  BY <1>2, IdlePhase
<1>6. IsGame(Save(s))
  BY Zenon DEF IsGame
<1>7. FilesInv
  BY <1>3, <1>4, <1>6, Kinds, Zenon DEF FilesInv
<1>8. RunsInv
  BY <1>3, <1>5, Zenon DEF RunsInv
<1>9. InPlace
  BY <1>4, <1>6, Kinds, Zenon DEF InPlace
<1>10. Exclusive /\ Unnamed
  BY <1>5, Zenon DEF Exclusive, Unnamed, IsIdle
<1>11. Contents
  BY <1>5 DEF Contents
<1>12. NothingTornByRefusal
  BY <1>4, <1>6, Kinds, Zenon DEF NothingTornByRefusal
<1> QED
  BY <1>7, <1>8, <1>9, <1>10, <1>11, <1>12, Zenon DEF Inv

LEMMA ExceptPhase ==
  ASSUME NEW r \in Runs, run = [x \in Runs |-> run[x]], NEW p
  PROVE  [run EXCEPT ![r].phase = p] = [run EXCEPT ![r] = [run[r] EXCEPT !.phase = p]]
OBVIOUS

LEMMA ExceptContent ==
  ASSUME NEW r \in Runs, run = [x \in Runs |-> run[x]], NEW p, NEW c
  PROVE  [run EXCEPT ![r].phase = p, ![r].content = c]
         = [run EXCEPT ![r] = [[run[r] EXCEPT !.phase = p] EXCEPT !.content = c]]
OBVIOUS

\* A run that is not idle has its fields.
LEMMA NotIdle ==
  ASSUME RunsInv, NEW r \in Runs, run[r].phase # "idle"
  PROVE  Busy(run[r]) /\ ~IsIdle(r)
BY IdlePhase, Zenon DEF RunsInv, IsIdle

LEMMA Starts_Inv ==
  ASSUME Inv, NEW r \in Runs, NEW prog \in Programs, NEW in \in Names, NEW out, NEW named,
         Starts(r, prog, in, out, named), out \in Names /\ ~named => ~IsGame(files[out])
  PROVE  Inv'
<1> DEFINE q == Running(prog, in, out, named)
<1>1. /\ out \in Names /\ out \notin {run[x].out : x \in {y \in Runs : ~IsIdle(y)}}
      /\ run' = [run EXCEPT ![r] = q] /\ files' = files /\ late' = late /\ run[r].phase = "idle"
  BY Zenon DEF Starts, IsIdle
<1>2. q = Rec(prog, "read", in, out, named, Absent)
  BY Zenon DEF Running, Rec
<1>3. "read" \in Phases
  BY DEF Phases
<1> HIDE DEF q
<1>4. Busy(q) /\ q.phase = "read" /\ q.out = out /\ q.named = named
  BY <1>1, <1>2, <1>3, BusyFields
<1>5. ~q.named => ~IsGame(files[q.out])
  BY <1>1, <1>4, Zenon
<1> QED
  BY <1>1, <1>4, <1>5, FilesKept

LEMMA Converted_Inv ==
  ASSUME Inv, NEW r \in Runs, run[r].phase = "read", NEW c, Made(c), Converted(r, c)
  PROVE  Inv'
<1>1. Busy(run[r]) /\ ~IsIdle(r)
  BY NotIdle DEF Inv
<1> DEFINE o == [run[r] EXCEPT !.phase = "open"]
           q == [o EXCEPT !.content = c]
<1>2. run' = [run EXCEPT ![r] = q] /\ files' = files /\ late' = late
  BY ExceptContent DEF Converted, Inv, RunsInv
<1>3. "open" \in Phases
  BY DEF Phases
<1>5. Busy(o) /\ o.out = run[r].out /\ o.named = run[r].named /\ o.phase = "open"
  BY <1>1, <1>3, PhaseSet
<1> HIDE DEF o
<1>4. Busy(q) /\ q.out = run[r].out /\ q.named = run[r].named /\ q.phase = "open" /\ q.content = c
  BY <1>5, ContentSet
<1> HIDE DEF q
<1> QED
  BY <1>1, <1>2, <1>4, FilesKept

LEMMA Refused_Inv ==
  ASSUME Inv, NEW r \in Runs, run[r].phase = "read", Refused(r)
  PROVE  Inv'
<1>1. Busy(run[r]) /\ ~IsIdle(r)
  BY NotIdle DEF Inv
<1> DEFINE q == [run[r] EXCEPT !.phase = "refused"]
<1>2. run' = [run EXCEPT ![r] = q] /\ files' = files /\ late' = late
  BY ExceptPhase DEF Refused, Inv, RunsInv
<1>3. "refused" \in Phases
  BY DEF Phases
<1>4. Busy(q) /\ q.out = run[r].out /\ q.named = run[r].named /\ q.phase = "refused"
  BY <1>1, <1>3, PhaseSet
<1> HIDE DEF q
<1> QED
  BY <1>1, <1>2, <1>4, FilesKept

LEMMA Open_Inv ==
  ASSUME Inv, NEW r \in Runs, Open(r)
  PROVE  Inv'
<1>0. run[r].phase = "open"
  BY Zenon DEF Open
<1>1. Busy(run[r]) /\ ~IsIdle(r) /\ Made(run[r].content)
  BY <1>0, NotIdle DEF Inv, Contents
<1> DEFINE q == [run[r] EXCEPT !.phase = "write"]
<1>2. run' = [run EXCEPT ![r] = q] /\ files' = [files EXCEPT ![run[r].out] = Torn(FALSE)] /\ late' = late
  BY ExceptPhase DEF Open, Inv, RunsInv
<1>3. "write" \in Phases
  BY DEF Phases
<1>4. Busy(q) /\ q.out = run[r].out /\ q.named = run[r].named /\ q.phase = "write" /\ q.content = run[r].content
  BY <1>1, <1>3, PhaseSet
<1> HIDE DEF q
<1>5. Shape(Torn(FALSE)) /\ ~IsGame(Torn(FALSE))
  BY Kinds, Zenon
<1> QED
  BY <1>1, <1>2, <1>4, <1>5, OutputChanges

\* The run ends, and its output is what EndsWith says.
LEMMA Ends_Inv ==
  ASSUME Inv, NEW r \in Runs, run[r].phase # "idle", Ends(r),
         NEW c, Shape(c), ~IsGame(c), c # Torn(FALSE), EndsWith(r, c)
  PROVE  Inv'
<1>1. run' = [run EXCEPT ![r] = Idle] /\ late' = late \ {r} /\ ~IsIdle(r)
  BY Zenon DEF Ends, IsIdle
<1>2. CASE files' = [files EXCEPT ![run[r].out] = c]
  BY <1>1, <1>2, OutputChanges
<1>3. CASE files[run[r].out] # Torn(FALSE) /\ files' = files
  BY <1>1, <1>3, IdlePhase, FilesKept
<1>4. CASE files' = [files EXCEPT ![run[r].out] = Torn(TRUE)]
  <2> DEFINE t == Torn(TRUE)
  <2>1. Shape(t) /\ ~IsGame(t) /\ t # Torn(FALSE)
    BY Kinds, Zenon
  <2>2. files' = [files EXCEPT ![run[r].out] = t]
    BY <1>4
  <2> HIDE DEF t
  <2> QED
    BY <1>1, <2>1, <2>2, OutputChanges
<1> QED
  BY <1>2, <1>3, <1>4, Zenon DEF EndsWith

LEMMA Write_Inv ==
  ASSUME Inv, NEW r \in Runs, Write(r)
  PROVE  Inv'
<1>1. run[r].phase = "write" /\ EndsWith(r, run[r].content) /\ Ends(r)
  BY Zenon DEF Write
<1>2. Made(run[r].content)
  BY <1>1 DEF Inv, Contents
<1>3. Shape(run[r].content) /\ ~IsGame(run[r].content) /\ run[r].content # Torn(FALSE)
  BY <1>2, Kinds, Zenon
<1>4. run[r].phase # "idle"
  BY <1>1
<1> QED
  BY <1>1, <1>3, <1>4, Ends_Inv

\* The run ends and nothing is written.
LEMMA EndsUnwritten_Inv ==
  ASSUME Inv, NEW r \in Runs, run[r].phase # "write", Ends(r), files' = files
  PROVE  Inv'
<1>1. run' = [run EXCEPT ![r] = Idle] /\ late' = late \ {r}
  BY Zenon DEF Ends
<1> QED
  BY <1>1, IdlePhase, FilesKept

LEMMA Kill_Inv ==
  ASSUME Inv, NEW r \in Runs, Kill(r)
  PROVE  Inv'
<1>1. CASE run[r].phase = "write" /\ EndsWith(r, Torn(TRUE))
  <2> DEFINE c == Torn(TRUE)
  <2>1. Shape(c) /\ ~IsGame(c) /\ c # Torn(FALSE)
    BY Kinds, Zenon
  <2>2. run[r].phase # "idle" /\ Ends(r) /\ EndsWith(r, c)
    BY <1>1 DEF Kill
  <2> HIDE DEF c
  <2> QED
    BY <2>1, <2>2, Ends_Inv
<1>2. CASE run[r].phase \in {"read", "open"} /\ files' = files
  <2>1. run[r].phase # "write" /\ Ends(r)
    BY <1>2 DEF Kill
  <2> QED
    BY <1>2, <2>1, EndsUnwritten_Inv
<1> QED
  BY <1>1, <1>2, Zenon DEF Kill

LEMMA Player_Inv ==
  ASSUME Inv, NEW n \in Names, (n \in GameNames /\ GameSaves(n)) \/ Edit(n) \/ Remove(n)
  PROVE  Inv'
<1>1. CASE n \in GameNames /\ GameSaves(n)
  <2>1. PICK s \in Saves : files' = [files EXCEPT ![n] = Save(s)]
    BY <1>1, Zenon DEF GameSaves
  <2>2. IsGame(Save(s))
    BY Zenon DEF IsGame
  <2>3. Shape(Save(s)) /\ Save(s) # Torn(FALSE)
    BY <2>2, Kinds, Zenon
  <2>4. /\ run' = run
        /\ late' = late \cup {r \in Runs : ~IsIdle(r) /\ ~run[r].named /\ run[r].out = n}
    BY <1>1, Zenon DEF GameSaves
  <2>5. /\ \A x \in late : x \in late'
        /\ \A x \in Runs : ~IsIdle(x) /\ ~run[x].named /\ run[x].out = n => x \in late'
    BY <2>4, Zenon
  <2> QED
    BY <1>1, <2>1, <2>2, <2>3, <2>4, <2>5, PlayerActs
<1>2. CASE Edit(n)
  <2>1. run' = run /\ late' = late
    BY <1>2, Zenon DEF Edit
  <2>2. PICK c : files' = [files EXCEPT ![n] = c] /\ (Made(c) \/ \E d, s : c = SpoiltDocument(d, s))
    <3>1. CASE files' = [files EXCEPT ![n] = Document(EditedJson(@.data), Edited(@.of))]
      BY <3>1 DEF Made
    <3>2. CASE files' = [files EXCEPT ![n] = SpoiltDocument(Spoilt(@.data), @.of)]
      BY <3>2
    <3> QED BY <1>2, <3>1, <3>2 DEF Edit
  <2>3. Shape(c) /\ c # Torn(FALSE) /\ ~IsGame(c)
    BY <2>2, Kinds, Zenon
  <2> QED
    <3>1. files' = [files EXCEPT ![n] = c] /\ Shape(c) /\ c # Torn(FALSE) /\ ~IsGame(c)
      BY <2>2, <2>3
    <3> QED BY <2>1, <3>1, PlayerActs
<1>3. CASE Remove(n)
  <2>1. run' = run /\ late' = late /\ files' = [files EXCEPT ![n] = Absent]
    BY <1>3, Zenon DEF Remove
  <2> QED
    BY <2>1, Kinds, PlayerActs
<1> QED
  BY <1>1, <1>2, <1>3

LEMMA Next_Inv ==
  ASSUME Inv, [Next]_vars
  PROVE  Inv'
<1>1. CASE UNCHANGED vars
  <2>1. run' = run /\ files' = files /\ late' = late
    BY <1>1, Zenon DEF vars
  <2>2. FilesInv' /\ InPlace'
    BY <2>1 DEF Inv, FilesInv, InPlace, IsGame, Shape, Made
  <2>3. RunsInv' /\ Exclusive' /\ Contents'
    BY <2>1 DEF Inv, RunsInv, Exclusive, Contents, IsIdle, Made
  <2>4. Unnamed'
    BY <2>1 DEF Inv, Unnamed, IsIdle, IsGame
  <2>5. NothingTornByRefusal'
    BY <2>1 DEF Inv, NothingTornByRefusal
  <2> QED
    BY <2>2, <2>3, <2>4, <2>5, Zenon DEF Inv
<1>2. ASSUME NEW r \in Runs, NEW in \in Names, Xcom2Json(r, in) \/ Json2Xcom(r, in)
      PROVE  Inv'
  <2>1. "xcom2json" \in Programs /\ "json2xcom" \in Programs
    BY DEF Programs
  <2>2. \E prog \in Programs : \E out, named :
          Starts(r, prog, in, out, named) /\ (out \in Names /\ ~named => ~IsGame(files[out]))
    BY <1>2, <2>1, ChosenName, Zenon DEF Xcom2Json, Json2Xcom, Inv
  <2> QED
    BY <2>2, Starts_Inv, Zenon
<1>3. ASSUME NEW r \in Runs, ReadSave(r)
      PROVE  Inv'
  <2>1. run[r].phase = "read"
    BY <1>3, Zenon DEF ReadSave, Reads
  <2>2. Refused(r) \/ \E c : Made(c) /\ Converted(r, c)
    BY <1>3, Zenon DEF ReadSave, Made
  <2> QED
    BY <2>1, <2>2, Converted_Inv, Refused_Inv, Zenon
<1>4. ASSUME NEW r \in Runs, ReadJson(r)
      PROVE  Inv'
  <2>1. run[r].phase = "read"
    BY <1>4, Zenon DEF ReadJson, Reads
  <2>2. Refused(r) \/ \E c : Made(c) /\ Converted(r, c)
    BY <1>4, Zenon DEF ReadJson, Made
  <2> QED
    BY <2>1, <2>2, Converted_Inv, Refused_Inv, Zenon
<1>5. ASSUME NEW r \in Runs, Fail(r)
      PROVE  Inv'
  <2>1. run[r].phase = "refused" /\ Ends(r) /\ files' = files
    BY <1>5, Zenon DEF Fail
  <2>2. run[r].phase # "write"
    BY <2>1
  <2> QED
    BY <2>1, <2>2, EndsUnwritten_Inv, Zenon
<1>6. ASSUME NEW r \in Runs, Open(r) \/ Write(r) \/ Kill(r)
      PROVE  Inv'
  BY <1>6, Open_Inv, Write_Inv, Kill_Inv, Zenon
<1>7. ASSUME NEW n \in Names, (n \in GameNames /\ GameSaves(n)) \/ Edit(n) \/ Remove(n)
      PROVE  Inv'
  BY <1>7, Player_Inv, Zenon
<1>8. \A n \in GameNames : n \in Names
  BY NamesAssumption, Zenon DEF NamesAssumption
<1> QED
  BY <1>1, <1>2, <1>3, <1>4, <1>5, <1>6, <1>7, <1>8, Zenon DEF Next

THEOREM Spec_Inv == Spec => []Inv
<1>1. Init => Inv
  BY Init_Inv
<1>2. Inv /\ [Next]_vars => Inv'
  BY Next_Inv
<1> QED
  BY <1>1, <1>2, PTL DEF Spec

-----------------------------------------------------------------------------
(* What the order of steps guarantees, for any conversion *)

\* A run that refuses its input leaves no file behind: whatever the conversions do, a partial
\* file is being written or was left by a killed run (main() of both programs).
THEOREM RefusalTearsNothing == Spec => []NothingTornByRefusal
<1>1. Inv => NothingTornByRefusal
  BY Zenon DEF Inv
<1> QED
  BY <1>1, Spec_Inv, PTL

KeepsOriginals ==
  \A n \in Names :
    files[n].what = "save" /\ files[n].game /\ files'[n] # files[n] =>
      \/ UNCHANGED run
      \/ \E r \in Runs :
           /\ run[r].phase \in {"open", "write"} /\ run[r].out = n
           /\ (run[r].named \/ r \in late)

LEMMA Step_KeepsOriginals ==
  ASSUME Inv, [Next]_vars
  PROVE  KeepsOriginals
<1> SUFFICES ASSUME NEW n \in Names, files[n].what = "save", files[n].game, files'[n] # files[n], run' # run
             PROVE  \E r \in Runs : /\ run[r].phase \in {"open", "write"} /\ run[r].out = n
                                    /\ (run[r].named \/ r \in late)
  BY Zenon DEF KeepsOriginals
<1>1. IsGame(files[n])
  BY Kinds, Zenon DEF Inv, FilesInv
<1>2. files' # files
  BY Zenon
<1>3. PICK r \in Runs : Open(r) \/ Write(r) \/ Kill(r)
  BY <1>2, Zenon DEF Next, vars, Xcom2Json, Json2Xcom, Starts, ReadSave, ReadJson, Converted, Refused, Fail,
                     GameSaves, Edit, Remove
<1>4. /\ run[r].phase \in {"open", "write"}
      /\ \E c : files' = [files EXCEPT ![run[r].out] = c]
  <2>1. CASE Open(r)
    BY <2>1 DEF Open
  <2>2. CASE Write(r)
    BY <1>2, <2>2 DEF Write, EndsWith
  <2>3. CASE Kill(r)
    BY <1>2, <2>3 DEF Kill, EndsWith
  <2> QED BY <1>3, <2>1, <2>2, <2>3
<1>5. run[r].phase # "idle"
  BY <1>4
<1>6. run[r].out \in Names /\ ~IsIdle(r)
  BY <1>5, NotIdle, Zenon DEF Inv, Busy
<1>7. run[r].out = n
  BY <1>4, <1>6, Update DEF Inv, FilesInv
<1>8. run[r].named \/ r \in late
  BY <1>1, <1>6, <1>7, Zenon DEF Inv, Unnamed
<1> QED
  BY <1>4, <1>7, <1>8

\* A run touches a save of the game only under the name it was told, or if the game wrote that save
\* after the run had chosen its output and before it ended, behind the check for an existing file
\* (json2xcom.cpp:757-768, xcomwriter.cpp:480); whatever runs, kills, edits and saves there are.
THEOREM OriginalsAreKept == Spec => OriginalsKept
<1>1. Inv /\ [Next]_vars => [KeepsOriginals]_vars
  BY Step_KeepsOriginals
<1>2. [][Next]_vars /\ []Inv => [][KeepsOriginals]_vars
  BY <1>1, PTL
<1> QED
  BY <1>2, Spec_Inv, PTL DEF Spec, OriginalsKept, KeepsOriginals

-----------------------------------------------------------------------------
(* What conversions that agree once guarantee, after any number of them *)

\* What is in a file is a save of the game, or comes from one by the player's edits and one
\* conversion there, or there and back: more conversions change nothing.
FromSave(c, s) == c = Document(ToJson(s), s) \/ c = Built(FromJson(ToJson(s)), s)

Sound(c) ==
  \/ c = Absent \/ IsGame(c)
  \/ \E b \in BOOLEAN : c = Torn(b)
  \/ \E s \in Convertible : FromSave(c, s) \/ c = SpoiltDocument(Spoilt(ToJson(s)), s)

SoundFiles == \A n \in Names : Sound(files[n])
SoundRuns  == \A r \in Runs : run[r].phase \in {"open", "write"} => \E s \in Convertible : FromSave(run[r].content, s)

SoundInv == Inv /\ SoundFiles /\ SoundRuns

LEMMA SoundKinds ==
  ASSUME NEW c, Sound(c)
  PROVE  /\ c.what = "save" => IsGame(c) \/ \E s \in Convertible : c = Built(FromJson(ToJson(s)), s)
         /\ c.what = "json" /\ c.spoilt => \E s \in Convertible : c = SpoiltDocument(Spoilt(ToJson(s)), s)
         /\ c.what = "json" /\ ~c.spoilt => \E s \in Convertible : c = Document(ToJson(s), s)
<1>1. /\ \A d, s : Document(d, s).what = "json"
      /\ \A d, s : Document(d, s).spoilt = FALSE
      /\ \A d, s : Built(d, s).what = "save"
      /\ \A s : Save(s).what = "save"
      /\ Absent.what = "absent"
      /\ \A b : Torn(b).what = "torn"
      /\ \A d, s : SpoiltDocument(d, s).what = "json"
      /\ \A d, s : SpoiltDocument(d, s).spoilt = TRUE
  BY Zenon DEF Absent, Torn, Save, Built, Document, SpoiltDocument
<1>2. "json" # "save" /\ "torn" # "save" /\ "torn" # "json" /\ "absent" # "json" /\ "absent" # "save"
  OBVIOUS
<1>3. CASE c = Absent \/ \E b \in BOOLEAN : c = Torn(b)
  BY <1>1, <1>2, <1>3, Zenon
<1>4. CASE IsGame(c)
  BY <1>1, <1>2, <1>4, Zenon DEF IsGame
<1>5. ASSUME NEW s \in Convertible, FromSave(c, s) \/ c = SpoiltDocument(Spoilt(ToJson(s)), s)
      PROVE  /\ c.what = "save" => IsGame(c) \/ \E t \in Convertible : c = Built(FromJson(ToJson(t)), t)
             /\ c.what = "json" /\ c.spoilt => \E t \in Convertible : c = SpoiltDocument(Spoilt(ToJson(t)), t)
             /\ c.what = "json" /\ ~c.spoilt => \E t \in Convertible : c = Document(ToJson(t), t)
  <2>1. CASE c = Document(ToJson(s), s)
    BY <1>1, <1>2, <2>1, Zenon
  <2>2. CASE c = Built(FromJson(ToJson(s)), s)
    BY <1>1, <1>2, <2>2, Zenon
  <2>3. CASE c = SpoiltDocument(Spoilt(ToJson(s)), s)
    BY <1>1, <1>2, <2>3, Zenon
  <2> QED
    BY <1>5, <2>1, <2>2, <2>3, Zenon DEF FromSave
<1> QED
  BY <1>3, <1>4, <1>5, Zenon DEF Sound

\* What a conversion makes of a sound file.
LEMMA SaveConverted ==
  ASSUME ConversionsAgree, NEW c, Sound(c), Readable(c)
  PROVE  \E s \in Convertible : FromSave(Document(ToJson(c.data), c.of), s)
<1>1. c.what = "save" /\ ~Tactical(c.data)
  BY Zenon DEF Readable
<1>2. CASE IsGame(c)
  <2>1. PICK s \in Saves : c = Save(s)
    BY <1>2, Zenon DEF IsGame
  <2>2. c.data = s /\ c.of = s
    BY <2>1, ContentFields
  <2>3. s \in Convertible
    BY <1>1, <2>2 DEF Convertible
  <2> QED
    BY <2>2, <2>3, Zenon DEF FromSave
<1>3. CASE \E s \in Convertible : c = Built(FromJson(ToJson(s)), s)
  <2>1. PICK s \in Convertible : c = Built(FromJson(ToJson(s)), s)
    BY <1>3
  <2>2. c.data = FromJson(ToJson(s)) /\ c.of = s
    BY <2>1, ContentFields
  <2>3. ToJson(FromJson(ToJson(s))) = ToJson(s)
    BY Zenon DEF ConversionsAgree
  <2> QED
    BY <2>2, <2>3, Zenon DEF FromSave
<1> QED
  BY <1>1, <1>2, <1>3, SoundKinds, Zenon

LEMMA JsonConverted ==
  ASSUME ConversionsAgree, NEW c, Sound(c), c.what = "json"
  PROVE  /\ ~c.spoilt <=> Takes(c.data)
         /\ Takes(c.data) => \E s \in Convertible : FromSave(Built(FromJson(c.data), c.of), s)
<1>1. CASE c.spoilt
  <2>1. PICK s \in Convertible : c = SpoiltDocument(Spoilt(ToJson(s)), s)
    BY <1>1, SoundKinds, Zenon
  <2>2. c.data = Spoilt(ToJson(s))
    BY <2>1, ContentFields
  <2>3. ~Takes(c.data)
    BY <2>2, Zenon DEF ConversionsAgree
  <2> QED
    BY <1>1, <2>3, Zenon
<1>2. CASE ~c.spoilt
  <2>1. PICK s \in Convertible : c = Document(ToJson(s), s)
    BY <1>2, SoundKinds, Zenon
  <2>2. c.data = ToJson(s) /\ c.of = s
    BY <2>1, ContentFields
  <2>3. Takes(c.data)
    BY <2>2, Zenon DEF ConversionsAgree
  <2> QED
    BY <1>2, <2>2, <2>3, Zenon DEF FromSave
<1> QED
  BY <1>1, <1>2, Zenon

LEMMA Edited_Sound ==
  ASSUME ConversionsAgree, NEW c, Sound(c), c.what = "json", ~c.spoilt
  PROVE  Sound(Document(EditedJson(c.data), Edited(c.of))) /\ Sound(SpoiltDocument(Spoilt(c.data), c.of))
<1>1. PICK s \in Convertible : c = Document(ToJson(s), s)
  BY SoundKinds, Zenon
<1>2. c.data = ToJson(s) /\ c.of = s
  BY <1>1, ContentFields
<1>3. Edited(s) \in Convertible /\ EditedJson(ToJson(s)) = ToJson(Edited(s))
  BY Zenon DEF ConversionsAgree
<1> QED
  BY <1>2, <1>3, Zenon DEF Sound, FromSave

\* What the steps of a run change, field by field.
LEMMA ConvertedFields ==
  ASSUME RunsInv, NEW r \in Runs, run[r].phase = "read", NEW c, Converted(r, c)
  PROVE  /\ run'[r].phase = "open" /\ run'[r].content = c /\ files' = files
         /\ \A x \in Runs : x # r => run'[x] = run[x]
<1>1. Busy(run[r])
  BY NotIdle
<1> DEFINE o == [run[r] EXCEPT !.phase = "open"]
           q == [o EXCEPT !.content = c]
<1>2. run' = [run EXCEPT ![r] = q] /\ files' = files
  BY ExceptContent DEF Converted, RunsInv
<1>3. "open" \in Phases
  BY DEF Phases
<1>4. Busy(o) /\ o.phase = "open"
  BY <1>1, <1>3, PhaseSet
<1> HIDE DEF o
<1>5. q.phase = "open" /\ q.content = c
  BY <1>4, ContentSet
<1> HIDE DEF q
<1>6. run = [x \in Runs |-> run[x]]
  BY DEF RunsInv
<1>7. run'[r] = q /\ \A x \in Runs : x # r => run'[x] = run[x]
  BY <1>2, <1>6, Update
<1> QED
  BY <1>2, <1>5, <1>7, Zenon

LEMMA PhaseFields ==
  ASSUME RunsInv, NEW r \in Runs, run[r].phase # "idle", NEW p \in Phases, run' = [run EXCEPT ![r].phase = p]
  PROVE  /\ run'[r].phase = p /\ run'[r].content = run[r].content
         /\ \A x \in Runs : x # r => run'[x] = run[x]
<1>1. Busy(run[r])
  BY NotIdle
<1> DEFINE q == [run[r] EXCEPT !.phase = p]
<1>2. run' = [run EXCEPT ![r] = q]
  BY ExceptPhase DEF RunsInv
<1>3. q.phase = p /\ q.content = run[r].content
  BY <1>1, PhaseSet
<1> HIDE DEF q
<1>4. run = [x \in Runs |-> run[x]]
  BY DEF RunsInv
<1>5. run'[r] = q /\ \A x \in Runs : x # r => run'[x] = run[x]
  BY <1>2, <1>4, Update
<1> QED
  BY <1>3, <1>5, Zenon

\* No run is given anything new to write.
LEMMA SameRuns ==
  ASSUME SoundRuns, \A r \in Runs : run'[r].phase \in {"open", "write"} =>
                      run[r].phase \in {"open", "write"} /\ run'[r].content = run[r].content
  PROVE  SoundRuns'
<1> SUFFICES ASSUME NEW r \in Runs, run'[r].phase \in {"open", "write"}
             PROVE  \E s \in Convertible : FromSave(run'[r].content, s)
  BY Zenon DEF SoundRuns, FromSave, Convertible
<1>1. run[r].phase \in {"open", "write"} /\ run'[r].content = run[r].content
  OBVIOUS
<1> QED
  BY <1>1, Zenon DEF SoundRuns

LEMMA SoundPut ==
  ASSUME FilesInv, SoundFiles, NEW n \in Names, NEW c, Sound(c), files' = [files EXCEPT ![n] = c]
  PROVE  SoundFiles'
<1>1. files = [m \in Names |-> files[m]]
  BY DEF FilesInv
<1>2. files'[n] = c /\ \A m \in Names : m # n => files'[m] = files[m]
  BY <1>1, Update
<1>3. \A m \in Names : Sound(files'[m])
  BY <1>2, Zenon DEF SoundFiles
<1> QED
  BY <1>3, Zenon DEF SoundFiles, Sound, FromSave, Convertible, IsGame

LEMMA SameFiles ==
  ASSUME SoundFiles, files' = files
  PROVE  SoundFiles'
BY DEF SoundFiles, Sound, FromSave, Convertible, IsGame

LEMMA Init_Sound == Init => SoundFiles /\ SoundRuns
<1> SUFFICES ASSUME Init PROVE SoundFiles /\ SoundRuns
  OBVIOUS
<1>1. PICK s \in Saves, n \in GameNames :
        \/ files = Only(n, Save(s))
        \/ ~Tactical(s) /\ files = Only(JsonFile(n), Document(ToJson(s), s))
  BY Zenon DEF Init
<1>2. \A m \in Names : \/ files[m] = Absent \/ files[m] = Save(s)
                       \/ s \in Convertible /\ files[m] = Document(ToJson(s), s)
  <2>1. CASE files = Only(n, Save(s))
    BY <2>1, OnlyOne
  <2>2. CASE ~Tactical(s) /\ files = Only(JsonFile(n), Document(ToJson(s), s))
    <3>1. s \in Convertible
      BY <2>2, Zenon DEF Convertible
    <3>2. \A m \in Names : files[m] = Absent \/ files[m] = Document(ToJson(s), s)
      BY <2>2, OnlyOne
    <3> QED
      BY <3>1, <3>2, Zenon
  <2> QED
    BY <1>1, <2>1, <2>2
<1>3. \A r \in Runs : run[r].phase = "idle"
  BY IdlePhase DEF Init
<1>4. SoundFiles
  BY <1>2, Zenon DEF SoundFiles, Sound, FromSave, IsGame
<1>5. SoundRuns
  BY <1>3 DEF SoundRuns
<1> QED
  BY <1>4, <1>5

LEMMA Read_Sound ==
  ASSUME ConversionsAgree, SoundInv, NEW r \in Runs, ReadSave(r) \/ ReadJson(r)
  PROVE  SoundFiles' /\ SoundRuns'
<1> DEFINE c == files[run[r].in]
<1>0. run[r].phase = "read" /\ run[r].phase # "idle" /\ "refused" \in Phases
  BY DEF ReadSave, ReadJson, Reads, Phases
<1>1. Sound(c)
  BY <1>0, NotIdle, Zenon DEF SoundInv, Inv, SoundFiles, Busy
<1>2. \/ Refused(r)
      \/ Readable(c) /\ Converted(r, Document(ToJson(c.data), c.of))
      \/ c.what = "json" /\ Takes(c.data) /\ Converted(r, Built(FromJson(c.data), c.of))
  BY Zenon DEF ReadSave, ReadJson
<1> HIDE DEF c
<1>3. CASE Refused(r)
  <2>1. files' = files
    BY <1>3, Zenon DEF Refused
  <2>2. run'[r].phase = "refused" /\ \A x \in Runs : x # r => run'[x] = run[x]
    BY <1>0, <1>3, PhaseFields DEF Refused, SoundInv, Inv
  <2>3. SoundRuns'
    BY <2>2, SameRuns DEF SoundInv
  <2> QED
    BY <2>1, <2>3, SameFiles DEF SoundInv
<1>4. ASSUME NEW d, Converted(r, d), \E s \in Convertible : FromSave(d, s)
      PROVE  SoundFiles' /\ SoundRuns'
  <2>1. /\ run'[r].content = d /\ files' = files
        /\ \A x \in Runs : x # r => run'[x] = run[x]
    BY <1>0, <1>4, ConvertedFields DEF SoundInv, Inv
  <2>2. SoundRuns'
    <3> SUFFICES ASSUME NEW x \in Runs, run'[x].phase \in {"open", "write"}
                 PROVE  \E s \in Convertible : FromSave(run'[x].content, s)
      BY Zenon DEF SoundRuns, FromSave, Convertible
    <3>1. CASE x = r
      BY <3>1, <2>1, <1>4, Zenon
    <3>2. CASE x # r
      BY <3>2, <2>1, Zenon DEF SoundInv, SoundRuns
    <3> QED BY <3>1, <3>2
  <2> QED
    BY <2>1, <2>2, SameFiles DEF SoundInv
<1>5. Readable(c) => \E s \in Convertible : FromSave(Document(ToJson(c.data), c.of), s)
  BY <1>1, SaveConverted, Zenon
<1>6. c.what = "json" /\ Takes(c.data) => \E s \in Convertible : FromSave(Built(FromJson(c.data), c.of), s)
  BY <1>1, JsonConverted, Zenon
<1> QED
  BY <1>2, <1>3, <1>4, <1>5, <1>6, Zenon

\* Starting and ending.
LEMMA RunSet ==
  ASSUME RunsInv, NEW r \in Runs, NEW q, run' = [run EXCEPT ![r] = q]
  PROVE  run'[r] = q /\ \A x \in Runs : x # r => run'[x] = run[x]
<1>1. run = [x \in Runs |-> run[x]]
  BY DEF RunsInv
<1> QED
  BY <1>1, Update

LEMMA Ends_Sound ==
  ASSUME SoundInv, NEW r \in Runs, Ends(r)
  PROVE  SoundRuns'
<1>1. run'[r] = Idle /\ \A x \in Runs : x # r => run'[x] = run[x]
  BY RunSet DEF Ends, SoundInv, Inv
<1>2. \A x \in Runs : run'[x].phase \in {"open", "write"} =>
        run[x].phase \in {"open", "write"} /\ run'[x].content = run[x].content
  BY <1>1, IdlePhase
<1> QED
  BY <1>2, SameRuns DEF SoundInv

LEMMA Starts_Sound ==
  ASSUME SoundInv, NEW r \in Runs, NEW prog, NEW in, NEW out, NEW named, Starts(r, prog, in, out, named)
  PROVE  SoundFiles' /\ SoundRuns'
<1> DEFINE q == Running(prog, in, out, named)
<1>1. run' = [run EXCEPT ![r] = q] /\ files' = files
  BY Zenon DEF Starts
<1>2. q.phase = "read"
  BY DEF Running
<1> HIDE DEF q
<1>3. run'[r] = q /\ \A x \in Runs : x # r => run'[x] = run[x]
  BY <1>1, RunSet DEF SoundInv, Inv
<1>4. \A x \in Runs : run'[x].phase \in {"open", "write"} =>
        run[x].phase \in {"open", "write"} /\ run'[x].content = run[x].content
  BY <1>2, <1>3
<1>5. SoundRuns'
  BY <1>4, SameRuns DEF SoundInv
<1> QED
  BY <1>1, <1>5, SameFiles DEF SoundInv

LEMMA Output_Sound ==
  ASSUME SoundInv, NEW r \in Runs, Open(r) \/ Write(r) \/ Fail(r) \/ Kill(r)
  PROVE  SoundFiles' /\ SoundRuns'
<1>1. run[r].phase # "idle"
  BY DEF Open, Write, Fail, Kill
<1>2. run[r].out \in Names
  BY <1>1, NotIdle, Zenon DEF SoundInv, Inv, Busy
<1>3. \A b \in BOOLEAN : Sound(Torn(b))
  BY Zenon DEF Sound
<1>4. CASE Open(r)
  <2>1. files' = [files EXCEPT ![run[r].out] = Torn(FALSE)]
    BY <1>4, Zenon DEF Open
  <2>2. Sound(Torn(FALSE))
    BY <1>3
  <2>3. SoundFiles'
    BY <1>2, <2>1, <2>2, SoundPut DEF SoundInv, Inv
  <2>4. run[r].phase = "open" /\ run' = [run EXCEPT ![r].phase = "write"] /\ "write" \in Phases
    BY <1>4 DEF Open, Phases
  <2>5. run'[r].content = run[r].content /\ \A x \in Runs : x # r => run'[x] = run[x]
    BY <1>1, <2>4, PhaseFields DEF SoundInv, Inv
  <2>6. SoundRuns'
    BY <2>4, <2>5, SameRuns DEF SoundInv
  <2> QED
    BY <2>3, <2>6
<1>5. ASSUME Ends(r), NEW c, Sound(c), EndsWith(r, c)
      PROVE  SoundFiles' /\ SoundRuns'
  <2> DEFINE t == Torn(TRUE)
  <2>1. Sound(t)
    BY <1>3
  <2>2. files' = files \/ files' = [files EXCEPT ![run[r].out] = c] \/ files' = [files EXCEPT ![run[r].out] = t]
    BY <1>5, Zenon DEF EndsWith
  <2> HIDE DEF t
  <2>3. SoundFiles'
    BY <1>2, <1>5, <2>1, <2>2, SoundPut, SameFiles DEF SoundInv, Inv
  <2> QED
    BY <1>5, <2>3, Ends_Sound
<1>6. CASE Write(r)
  <2>1. EndsWith(r, run[r].content) /\ Ends(r) /\ run[r].phase = "write"
    BY <1>6, Zenon DEF Write
  <2>2. PICK s \in Convertible : FromSave(run[r].content, s)
    BY <2>1 DEF SoundInv, SoundRuns
  <2>3. Sound(run[r].content)
    BY <2>2, Zenon DEF Sound
  <2> QED
    BY <1>5, <2>1, <2>3
<1>7. CASE Fail(r)
  BY <1>7, Ends_Sound, SameFiles DEF Fail, SoundInv
<1>8. CASE Kill(r)
  <2>1. Ends(r) /\ (files' = files \/ EndsWith(r, Torn(TRUE)))
    BY <1>8, Zenon DEF Kill
  <2>2. CASE files' = files
    BY <2>1, <2>2, Ends_Sound, SameFiles DEF SoundInv
  <2>3. CASE EndsWith(r, Torn(TRUE))
    BY <1>3, <1>5, <2>1, <2>3
  <2> QED BY <2>1, <2>2, <2>3
<1> QED
  BY <1>4, <1>6, <1>7, <1>8

LEMMA Player_Sound ==
  ASSUME ConversionsAgree, SoundInv, NEW n \in Names, GameSaves(n) \/ Edit(n) \/ Remove(n)
  PROVE  SoundFiles' /\ SoundRuns'
<1>1. run' = run
  BY Zenon DEF GameSaves, Edit, Remove
<1>2. SoundRuns'
  BY <1>1, SameRuns DEF SoundInv
<1>3. PICK c : files' = [files EXCEPT ![n] = c] /\ Sound(c)
  <2>1. CASE GameSaves(n)
    BY <2>1, Zenon DEF GameSaves, Sound, IsGame
  <2>2. CASE Edit(n)
    <3>1. Sound(Document(EditedJson(files[n].data), Edited(files[n].of)))
          /\ Sound(SpoiltDocument(Spoilt(files[n].data), files[n].of))
      BY <2>2, Edited_Sound, Zenon DEF Edit, SoundInv, SoundFiles
    <3>2. \/ files' = [files EXCEPT ![n] = Document(EditedJson(files[n].data), Edited(files[n].of))]
          \/ files' = [files EXCEPT ![n] = SpoiltDocument(Spoilt(files[n].data), files[n].of)]
      BY <2>2 DEF Edit, SoundInv, Inv, FilesInv
    <3> QED BY <3>1, <3>2, Zenon
  <2>3. CASE Remove(n)
    BY <2>3, Zenon DEF Remove, Sound
  <2> QED BY <2>1, <2>2, <2>3
<1>4. files' = [files EXCEPT ![n] = c] /\ Sound(c)
  BY <1>3
<1> QED
  BY <1>2, <1>4, SoundPut DEF SoundInv, Inv

LEMMA Next_Sound ==
  ASSUME ConversionsAgree, SoundInv, [Next]_vars
  PROVE  SoundInv'
<1>1. Inv'
  BY Next_Inv DEF SoundInv
<1>2. SoundFiles' /\ SoundRuns'
  <2>1. CASE UNCHANGED vars
    <3>1. run' = run /\ files' = files
      BY <2>1, Zenon DEF vars
    <3> QED BY <3>1, SameFiles, SameRuns DEF SoundInv
  <2>2. ASSUME NEW r \in Runs, NEW in \in Names, Xcom2Json(r, in) \/ Json2Xcom(r, in)
        PROVE  SoundFiles' /\ SoundRuns'
    BY <2>2, Starts_Sound, Zenon DEF Xcom2Json, Json2Xcom
  <2>3. \A n \in GameNames : n \in Names
    BY NamesAssumption, Zenon DEF NamesAssumption
  <2> QED
    BY <2>1, <2>2, <2>3, Read_Sound, Output_Sound, Player_Sound, Zenon DEF Next
<1> QED
  BY <1>1, <1>2, Zenon DEF SoundInv

THEOREM Spec_Sound == ConversionsAgree => (Spec => []SoundInv)
<1> SUFFICES ASSUME ConversionsAgree PROVE Spec => []SoundInv
  OBVIOUS
<1>1. Init => SoundInv
  BY Init_Inv, Init_Sound, Zenon DEF SoundInv
<1>2. SoundInv /\ [Next]_vars => SoundInv'
  BY Next_Sound
<1> QED
  BY <1>1, <1>2, PTL DEF Spec

\* A rebuilt save differs from the save the game wrote by the player's edits alone, after any
\* number of conversions (README.md:10).
THEOREM StaysFaithful == ConversionsAgree => (Spec => []Faithful)
<1> SUFFICES ASSUME ConversionsAgree PROVE Spec => []Faithful
  OBVIOUS
<1>1. ASSUME SoundInv PROVE Faithful
  <2> SUFFICES ASSUME NEW n \in Names, files[n].what = "save", Regular(files[n].of)
               PROVE  files[n].data = files[n].of
    BY Zenon DEF Faithful
  <2>1. CASE IsGame(files[n])
    <3>1. PICK s \in Saves : files[n] = Save(s)
      BY <2>1, Zenon DEF IsGame
    <3> QED BY <3>1, ContentFields
  <2>2. CASE \E s \in Convertible : files[n] = Built(FromJson(ToJson(s)), s)
    <3>1. PICK s \in Convertible : files[n] = Built(FromJson(ToJson(s)), s)
      BY <2>2
    <3>2. files[n].data = FromJson(ToJson(s)) /\ files[n].of = s
      BY <3>1, ContentFields
    <3> QED BY <3>2, Zenon DEF ConversionsAgree
  <2> QED
    BY <1>1, <2>1, <2>2, SoundKinds, Zenon DEF SoundInv, SoundFiles
<1> QED
  BY <1>1, Spec_Sound, PTL

\* What is about to be written, by phase.
LEMMA AboutToWrite ==
  ASSUME ConversionsAgree, SoundRuns, NEW r \in Runs, run[r].phase = "open"
  PROVE  /\ run[r].content.what = "json" => run[r].content.data = ToJson(run[r].content.of)
         /\ run[r].content.what = "save" => Whole(run[r].content.data)
<1> DEFINE c == run[r].content
<1>1. PICK s \in Convertible : FromSave(c, s)
  BY DEF SoundRuns
<1> HIDE DEF c
<1>2. (c.what = "json" => c.data = ToJson(c.of)) /\ (c.what = "save" => Whole(c.data))
  <2>1. CASE c = Document(ToJson(s), s)
    <3>1. c.what = "json" /\ "json" # "save"
      BY <2>1 DEF Document
    <3>2. c.data = ToJson(s) /\ c.of = s
      BY <2>1, ContentFields
    <3> QED BY <3>1, <3>2, Zenon
  <2>2. CASE c = Built(FromJson(ToJson(s)), s)
    <3>1. c.what = "save" /\ "json" # "save"
      BY <2>2 DEF Built
    <3>2. c.data = FromJson(ToJson(s))
      BY <2>2, ContentFields
    <3> QED BY <3>1, <3>2, Zenon DEF ConversionsAgree
  <2> QED BY <1>1, <2>1, <2>2, Zenon DEF FromSave
<1> QED
  BY <1>2, Zenon DEF c

\* What conversion loses it loses the first time: every document is that of the save it stands
\* for (xcom2json.cpp:155, 421-436).
THEOREM Settles == ConversionsAgree => (Spec => []Settled)
<1> SUFFICES ASSUME ConversionsAgree PROVE Spec => []Settled
  OBVIOUS
<1>1. SoundInv => Settled
  BY AboutToWrite, Zenon DEF SoundInv, Settled
<1> QED
  BY <1>1, Spec_Sound, PTL

\* The writer is handed whole saves only, however often a save was converted
\* (json2xcom.cpp:150, 350-419, 599-663).
THEOREM BuildsWhole == ConversionsAgree => (Spec => []BuiltIsWhole)
<1> SUFFICES ASSUME ConversionsAgree PROVE Spec => []BuiltIsWhole
  OBVIOUS
<1>1. SoundInv => BuiltIsWhole
  BY AboutToWrite, Zenon DEF SoundInv, BuiltIsWhole
<1> QED
  BY <1>1, Spec_Sound, PTL

TakesDocuments ==
  \A r \in Runs :
    LET in == files[run[r].in]
        good == in.what = "json" /\ ~in.spoilt
    IN Reads(r, "json2xcom") => /\ run'[r].phase = "refused" => ~good
                                /\ run'[r].phase = "open"    => good

LEMMA Step_TakesDocuments ==
  ASSUME ConversionsAgree, SoundInv, [Next]_vars
  PROVE  TakesDocuments
<1> SUFFICES ASSUME NEW r \in Runs, Reads(r, "json2xcom")
             PROVE  LET in == files[run[r].in]
                        good == in.what = "json" /\ ~in.spoilt
                    IN /\ run'[r].phase = "refused" => ~good
                       /\ run'[r].phase = "open"    => good
  BY Zenon DEF TakesDocuments
<1> DEFINE c == files[run[r].in]
           good == c.what = "json" /\ ~c.spoilt
<1>0. /\ run[r].phase = "read" /\ run[r].prog = "json2xcom" /\ run[r].phase # "idle"
      /\ "read" # "open" /\ "read" # "refused" /\ "idle" # "open" /\ "idle" # "refused"
      /\ "xcom2json" # "json2xcom" /\ "refused" \in Phases
  BY DEF Reads, Phases
<1>1. Sound(c)
  BY <1>0, NotIdle, Zenon DEF SoundInv, Inv, SoundFiles, Busy
<1>2. c.what = "json" => (~c.spoilt <=> Takes(c.data))
  BY <1>1, JsonConverted, Zenon
<1>3. CASE ReadJson(r)
  <2>1. CASE Refused(r) /\ ~(c.what = "json" /\ Takes(c.data))
    <3>1. run'[r].phase = "refused" /\ "refused" # "open"
      BY <2>1, <1>0, PhaseFields DEF Refused, SoundInv, Inv
    <3> QED BY <2>1, <3>1, <1>2, Zenon
  <2>2. CASE c.what = "json" /\ Takes(c.data) /\ Converted(r, Built(FromJson(c.data), c.of))
    <3>1. run'[r].phase = "open" /\ "refused" # "open"
      BY <2>2, <1>0, ConvertedFields DEF SoundInv, Inv
    <3> QED BY <2>2, <3>1, <1>2, Zenon
  <2> QED BY <1>3, <2>1, <2>2, Zenon DEF ReadJson
<1>4. CASE run'[r].phase = "read" \/ run'[r].phase = "idle"
  BY <1>4, <1>0, Zenon
<1>5. ASSUME NEW q \in Runs, NEW t, run' = [run EXCEPT ![q] = t], q # r \/ t = Idle
      PROVE  run'[r].phase = "read" \/ run'[r].phase = "idle"
  <2>1. run'[q] = t /\ \A x \in Runs : x # q => run'[x] = run[x]
    BY <1>5, RunSet DEF SoundInv, Inv
  <2> QED BY <2>1, <1>5, <1>0, IdlePhase, Zenon
<1>6. ASSUME NEW q \in Runs, NEW p \in Phases, q # r, run[q].phase # "idle", run' = [run EXCEPT ![q].phase = p]
      PROVE  run'[r].phase = "read"
  <2>1. \A x \in Runs : x # q => run'[x] = run[x]
    BY <1>6, PhaseFields DEF SoundInv, Inv
  <2> QED BY <2>1, <1>6, <1>0
<1>7. ASSUME NEW q \in Runs, q # r, run[q].phase = "read", NEW d, Converted(q, d)
      PROVE  run'[r].phase = "read"
  BY <1>7, <1>0, ConvertedFields, Zenon DEF SoundInv, Inv
<1>8. ASSUME NEW q \in Runs, ReadSave(q) \/ (q # r /\ ReadJson(q))
      PROVE  run'[r].phase = "read"
  <2>1. q # r /\ run[q].phase = "read" /\ run[q].phase # "idle"
    BY <1>8, <1>0 DEF ReadSave, ReadJson, Reads
  <2>2. Refused(q) \/ \E d : Converted(q, d)
    BY <1>8, Zenon DEF ReadSave, ReadJson
  <2> QED BY <2>1, <2>2, <1>6, <1>7, <1>0, Zenon DEF Refused
<1>9. ASSUME NEW q \in Runs, Open(q)
      PROVE  run'[r].phase = "read"
  <2>1. q # r /\ run[q].phase # "idle" /\ "write" \in Phases
    BY <1>9, <1>0 DEF Open, Phases
  <2> QED BY <2>1, <1>9, <1>6, Zenon DEF Open
<1>10. ASSUME NEW q \in Runs, Write(q) \/ Fail(q) \/ Kill(q)
       PROVE  run'[r].phase = "read" \/ run'[r].phase = "idle"
  BY <1>10, <1>5, Zenon DEF Write, Fail, Kill, Ends
<1>11. ASSUME NEW q \in Runs, NEW in, Xcom2Json(q, in) \/ Json2Xcom(q, in)
       PROVE  run'[r].phase = "read" \/ run'[r].phase = "idle"
  <2>1. q # r
    BY <1>11, <1>0, Zenon DEF Xcom2Json, Json2Xcom, Starts, IsIdle
  <2> QED BY <2>1, <1>11, <1>5, Zenon DEF Xcom2Json, Json2Xcom, Starts
<1>12. ASSUME run' = run PROVE run'[r].phase = "read"
  BY <1>12, <1>0
<1>13. \/ ReadJson(r) \/ run' = run
       \/ \E q \in Runs : \/ ReadSave(q) \/ (q # r /\ ReadJson(q)) \/ Open(q) \/ Write(q) \/ Fail(q) \/ Kill(q)
                          \/ \E in \in Names : Xcom2Json(q, in) \/ Json2Xcom(q, in)
  BY Zenon DEF Next, vars, GameSaves, Edit, Remove
<1> QED
  BY <1>3, <1>4, <1>8, <1>9, <1>10, <1>11, <1>12, <1>13, Zenon

\* json2xcom takes every whole document, whatever conversions and edits it comes from, and
\* nothing else (json2xcom.cpp:103-190, 670-690).
THEOREM DocumentsTaken == ConversionsAgree => (Spec => DocumentsAccepted)
<1> SUFFICES ASSUME ConversionsAgree PROVE Spec => DocumentsAccepted
  OBVIOUS
<1>1. SoundInv /\ [Next]_vars => [TakesDocuments]_vars
  BY Step_TakesDocuments
<1>2. [][Next]_vars /\ []SoundInv => [][TakesDocuments]_vars
  BY <1>1, PTL
<1> QED
  BY <1>2, Spec_Sound, PTL DEF Spec, DocumentsAccepted, TakesDocuments
=============================================================================
