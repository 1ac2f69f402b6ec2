---------------------------- MODULE StaticArrays ----------------------------
(***************************************************************************)
(* Static arrays.  A save has none: it has a run of properties of one      *)
(* name, each with its array_index.  read_properties() regroups them, one  *)
(* property at a time, by looking at nothing but whether the index is 0;   *)
(* write_property() numbers the elements of a group from 0; and on the way *)
(* through JSON an array of ints or of Latin-1 strings is condensed to its *)
(* values, which all get the name of the array back.                       *)
(*                                                                         *)
(* The property list of a file is a sequence of [name, kind, index]; what  *)
(* a property holds is known by its position, which an element keeps in    *)
(* the history field from.                                                 *)
(***************************************************************************)
EXTENDS Naturals, Sequences

CONSTANTS
  Names,     \* property names
  Files      \* the property lists the runs read

Kinds == {"int", "narrow", "wide", "other"}   \* strings: narrow, wide

Entries == [name : Names, kind : Kinds, index : Nat]

ASSUME FilesAssumption == Files \subseteq Seq(Entries)

VARIABLES
  file,      \* the list being read, fixed
  route,     \* direct, or json: through xcom2json and json2xcom; fixed
  stage,     \* read, convert, write, done, or crashed
  list,      \* the property_list: plain properties and static arrays
  pos,       \* properties read
  gi, ei,    \* write_property's loops: property and element
  out        \* the list written: [from, name, index]

vars == <<file, route, stage, list, pos, gi, ei, out>>

Item(from, name)         == [from |-> from, name |-> name]
Group(kind, name, items) == [kind |-> kind, name |-> name, items |-> items]

IsStatic(g) == g.kind = "static_array"

Kind(item) == file[item.from].kind

-----------------------------------------------------------------------------
(* read_properties: what becomes of the property just read *)

Plain(item) == Group("plain", item.name, <<item>>)

\* An element joins the static array that is last in the list.
Joined(g, item) == Group("static_array", g.name, Append(g.items, item))

\* The last property is popped and becomes the first element of a new array, which
\* is named after the second.
StartedAlone(g, item) == Group("static_array", item.name, <<item>>)             \* mutant
Started(g, item) == Group("static_array", item.name, Append(g.items, item))

ReplaceLast(g) == [list EXCEPT ![Len(list)] = g]

ReadProperty ==
  LET e    == file[pos + 1]
      item == Item(pos + 1, e.name)
      last == list[Len(list)]
  IN
  /\ stage = "read" /\ pos < Len(file)
  /\ pos' = pos + 1
  /\ \/ /\ e.index = 0
        /\ list' = Append(list, Plain(item))
        /\ UNCHANGED stage
     \/ /\ e.index > 0 /\ list # << >>
        /\ list' = ReplaceLast(IF IsStatic(last) THEN Joined(last, item) ELSE Started(last, item))
        /\ UNCHANGED stage
     \/ /\ e.index > 0 /\ list = << >>    \* back() of an empty vector
        /\ stage' = "crashed"
        /\ UNCHANGED list
  /\ UNCHANGED <<file, route, gi, ei, out>>

\* "None" ends the list.
EndOfList ==
  /\ stage = "read" /\ pos = Len(file)
  /\ stage' = IF route = "json" THEN "convert" ELSE "write"
  /\ UNCHANGED <<file, route, list, pos, gi, ei, out>>

-----------------------------------------------------------------------------
(* visit(static_array_property) and build_static_array_property *)

IsLatin1(item) == Kind(item) = "narrow"                               \* mutant
IsString(item) == Kind(item) \in {"narrow", "wide"}

HoldsInts(items)    == Kind(items[1]) = "int"
HoldsStrings(items) == IsString(items[1])

\* can_condense_string_array: no element is wide.
CanCondense(items) == \A k \in DOMAIN items : Kind(items[k]) # "wide"

\* An element that is not what the first one promises is a null pointer; the search
\* for a wide string does not get past the first it finds.
NullElement(items) ==
  \/ HoldsInts(items) /\ \E k \in DOMAIN items : Kind(items[k]) # "int"
  \/ HoldsStrings(items) /\ \E k \in DOMAIN items :
       ~IsString(items[k]) /\ \A i \in 1..k - 1 : Kind(items[i]) # "wide"

Condensed(items) == HoldsInts(items) \/ (HoldsStrings(items) /\ CanCondense(items))

\* Condensed elements are named after the array, the others keep their names.
FromJson(g) ==
  IF IsStatic(g) /\ Condensed(g.items)
  THEN Group("static_array", g.name, [k \in 1..Len(g.items) |-> Item(g.items[k].from, g.name)])
  ELSE g

Convert ==
  /\ stage = "convert"
  /\ IF \E g \in DOMAIN list : IsStatic(list[g]) /\ NullElement(list[g].items)
     THEN stage' = "crashed" /\ UNCHANGED list
     ELSE stage' = "write" /\ list' = [g \in 1..Len(list) |-> FromJson(list[g])]
  /\ UNCHANGED <<file, route, pos, gi, ei, out>>

-----------------------------------------------------------------------------
(* write_property *)

IndexFromOne(g, k) == IF IsStatic(g) THEN k ELSE 0                       \* mutant
ArrayIndex(g, k) == IF IsStatic(g) THEN k - 1 ELSE 0

WriteProperty ==
  /\ stage = "write" /\ gi <= Len(list)
  /\ out' = Append(out, [from  |-> list[gi].items[ei].from,
                         name  |-> list[gi].items[ei].name,
                         index |-> ArrayIndex(list[gi], ei)])
  /\ IF ei < Len(list[gi].items) THEN ei' = ei + 1 /\ gi' = gi
                                 ELSE ei' = 1 /\ gi' = gi + 1
  /\ UNCHANGED <<file, route, stage, list, pos>>

WrittenAll ==
  /\ stage = "write" /\ gi > Len(list)
  /\ stage' = "done"
  /\ UNCHANGED <<file, route, list, pos, gi, ei, out>>

Init ==
  /\ file \in Files
  /\ route \in {"direct", "json"}
  /\ stage = "read"
  /\ list = << >> /\ pos = 0
  /\ gi = 1 /\ ei = 1
  /\ out = << >>

Next == ReadProperty \/ EndOfList \/ Convert \/ WriteProperty \/ WrittenAll

Spec == Init /\ [][Next]_vars

-----------------------------------------------------------------------------
(* Properties *)

\* An index other than 0 follows the index before it.
Dense(f) == \A k \in 1..Len(f) : f[k].index > 0 => k > 1 /\ f[k].index = f[k - 1].index + 1

\* The properties of an array have one name.
SameName(f) == \A k \in 1..Len(f) : f[k].index > 0 => k > 1 /\ f[k].name = f[k - 1].name

\* The properties of an array are all strings, or all of one other kind.
SameKind(f) ==
  \A k \in 1..Len(f) : f[k].index > 0 =>
    /\ k > 1
    /\ \/ f[k].kind = f[k - 1].kind
       \/ {f[k].kind, f[k - 1].kind} = {"narrow", "wide"}

\* Whatever the indices of a file are, popping and regrouping (xcomreader.cpp:463-481)
\* loses, doubles and reorders no property: they are written in the order of the file.
OrderKept ==
  /\ \A k \in 1..Len(out) : out[k].from = k
  /\ stage = "done" => Len(out) = Len(file)

\* If the indices of an array are 0, 1, 2, ..., the index each property is written
\* with is the one it was read with (xcomwriter.cpp:256-265), and its name, if arrays
\* have one name each or the save does not go through JSON, the one it had.
DenseExact ==
  Dense(file) => \A k \in 1..Len(out) :
    /\ out[k].index = file[k].index
    /\ route = "direct" \/ SameName(file) => out[k].name = file[k].name

\* A list that never mixes kinds within an array reaches no null pointer and no
\* empty vector (xcomreader.cpp:455, xcom2json.cpp:424).
NoCrash == SameKind(file) => stage # "crashed"

\* Writing once settles the indices: the file written is dense, so that a second
\* rewrite changes nothing more (by DenseExact).  A sparse array, or one without its first
\* element, is therefore renumbered, and always: no index is kept (xcomreader.cpp:444-482).
WrittenIsDense == stage = "done" => Dense(out)
=============================================================================
