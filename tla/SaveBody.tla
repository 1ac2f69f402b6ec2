------------------------------ MODULE SaveBody ------------------------------
(***************************************************************************)
(* The body of a save: the actor table and the checkpoint chunks, read by  *)
(* read_xcom_save() and written by write_xcom_save(), both between the     *)
(* (de)compressor and the tree of properties.                              *)
(*                                                                         *)
(* The body is a sequence of tokens: an int, a string, a byte or a block   *)
(* of raw bytes, one per call on xcom_io (whose bytes are the matter of    *)
(* XcomBuffer).  A token knows its width, so that the lengths the code     *)
(* computes ahead can be compared with what they count.  A string is a     *)
(* sequence of atoms, and so is what a block of bytes holds.               *)
(*                                                                         *)
(* A run reads a file, writes what it read, reads that again and writes    *)
(* it a second time.                                                       *)
(***************************************************************************)
EXTENDS Integers, Sequences, SequencesExt, FiniteSets, TLC

CONSTANTS
  Accented,  \* atoms with one character outside ASCII (two bytes of UTF-8)
  Inputs     \* the files of the runs: [version, tokens, rewritten, whole], where whole
             \* says that the file is neither cut short nor breaks a rule of the reader

VARIABLES
  input,     \* the file of this run, and what writing it back should give
  gen,       \* 1: reading the input; 2: reading what was written
  file, pos, \* the tokens being read, and how many have been
  stage,     \* where the program is
  left,      \* entries still to be read of the table being read
  save,      \* saved_game: [actors, chunks]
  chunk,     \* the checkpoint_chunk being read
  chk,       \* the checkpoint being read
  frames,    \* read_properties() and its callers: one frame per open list
  agree,     \* the size assertions have all held
  written,   \* chunks and, of the next one, checkpoints written
  out        \* the tokens written

vars == <<input, gen, file, pos, stage, left, save, chunk, chk, frames, agree, written, out>>

reading == <<input, gen, file, written, out>>

EU == input.version = "EU"

-----------------------------------------------------------------------------
(* Tokens *)

Empty == << >>
None  == <<"None">>

Num(n)    == [t |-> "int", s |-> Empty, n |-> n]
Str(s)    == [t |-> "str", s |-> s, n |-> 0]
Wide(s)   == [t |-> "wide", s |-> s, n |-> 0]
Byte(n)   == [t |-> "byte", s |-> Empty, n |-> n]
Block(s, n) == [t |-> "raw", s |-> s, n |-> n]
Zeros(n)  == Block(Empty, n)
Name(s)   == <<Str(s), Num(0)>>

Total(ns) ==
  LET sum[k \in 0..Len(ns)] == IF k = 0 THEN 0 ELSE sum[k - 1] + ns[k] IN sum[Len(ns)]

\* All sequences of a sequence, one after the other.
Joined(seqs) ==
  LET upto[k \in 0..Len(seqs)] == IF k = 0 THEN << >> ELSE upto[k - 1] \o seqs[k] IN upto[Len(seqs)]

\* A string's length in Latin-1, and std::string::length() of its UTF-8.
Latin1Length(s) == Total([k \in 1..Len(s) |-> Len(s[k])])
Utf8Length(s)   == Latin1Length(s) + Cardinality({k \in 1..Len(s) : s[k] \in Accented})

Width(tok) ==
  CASE tok.t = "int"  -> 4
    [] tok.t = "byte" -> 1
    [] tok.t = "raw"  -> tok.n
    [] tok.t = "str"  -> IF tok.s = Empty THEN 4 ELSE Latin1Length(tok.s) + 5
    [] tok.t = "wide" -> 2 * Latin1Length(tok.s) + 6

Widths(toks) == Total([k \in 1..Len(toks) |-> Width(toks[k])])

-----------------------------------------------------------------------------
(* Properties and their sizes (xcom.h, util.cpp) *)

KindString == [int |-> "IntProperty", float |-> "FloatProperty", bool |-> "BoolProperty",
               string |-> "StrProperty", object |-> "ObjectProperty", enum |-> "ByteProperty",
               struct |-> "StructProperty", name |-> "NameProperty", array |-> "ArrayProperty",
               object_array |-> "ArrayProperty", number_array |-> "ArrayProperty",
               struct_array |-> "ArrayProperty", string_array |-> "ArrayProperty",
               enum_array |-> "ArrayProperty"]

\* xcom_string_size: tok is the string's token.
StringSize(tok) == Width(tok)

NameSize(s) == Utf8Length(s) + 5 + 4

RECURSIVE FullSize(_)
FullSizes(list) == Total([k \in 1..Len(list) |-> FullSize(list[k])])

\* A property list and the "None" that ends it.
ListSizeBare(list) == FullSizes(list) + 9                               \* mutant
ListSize(list) == FullSizes(list) + 9 + 4

\* The string of a name property or enum value is never taken to be empty.
Size(p) ==
  CASE p.kind \in {"int", "float"} -> 4
    [] p.kind = "bool"             -> 0
    [] p.kind = "object"           -> IF EU THEN 4 ELSE 8
    [] p.kind = "string"           -> StringSize(p.value)
    [] p.kind = "name"             -> NameSize(p.str)
    [] p.kind = "enum"             -> IF p.type = None THEN 1 ELSE NameSize(p.str)
    [] p.kind = "struct"           -> IF p.native > 0 THEN p.native ELSE ListSize(p.list)
    [] p.kind = "array"            -> 4 + p.length
    [] p.kind = "object_array"     -> 4 + 8 * Len(p.elements)
    [] p.kind = "number_array"     -> 4 + 4 * Len(p.elements)
    [] p.kind = "string_array"     -> 4 + Total([k \in 1..Len(p.elements) |-> StringSize(p.elements[k])])
    [] p.kind = "enum_array"       -> 4 + Widths(p.elements)
    [] p.kind = "struct_array"     -> 4 + Total([k \in 1..Len(p.elements) |-> ListSize(p.elements[k])])

\* What a bool, an enum and a struct have outside their size.
Unsized(p) ==
  CASE p.kind = "bool"   -> 1
    [] p.kind = "enum"   -> NameSize(p.type)
    [] p.kind = "struct" -> NameSize(p.type)
    [] OTHER             -> 0

FullSize(p) ==
  IF p.kind = "static_array" THEN FullSizes(p.elements)
  ELSE Size(p) + Unsized(p) + NameSize(p.name) + Len(KindString[p.kind]) + 5 + 4 + 4 + 4

-----------------------------------------------------------------------------
(* Writing (xcomwriter.cpp) *)

\* An actor number as the pair of table entries it stands for.
ActorPair(a) == IF a = -1 THEN <<Num(-1), Num(-1)>> ELSE <<Num(2 * a + 1), Num(2 * a)>>

RECURSIVE WriteProperty(_, _)
WriteProperties(list) == Joined([k \in 1..Len(list) |-> WriteProperty(list[k], 0)])

WriteList(list) == WriteProperties(list) \o Name(None)

\* property_writer_visitor
Body(p) ==
  CASE p.kind \in {"int", "float", "bool", "string"} -> <<p.value>>
    [] p.kind = "name"         -> <<Str(p.str), Num(p.number)>>
    [] p.kind = "object"       -> IF EU THEN <<Num(p.actor)>> ELSE ActorPair(p.actor)
    [] p.kind = "enum"         -> Name(p.type) \o (IF p.type = None THEN <<Byte(p.number)>>
                                                   ELSE <<Str(p.str), Num(p.number)>>)
    [] p.kind = "struct"       -> Name(p.type) \o (IF p.native > 0 THEN p.data
                                                   ELSE WriteList(p.list))
    [] p.kind = "array"        -> <<Num(p.bound)>> \o (IF p.length > 0 THEN p.data ELSE << >>)
    [] p.kind = "object_array" -> <<Num(Len(p.elements))>>
                                  \o Joined([k \in 1..Len(p.elements) |-> ActorPair(p.elements[k])])
    [] p.kind \in {"number_array", "string_array"} -> <<Num(Len(p.elements))>> \o p.elements
    [] p.kind = "enum_array"   -> <<Num(Len(p.elements) \div 2)>> \o p.elements
    [] p.kind = "struct_array" -> <<Num(Len(p.elements))>>
                                  \o Joined([k \in 1..Len(p.elements) |-> WriteList(p.elements[k])])

WriteProperty(p, index) ==
  IF p.kind = "static_array"
  THEN Joined([k \in 1..Len(p.elements) |-> WriteProperty(p.elements[k], k - 1)])
  ELSE Name(p.name) \o Name(<<KindString[p.kind]>>) \o <<Num(Size(p)), Num(index)>> \o Body(p)

\* The length counts the properties, "None" and the padding, computed ahead of them.
PropLength(c) == FullSizes(c.properties) + 9 + 4 + c.pad

WriteCheckpointUnpadded(c) ==                                          \* mutant
  c.fixed \o <<Num(PropLength(c))>> \o WriteList(c.properties) \o <<Num(c.template)>>
WriteCheckpoint(c) ==
  c.fixed \o <<Num(PropLength(c))>> \o WriteList(c.properties)
    \o [k \in 1..c.pad |-> Byte(0)] \o <<Num(c.template)>>

\* Names flattened as package.class_instance, split at the first dot and the last
\* underscore.
FlatName(package, cls, instance) ==
  [text |-> (IF EU THEN cls ELSE package \o <<".">> \o cls) \o <<"_">>, number |-> instance - 1]

DotOf(name) == CHOOSE k \in 1..Len(name.text) :
                 name.text[k] = "." /\ \A j \in 1..k - 1 : name.text[j] # "."

Split(name) ==
  LET dot == DotOf(name)
      end == Len(name.text) - 1
  IN IF EU THEN <<Str(SubSeq(name.text, 1, end)), Num(name.number + 1)>>
     ELSE <<Str(SubSeq(name.text, dot + 1, end)), Num(name.number + 1),
            Str(SubSeq(name.text, 1, dot - 1)), Num(0)>>

EntriesPerActor == IF EU THEN 1 ELSE 2

WriteActorTable(actors) ==
  <<Num(Len(actors) * EntriesPerActor)>> \o Joined([k \in 1..Len(actors) |-> Split(actors[k])])

\* The name table and the template table are written empty.
ChunkHead(c) == c.head \o <<Num(Len(c.checkpoints))>>
ChunkEnd(c)  == <<Num(0), Str(c.class)>> \o WriteActorTable(c.actors) \o <<Num(c.unknown3), Num(0)>> \o c.tail

-----------------------------------------------------------------------------
(* Reading: what a call finds *)

Is(tok, kind) == tok.t = kind \/ (kind = "text" /\ tok.t \in {"str", "wide"})

\* The tokens after the first at are of these kinds.
Reads(at, kinds) ==
  /\ at + Len(kinds) <= Len(file)
  /\ \A k \in DOMAIN kinds : Is(file[at + k], kinds[k])

Times(n, kinds) == Joined([k \in 1..n |-> kinds])
Found(at, n)    == SubSeq(file, at + 1, at + n)

\* A property as far as one call gets: whole, or with a list still to be read.
Malformed        == [as |-> "malformed"]
Whole(n, p)      == [as |-> "whole", n |-> n, p |-> p]
Opened(n, p, k)  == [as |-> "opened", n |-> n, p |-> p, lists |-> k]
Checked(ok, got) == IF ok THEN got ELSE Malformed

\* The two table entries of an actor; the numbers are not negative but for -1, no actor.
Related(a1, a2)  == a1 = a2 + 1
IsNull(a1, a2)   == a1 = -1 /\ a2 = -1
ActorOf(a1)      == IF a1 = -1 THEN a1 ELSE a1 \div 2

\* Behind a -1 the second number is not looked at.
ReadObject(at, name) ==
  LET a1 == file[at + 1].n
      object == [kind |-> "object", name |-> name, actor |-> IF EU THEN a1 ELSE ActorOf(a1)]
  IN
  IF EU THEN Checked(Reads(at, <<"int">>), Whole(1, object))
  ELSE Checked(Reads(at, <<"int", "int">>) /\ (a1 = -1 \/ Related(a1, file[at + 2].n)),
               Whole(2, object))

ReadEnum(at, name) ==
  LET enum(str, number) ==
        [kind |-> "enum", name |-> name, type |-> file[at + 1].s, str |-> str, number |-> number]
  IN
  IF ~Reads(at, <<"str", "int">>) \/ file[at + 2].n # 0 THEN Malformed
  ELSE IF file[at + 1].s = None
  THEN Checked(Reads(at + 2, <<"byte">>), Whole(3, enum(None, file[at + 3].n)))
  ELSE Checked(Reads(at + 2, <<"str", "int">>), Whole(4, enum(file[at + 3].s, file[at + 4].n)))

NativeSize == <<"Vector2D">> :> 8 @@ <<"Vector">> :> 12 @@ <<"Rotator">> :> 12
              @@ <<"Box">> :> 25 @@ <<"Color">> :> 4

\* make_struct_property
ReadStruct(at, name) ==
  LET type == file[at + 1].s
      struct(native) == [kind |-> "struct", name |-> name, type |-> type, native |-> native,
                         data |-> IF native > 0 THEN Found(at + 2, 1) ELSE << >>, list |-> << >>]
  IN
  IF ~Reads(at, <<"str", "int">>) \/ file[at + 2].n # 0 THEN Malformed
  ELSE IF type \in DOMAIN NativeSize
  THEN Checked(Reads(at + 2, <<"raw">>) /\ file[at + 3].n = NativeSize[type],
               Whole(3, struct(NativeSize[type])))
  ELSE Opened(2, struct(0), 1)

\* determine_array_property_kind, told by tokens and not by bytes (which are the matter of
\* ArrayKind): "None" elements tell nothing.
RECURSIVE Sniffed(_)
Sniffed(at) ==
  IF ~Reads(at, <<"text">>) \/ file[at + 1].s = Empty THEN "array"
  ELSE IF file[at + 1].s = None THEN Sniffed(at + 2)
  ELSE IF Reads(at + 1, <<"text">>) /\ file[at + 2].s # Empty THEN "string_array"
  ELSE IF ~Reads(at + 2, <<"text">>) \/ file[at + 3].s = Empty THEN "array"
  ELSE IF file[at + 3].s \in {<<KindString[k]>> : k \in DOMAIN KindString} THEN "struct_array"
  ELSE "enum_array"

\* make_array_property
ReadArray(at, name, size) ==
  LET bound == file[at + 1].n
      data  == size - 4
      raw   == [kind |-> "array", name |-> name, bound |-> bound, length |-> data,
                data |-> IF data > 0 THEN Found(at + 1, 1) ELSE << >>]
      list(kind, els) == [kind |-> kind, name |-> name, elements |-> els]
      actor(k) == file[at + 2 * k].n
      plain(kind, kinds) ==
        Checked(Reads(at + 1, Times(bound, kinds)),
                Whole(1 + bound * Len(kinds), list(kind, Found(at + 1, bound * Len(kinds)))))
  IN
  IF ~Reads(at, <<"int">>) THEN Malformed
  ELSE IF data <= 0 THEN Whole(1, raw)
  ELSE IF bound * 8 = data
  THEN Checked(/\ Reads(at + 1, Times(bound, <<"int", "int">>))
               /\ \A k \in 1..bound : \/ IsNull(actor(k), file[at + 2 * k + 1].n)
                                      \/ Related(actor(k), file[at + 2 * k + 1].n),
               Whole(1 + 2 * bound, list("object_array", [k \in 1..bound |-> ActorOf(actor(k))])))
  ELSE IF bound * 4 = data THEN plain("number_array", <<"int">>)
  ELSE CASE Sniffed(at + 1) = "struct_array" -> Opened(1, list("struct_array", << >>), bound)
         [] Sniffed(at + 1) = "enum_array"   -> plain("enum_array", <<"str", "int">>)
         [] Sniffed(at + 1) = "string_array" -> plain("string_array", <<"text">>)
         [] OTHER -> Checked(Reads(at + 1, <<"raw">>) /\ file[at + 2].n = data, Whole(2, raw))

\* A value of one token.
ReadValue(at, kind, name, tok) ==
  Checked(Reads(at, <<tok>>), Whole(1, [kind |-> kind, name |-> name, value |-> file[at + 1]]))

\* Of a bool's byte only whether it is 0 is kept.
ReadBool(at, name) ==
  Checked(Reads(at, <<"byte">>),
          Whole(1, [kind |-> "bool", name |-> name, value |-> Byte(IF file[at + 1].n = 0 THEN 0 ELSE 1)]))

ReadName(at, name) ==
  Checked(Reads(at, <<"str", "int">>),
          Whole(2, [kind |-> "name", name |-> name, str |-> file[at + 1].s, number |-> file[at + 2].n]))

\* One round of read_properties: "end", or the property at pos and how far it goes.
PropertyHead == <<"str", "int", "str", "int", "int", "int">>

Property ==
  LET name == file[pos + 1].s
      kind == file[pos + 3].s
      at   == pos + 6
  IN
  IF ~Reads(pos, <<"str", "int">>) \/ file[pos + 2].n # 0 THEN Malformed
  ELSE IF name = None THEN [as |-> "end"]
  ELSE IF ~Reads(pos, PropertyHead) \/ file[pos + 4].n # 0 THEN Malformed
  ELSE CASE kind = <<"ObjectProperty">> -> ReadObject(at, name)
         [] kind = <<"IntProperty">>    -> ReadValue(at, "int", name, "int")
         [] kind = <<"ByteProperty">>   -> ReadEnum(at, name)
         [] kind = <<"BoolProperty">>   -> ReadBool(at, name)
         [] kind = <<"ArrayProperty">>  -> ReadArray(at, name, file[pos + 5].n)
         [] kind = <<"FloatProperty">>  -> ReadValue(at, "float", name, "int")
         [] kind = <<"StructProperty">> -> ReadStruct(at, name)
         [] kind = <<"StrProperty">>    -> ReadValue(at, "string", name, "text")
         [] kind = <<"NameProperty">>   -> ReadName(at, name)
         [] OTHER -> Malformed

-----------------------------------------------------------------------------
(* Reading: the program *)

\* With another index than 0 a property joins the one before it in a static array (the
\* list is not empty: what happens to one that is belongs to StaticArrays).
StaticArray(name, elements) == [kind |-> "static_array", name |-> name, elements |-> elements]
Added(list, p, index) ==
  IF index = 0 THEN Append(list, p)
  ELSE IF Last(list).kind = "static_array"
  THEN Append(Front(list), [Last(list) EXCEPT !.elements = Append(@, p)])
  ELSE Append(Front(list), StaticArray(p.name, <<Last(list), p>>))

Frame(p, lists, size, index) == [p |-> p, lists |-> lists, size |-> size, index |-> index, list |-> << >>]
NoProperty == [kind |-> "checkpoint"]

\* The frames after a property is complete in the list below them.
Complete(below, p, index) ==
  Append(Front(below), [Last(below) EXCEPT !.list = Added(@, p, index)])

ByteOffset(at) == Widths(SubSeq(file, 1, at))

IsZero(at) == file[at].n = 0

\* What read_properties left over of the length of the checkpoint's properties.
Pad == LET used == ByteOffset(pos) - chk.start
       IN IF used < chk.length THEN chk.length - used ELSE 0

\* Each stage reads tokens of these kinds, or throws.
Shape ==
  CASE stage \in {"actor_count", "chunk_actor_count", "names", "name_count"} -> <<"int">>
    [] stage \in {"actors", "chunk_actors"} -> IF EU THEN <<"str", "int">> ELSE <<"str", "int", "str", "int">>
    [] stage = "head"       -> <<"int", "str", "str", "int", "int">>
    [] stage = "checkpoint" -> <<"str", "str">> \o Times(6, <<"int">>) \o <<"str", "int">>
    [] stage = "padding"    -> Times(Pad, <<"byte">>) \o <<"int">>
    [] stage = "name"       -> <<"str", "raw", "int", "raw">>
    [] stage = "class"      -> <<"str">>
    [] stage = "templates"  -> <<"int", "int">>
    [] stage = "template"   -> <<"str", "raw", "str">>
    [] stage = "tail"       -> <<"str", "str", "int">>

Valid ==
  /\ Reads(pos, Shape)
  /\ stage \in {"actors", "chunk_actors"} /\ ~EU => file[pos + 2].n # 0 /\ IsZero(pos + 4)
  /\ stage = "head" => file[pos + 3].s = None
  /\ stage = "checkpoint" => file[pos + 10].n >= 0
  /\ stage = "padding" => \A k \in 1..Pad : IsZero(pos + k)
  /\ stage = "name" => file[pos + 2] = Zeros(8) /\ file[pos + 4].n = file[pos + 3].n
  /\ stage = "template" => file[pos + 2].n = 64

Throw ==
  /\ \/ /\ stage \notin {"properties", "write", "write_chunk", "reread", "done", "thrown"}
        /\ ~Valid
     \/ stage = "properties" /\ Property = Malformed
  /\ stage' = "thrown"
  /\ UNCHANGED <<input, gen, file, pos, left, save, chunk, chk, frames, agree, written, out>>

\* Valid tokens are consumed; the tables are walked by the count of entries left.
Consume(at) == /\ stage = at /\ Valid
               /\ pos' = pos + Len(Shape)
Arg(k) == file[pos + k]
Loop(n, body, next) == left' = n /\ stage' = IF n > 0 THEN body ELSE next

ReadActorCount ==
  /\ \/ Consume("actor_count") /\ Loop(Arg(1).n, "actors", "head")
     \/ Consume("chunk_actor_count") /\ Loop(Arg(1).n, "chunk_actors", "templates")
  /\ UNCHANGED <<reading, save, chunk, chk, frames, agree>>

ReadActor ==
  LET name == FlatName(Arg(3).s, Arg(1).s, Arg(2).n)
      nameEU == FlatName(Empty, Arg(1).s, Arg(2).n)
      actor == IF EU THEN nameEU ELSE name
  IN
  /\ \/ /\ Consume("actors") /\ Loop(left - EntriesPerActor, "actors", "head")
        /\ save' = [save EXCEPT !.actors = Append(@, actor)]
        /\ UNCHANGED chunk
     \/ /\ Consume("chunk_actors") /\ Loop(left - EntriesPerActor, "chunk_actors", "templates")
        /\ chunk' = [chunk EXCEPT !.actors = Append(@, actor)]
        /\ UNCHANGED save
  /\ UNCHANGED <<reading, chk, frames, agree>>

ReadHead ==
  /\ Consume("head") /\ Loop(Arg(5).n, "checkpoint", "names")
  /\ chunk' = [head |-> Found(pos, 4), checkpoints |-> << >>, class |-> Empty, actors |-> << >>,
               unknown3 |-> 0, tail |-> << >>]
  /\ UNCHANGED <<reading, save, chk, frames, agree>>

ReadCheckpoint ==
  /\ Consume("checkpoint")
  /\ stage' = "properties"
  /\ chk' = [fixed |-> Found(pos, 9), length |-> Arg(10).n, start |-> ByteOffset(pos')]
  /\ frames' = <<Frame(NoProperty, 1, 0, 0)>>
  /\ UNCHANGED <<reading, left, save, chunk, agree>>

\* A property without a list of its own.
ReadWhole ==
  /\ stage = "properties" /\ Property.as = "whole"
  /\ pos' = pos + 6 + Property.n
  /\ frames' = Complete(frames, Property.p, Arg(6).n)
  /\ agree' = (agree /\ Size(Property.p) = Arg(5).n)
  /\ UNCHANGED <<reading, stage, left, save, chunk, chk>>

\* read_properties calls itself for a struct and for each element of a struct array.
OpenList ==
  /\ stage = "properties" /\ Property.as = "opened"
  /\ pos' = pos + 6 + Property.n
  /\ frames' = Append(frames, Frame(Property.p, Property.lists, Arg(5).n, Arg(6).n))
  /\ UNCHANGED <<reading, stage, left, save, chunk, chk, agree>>

EndOfList ==
  LET top == Last(frames)
      p   == IF top.p.kind = "struct" THEN [top.p EXCEPT !.list = top.list]
             ELSE [top.p EXCEPT !.elements = Append(@, top.list)]
  IN
  /\ stage = "properties" /\ Property.as = "end"
  /\ pos' = pos + 2
  /\ \/ /\ Len(frames) = 1
        /\ stage' = "padding"
        /\ UNCHANGED <<frames, agree>>
     \/ /\ Len(frames) > 1 /\ top.lists > 1
        /\ frames' = Append(Front(frames), [top EXCEPT !.p = p, !.lists = @ - 1, !.list = << >>])
        /\ UNCHANGED <<stage, agree>>
     \/ /\ Len(frames) > 1 /\ top.lists = 1
        /\ frames' = Complete(Front(frames), p, top.index)
        /\ agree' = (agree /\ Size(p) = top.size)
        /\ UNCHANGED stage
  /\ UNCHANGED <<reading, left, save, chunk, chk>>

FinishCheckpoint ==
  LET c == [fixed |-> chk.fixed, properties |-> frames[1].list, pad |-> Pad,
            template |-> Arg(Pad + 1).n]
  IN
  /\ Consume("padding") /\ Loop(left - 1, "checkpoint", "names")
  /\ chunk' = [chunk EXCEPT !.checkpoints = Append(@, c)]
  /\ agree' = (agree /\ chk.length = PropLength(c))
  /\ frames' = << >>
  /\ UNCHANGED <<reading, save, chk>>

\* The name table is counted twice, read, and dropped.
ReadNames ==
  /\ \/ Consume("names") /\ Loop(Arg(1).n, "name_count", "class")
     \/ Consume("name_count") /\ Loop(Arg(1).n, "name", "class")
     \/ Consume("name") /\ Loop(left - 1, "name", "class")
  /\ UNCHANGED <<reading, save, chunk, chk, frames, agree>>

ReadClass ==
  /\ Consume("class")
  /\ stage' = "chunk_actor_count"
  /\ chunk' = [chunk EXCEPT !.class = Arg(1).s]
  /\ UNCHANGED <<reading, left, save, chk, frames, agree>>

\* So are the actor templates.
ReadTemplates ==
  /\ \/ /\ Consume("templates") /\ Loop(Arg(2).n, "template", "tail")
        /\ chunk' = [chunk EXCEPT !.unknown3 = Arg(1).n]
     \/ /\ Consume("template") /\ Loop(left - 1, "template", "tail")
        /\ UNCHANGED chunk
  /\ UNCHANGED <<reading, save, chk, frames, agree>>

AtEndEarly(n) == n + 1 >= Len(file)                                      \* mutant
AtEnd(n) == n >= Len(file)

\* do ... while (!r.eof())
FinishChunk ==
  /\ Consume("tail")
  /\ stage' = IF AtEnd(pos') THEN "write" ELSE "head"
  /\ save' = [save EXCEPT !.chunks = Append(@, [chunk EXCEPT !.tail = Found(pos, 3)])]
  /\ UNCHANGED <<reading, left, chunk, chk, frames, agree>>

-----------------------------------------------------------------------------
(* Writing: the program *)

idle == <<input, gen, file, pos, left, save, chunk, chk, frames, agree>>

WriteActors ==
  /\ stage = "write"
  /\ out' = WriteActorTable(save.actors)
  /\ stage' = "write_chunk"
  /\ written' = [chunks |-> 0, checkpoints |-> -1]
  /\ UNCHANGED idle

\* write_checkpoint_chunk: head, checkpoints one by one, end.
WriteChunk ==
  LET c == save.chunks[written.chunks + 1]
      n == written.checkpoints
  IN
  /\ stage = "write_chunk" /\ written.chunks < Len(save.chunks)
  /\ \/ /\ n = -1
        /\ out' = out \o ChunkHead(c)
        /\ written' = [written EXCEPT !.checkpoints = 0]
     \/ /\ n >= 0 /\ n < Len(c.checkpoints)
        /\ out' = out \o WriteCheckpoint(c.checkpoints[n + 1])
        /\ written' = [written EXCEPT !.checkpoints = n + 1]
     \/ /\ n = Len(c.checkpoints)
        /\ out' = out \o ChunkEnd(c)
        /\ written' = [chunks |-> written.chunks + 1, checkpoints |-> -1]
  /\ UNCHANGED <<idle, stage>>

WrittenAll ==
  /\ stage = "write_chunk" /\ written.chunks = Len(save.chunks)
  /\ stage' = IF gen = 1 THEN "reread" ELSE "done"
  /\ UNCHANGED <<idle, written, out>>

NothingRead == [actors |-> << >>, chunks |-> << >>]

ReadAgain ==
  /\ stage = "reread"
  /\ gen' = 2 /\ file' = out /\ pos' = 0
  /\ stage' = "actor_count"
  /\ save' = NothingRead
  /\ out' = << >>
  /\ UNCHANGED <<input, left, chunk, chk, frames, agree, written>>

\* The program has ended; it stops nowhere else (checked as absence of deadlock).
Ended == stage \in {"done", "thrown"} /\ UNCHANGED vars

Init ==
  /\ input \in Inputs
  /\ gen = 1 /\ file = input.tokens /\ pos = 0
  /\ stage = "actor_count" /\ left = 0
  /\ save = NothingRead
  /\ chunk = [head |-> << >>] /\ chk = [length |-> 0] /\ frames = << >>
  /\ agree = TRUE
  /\ written = [chunks |-> 0, checkpoints |-> -1]
  /\ out = << >>

Next ==
  \/ ReadActorCount \/ ReadActor \/ ReadHead \/ ReadCheckpoint
  \/ ReadWhole \/ OpenList \/ EndOfList \/ FinishCheckpoint
  \/ ReadNames \/ ReadClass \/ ReadTemplates \/ FinishChunk \/ Throw
  \/ WriteActors \/ WriteChunk \/ WrittenAll \/ ReadAgain
  \/ Ended

Spec == Init /\ [][Next]_vars

-----------------------------------------------------------------------------
(* Properties *)

\* What is written, both times, is what the file was but for the losses named in its
\* rewritten form, each of which happens once: nothing else is lost, doubled or moved,
\* and no length is wrong (xcomwriter.cpp:282-351 against xcomreader.cpp:340-617).
RewriteExact ==
  /\ IsPrefix(out, input.rewritten)
  /\ stage = "done" => out = input.rewritten

\* The assertions on sizes hold (xcomreader.cpp:445, 532), also when the program reads
\* what it has written, as long as names are ASCII and not empty (xcom.h:390-392).
SizesAgree == agree

\* A whole file is never refused, so that it is read and written twice: the chunk loop
\* (xcomreader.cpp:585-614) meets the end of the data.  A file that is cut anywhere, or breaks one
\* of the reader's rules wherever it stands (xcomreader.cpp:117-590), is never accepted.
EndsRight == /\ stage = "thrown" => ~input.whole
             /\ stage \in {"write", "write_chunk", "reread", "done"} => input.whole
=============================================================================
