----------------------------- MODULE MCSaveBody -----------------------------
(* Saves as the game writes them, each with what is left of it when it is written
   again: equal but for name and template tables, packages with a dot, unrelated
   numbers in an actor pair, array indices, and the byte of a bool. *)
EXTENDS SaveBody

MCAccented == {"Pinata"}

Bytes(n, b) == [k \in 1..n |-> Byte(b)]

\* Tokens t that are written again as r.
Both(t)    == [t |-> t, r |-> t]
Cat(a, b)  == [t |-> a.t \o b.t, r |-> a.r \o b.r]
CatAll(s)  == [t |-> Joined([k \in DOMAIN s |-> s[k].t]), r |-> Joined([k \in DOMAIN s |-> s[k].r])]

\* A property: size counts the body, and not what is before it.
Prop(name, kind, index, before, body) ==
  Both(Name(<<name>>) \o Name(<<kind>>) \o <<Num(Widths(body)), Num(index)>> \o before \o body)

Number(name, index) == Prop(name, "IntProperty", index, << >>, <<Num(7)>>)
Enum(name, v, n) == Prop(name, "ByteProperty", 0, Name(<<"eType">>), <<Str(v), Num(n)>>)
List(ps) == Cat(CatAll(ps), Both(Name(None)))
Struct(name, list, index) ==
  [t |-> Prop(name, "StructProperty", index, Name(<<"TUnit">>), list.t).t,
   r |-> Prop(name, "StructProperty", index, Name(<<"TUnit">>), list.r).r]
Native(name, type, n) == Prop(name, "StructProperty", 0, Name(<<type>>), <<Block(<<type>>, n)>>)
Array(name, body) == Prop(name, "ArrayProperty", 0, << >>, body)

Inner  == List(<<Number("iA", 0), Number("iB", 0)>>)
Nested == Struct("kIn", List(<<Number("iA", 0), Struct("kIn2", Inner, 0)>>), 0)
Static == CatAll(<<Number("aS", 0), Number("aS", 1), Number("aS", 2)>>)

Common == {
  Number("iA", 0),
  Prop("fA", "FloatProperty", 0, << >>, <<Num(9)>>),
  Prop("bA", "BoolProperty", 0, <<Byte(1)>>, << >>), Prop("b0", "BoolProperty", 0, <<Byte(0)>>, << >>),
  [t |-> Prop("b7", "BoolProperty", 0, <<Byte(7)>>, << >>).t,
   r |-> Prop("b7", "BoolProperty", 0, <<Byte(1)>>, << >>).r],
  Prop("sA", "StrProperty", 0, << >>, <<Str(<<"Pinata">>)>>),
  Prop("sW", "StrProperty", 0, << >>, <<Wide(<<"abc">>)>>),
  Prop("sE", "StrProperty", 0, << >>, <<Str(Empty)>>),
  Prop("nA", "NameProperty", 0, << >>, <<Str(<<"nm">>), Num(0)>>),
  Enum("eA", <<"eX">>, 3),
  Prop("eN", "ByteProperty", 0, Name(None), <<Byte(5)>>),
  Native("vA", "Vector", 12), Native("xA", "Box", 25), Native("cA", "Color", 4),
  Nested,
  Array("a0", <<Num(0)>>),
  Array("aR", <<Num(2), Block(<<"data">>, 7)>>),
  Array("aN", <<Num(2), Num(5), Num(0)>>),
  Array("aT", <<Num(2), Str(<<"one">>), Wide(<<"two">>)>>),
  Array("aE", <<Num(3)>> \o Name(None) \o <<Str(<<"Pinata">>), Num(1), Str(<<"eX">>), Num(0)>>),
  Array("aK", <<Num(2)>> \o List(<<Number("iA", 0), Static>>).t \o List(<<Nested>>).t),
  Static,
  CatAll(<<Struct("kS", Inner, 0), Struct("kS", List(<< >>), 1)>>),
  [t |-> CatAll(<<Number("iZ", 0), Number("aZ", 4), Number("aZ", 9)>>).t,
   r |-> CatAll(<<Number("iZ", 0), Number("aZ", 1), Number("aZ", 2)>>).r] }

Object(body) == Prop("oA", "ObjectProperty", 0, << >>, body)
Objects == [EU |-> {Object(<<Num(3)>>), Object(<<Num(-1)>>)},
            EW |-> {Object(<<Num(7), Num(6)>>), Object(<<Num(-1), Num(-1)>>),
                    [t |-> Object(<<Num(4), Num(3)>>).t, r |-> Object(<<Num(5), Num(4)>>).r],
                    [t |-> Object(<<Num(-1), Num(6)>>).t, r |-> Object(<<Num(-1), Num(-1)>>).r],
                    Array("aO", <<Num(3), Num(1), Num(0), Num(-1), Num(-1), Num(9), Num(8)>>)}]

PropLists(v) ==
  {List(<< >>)} \cup {List(<<p, q>>) : p \in Common \cup Objects[v], q \in {Number("iA", 0), Nested}}
  \cup {List(<<Number("iA", 0), p>>) : p \in Common \cup Objects[v]}

Actor(v, package, cls, n) ==
  IF v = "EU" THEN Both(<<Str(cls), Num(n)>>)
  ELSE Both(<<Str(cls), Num(n), Str(package), Num(0)>>)

\* Package "a.b": the class gets the part behind the dot.
DottedActor(v) ==
  IF v = "EU" THEN Actor(v, Empty, <<"b", ".", "c">>, 1)
  ELSE [t |-> Actor(v, <<"a", ".", "b">>, <<"c">>, 1).t, r |-> Actor(v, <<"a">>, <<"b", ".", "c">>, 1).r]

Actors(v) == <<Actor(v, <<"XCom">>, <<"XGUnit", "_", "S">>, 1), Actor(v, <<"Engine">>, <<"Door">>, 12),
               DottedActor(v)>>

ActorTable(v, n) ==
  Cat(Both(<<Num(IF v = "EU" THEN n ELSE 2 * n)>>), CatAll(SubSeq(Actors(v), 1, n)))

Checkpoint(list, pad) ==
  LET fixed == <<Str(<<"chk">>), Str(Empty)>> \o [k \in 1..6 |-> Num(k)] \o <<Str(<<"ChkCls">>)>>
      with(l) == fixed \o <<Num(Widths(l) + pad)>> \o l \o Bytes(pad, 0) \o <<Num(-1)>>
  IN [t |-> with(list.t), r |-> with(list.r)]

NameTable(n) ==
  IF n = 0 THEN <<Num(0)>>
  ELSE <<Num(1), Num(n)>> \o Times(n, <<Str(<<"ntName">>), Zeros(8), Num(5), Block(<<"nt">>, 5)>>)

Chunk(v, chks, actors, names, templates) ==
  CatAll(<<Both(<<Num(4), Str(<<"Game">>), Str(None), Num(1), Num(Len(chks))>>), CatAll(chks),
           [t |-> NameTable(names), r |-> NameTable(0)],
           Both(<<Str(<<"Cls">>)>>), ActorTable(v, actors), Both(<<Num(2)>>),
           [t |-> <<Num(templates)>> \o Times(templates, <<Str(<<"p">>), Block(<<"tp">>, 64), Str(<<"q">>)>>),
            r |-> <<Num(0)>>],
           Both(<<Str(<<"disp">>), Str(Empty), Num(77)>>)>>)

Body1(v, actors, chunks) == Cat(ActorTable(v, actors), CatAll(chunks))

Input(v, both) == [version |-> v, tokens |-> both.t, rewritten |-> both.r, whole |-> TRUE]

Versions == {"EU", "EW"}
Small == Checkpoint(List(<<Number("iA", 0)>>), 1)
Plain(v) == Chunk(v, <<Small>>, 1, 0, 0)

ListInputs == UNION {{Input(v, Body1(v, 1, <<Chunk(v, <<Checkpoint(l, pad)>>, 0, 0, 0)>>)) :
                        pad \in {0, 3}, l \in PropLists(v)} : v \in Versions}

TableInputs == {Input(v, Body1(v, a, <<Chunk(v, [k \in 1..c |-> Small], a, n, t)>>
                                       \o [k \in 1..more |-> Plain(v)])) :
                  v \in Versions, a \in 0..3, c \in 0..2, n \in 0..2, t \in 0..2, more \in 0..1}

\* A file of two chunks that ends anywhere; after its first chunk it is one of one chunk.
CutInputs ==
  UNION {LET head == Body1(v, 1, <<Plain(v)>>)
             full == Cat(head, Plain(v))
         IN {[version |-> v, tokens |-> SubSeq(full.t, 1, n), rewritten |-> SubSeq(full.r, 1, n),
              whole |-> n = Len(head.t)] : n \in 0..Len(full.t) - 1} : v \in Versions}

\* A whole file that every rule of the reader looks at once, and the same file with one token
\* changed so that one rule is broken and every other holds.
Watched(pad) ==
  Body1("EW", 1, <<Chunk("EW", <<Checkpoint(List(<<
    Number("iA", 0), Enum("eA", <<"eX">>, 3), Nested, Object(<<Num(41), Num(40)>>),
    Array("aO", <<Num(3), Num(51), Num(50), Num(-1), Num(-1), Num(61), Num(60)>>),
    Prop("nA", "NameProperty", 0, << >>, <<Str(<<"nm">>), Num(0)>>)>>), pad)>>, 0, 1, 1)>>)

Swapped(t, old, new)  == [k \in DOMAIN t |-> IF t[k] = old THEN new ELSE t[k]]
Behind(t, tok, new)   == [k \in DOMAIN t |-> IF k > 1 /\ t[k - 1] = tok THEN new ELSE t[k]]

BrokenFiles ==
  {Behind(Watched(0).t, b[1], b[2]) : b \in {
     <<Str(<<"XGUnit", "_", "S">>), Num(0)>>,    \* an actor's instance (:117)
     <<Str(<<"XCom">>), Num(1)>>,                \* the 0 of its package (:123)
     <<Str(<<"TUnit">>), Num(1)>>,               \* a struct's unknown (:138)
     <<Num(61), Num(59)>>, <<Num(51), Num(-1)>>, \* actors of an array (:277)
     <<Str(<<"iA">>), Num(1)>>,                  \* a property's first unknown (:348)
     <<Str(<<"IntProperty">>), Num(1)>>,         \* its second (:359)
     <<Num(41), Num(39)>>, <<Num(41), Num(-1)>>, \* an actor (:379)
     <<Str(<<"eType">>), Num(1)>>,               \* an enum's unknown (:396)
     <<Str(<<"ChkCls">>), Num(-1)>>,             \* the length of a checkpoint (:508)
     <<Str(<<"ntName">>), Block(<<"x">>, 8)>>,   \* the zeros of a name (:567)
     <<Str(<<"Game">>), Str(<<"Some">>)>> } }    \* the None of a chunk (:590)
  \cup
  {Swapped(Watched(0).t, b[1], b[2]) : b \in {
     <<Str(<<"NameProperty">>), Str(<<"DataProperty">>)>>, \* an unknown kind (:440)
     <<Str(<<"nm">>), Wide(<<"nm">>)>> } }                 \* a wide string for a name (xcomio.cpp:100)
  \cup {Swapped(Watched(1).t, Byte(0), Byte(1))}            \* padding (:519)

BrokenInputs ==
  {[version |-> "EW", tokens |-> t, rewritten |-> << >>, whole |-> FALSE] : t \in BrokenFiles}

MCInputs == ListInputs \cup TableInputs \cup CutInputs \cup BrokenInputs \cup {Input("EW", Watched(0))}
=============================================================================
