------------------------- MODULE StaticArrays_proofs -------------------------
(***************************************************************************)
(* Proofs about StaticArrays for property lists of every length: no        *)
(* property is lost or moved whatever the indices are, and dense arrays    *)
(* are written as they were read.                                          *)
(***************************************************************************)
EXTENDS StaticArrays, SequenceTheorems, TLAPS

Items   == [from : Nat, name : Names]
Groups  == [kind : {"plain", "static_array"}, name : Names, items : Seq(Items)]
Outputs == [from : Nat, name : Names, index : Nat]
Stages  == {"read", "convert", "write", "done", "crashed"}

First(g)  == g.items[1].from
Beyond(g) == First(g) + Len(g.items)

\* When names survive: no JSON between, or one name per array.
NamesHold(f, r) == r = "direct" \/ SameName(f)

\* A group holds neighbours of the file, in order; a dense file gave them the indices
\* they will be written with.
Consecutive(g) == \A k \in 1..Len(g.items) : g.items[k].from = First(g) + k - 1
IndicesOf(f, g) == \A k \in 1..Len(g.items) : f[First(g) + k - 1].index = k - 1
NamesOf(f, g) == \A k \in 1..Len(g.items) : g.items[k].name = f[First(g) + k - 1].name
NameOf(f, g)  == \A k \in 1..Len(g.items) : f[First(g) + k - 1].name = g.name

\* Kinds that may share an array: a string may be narrow or wide.
Strings     == {"narrow", "wide"}
Alike(p, q) == p = q \/ (p \in Strings /\ q \in Strings)

KindsOf(f, g) == \A k \in 1..Len(g.items) : Alike(f[First(g)].kind, f[First(g) + k - 1].kind)

GoodGroup(f, r, g) ==
  /\ g \in Groups
  /\ Len(g.items) >= 1
  /\ ~IsStatic(g) => Len(g.items) = 1
  /\ First(g) >= 1 /\ Beyond(g) <= Len(f) + 1
  /\ Consecutive(g)
  /\ Dense(f) => IndicesOf(f, g)
  /\ NamesHold(f, r) => NamesOf(f, g)
  /\ SameName(f) => NameOf(f, g)
  /\ SameKind(f) => KindsOf(f, g)

\* The groups follow each other and hold the first n properties of the file.
Covers(l, n) ==
  /\ l = << >> => n = 0
  /\ l # << >> => First(l[1]) = 1 /\ Beyond(l[Len(l)]) = n + 1
  /\ \A g \in 1..Len(l) - 1 : First(l[g + 1]) = Beyond(l[g])

Faithful(f, r, o, k) ==
  /\ o.from = k
  /\ Dense(f) => o.index = f[k].index
  /\ NamesHold(f, r) => o.name = f[k].name

\* The element about to be written is the one behind the last that was.
WriteInv ==
  /\ gi \in 1..Len(list) + 1
  /\ ei \in Nat
  /\ gi <= Len(list) => /\ 1 <= ei /\ ei <= Len(list[gi].items)
                        /\ Len(out) = First(list[gi]) + ei - 2
  /\ gi = Len(list) + 1 => Len(out) = pos
  /\ \A k \in 1..Len(out) : Faithful(file, route, out[k], k)
  /\ Dense(out)
  /\ gi <= Len(list) /\ ei > 1 => out[Len(out)].index = ei - 2

\* The invariant.
Inv ==
  /\ file \in Seq(Entries)
  /\ route \in {"direct", "json"}
  /\ stage \in Stages
  /\ list \in Seq(Groups)
  /\ pos \in Nat /\ pos <= Len(file)
  /\ out \in Seq(Outputs)
  /\ \A g \in 1..Len(list) : GoodGroup(file, route, list[g])
  /\ stage # "crashed" => Covers(list, pos)
  /\ stage = "convert" => route = "json"
  /\ stage \in {"convert", "write", "done"} => pos = Len(file)
  /\ stage \in {"read", "convert"} => gi = 1 /\ ei = 1 /\ out = << >>
  /\ stage = "crashed" => out = << >> /\ ~SameKind(file)
  /\ stage \in {"write", "done"} => WriteInv
  /\ stage = "done" => gi = Len(list) + 1

-----------------------------------------------------------------------------
(* One group at a time *)

LEMMA ItemType ==
  ASSUME NEW n \in Nat, NEW name \in Names
  PROVE  Item(n, name) \in Items /\ Item(n, name).from = n /\ Item(n, name).name = name
BY DEF Item, Items

\* The entry behind the first n.
LEMMA NextEntry ==
  ASSUME NEW f \in Seq(Entries), NEW n \in Nat, n < Len(f)
  PROVE  /\ n + 1 \in 1..Len(f)
         /\ f[n + 1] \in Entries /\ f[n + 1].name \in Names /\ f[n + 1].index \in Nat
<1>1. Len(f) \in Nat /\ n + 1 \in 1..Len(f)
  BY LenProperties
<1>2. f[n + 1] \in Entries
  BY <1>1, ElementOfSeq
<1> QED BY <1>1, <1>2 DEF Entries

LEMMA ItemsOf ==
  ASSUME NEW g \in Groups, Len(g.items) >= 1
  PROVE  /\ g.items \in Seq(Items) /\ Len(g.items) \in Nat /\ g.name \in Names
         /\ \A k \in 1..Len(g.items) : /\ g.items[k] \in Items /\ g.items[k].from \in Nat
                                       /\ g.items[k].name \in Names
         /\ First(g) \in Nat /\ Beyond(g) \in Nat
<1>1. g.items \in Seq(Items) /\ g.name \in Names
  BY DEF Groups
<1>2. Len(g.items) \in Nat
  BY <1>1, LenProperties
<1>3. \A k \in 1..Len(g.items) : g.items[k] \in Items
  BY <1>1, ElementOfSeq
<1>4. \A k \in 1..Len(g.items) : g.items[k].from \in Nat /\ g.items[k].name \in Names
  BY <1>3 DEF Items
<1>5. 1 \in 1..Len(g.items)
  BY <1>2
<1> QED BY <1>1, <1>2, <1>3, <1>4, <1>5 DEF First, Beyond

\* Appending an element.
LEMMA AppendItem ==
  ASSUME NEW s \in Seq(Items), NEW x \in Items, NEW t, t = Append(s, x)
  PROVE  /\ t \in Seq(Items) /\ Len(t) = Len(s) + 1
         /\ \A k \in 1..Len(s) : t[k] = s[k]
         /\ t[Len(s) + 1] = x
BY AppendProperties

\* A sequence given element by element.
LEMMA ItemsGiven ==
  ASSUME NEW n \in Nat, NEW s, s \in [1..n -> Items]
  PROVE  s \in Seq(Items) /\ Len(s) = n
OBVIOUS

\* A property with index 0 is a group of its own.
LEMMA PlainGood ==
  ASSUME NEW f \in Seq(Entries), NEW r, NEW n \in Nat, n < Len(f), f[n + 1].index = 0
  PROVE  /\ GoodGroup(f, r, Plain(Item(n + 1, f[n + 1].name)))
         /\ First(Plain(Item(n + 1, f[n + 1].name))) = n + 1
         /\ Beyond(Plain(Item(n + 1, f[n + 1].name))) = n + 2
<1> DEFINE name == f[n + 1].name
           item == Item(n + 1, name)
<1>1. name \in Names /\ item \in Items /\ item.from = n + 1 /\ item.name = name
  BY NextEntry, ItemType
<1>2. ASSUME NEW g, g = Group("plain", name, <<item>>)
      PROVE  GoodGroup(f, r, g) /\ First(g) = n + 1 /\ Beyond(g) = n + 2
  <2>1. g.kind = "plain" /\ g.name = name /\ g.items = <<item>>
    BY <1>2 DEF Group
  <2>2. g.items \in Seq(Items) /\ Len(g.items) = 1 /\ g.items[1] = item
    BY <1>1, <2>1
  <2>3. g \in Groups /\ ~IsStatic(g)
    BY <1>1, <1>2, <2>1, <2>2 DEF Group, Groups, IsStatic
  <2>4. First(g) = n + 1 /\ Beyond(g) = n + 2
    BY <1>1, <2>2 DEF First, Beyond
  <2>5. \A k \in 1..Len(g.items) : k = 1 /\ First(g) + k - 1 = n + 1
    BY <2>2, <2>4
  <2>6. Consecutive(g) /\ IndicesOf(f, g) /\ NamesOf(f, g) /\ NameOf(f, g) /\ KindsOf(f, g)
    BY <1>1, <2>1, <2>2, <2>4, <2>5
       DEF Consecutive, IndicesOf, NamesOf, NameOf, KindsOf, Alike
  <2>7. Len(f) \in Nat
    BY LenProperties
  <2> QED BY <2>2, <2>3, <2>4, <2>6, <2>7 DEF GoodGroup
<1>3. Plain(item) = Group("plain", name, <<item>>)
  BY <1>1 DEF Plain
<1> QED BY <1>2, <1>3

\* The two ways a property with another index joins the group before it are one:
\* its elements and the new one, as a static array.
LEMMA GrownGood ==
  ASSUME NEW f \in Seq(Entries), NEW r, NEW g, GoodGroup(f, r, g), Beyond(g) <= Len(f),
         f[Beyond(g)].index > 0, NEW name \in Names,
         SameName(f) => name = f[Beyond(g)].name,
         NEW h, h = Group("static_array", name, Append(g.items, Item(Beyond(g), f[Beyond(g)].name)))
  PROVE  GoodGroup(f, r, h) /\ First(h) = First(g) /\ Beyond(h) = Beyond(g) + 1
<1> DEFINE n == Len(g.items)
           b == Beyond(g)
           item == Item(b, f[b].name)
<1>0. Len(f) \in Nat /\ g \in Groups /\ n >= 1 /\ First(g) >= 1
  BY LenProperties DEF GoodGroup
<1>1. g.items \in Seq(Items) /\ n \in Nat /\ n >= 1 /\ g.name \in Names
        /\ \A k \in 1..n : g.items[k] \in Items /\ g.items[k].from \in Nat
        /\ First(g) \in Nat /\ b \in Nat
  BY <1>0, ItemsOf
<1>2. /\ First(g) \in Nat /\ First(g) >= 1 /\ b = First(g) + n /\ b <= Len(f)
      /\ b \in Nat /\ n \in Nat /\ n >= 1 /\ h.kind = "static_array"
  BY <1>0, <1>1 DEF Beyond, Group
<1>20. /\ \A k \in 1..n : g.items[k].from = First(g) + k - 1
       /\ Dense(f) => \A k \in 1..n : f[First(g) + k - 1].index = k - 1
       /\ NamesHold(f, r) => \A k \in 1..n : g.items[k].name = f[First(g) + k - 1].name
       /\ SameName(f) => \A k \in 1..n : f[First(g) + k - 1].name = g.name
       /\ SameKind(f) => \A k \in 1..n : Alike(f[First(g)].kind, f[First(g) + k - 1].kind)
  BY DEF GoodGroup, Consecutive, IndicesOf, NamesOf, NameOf, KindsOf
<1>21. f[b].index > 0 /\ (SameName(f) => name = f[b].name)
  OBVIOUS
<1> HIDE DEF n, b
<1>22. b \in 1..Len(f) /\ b - 1 = First(g) + n - 1 /\ b > 1 /\ b - 1 \in 1..Len(f)
  BY <1>0, <1>2
<1>3. f[b].name \in Names /\ f[b].index \in Nat
  <2>1. f[b] \in Entries
    BY <1>22, ElementOfSeq
  <2> QED BY <2>1 DEF Entries
<1>4. item \in Items /\ item.from = b /\ item.name = f[b].name
  BY <1>2, <1>3, ItemType
<1>5. h.kind = "static_array" /\ h.name = name /\ h.items = Append(g.items, item)
  BY DEF Group, b
<1>6. /\ h.items \in Seq(Items) /\ Len(h.items) = n + 1
      /\ \A k \in 1..n : h.items[k] = g.items[k]
      /\ h.items[n + 1] = item
  BY <1>1, <1>4, <1>5, AppendItem DEF n
<1>7. First(h) = First(g) /\ Beyond(h) = b + 1
  <2>1. 1 \in 1..n
    BY <1>2
  <2>2. First(h) = First(g)
    BY <1>6, <2>1 DEF First
  <2> QED BY <1>2, <1>6, <2>2 DEF Beyond
<1>8. \A k \in 1..Len(h.items) : \/ k \in 1..n /\ h.items[k] = g.items[k]
                                 \/ k = n + 1 /\ h.items[k] = item /\ First(h) + k - 1 = b
  <2> SUFFICES ASSUME NEW k \in 1..Len(h.items)
               PROVE  \/ k \in 1..n /\ h.items[k] = g.items[k]
                      \/ k = n + 1 /\ h.items[k] = item /\ First(h) + k - 1 = b
    OBVIOUS
  <2>1. k \in 1..n \/ k = n + 1
    BY <1>2, <1>6
  <2>2. n + 1 = k => First(h) + k - 1 = b
    BY SMTT(30), <1>2, <1>7
  <2> QED BY <1>6, <2>1, <2>2
<1>9. Consecutive(h)
  BY <1>4, <1>7, <1>8, <1>20 DEF Consecutive
<1>10. ASSUME Dense(f) PROVE IndicesOf(f, h)
  <2>1. f[b].index = f[b - 1].index + 1
    BY <1>21, <1>22, <1>10 DEF Dense
  <2>2. n \in 1..n /\ f[First(g) + n - 1].index = n - 1
    BY <1>2, <1>10, <1>20
  <2>3. f[b].index = n
    BY <1>2, <1>22, <2>1, <2>2
  <2> QED BY SMTT(30), <1>2, <1>7, <1>8, <1>10, <1>20, <2>3 DEF IndicesOf
<1>11. NamesHold(f, r) => NamesOf(f, h)
  BY <1>4, <1>7, <1>8, <1>20 DEF NamesOf
<1>12. ASSUME SameName(f) PROVE NameOf(f, h)
  <2>1. f[b].name = f[b - 1].name
    BY <1>21, <1>22, <1>12 DEF SameName
  <2>2. n \in 1..n /\ f[First(g) + n - 1].name = g.name
    BY <1>2, <1>12, <1>20
  <2>3. g.name = name /\ f[b].name = name
    BY <1>12, <1>21, <1>22, <2>1, <2>2
  <2> QED BY <1>5, <1>7, <1>8, <1>12, <1>20, <2>3 DEF NameOf
<1>13. h \in Groups /\ IsStatic(h)
  BY <1>5, <1>6 DEF Group, Groups, IsStatic
<1>14. Len(h.items) >= 1 /\ First(h) >= 1 /\ Beyond(h) <= Len(f) + 1
  BY <1>0, <1>2, <1>6, <1>7
<1>16. ASSUME SameKind(f) PROVE KindsOf(f, h)
  <2>1. Alike(f[b - 1].kind, f[b].kind)
    BY <1>21, <1>22, <1>16 DEF SameKind, Alike, Strings
  <2>2. n \in 1..n /\ Alike(f[First(g)].kind, f[b - 1].kind)
    BY <1>2, <1>16, <1>20, <1>22
  <2>3. Alike(f[First(g)].kind, f[b].kind)
    BY <2>1, <2>2 DEF Alike
  <2> QED BY <1>7, <1>8, <1>16, <1>20, <2>3 DEF KindsOf
<1>15. GoodGroup(f, r, h)
  BY <1>9, <1>10, <1>11, <1>12, <1>13, <1>14, <1>16 DEF GoodGroup
<1> QED BY <1>7, <1>15 DEF b

\* A group keeps its place and its properties on the way through JSON.
LEMMA FromJsonGood ==
  ASSUME NEW f \in Seq(Entries), NEW r, NEW g, GoodGroup(f, r, g), r = "json"
  PROVE  /\ GoodGroup(f, r, FromJson(g))
         /\ First(FromJson(g)) = First(g) /\ Beyond(FromJson(g)) = Beyond(g)
<1> DEFINE h == FromJson(g)
<1>1. CASE ~(IsStatic(g) /\ Condensed(g.items))
  BY <1>1 DEF FromJson
<1>2. CASE IsStatic(g) /\ Condensed(g.items)
  <2>1. g.items \in Seq(Items) /\ Len(g.items) \in Nat /\ Len(g.items) >= 1 /\ g.name \in Names
          /\ \A k \in 1..Len(g.items) : g.items[k].from \in Nat
    BY ItemsOf DEF GoodGroup
  <2>2. /\ h.kind = "static_array" /\ h.name = g.name
        /\ h.items = [k \in 1..Len(g.items) |-> Item(g.items[k].from, g.name)]
        /\ h = Group("static_array", h.name, h.items)
    BY <1>2 DEF FromJson, Group
  <2>3. \A k \in 1..Len(g.items) :
          /\ h.items[k] = Item(g.items[k].from, g.name)
          /\ h.items[k] \in Items /\ h.items[k].from = g.items[k].from /\ h.items[k].name = g.name
    BY <2>1, <2>2, ItemType
  <2> HIDE DEF h
  <2>4. h.items \in Seq(Items) /\ Len(h.items) = Len(g.items)
    <3>1. h.items \in [1..Len(g.items) -> Items]
      BY <2>2, <2>3
    <3> QED BY <2>1, <3>1, ItemsGiven
  <2>5. First(h) = First(g) /\ Beyond(h) = Beyond(g)
    BY <2>1, <2>3, <2>4 DEF First, Beyond
  <2>6. h \in Groups /\ IsStatic(h)
    BY <2>1, <2>2, <2>4 DEF Groups, Group, IsStatic
  <2>7. Consecutive(h) /\ (Dense(f) => IndicesOf(f, h)) /\ (SameName(f) => NameOf(f, h))
          /\ (SameKind(f) => KindsOf(f, h))
    BY <2>2, <2>3, <2>4, <2>5 DEF GoodGroup, Consecutive, IndicesOf, NameOf, KindsOf
  <2>8. NamesHold(f, r) => NamesOf(f, h)
    BY <2>3, <2>4, <2>5 DEF GoodGroup, NamesHold, NamesOf, NameOf
  <2> QED BY <2>1, <2>4, <2>5, <2>6, <2>7, <2>8 DEF GoodGroup, h
<1> QED BY <1>1, <1>2

-----------------------------------------------------------------------------
(* The list *)

LEMMA AppendGroup ==
  ASSUME NEW l \in Seq(Groups), NEW x \in Groups, NEW m, m = Append(l, x)
  PROVE  /\ m \in Seq(Groups) /\ Len(m) = Len(l) + 1 /\ Len(l) \in Nat /\ m # << >>
         /\ \A g \in 1..Len(l) : m[g] = l[g]
         /\ m[Len(l) + 1] = x
BY AppendProperties, LenProperties, EmptySeq

LEMMA ReplaceGroup ==
  ASSUME NEW l \in Seq(Groups), l # << >>, NEW x \in Groups,
         NEW m, m = [l EXCEPT ![Len(l)] = x]
  PROVE  /\ m \in Seq(Groups) /\ Len(m) = Len(l) /\ Len(l) \in Nat \ {0} /\ m # << >>
         /\ \A g \in 1..Len(l) - 1 : m[g] = l[g]
         /\ m[Len(l)] = x /\ l[Len(l)] \in Groups
<1>1. Len(l) \in Nat /\ Len(l) # 0
  BY LenProperties, EmptySeq
<1>2. Len(l) \in 1..Len(l)
  BY <1>1
<1>3. m \in Seq(Groups) /\ Len(m) = Len(l)
  BY <1>2, ExceptSeq
<1>4. m # << >>
  BY <1>1, <1>3, EmptySeq
<1>5. l[Len(l)] \in Groups
  BY <1>2, ElementOfSeq
<1>6. m[Len(l)] = x /\ \A g \in 1..Len(l) - 1 : m[g] = l[g]
  <2>1. \A g \in 1..Len(l) : m[g] = IF g = Len(l) THEN x ELSE l[g]
    BY <1>1, <1>2, ExceptSeq
  <2> QED BY <1>1, <1>2, <2>1
<1> QED BY <1>1, <1>3, <1>4, <1>5, <1>6

LEMMA CoversNext ==
  ASSUME NEW l \in Seq(Groups), NEW n \in Nat, Covers(l, n), NEW x \in Groups,
         First(x) = n + 1, Beyond(x) = n + 2
  PROVE  Covers(Append(l, x), n + 1)
<1> DEFINE m == Append(l, x)
<1>1. /\ Len(m) = Len(l) + 1 /\ Len(l) \in Nat /\ m # << >>
      /\ \A g \in 1..Len(l) : m[g] = l[g]
      /\ m[Len(l) + 1] = x
  BY AppendGroup
<1> HIDE DEF m
<1>2. Beyond(m[Len(m)]) = (n + 1) + 1
  BY <1>1
<1>3. CASE l = << >>
  <2>1. Len(l) = 0 /\ n = 0
    BY <1>3, EmptySeq DEF Covers
  <2>2. First(m[1]) = 1 /\ \A g \in 1..Len(m) - 1 : FALSE
    BY <1>1, <2>1
  <2> QED BY <1>1, <1>2, <2>2 DEF Covers, m
<1>4. CASE l # << >>
  <2>1. Len(l) # 0
    BY <1>4, EmptySeq
  <2>2. m[1] = l[1] /\ First(m[1]) = 1
    BY <1>1, <1>4, <2>1 DEF Covers
  <2>3. m[Len(l)] = l[Len(l)] /\ Beyond(m[Len(l)]) = n + 1
    BY <1>1, <1>4, <2>1 DEF Covers
  <2>4. ASSUME NEW g \in 1..Len(m) - 1 PROVE First(m[g + 1]) = Beyond(m[g])
    <3>1. g \in 1..Len(l) /\ (g = Len(l) \/ (g \in 1..Len(l) - 1 /\ g + 1 \in 1..Len(l)))
      BY <1>1
    <3>2. CASE g = Len(l)
      BY <1>1, <2>3, <3>2
    <3>3. CASE g \in 1..Len(l) - 1 /\ g + 1 \in 1..Len(l)
      <4>1. m[g + 1] = l[g + 1] /\ m[g] = l[g]
        BY <1>1, <3>1, <3>3
      <4> QED BY <3>3, <4>1 DEF Covers
    <3> QED BY <3>1, <3>2, <3>3
  <2> QED BY <1>1, <1>2, <2>2, <2>4 DEF Covers, m
<1> QED BY <1>3, <1>4

LEMMA CoversLonger ==
  ASSUME NEW l \in Seq(Groups), l # << >>, NEW n \in Nat, Covers(l, n), NEW x \in Groups,
         First(x) = First(l[Len(l)]), Beyond(x) = Beyond(l[Len(l)]) + 1
  PROVE  Covers([l EXCEPT ![Len(l)] = x], n + 1)
<1> DEFINE m == [l EXCEPT ![Len(l)] = x]
<1>1. /\ Len(m) = Len(l) /\ Len(l) \in Nat \ {0} /\ m # << >>
      /\ \A g \in 1..Len(l) - 1 : m[g] = l[g]
      /\ m[Len(l)] = x
  BY ReplaceGroup
<1> HIDE DEF m
<1>2. Beyond(m[Len(m)]) = (n + 1) + 1
  BY <1>1 DEF Covers
<1>3. \A g \in 1..Len(l) : First(m[g]) = First(l[g])
  BY <1>1
<1>4. First(m[1]) = 1
  BY <1>1, <1>3 DEF Covers
<1>5. \A g \in 1..Len(m) - 1 : First(m[g + 1]) = Beyond(m[g])
  <2> SUFFICES ASSUME NEW g \in 1..Len(l) - 1 PROVE First(m[g + 1]) = Beyond(m[g])
    BY <1>1
  <2>1. g + 1 \in 1..Len(l) /\ m[g] = l[g] /\ First(l[g + 1]) = Beyond(l[g])
    BY <1>1 DEF Covers
  <2> QED BY <1>3, <2>1
<1> QED BY <1>1, <1>2, <1>4, <1>5 DEF Covers, m

LEMMA CoversSame ==
  ASSUME NEW l \in Seq(Groups), NEW n \in Nat, Covers(l, n), NEW m \in Seq(Groups), Len(m) = Len(l),
         \A g \in 1..Len(l) : First(m[g]) = First(l[g]) /\ Beyond(m[g]) = Beyond(l[g])
  PROVE  Covers(m, n)
<1>1. Len(l) \in Nat
  BY LenProperties
<1>2. m = << >> => l = << >>
  BY EmptySeq
<1>3. CASE l = << >>
  BY <1>3, EmptySeq DEF Covers
<1>4. CASE l # << >>
  <2>1. Len(l) # 0 /\ 1 \in 1..Len(l) /\ Len(l) \in 1..Len(l)
    BY <1>1, <1>4, EmptySeq
  <2>2. First(m[1]) = 1 /\ Beyond(m[Len(m)]) = n + 1
    BY <1>4, <2>1 DEF Covers
  <2>3. ASSUME NEW g \in 1..Len(m) - 1 PROVE First(m[g + 1]) = Beyond(m[g])
    <3>1. g \in 1..Len(l) /\ g + 1 \in 1..Len(l) /\ First(l[g + 1]) = Beyond(l[g])
      BY <1>1, <2>1 DEF Covers
    <3> QED BY <3>1
  <2> QED BY <1>2, <1>4, <2>2, <2>3 DEF Covers
<1> QED BY <1>3, <1>4

-----------------------------------------------------------------------------
(* The steps *)

LEMMA InitInv == Init => Inv
<1> SUFFICES ASSUME Init PROVE Inv
  OBVIOUS
<1>1. file \in Seq(Entries) /\ Len(file) \in Nat
  BY FilesAssumption, LenProperties DEF Init
<1>2. list = << >> /\ list \in Seq(Groups) /\ Len(list) = 0 /\ out \in Seq(Outputs)
  BY DEF Init
<1>3. Covers(list, pos)
  BY <1>2 DEF Init, Covers
<1> QED BY <1>1, <1>2, <1>3 DEF Init, Inv, Stages

LEMMA ReadStep == ASSUME Inv, ReadProperty PROVE Inv'
<1> DEFINE e    == file[pos + 1]
           item == Item(pos + 1, e.name)
           last == list[Len(list)]
<1>1. /\ file \in Seq(Entries) /\ pos \in Nat /\ pos < Len(file) /\ Len(file) \in Nat
      /\ list \in Seq(Groups) /\ Covers(list, pos) /\ stage = "read" /\ pos' = pos + 1
      /\ file' = file /\ route' = route /\ gi' = gi /\ ei' = ei /\ out' = out
      /\ gi = 1 /\ ei = 1 /\ out = << >> /\ Len(list) \in Nat
      /\ \A g \in 1..Len(list) : GoodGroup(file, route, list[g])
  BY LenProperties DEF Inv, ReadProperty
<1>2. e \in Entries /\ e.name \in Names /\ e.index \in Nat
  BY <1>1, NextEntry
\* What the step does to the list is enough.
<1>3. ASSUME list' \in Seq(Groups), stage' = "read" \/ stage' = "crashed",
             \A g \in 1..Len(list') : GoodGroup(file, route, list'[g]),
             stage' = "read" => Covers(list', pos + 1),
             stage' = "crashed" => ~SameKind(file)
      PROVE  Inv'
  BY <1>1, <1>3 DEF Inv, Stages
<1>4. CASE e.index = 0
  <2> DEFINE x == Plain(item)
  <2>1. GoodGroup(file, route, x) /\ First(x) = pos + 1 /\ Beyond(x) = pos + 2
    BY <1>1, <1>4, PlainGood
  <2>2. x \in Groups
    BY <2>1 DEF GoodGroup
  <2>3. list' = Append(list, x) /\ stage' = stage
    BY <1>4 DEF ReadProperty
  <2> HIDE DEF x
  <2>4. /\ list' \in Seq(Groups) /\ Len(list') = Len(list) + 1 /\ list'[Len(list) + 1] = x
        /\ \A g \in 1..Len(list) : list'[g] = list[g]
    BY <1>1, <2>2, <2>3, AppendGroup
  <2>5. \A g \in 1..Len(list') : GoodGroup(file, route, list'[g])
    BY <1>1, <2>1, <2>4
  <2>6. Covers(list', pos + 1)
    BY <1>1, <2>1, <2>2, <2>3, CoversNext
  <2> QED BY <1>1, <1>3, <2>3, <2>4, <2>5, <2>6
<1>5. CASE e.index > 0 /\ list # << >>
  <2> DEFINE x == IF IsStatic(last) THEN Joined(last, item) ELSE Started(last, item)
  <2>1. Len(list) \in 1..Len(list) /\ GoodGroup(file, route, last) /\ Beyond(last) = pos + 1
    BY <1>1, <1>5, EmptySeq DEF Covers
  <2>2. Beyond(last) <= Len(file) /\ file[Beyond(last)].index > 0
          /\ item = Item(Beyond(last), file[Beyond(last)].name)
    BY <1>1, <1>5, <2>1
  <2>3. last.name \in Names
    BY <2>1 DEF GoodGroup, Groups
  <2>4. ASSUME SameName(file), IsStatic(last) PROVE last.name = file[Beyond(last)].name
    <3>1. Len(last.items) \in 1..Len(last.items) /\ Beyond(last) = First(last) + Len(last.items)
            /\ First(last) \in Nat /\ First(last) >= 1 /\ Len(last.items) \in Nat
      BY <2>1, ItemsOf DEF GoodGroup, Beyond
    <3>2. file[First(last) + Len(last.items) - 1].name = last.name
      BY <2>1, <2>4, <3>1 DEF GoodGroup, NameOf
    <3> DEFINE b == First(last)
               m == Len(last.items)
    <3> HIDE DEF b, m
    <3>5. b + m = pos + 1 /\ b \in Nat /\ m \in Nat
      BY <2>1, <3>1 DEF b, m
    <3>6. pos + 1 \in 1..Len(file) /\ b + m - 1 = (pos + 1) - 1
      BY <1>1, <3>5
    <3>3. pos + 1 \in 1..Len(file) /\ First(last) + Len(last.items) - 1 = (pos + 1) - 1
      BY <3>6 DEF b, m
    <3>4. file[pos + 1].name = file[(pos + 1) - 1].name
      BY <1>5, <2>4, <3>3 DEF SameName
    <3> QED BY <2>1, <3>2, <3>3, <3>4
  <2>5. GoodGroup(file, route, x) /\ First(x) = First(last) /\ Beyond(x) = Beyond(last) + 1
    <3>1. CASE IsStatic(last)
      <4>1. x = Group("static_array", last.name, Append(last.items, item))
        BY <3>1 DEF Joined
      <4> HIDE DEF x, last, item
      <4> QED BY <1>1, <2>1, <2>2, <2>3, <2>4, <3>1, <4>1, GrownGood
    <3>2. CASE ~IsStatic(last)
      <4>1. x = Group("static_array", file[Beyond(last)].name, Append(last.items, item))
        BY <2>1, <2>2, <3>2, ItemType, <1>1, <1>2 DEF Started
      <4>2. file[Beyond(last)].name \in Names
        BY <1>2, <2>1
      <4> HIDE DEF x, last, item
      <4> QED BY <1>1, <2>1, <2>2, <4>1, <4>2, GrownGood
    <3> QED BY <3>1, <3>2
  <2>6. x \in Groups
    BY <2>5 DEF GoodGroup
  <2>7. list' = [list EXCEPT ![Len(list)] = x] /\ stage' = stage
    BY <1>5, <1>2 DEF ReadProperty, ReplaceLast
  <2> HIDE DEF x
  <2>8. /\ list' \in Seq(Groups) /\ Len(list') = Len(list) /\ list'[Len(list)] = x
        /\ \A g \in 1..Len(list) - 1 : list'[g] = list[g]
    BY <1>1, <1>5, <2>6, <2>7, ReplaceGroup
  <2>9. \A g \in 1..Len(list') : GoodGroup(file, route, list'[g])
    <3> SUFFICES ASSUME NEW g \in 1..Len(list) PROVE GoodGroup(file, route, list'[g])
      BY <2>8
    <3>1. g = Len(list) \/ g \in 1..Len(list) - 1
      BY <1>1
    <3> QED BY <1>1, <2>5, <2>8, <3>1
  <2>10. Covers(list', pos + 1)
    BY <1>1, <1>5, <2>5, <2>6, <2>7, CoversLonger
  <2> QED BY <1>1, <1>3, <2>7, <2>8, <2>9, <2>10
<1>6. CASE e.index > 0 /\ list = << >>
  <2>1. stage' = "crashed" /\ list' = list
    BY <1>6, <1>2 DEF ReadProperty
  <2>2. 1 \in 1..Len(file) /\ file[1].index > 0
    BY <1>1, <1>6 DEF Covers
  <2>3. ~SameKind(file)
    BY <2>2 DEF SameKind
  <2> QED BY <1>1, <1>3, <2>1, <2>3
<1> QED BY <1>2, <1>4, <1>5, <1>6

\* Where the writing starts.
LEMMA WriteStarts ==
  ASSUME file \in Seq(Entries), NEW l \in Seq(Groups), Covers(l, Len(file)),
         \A g \in 1..Len(l) : GoodGroup(file, route, l[g])
  PROVE  /\ Len(l) \in Nat /\ 1 \in 1..Len(l) + 1
         /\ 1 <= Len(l) => 1 <= Len(l[1].items) /\ 0 = First(l[1]) + 1 - 2
         /\ 1 = Len(l) + 1 => 0 = Len(file)
<1>1. Len(l) \in Nat /\ (Len(l) = 0 <=> l = << >>) /\ Len(file) \in Nat
  BY LenProperties, EmptySeq
<1>2. 1 <= Len(l) => 1 <= Len(l[1].items) /\ 0 = First(l[1]) + 1 - 2
  BY <1>1 DEF Covers, GoodGroup
<1>3. 1 = Len(l) + 1 => 0 = Len(file)
  BY <1>1 DEF Covers
<1> QED BY <1>1, <1>2, <1>3

LEMMA EndStep == ASSUME Inv, EndOfList PROVE Inv'
<1>1. stage' \in {"convert", "write"}
  BY DEF EndOfList
<1>2. /\ 1 \in 1..Len(list) + 1
      /\ 1 <= Len(list) => 1 <= Len(list[1].items) /\ 0 = First(list[1]) + 1 - 2
      /\ 1 = Len(list) + 1 => 0 = pos
  BY WriteStarts DEF Inv, EndOfList
<1>3. WriteInv'
  BY <1>2 DEF Inv, EndOfList, WriteInv, Dense
<1> QED BY <1>1, <1>3 DEF Inv, EndOfList, Stages

\* In a file whose arrays do not mix kinds no element of a group is null.
LEMMA NoNullElement ==
  ASSUME Inv, SameKind(file), NEW g \in 1..Len(list)
  PROVE  ~NullElement(list[g].items)
<1> DEFINE items == list[g].items
<1>1. /\ GoodGroup(file, route, list[g]) /\ First(list[g]) \in Nat
      /\ Len(items) \in Nat /\ Len(items) >= 1
      /\ items \in Seq(Items)
  BY ItemsOf DEF Inv, GoodGroup
<1>2. DOMAIN items = 1..Len(items)
  BY <1>1, LenProperties
<1>3. \A k \in 1..Len(items) : Alike(Kind(items[1]), Kind(items[k]))
  <2> SUFFICES ASSUME NEW k \in 1..Len(items) PROVE Alike(Kind(items[1]), Kind(items[k]))
    OBVIOUS
  <2>1. items[1].from = First(list[g]) /\ items[k].from = First(list[g]) + k - 1
    BY <1>1 DEF First, GoodGroup, Consecutive
  <2> QED BY <1>1, <2>1 DEF GoodGroup, KindsOf, Kind
<1> QED BY <1>2, <1>3 DEF NullElement, HoldsInts, HoldsStrings, IsString, Alike, Strings

LEMMA ConvertStep == ASSUME Inv, Convert PROVE Inv'
<1>1. CASE stage' = "crashed" /\ list' = list
  <2>1. \E g \in DOMAIN list : NullElement(list[g].items)
    BY <1>1 DEF Convert
  <2>2. ~SameKind(file)
    BY <2>1, NoNullElement, LenProperties DEF Inv
  <2> QED BY <1>1, <2>2 DEF Inv, Convert, Stages
<1>2. CASE stage' = "write" /\ list' = [g \in 1..Len(list) |-> FromJson(list[g])]
  <2>1. /\ file \in Seq(Entries) /\ list \in Seq(Groups) /\ Len(list) \in Nat /\ pos \in Nat
        /\ Covers(list, pos) /\ pos = Len(file) /\ gi = 1 /\ ei = 1 /\ out = << >>
        /\ \A g \in 1..Len(list) : GoodGroup(file, route, list[g])
    BY LenProperties DEF Inv, Convert
  <2>2. /\ file' = file /\ route' = route /\ pos' = pos /\ gi' = gi /\ ei' = ei /\ out' = out
    BY DEF Convert
  <2>3. ASSUME NEW g \in 1..Len(list)
        PROVE  /\ list'[g] = FromJson(list[g]) /\ GoodGroup(file, route, list'[g])
               /\ First(list'[g]) = First(list[g]) /\ Beyond(list'[g]) = Beyond(list[g])
    <3>1. list'[g] = FromJson(list[g])
      BY <1>2
    <3>2. route = "json"
      BY DEF Inv, Convert
    <3> QED BY <2>1, <3>1, <3>2, FromJsonGood
  <2>4. list' \in Seq(Groups) /\ Len(list') = Len(list)
    <3>1. list' \in [1..Len(list) -> Groups]
      BY <1>2, <2>3 DEF GoodGroup
    <3> QED BY <2>1, <3>1
  <2>5. Covers(list', pos)
    BY <2>1, <2>3, <2>4, CoversSame
  <2>6. WriteInv'
    BY <2>1, <2>2, <2>3, <2>4, <2>5, WriteStarts DEF WriteInv, Dense
  <2> QED BY <1>2, <2>1, <2>2, <2>3, <2>4, <2>5, <2>6 DEF Inv, Stages
<1> QED BY <1>1, <1>2 DEF Convert

LEMMA WriteStep == ASSUME Inv, WriteProperty PROVE Inv'
<1> DEFINE g == list[gi]
           o == [from  |-> g.items[ei].from, name  |-> g.items[ei].name, index |-> ArrayIndex(g, ei)]
           n == Len(out)
           b == First(g)
           m == Len(g.items)
<1>1. /\ file \in Seq(Entries) /\ list \in Seq(Groups) /\ out \in Seq(Outputs)
      /\ Len(list) \in Nat /\ Len(file) \in Nat /\ n \in Nat
      /\ \A k \in 1..Len(list) : GoodGroup(file, route, list[k])
      /\ Covers(list, pos) /\ pos = Len(file) /\ pos \in Nat
      /\ stage = "write" /\ gi \in 1..Len(list)
      /\ ei \in Nat /\ 1 <= ei /\ ei <= m /\ n = b + ei - 2
      /\ \A k \in 1..n : Faithful(file, route, out[k], k)
      /\ Dense(out) /\ (ei > 1 => out[n].index = ei - 2)
  BY LenProperties DEF Inv, WriteInv, WriteProperty
<1>2. /\ file' = file /\ route' = route /\ stage' = stage /\ list' = list /\ pos' = pos
      /\ out' = Append(out, o)
      /\ IF ei < m THEN ei' = ei + 1 /\ gi' = gi ELSE ei' = 1 /\ gi' = gi + 1
  BY DEF WriteProperty
<1>3. GoodGroup(file, route, g)
  BY <1>1
<1>4. /\ b \in Nat /\ m \in Nat /\ Beyond(g) = b + m /\ b >= 1
      /\ \A k \in 1..m : g.items[k].from \in Nat /\ g.items[k].name \in Names
  BY <1>3, ItemsOf DEF GoodGroup, Beyond
<1>5. ei \in 1..m /\ ei - 1 \in Nat
  BY <1>1, <1>4
<1>6. ArrayIndex(g, ei) \in Nat /\ ArrayIndex(g, ei) = ei - 1
  BY <1>3, <1>4, <1>5 DEF ArrayIndex, GoodGroup
<1>7. o \in Outputs
  BY <1>4, <1>5, <1>6 DEF Outputs
<1> HIDE DEF g, n, b, m
<1>8. b + ei - 1 = n + 1
  BY <1>1, <1>4
<1>9. Faithful(file, route, o, n + 1)
  <2>1. g.items[ei].from = n + 1
    BY <1>3, <1>5, <1>8 DEF GoodGroup, Consecutive, b, m
  <2>2. Dense(file) => file[n + 1].index = ei - 1
    BY <1>3, <1>5, <1>8 DEF GoodGroup, IndicesOf, b, m
  <2>3. NamesHold(file, route) => g.items[ei].name = file[n + 1].name
    BY <1>3, <1>5, <1>8 DEF GoodGroup, NamesOf, b, m
  <2> QED BY <1>6, <2>1, <2>2, <2>3 DEF Faithful
<1> HIDE DEF o
<1>10. /\ out' \in Seq(Outputs) /\ Len(out') = n + 1 /\ out'[n + 1] = o
       /\ \A k \in 1..n : out'[k] = out[k]
  BY <1>1, <1>2, <1>7, AppendProperties DEF n
<1>11. \A k \in 1..Len(out') : Faithful(file, route, out'[k], k)
  <2> SUFFICES ASSUME NEW k \in 1..n + 1 PROVE Faithful(file, route, out'[k], k)
    BY <1>10
  <2>1. k \in 1..n \/ k = n + 1
    BY <1>1
  <2> QED BY <1>1, <1>9, <1>10, <2>1
\* Where the loops stand now.
<1>12. /\ gi' \in 1..Len(list) + 1 /\ ei' \in Nat
       /\ gi' <= Len(list) => /\ 1 <= ei' /\ ei' <= Len(list[gi'].items)
                              /\ n + 1 = First(list[gi']) + ei' - 2
       /\ gi' = Len(list) + 1 => n + 1 = pos
  <2>1. CASE ei < m
    <3>1. gi' = gi /\ ei' = ei + 1
      BY <1>2, <2>1
    <3>2. ei + 1 <= m /\ n + 1 = b + (ei + 1) - 2 /\ gi # Len(list) + 1
      BY <1>1, <1>4, <1>8, <2>1
    <3> QED BY <1>1, <3>1, <3>2 DEF g, b, m
  <2>2. CASE ~(ei < m)
    <3>1. gi' = gi + 1 /\ ei' = 1 /\ ei = m
      BY <1>1, <1>2, <1>4, <2>2
    <3>2. Beyond(g) = n + 2
      BY <1>1, <1>4, <1>8, <3>1
    <3>3. CASE gi = Len(list)
      <4>1. Beyond(list[Len(list)]) = pos + 1
        BY <1>1, <3>3, EmptySeq DEF Covers
      <4>2. n + 1 = pos
        BY <1>1, <3>2, <3>3, <4>1 DEF g
      <4> QED BY <1>1, <3>1, <3>3, <4>2
    <3>4. CASE gi # Len(list)
      <4>1. gi \in 1..Len(list) - 1 /\ gi + 1 \in 1..Len(list)
        BY <1>1, <3>4
      <4>2. First(list[gi + 1]) = n + 2
        BY <1>1, <3>2, <4>1 DEF Covers, g
      <4>3. Len(list[gi + 1].items) >= 1
        BY <1>1, <4>1 DEF GoodGroup
      <4> QED BY <1>1, <3>1, <4>1, <4>2, <4>3
    <3> QED BY <3>3, <3>4
  <2> QED BY <2>1, <2>2
\* The index written is 0 or follows the one before it.
<1>14. Dense(out')
  <2> SUFFICES ASSUME NEW k \in 1..n + 1, out'[k].index > 0
               PROVE  k > 1 /\ out'[k].index = out'[k - 1].index + 1
    BY <1>10 DEF Dense
  <2>1. CASE k \in 1..n
    <3>3. k \in 1..Len(out) /\ out[k].index > 0
      BY <1>10, <2>1 DEF n
    <3>1. k > 1 /\ out[k].index = out[k - 1].index + 1
      BY <1>1, <3>3 DEF Dense
    <3>2. k - 1 \in 1..n
      BY <1>1, <2>1, <3>1
    <3> QED BY <1>10, <2>1, <3>1, <3>2
  <2>2. CASE k = n + 1
    <3>1. o.index = ei - 1 /\ ei > 1
      BY <1>1, <1>6, <1>10, <2>2 DEF o
    <3>2. n \in 1..n /\ n >= 1
      BY SMTT(30), <1>1, <1>4, <3>1
    <3> QED BY <1>1, <1>10, <2>2, <3>1, <3>2
  <2> QED BY <1>1, <2>1, <2>2
<1>15. gi' <= Len(list) /\ ei' > 1 => out'[Len(out')].index = ei' - 2
  BY <1>1, <1>2, <1>6, <1>10 DEF o
<1>13. WriteInv'
  BY <1>2, <1>10, <1>11, <1>12, <1>14, <1>15 DEF WriteInv
<1> QED BY <1>1, <1>2, <1>10, <1>13 DEF Inv, Stages

LEMMA DoneStep == ASSUME Inv, WrittenAll PROVE Inv'
<1>1. gi = Len(list) + 1
  <2>1. Len(list) \in Nat /\ gi \in 1..Len(list) + 1
    BY LenProperties DEF Inv, WriteInv, WrittenAll
  <2> QED BY <2>1 DEF WrittenAll
<1>2. WriteInv'
  BY DEF Inv, WriteInv, WrittenAll
<1> QED BY <1>1, <1>2 DEF Inv, WrittenAll, Stages

LEMMA Inductive == ASSUME Inv, [Next]_vars PROVE Inv'
<1>1. CASE ReadProperty
  BY <1>1, ReadStep
<1>2. CASE EndOfList
  BY <1>2, EndStep
<1>3. CASE Convert
  BY <1>3, ConvertStep
<1>4. CASE WriteProperty
  BY <1>4, WriteStep
<1>5. CASE WrittenAll
  BY <1>5, DoneStep
<1>6. CASE UNCHANGED vars
  BY <1>6 DEF Inv, WriteInv, vars
<1> QED BY <1>1, <1>2, <1>3, <1>4, <1>5, <1>6 DEF Next

\* The invariant holds throughout every run.
THEOREM Invariant == Spec => []Inv
BY InitInv, Inductive, PTL DEF Spec

-----------------------------------------------------------------------------
(* What it is for *)

LEMMA Written ==
  ASSUME Inv, NEW k \in 1..Len(out)
  PROVE  Faithful(file, route, out[k], k)
<1>1. CASE out = << >>
  BY <1>1
<1>2. CASE stage \in {"write", "done"}
  BY <1>2 DEF Inv, WriteInv
<1> QED BY <1>1, <1>2 DEF Inv, Stages

\* Whatever the indices of a property list are, read_properties() and write_property()
\* lose, double and move no property of it.
THEOREM ListOrder == Spec => []OrderKept
<1>1. Inv => OrderKept
  <2> SUFFICES ASSUME Inv PROVE OrderKept
    OBVIOUS
  <2>1. \A k \in 1..Len(out) : out[k].from = k
    BY Written DEF Faithful
  <2>2. stage = "done" => Len(out) = Len(file)
    BY DEF Inv, WriteInv
  <2> QED BY <2>1, <2>2 DEF OrderKept
<1> QED BY <1>1, Invariant, PTL

\* A list with dense arrays is written with the indices and the names it was read with.
THEOREM DenseLists == Spec => []DenseExact
<1>1. Inv => DenseExact
  BY Written DEF DenseExact, Faithful, NamesHold
<1> QED BY <1>1, Invariant, PTL

\* A list that mixes no kinds within an array takes read_properties() past no empty
\* vector and the JSON converter past no null element.
THEOREM KindsAreSafe == Spec => []NoCrash
<1>1. Inv => NoCrash
  BY DEF Inv, NoCrash
<1> QED BY <1>1, Invariant, PTL

\* Whatever was read, the indices that are written count each array from 0.
THEOREM Densified == Spec => []WrittenIsDense
<1>1. Inv => WrittenIsDense
  BY DEF Inv, WriteInv, WrittenIsDense
<1> QED BY <1>1, Invariant, PTL
=============================================================================
