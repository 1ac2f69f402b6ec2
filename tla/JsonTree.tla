------------------------------ MODULE JsonTree ------------------------------
(***************************************************************************)
(* The JSON document of a save as a tree: what buildJson() of xcom2json    *)
(* writes (SaveJson), what build_save() of json2xcom accepts (Accepts) and *)
(* what it makes of it (Build).  The two programs share no code for this:  *)
(* they agree key by key, or not.  How the text is punctuated is the       *)
(* matter of JsonWriter, what becomes of its characters of Conversions.    *)
(*                                                                         *)
(* Of a float so many digits are printed.                                  *)
(***************************************************************************)
EXTENDS SavedGame, TLC

CONSTANT Precision   \* significant digits operator<< gives a float: 6 in the code

ASSUME PrecisionAssumption == Precision \in Nat \ {0}

-----------------------------------------------------------------------------
(* JSON values, as json11 has them *)

Null      == [t |-> "null"]
Num(n)    == [t |-> "number", v |-> n]
String(s) == [t |-> "string", v |-> s]
Bool(b)   == [t |-> "bool", v |-> b]
Array(s)  == [t |-> "array", v |-> s]
Object(f) == [t |-> "object", v |-> f]

\* json[key]: null where there is nothing.
At(j, key) == IF j.t = "object" /\ key \in DOMAIN j.v THEN j.v[key] ELSE Null

HasShape(j, shape) == j.t = "object" /\ \A key \in DOMAIN shape : At(j, key).t = shape[key]

\* array_items(): none if it is not an array.
Items(j) == IF j.t = "array" THEN j.v ELSE << >>

\* string_value() and the like of key.
Val(j, key) == At(j, key).v

Each(seq, F(_)) == [k \in 1..Len(seq) |-> F(seq[k])]

-----------------------------------------------------------------------------
(* xcom2json *)

\* x rounded to Precision digits.
PrintedUp(x) ==                                                         \* mutant
  LET e == CHOOSE e \in 0..10 : /\ x < 10^(Precision + e)
                                /\ e > 0 => x >= 10^(Precision + e - 1)
  IN IF x < 10^Precision THEN x ELSE (x \div 10^e + 1) * 10^e
Printed(x) ==
  LET e == CHOOSE e \in 0..10 : /\ x < 10^(Precision + e)
                                /\ e > 0 => x >= 10^(Precision + e - 1)
  IN IF x < 10^Precision THEN x ELSE ((x + 5 * 10^(e - 1)) \div 10^e) * 10^e

\* util::to_hex: two digits a byte.
ToHex(data) == [k \in 1..2 * Len(data) |-> IF k % 2 = 1 THEN data[(k + 1) \div 2] \div 16
                                           ELSE data[k \div 2] % 16]

\* write_unicode_string; a text is [str, is_wide].
Text(x) == Object([str |-> String(x.str), is_wide |-> Bool(x.is_wide)])

KindString == [int |-> "IntProperty", float |-> "FloatProperty", bool |-> "BoolProperty",
               string |-> "StrProperty", object |-> "ObjectProperty", object_EU |-> "ObjectProperty",
               enum |-> "ByteProperty", struct |-> "StructProperty", name |-> "NameProperty",
               array |-> "ArrayProperty", object_array |-> "ArrayProperty",
               number_array |-> "ArrayProperty", struct_array |-> "ArrayProperty",
               string_array |-> "ArrayProperty", enum_array |-> "ArrayProperty",
               static_array |-> "StaticArrayProperty"]

EnumJson(e) == Object([value |-> String(e.value), number |-> Num(e.number)])

\* How a static array is written: as ints, as narrow strings, or as properties.
AllKind(list, kind) == list # << >> /\ list[1].kind = kind
CondensedWide(list) ==                                                  \* mutant
  IF AllKind(list, "int") THEN "int_values"
  ELSE IF AllKind(list, "string") THEN "string_values" ELSE "properties"
Condensed(list) ==
  IF AllKind(list, "int") THEN "int_values"
  ELSE IF AllKind(list, "string") /\ \A k \in 1..Len(list) : ~list[k].value.is_wide
  THEN "string_values" ELSE "properties"

RECURSIVE PropertyJson(_)
ListJson(list) == Array(Each(list, PropertyJson))

StaticArrayJson(list) ==
  CASE Condensed(list) = "int_values"    -> [int_values |-> Array([k \in 1..Len(list) |-> Num(list[k].value)])]
    [] Condensed(list) = "string_values" -> [string_values |-> Array([k \in 1..Len(list) |-> String(list[k].value.str)])]
    [] OTHER                             -> [properties |-> ListJson(list)]

\* What a property of each kind has besides its name and kind (json_property_visitor).
Specific(p) ==
  CASE p.kind = "int"    -> [value |-> Num(p.value)]
    [] p.kind = "float"  -> [value |-> Num(Printed(p.value))]
    [] p.kind = "bool"   -> [value |-> Bool(p.value)]
    [] p.kind = "string" -> [value |-> Text(p.value)]
    [] p.kind = "name"   -> [string |-> String(p.value), number |-> Num(p.number)]
    [] p.kind \in {"object", "object_EU"} -> [actor |-> Num(p.value)]
    [] p.kind = "enum"   -> [type |-> String(p.type), value |-> String(p.value), number |-> Num(p.number)]
    [] p.kind = "struct" -> [struct_name |-> String(p.struct_name), native_data |-> String(ToHex(p.data)),
                             properties |-> IF p.data = << >> THEN ListJson(p.list) ELSE Array(<< >>)]
    [] p.kind = "array"  -> [data_length |-> Num(p.length), array_bound |-> Num(p.bound),
                             data |-> String(IF p.bound > 0 THEN ToHex(p.data) ELSE << >>)]
    [] p.kind = "object_array" -> [actors |-> Array(Each(p.list, Num))]
    [] p.kind = "number_array" -> [elements |-> Array(Each(p.list, Num))]
    [] p.kind = "string_array" -> [strings |-> Array(Each(p.list, Text))]
    [] p.kind = "enum_array"   -> [enum_values |-> Array(Each(p.list, EnumJson))]
    [] p.kind = "struct_array" -> [structs |-> Array(Each(p.list, ListJson))]
    [] p.kind = "static_array" -> StaticArrayJson(p.list)

PropertyJson(p) == Object([name |-> String(p.name), kind |-> String(<<KindString[p.kind]>>)] @@ Specific(p))

CheckpointJson(c) ==
  Object([name |-> String(c.name), instance_name |-> String(c.instance_name),
          class_name |-> String(c.class_name),
          vector |-> Array([k \in 1..3 |-> Num(Printed(c.vector[k]))]),
          rotator |-> Array(Each(c.rotator, Num)), properties |-> ListJson(c.properties),
          template_index |-> Num(c.template_index), pad_size |-> Num(c.pad_size)])

ChunkJson(c) ==
  Object([unknown_int1 |-> Num(c.unknown_int1), game_type |-> String(c.game_type),
          checkpoint_table |-> Array(Each(c.checkpoints, CheckpointJson)),
          unknown_int2 |-> Num(c.unknown_int2), class_name |-> String(c.class_name),
          actor_table |-> Array(Each(c.actors, String)), unknown_int3 |-> Num(c.unknown_int3),
          display_name |-> String(c.display_name), map_name |-> String(c.map_name),
          unknown_int4 |-> Num(c.unknown_int4)])

HeaderJson(h) ==
  LET pc == [version |-> Num(h.version), uncompressed_size |-> Num(h.uncompressed_size),
             game_number |-> Num(h.game_number), save_number |-> Num(h.save_number),
             save_description |-> Text(h.save_description), time |-> Text(h.time),
             map_command |-> String(h.map_command), tactical_save |-> Bool(h.tactical_save),
             ironman |-> Bool(h.ironman), autosave |-> Bool(h.autosave),
             dlc |-> String(h.dlc), language |-> String(h.language)]
  IN Object(IF h.version # Android THEN pc
            ELSE pc @@ [profile_number |-> Num(h.profile_number), profile_date |-> Text(h.profile_date)])

\* buildJson
SaveJson(s) ==
  Object([header |-> HeaderJson(s.hdr), actor_table |-> Array(Each(s.actors, String)),
          checkpoints |-> Array(Each(s.checkpoints, ChunkJson))])

-----------------------------------------------------------------------------
(* json2xcom: which documents it refuses *)

IsText(j) == HasShape(j, [str |-> "string", is_wide |-> "bool"])

PcShape == [version |-> "number", uncompressed_size |-> "number", game_number |-> "number",
            save_number |-> "number", save_description |-> "object", time |-> "object",
            map_command |-> "string", tactical_save |-> "bool", ironman |-> "bool",
            autosave |-> "bool", dlc |-> "string", language |-> "string"]
AndroidShape == PcShape @@ [profile_number |-> "number", profile_date |-> "object"]

\* check_header_shape
HeaderShapeAndroid(version) == AndroidShape                              \* mutant
HeaderShape(version) == IF version = Android THEN AndroidShape ELSE PcShape

AcceptsHeader(j) ==
  /\ At(j, "version").t = "number" /\ SupportedVersion(Val(j, "version"))
  /\ HasShape(j, HeaderShape(Val(j, "version")))
  /\ IsText(At(j, "save_description")) /\ IsText(At(j, "time"))
  /\ Val(j, "version") = Android => IsText(At(j, "profile_date"))

\* Array kinds in the order build_array_property asks for them.
ArrayKinds == <<[key |-> "actors", kind |-> "object_array"], [key |-> "elements", kind |-> "number_array"],
                [key |-> "structs", kind |-> "struct_array"], [key |-> "strings", kind |-> "string_array"],
                [key |-> "enum_values", kind |-> "enum_array"]>>
ArrayOf(j) ==
  LET there == {k \in 1..Len(ArrayKinds) : At(j, ArrayKinds[k].key) # Null} IN
  IF there = {} THEN [key |-> "data", kind |-> "array"]
  ELSE ArrayKinds[CHOOSE k \in there : \A other \in there : k <= other]

Kinds == [IntProperty |-> "int", FloatProperty |-> "float", BoolProperty |-> "bool",
          StrProperty |-> "string", NameProperty |-> "name", ObjectProperty |-> "object",
          ByteProperty |-> "enum", StructProperty |-> "struct", ArrayProperty |-> "array",
          StaticArrayProperty |-> "static_array"]

\* dispatch_table; a kind is a string of one atom.
KindOf(j) ==
  LET kind == At(j, "kind") IN
  IF kind.t # "string" \/ kind.v \notin {<<k>> : k \in DOMAIN Kinds} THEN "unknown"
  ELSE IF Kinds[kind.v[1]] = "array" THEN ArrayOf(j).kind ELSE Kinds[kind.v[1]]

PropertyShape(j) ==
  LET kind == KindOf(j) IN
  [name |-> "string"] @@
  CASE kind \in {"int", "float"} -> [value |-> "number"]
    [] kind = "bool"   -> [value |-> "bool"]
    [] kind = "string" -> [value |-> "object"]
    [] kind = "name"   -> [string |-> "string", number |-> "number"]
    [] kind = "object" -> [actor |-> "number"]
    [] kind = "enum"   -> [type |-> "string", value |-> "string", number |-> "number"]
    [] kind = "struct" -> [struct_name |-> "string", properties |-> "array", native_data |-> "string"]
    [] kind = "array"  -> [data_length |-> "number", array_bound |-> "number", data |-> "string"]
    [] kind = "static_array" -> [name |-> "string"]
    [] OTHER           -> ArrayOf(j).key :> "array"

RECURSIVE AcceptsProperty(_)
AcceptsList(j) == \A k \in 1..Len(Items(j)) : AcceptsProperty(Items(j)[k])

AcceptsProperty(j) ==
  LET kind == KindOf(j) IN
  /\ kind # "unknown" /\ HasShape(j, PropertyShape(j))
  /\ kind = "string" => IsText(At(j, "value"))
  /\ kind = "struct" /\ Val(j, "native_data") = << >> => AcceptsList(At(j, "properties"))
  /\ kind = "string_array" => \A k \in 1..Len(Val(j, "strings")) : IsText(Val(j, "strings")[k])
  /\ kind = "struct_array" => \A k \in 1..Len(Val(j, "structs")) : AcceptsList(Val(j, "structs")[k])
  /\ kind = "static_array" /\ At(j, "int_values") = Null /\ At(j, "string_values") = Null =>
       AcceptsList(At(j, "properties"))

AcceptsCheckpoint(j) ==
  /\ HasShape(j, [name |-> "string", instance_name |-> "string", vector |-> "array", rotator |-> "array",
                  class_name |-> "string", properties |-> "array", template_index |-> "number",
                  pad_size |-> "number"])
  /\ Len(Val(j, "vector")) = 3 /\ Len(Val(j, "rotator")) = 3
  /\ AcceptsList(At(j, "properties"))

AcceptsChunk(j) ==
  /\ HasShape(j, [unknown_int1 |-> "number", game_type |-> "string", checkpoint_table |-> "array",
                  unknown_int2 |-> "number", class_name |-> "string", actor_table |-> "array",
                  unknown_int3 |-> "number", display_name |-> "string", map_name |-> "string",
                  unknown_int4 |-> "number"])
  /\ \A k \in 1..Len(Val(j, "checkpoint_table")) : AcceptsCheckpoint(Val(j, "checkpoint_table")[k])

\* build_save throws, or not.
Accepts(j) ==
  /\ HasShape(j, [header |-> "object", actor_table |-> "array", checkpoints |-> "array"])
  /\ AcceptsHeader(At(j, "header"))
  /\ \A k \in 1..Len(Val(j, "checkpoints")) : AcceptsChunk(Val(j, "checkpoints")[k])

-----------------------------------------------------------------------------
(* json2xcom: what it builds of an accepted document *)

FromHex(digits) == [k \in 1..Len(digits) \div 2 |-> 16 * digits[2 * k - 1] + digits[2 * k]]

BuildText(j) == [str |-> Val(j, "str"), is_wide |-> Val(j, "is_wide")]

\* value_from_json, string_value of each item.
Values(j) == [k \in 1..Len(Items(j)) |-> Items(j)[k].v]

BuildEnum(j) == [value |-> Val(j, "value"), number |-> Val(j, "number")]

RECURSIVE BuildProperty(_, _)
BuildList(j, version) == [k \in 1..Len(Items(j)) |-> BuildProperty(Items(j)[k], version)]

\* The elements of a static array bear its name.
BuildStaticArray(j, version) ==
  LET element(kind, value) == [name |-> Val(j, "name"), kind |-> kind, value |-> value] IN
  IF At(j, "int_values") # Null
  THEN [k \in 1..Len(Val(j, "int_values")) |-> element("int", Val(j, "int_values")[k].v)]
  ELSE IF At(j, "string_values") # Null
  THEN [k \in 1..Len(Val(j, "string_values")) |->
          element("string", [str |-> Val(j, "string_values")[k].v, is_wide |-> FALSE])]
  ELSE BuildList(At(j, "properties"), version)

BuildProperty(j, version) ==
  LET kind == KindOf(j)
      is(k) == [name |-> Val(j, "name"), kind |-> k]
      items(key) == Items(At(j, key))
  IN
  CASE kind \in {"int", "float", "bool"} -> is(kind) @@ [value |-> Val(j, "value")]
    [] kind = "string" -> is(kind) @@ [value |-> BuildText(At(j, "value"))]
    [] kind = "name"   -> is(kind) @@ [value |-> Val(j, "string"), number |-> Val(j, "number")]
    [] kind = "object" -> is(IF version = EnemyUnknown THEN "object_EU" ELSE "object")
                          @@ [value |-> Val(j, "actor")]
    [] kind = "enum"   -> is(kind) @@ [type |-> Val(j, "type")] @@ BuildEnum(j)
    [] kind = "struct" -> LET data == FromHex(Val(j, "native_data")) IN
                          is(kind) @@ [struct_name |-> Val(j, "struct_name"), data |-> data,
                                       list |-> IF Val(j, "native_data") # << >> THEN << >>
                                                ELSE BuildList(At(j, "properties"), version)]
    [] kind = "array"  -> is(kind) @@ [data |-> FromHex(Val(j, "data")), length |-> Val(j, "data_length"),
                                       bound |-> Val(j, "array_bound")]
    [] kind = "object_array" -> is(kind) @@ [list |-> Values(At(j, "actors"))]
    [] kind = "number_array" -> is(kind) @@ [list |-> Values(At(j, "elements"))]
    [] kind = "string_array" -> is(kind) @@ [list |-> Each(items("strings"), BuildText)]
    [] kind = "enum_array"   -> is(kind) @@ [list |-> Each(items("enum_values"), BuildEnum)]
    [] kind = "struct_array" -> is(kind) @@ [list |-> [k \in 1..Len(items("structs")) |->
                                                         BuildList(items("structs")[k], version)]]
    [] kind = "static_array" -> is(kind) @@ [list |-> BuildStaticArray(j, version)]

BuildCheckpoint(j, version) ==
  [name |-> Val(j, "name"), instance_name |-> Val(j, "instance_name"), class_name |-> Val(j, "class_name"),
   vector |-> Values(At(j, "vector")), rotator |-> Values(At(j, "rotator")),
   properties |-> BuildList(At(j, "properties"), version),
   template_index |-> Val(j, "template_index"), pad_size |-> Val(j, "pad_size")]

BuildChunk(j, version) ==
  LET table == Items(At(j, "checkpoint_table")) IN
  [unknown_int1 |-> Val(j, "unknown_int1"), game_type |-> Val(j, "game_type"),
   checkpoints |-> [k \in 1..Len(table) |-> BuildCheckpoint(table[k], version)],
   unknown_int2 |-> Val(j, "unknown_int2"), class_name |-> Val(j, "class_name"),
   actors |-> Values(At(j, "actor_table")), unknown_int3 |-> Val(j, "unknown_int3"),
   display_name |-> Val(j, "display_name"), map_name |-> Val(j, "map_name"),
   unknown_int4 |-> Val(j, "unknown_int4")]

BuildPcHeader(j) ==
  [version |-> Val(j, "version"), uncompressed_size |-> Val(j, "uncompressed_size"),
   game_number |-> Val(j, "game_number"), save_number |-> Val(j, "save_number"),
   save_description |-> BuildText(At(j, "save_description")), time |-> BuildText(At(j, "time")),
   map_command |-> Val(j, "map_command"), tactical_save |-> Val(j, "tactical_save"),
   ironman |-> Val(j, "ironman"), autosave |-> Val(j, "autosave"),
   dlc |-> Val(j, "dlc"), language |-> Val(j, "language")]

BuildProfile(j) ==
  [profile_number |-> Val(j, "profile_number"), profile_date |-> BuildText(At(j, "profile_date"))]

BuildHeaderBare(j) == BuildPcHeader(j)                                    \* mutant
BuildHeader(j) ==
  IF Val(j, "version") = Android THEN BuildPcHeader(j) @@ BuildProfile(j) ELSE BuildPcHeader(j)

Build(j) ==
  LET hdr == BuildHeader(At(j, "header"))
      chunks == Items(At(j, "checkpoints"))
  IN [hdr |-> hdr, actors |-> Values(At(j, "actor_table")),
      checkpoints |-> [k \in 1..Len(chunks) |-> BuildChunk(chunks[k], hdr.version)]]

-----------------------------------------------------------------------------
(* What the player does to a document, and what JSON can hold *)

EditSave(s) == [s EXCEPT !.hdr.game_number = 99]
EditJson(j) == [j EXCEPT !.v.header.v.game_number.v = 99]
SpoilJson(j) == [j EXCEPT !.v.header.v.language = Null]

IsTactical(s) == s.hdr.tactical_save

\* A static array is written with one name only, a float with Precision digits.
RegularList(list) ==
  \A k \in 1..Len(list) :
    /\ list[k].kind = "static_array" => \A e \in 1..Len(list[k].list) : list[k].list[e].name = list[k].name
    /\ list[k].kind = "float" => list[k].value = Printed(list[k].value)

IsRegular(s) ==
  \A c \in 1..Len(s.checkpoints) : \A k \in 1..Len(s.checkpoints[c].checkpoints) :
    LET chk == s.checkpoints[c].checkpoints[k] IN
    /\ \A i \in 1..3 : chk.vector[i] = Printed(chk.vector[i])
    /\ RegularList(chk.properties)
=============================================================================
