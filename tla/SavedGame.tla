------------------------------ MODULE SavedGame ------------------------------
(***************************************************************************)
(* The data model of xcom.h: what a saved_game is made of, one definition  *)
(* per struct, and what its members must agree on for the writer to be     *)
(* given one.  The constructors of the properties set every member; the    *)
(* header, checkpoints and chunks are plain structs that are filled member *)
(* by member, and a member left out is uninitialised.                      *)
(*                                                                         *)
(* A string is a sequence of atoms, a float a natural number.  Members of  *)
(* properties have the same name in every kind: value, list.               *)
(***************************************************************************)
EXTENDS Integers, Sequences

\* Versions 15, 16 and 19 are EU, EW and EW on Android.
EnemyUnknown == 15
Android      == 19
SupportedVersion(version) == version \in {EnemyUnknown, 16, Android}

string      == Seq(STRING)
bytes       == Seq(0..255)
xcom_string == [str : string, is_wide : BOOLEAN]
enum_value  == [value : string, number : Int]

-----------------------------------------------------------------------------
(* Properties *)

int_property    == [name : string, kind : {"int"}, value : Int]
float_property  == [name : string, kind : {"float"}, value : Nat]
bool_property   == [name : string, kind : {"bool"}, value : BOOLEAN]
string_property == [name : string, kind : {"string"}, value : xcom_string]
name_property   == [name : string, kind : {"name"}, value : string, number : Int]
enum_property   == [name : string, kind : {"enum"}, type : string, value : string, number : Int]

\* object_property, and object_property_EU which is four bytes shorter.
object_property(version) ==
  [name : string, kind : {IF version = EnemyUnknown THEN "object_EU" ELSE "object"}, value : Int]

object_array_property == [name : string, kind : {"object_array"}, list : Seq(Int)]
number_array_property == [name : string, kind : {"number_array"}, list : Seq(Int)]
string_array_property == [name : string, kind : {"string_array"}, list : Seq(xcom_string)]
enum_array_property   == [name : string, kind : {"enum_array"}, list : Seq(enum_value)]

\* size() is 4 + data_length, and the writer copies so many bytes from data.
\* External: the game writes no bytes where there are no elements.
array_property == [name : string, kind : {"array"}, data : bytes, length : Int, bound : Int]
IsArray(p) ==
  /\ p \in array_property
  /\ Len(p.data) = p.length
  /\ p.bound <= 0 => p.data = << >>

RECURSIVE IsProperty(_, _)
IsList(list, version) == \A k \in DOMAIN list : IsProperty(list[k], version)

\* Two constructors: properties or native data.
IsStruct(p, version) ==
  /\ DOMAIN p = {"name", "kind", "struct_name", "data", "list"}
  /\ p.name \in string /\ p.struct_name \in string /\ p.data \in bytes
  /\ p.data = << >> \/ p.list = << >>
  /\ IsList(p.list, version)

IsStructArray(p, version) ==
  /\ DOMAIN p = {"name", "kind", "list"} /\ p.name \in string
  /\ \A k \in DOMAIN p.list : IsList(p.list[k], version)

\* A container for the elements, which are no static arrays.
IsStaticArray(p, version) ==
  /\ DOMAIN p = {"name", "kind", "list"} /\ p.name \in string
  /\ \A k \in DOMAIN p.list : p.list[k].kind # "static_array"
  /\ IsList(p.list, version)

IsProperty(p, version) ==
  CASE p.kind = "int"    -> p \in int_property
    [] p.kind = "float"  -> p \in float_property
    [] p.kind = "bool"   -> p \in bool_property
    [] p.kind = "string" -> p \in string_property
    [] p.kind = "name"   -> p \in name_property
    [] p.kind = "enum"   -> p \in enum_property
    [] p.kind = "array"  -> IsArray(p)
    [] p.kind = "struct" -> IsStruct(p, version)
    [] p.kind = "object_array" -> p \in object_array_property
    [] p.kind = "number_array" -> p \in number_array_property
    [] p.kind = "string_array" -> p \in string_array_property
    [] p.kind = "enum_array"   -> p \in enum_array_property
    [] p.kind = "struct_array" -> IsStructArray(p, version)
    [] p.kind = "static_array" -> IsStaticArray(p, version)
    [] OTHER -> p \in object_property(version)

-----------------------------------------------------------------------------
(* The save *)

header == [version : {EnemyUnknown, 16, Android}, uncompressed_size : Int, game_number : Int,
           save_number : Int, save_description : xcom_string, time : xcom_string,
           map_command : string, tactical_save : BOOLEAN, ironman : BOOLEAN,
           autosave : BOOLEAN, dlc : string, language : string]

\* The profile is read, written and initialised on Android only.
ProfileFields == {"profile_number", "profile_date"}
IsHeader(h) ==
  /\ [field \in DOMAIN h \ ProfileFields |-> h[field]] \in header
  /\ DOMAIN h \cap ProfileFields = IF h.version = Android THEN ProfileFields ELSE {}
  /\ h.version = Android => h.profile_number \in Int /\ h.profile_date \in xcom_string

uvector  == [1..3 -> Nat]
urotator == [1..3 -> Int]

IsCheckpoint(c, version) ==
  /\ DOMAIN c = {"name", "instance_name", "vector", "rotator", "class_name", "properties",
                 "template_index", "pad_size"}
  /\ c.name \in string /\ c.instance_name \in string /\ c.class_name \in string
  /\ c.vector \in uvector /\ c.rotator \in urotator
  /\ c.template_index \in Int /\ c.pad_size \in Nat
  /\ IsList(c.properties, version)

actor_table == Seq(string)

IsChunk(c, version) ==
  /\ DOMAIN c = {"unknown_int1", "game_type", "checkpoints", "unknown_int2", "class_name",
                 "actors", "unknown_int3", "display_name", "map_name", "unknown_int4"}
  /\ \A field \in {"unknown_int1", "unknown_int2", "unknown_int3", "unknown_int4"} : c[field] \in Int
  /\ \A field \in {"game_type", "class_name", "display_name", "map_name"} : c[field] \in string
  /\ c.actors \in actor_table
  /\ \A k \in DOMAIN c.checkpoints : IsCheckpoint(c.checkpoints[k], version)

IsSavedGame(s) ==
  /\ DOMAIN s = {"hdr", "actors", "checkpoints"}
  /\ IsHeader(s.hdr)
  /\ s.actors \in actor_table
  /\ \A k \in DOMAIN s.checkpoints : IsChunk(s.checkpoints[k], s.hdr.version)
=============================================================================
