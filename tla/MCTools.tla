------------------------------ MODULE MCTools -------------------------------
(* Four saves of the game: one of each version, between them with every kind of property, of
   which one is changed by conversion, and a tactical one. *)
EXTENDS Tools, JsonTree, TLC

S == <<"S">>
MCGameNames == {S}
MCNames == {S, <<"S", ".json">>, <<"S", ".out">>}

Narrow(s) == [str |-> s, is_wide |-> FALSE]
WideText(s) == [str |-> s, is_wide |-> TRUE]
P(name, kind, rest) == [name |-> name, kind |-> kind] @@ rest
V(name, kind, v) == P(name, kind, [value |-> v])
L(name, kind, list) == P(name, kind, [list |-> list])

Leaves == <<
  V(<<"iA">>, "int", -7), V(<<"fA">>, "float", 250), V(<<"bA">>, "bool", TRUE),
  V(<<"sA">>, "string", Narrow(<<"x">>)), V(<<"sW">>, "string", WideText(<<"y">>)),
  V(<<"oA">>, "object", -1), P(<<"nA">>, "name", [value |-> <<"nm">>, number |-> 2]),
  P(<<"eA">>, "enum", [type |-> <<"eT">>, value |-> <<"eX">>, number |-> 3]) >>

Inner == P(<<"kV">>, "struct", [struct_name |-> <<"Vector2D">>, data |-> <<1, 171>>, list |-> << >>])
Outer == P(<<"kP">>, "struct", [struct_name |-> <<"TUnit">>, data |-> << >>, list |-> <<Leaves[1], Inner>>])

Arrays == <<
  P(<<"aR">>, "array", [data |-> <<0, 255>>, length |-> 2, bound |-> 1]),
  P(<<"a0">>, "array", [data |-> << >>, length |-> 0, bound |-> 0]),
  L(<<"aO">>, "object_array", <<3, -1>>), L(<<"aN">>, "number_array", << >>),
  L(<<"aT">>, "string_array", <<Narrow(<<"x">>), WideText(<<"y">>)>>),
  L(<<"aE">>, "enum_array", <<[value |-> <<"eX">>, number |-> 0]>>),
  L(<<"aK">>, "struct_array", <<<<Leaves[1]>>, << >>, <<Outer>>>>),
  L(<<"aI">>, "static_array", <<V(<<"aI">>, "int", 1), V(<<"aI">>, "int", 2)>>),
  L(<<"aS">>, "static_array", <<V(<<"aS">>, "string", Narrow(<<"x">>)), V(<<"aS">>, "string", Narrow(<<"z">>))>>),
  L(<<"aW">>, "static_array", <<V(<<"aW">>, "string", Narrow(<<"x">>)), V(<<"aW">>, "string", WideText(<<"y">>))>>),
  L(<<"aP">>, "static_array", <<V(<<"aP">>, "bool", TRUE), V(<<"aP">>, "bool", FALSE)>>) >>

Chk(n, x, list) ==
  [name |-> <<"c", n>>, instance_name |-> << >>, class_name |-> <<"C">>, vector |-> <<x, 10, 0>>,
   rotator |-> <<0, 90, -1>>, properties |-> list, template_index |-> -1, pad_size |-> 3]

Chunk(checkpoints) ==
  [unknown_int1 |-> 1, game_type |-> <<"Game">>, checkpoints |-> checkpoints, unknown_int2 |-> 2,
   class_name |-> <<"C">>, actors |-> <<<<"P.D_1">>>>, unknown_int3 |-> 3, display_name |-> <<"d">>,
   map_name |-> << >>, unknown_int4 |-> 4]

PcHeader(version, tactical) ==
  [version |-> version, uncompressed_size |-> 0, game_number |-> 5, save_number |-> 6,
   save_description |-> WideText(<<"y">>), time |-> Narrow(<<"x">>), map_command |-> <<"m">>,
   tactical_save |-> tactical, ironman |-> TRUE, autosave |-> FALSE, dlc |-> << >>, language |-> <<"INT">>]

Tree(hdr, chunks) == [hdr |-> hdr, actors |-> <<<<"P.D_1">>, <<"P.U_2">>>>, checkpoints |-> chunks]

Bare == Chk("1", 320, << >>)
AndroidSave == Tree(PcHeader(Android, FALSE) @@ [profile_number |-> 8, profile_date |-> Narrow(<<"x">>)],
                    <<Chunk(<<Chk("1", 320, Leaves), Bare>>), Chunk(<<Chk("2", 4, Arrays)>>)>>)
EUSave == Tree(PcHeader(EnemyUnknown, FALSE), <<Chunk(<<Chk("1", 0, <<V(<<"oA">>, "object_EU", 7), Outer>>)>>), Chunk(<< >>)>>)
TacticalSave == Tree(PcHeader(16, TRUE), << >>)

RoughSave == Tree(PcHeader(16, FALSE), <<Chunk(<<Chk("1", 128, <<V(<<"fB">>, "float", 255),
  L(<<"aX">>, "static_array", <<V(<<"iX">>, "int", 1), V(<<"iY">>, "int", 2)>>)>>)>>)>>)

MCSaves == {RoughSave, AndroidSave, EUSave, TacticalSave}

\* Runs differ in nothing but their names.
MCSymmetry == Permutations(Runs)
=============================================================================
