------------------------------ MODULE MCBoard ------------------------------
(***************************************************************************)
(* The geometry of a board of radius 3, probed from three hexes, the move  *)
(* search on a board of one hex and some of its neighbours, and scenario   *)
(* files of a few rows.                                                    *)
(***************************************************************************)
EXTENDS BoardGeometry, MoveSearch, Loading

MCArea == Radius(<<0, 0, 0>>, 3)
MCStarts == {<<0, 0, 0>>, <<1, 0, -1>>, <<0, -1, 1>>}
MCBlocks == Radius(<<0, 0, 0>>, 1)

\* Five hexes with two ways round: a hex may be reached first by the dearer one.
MCPlaces == {<<0, 0, 0>>, <<1, -1, 0>>, <<1, 0, -1>>, <<0, 1, -1>>, <<2, 0, -2>>}
MCSteps == {s \in MCPlaces \X MCPlaces : Adjacent(s[1], s[2])}

\* Terrain costs 1 or 3; entering the far hex over its dear edge costs 2 more.
MCBoards ==
    {[start |-> <<0, 0, 0>>, budget |-> budget, steps |-> MCSteps \ walls,
      cost |-> [s \in MCPlaces \X MCPlaces |->
                    (IF s[2] \in rough THEN 3 ELSE 1) + (IF s \in dear THEN 2 ELSE 0)],
      zoc |-> zoc, blocked |-> blocked, closed |-> closed] :
        budget \in {2, 4, 7}, walls \in {{}, {s \in MCSteps : s[2] = <<1, 0, -1>>}},
        rough \in SUBSET {<<1, -1, 0>>, <<1, 0, -1>>, <<0, 1, -1>>},
        dear \in {{}, {<< <<1, 0, -1>>, <<2, 0, -2>> >>, << <<0, 0, 0>>, <<1, 0, -1>> >>}},
        zoc \in {{}, {<<1, 0, -1>>}, {<<0, 0, 0>>, <<0, 1, -1>>}},
        blocked \in {{}, {<<1, -1, 0>>}, {<<0, 0, 0>>}},
        closed \in {{}, {<<0, 1, -1>>}}}

\* The second archetype's prefix is the first one's name but for its last character.
MCTokens == "line!" :> "line"

\* Rows an author may write.  The archetypes' token is also used by hand, its units
\* take attributes from four places, and two hexes hold most of the units.
MCRows ==
    [units |-> {[id |-> "line-1", type |-> "inf", faction |-> "red", position |-> <<0, 0>>],
                [id |-> "b", type |-> "gun", faction |-> "blue", position |-> <<0, 0>>,
                 active |-> FALSE, graphics |-> "battery"]},
     unit_archetypes |-> {[name |-> "line", type |-> "gun", faction |-> "blue"]},
     unit_placements |-> {[archetype |-> "line", health |-> 50,
                           positions |-> <<[position |-> <<0, 0>>], [position |-> <<0, 0>>]>>],
                          [archetype |-> "horse", attributes |-> [morale |-> 2],
                           positions |-> <<[position |-> <<1, 0>>, attributes |-> [combat |-> 7]],
                                           [position |-> <<0, 0>>, id |-> "line-2"]>>],
                          [type |-> "gun", faction |-> "blue",
                           positions |-> <<[position |-> <<1, 0>>], [position |-> <<1, 0>>, active |-> FALSE]>>]},
     terrain_types |-> {[terrain |-> "woods", movement_cost |-> 3, default |-> TRUE]},
     terrain_groups |-> {[terrain |-> "woods", block_los |-> FALSE,
                          positions |-> <<[position |-> <<1, 1>>], [position |-> <<1, 0>>, hex_color |-> "red"]>>],
                         [positions |-> <<[position |-> <<1, 1>>, ranged_modifier |-> 1]>>]},
     markers |-> {[id |-> "m", type |-> "flag", position |-> <<2, 1>>]},
     marker_placements |-> {[type |-> "flag", active |-> FALSE, positions |-> <<[id |-> "n", position |-> <<0, 1>>]>>]},
     edge_features |-> {[start_edge |-> [between |-> << <<0, 0>>, <<1, 0>> >>], tags |-> <<"river">>,
                         waypoints |-> << <<2, 1>>, <<2, 2>> >>],
                        [start_edge |-> [position |-> <<2, 2>>, direction |-> 2], start_side |-> 2,
                         end_edge |-> [between |-> << <<2, 1>>, <<1, 0>> >>], layer_z |-> 2,
                         feature_id |-> "edge-0"],
                        [start_edge |-> [between |-> << <<0, 0>>, <<2, 0>> >>]]},
     linear_features |-> {[path |-> << <<0, 0>>, <<1, 0>>, <<2, 1>> >>, tags |-> <<"road">>],
                          [perimeter_of |-> << <<0, 0>>, <<1, 0>>, <<0, 1>>, <<1, 1>> >>, stroke_width |-> 2],
                          [waypoints |-> << <<0, 0>>, <<2, 2>> >>, stroke_color |-> "blue"],
                          [perimeter_of |-> << <<0, 0>>, <<2, 2>> >>]},
     linear_movement |-> {[tag |-> "road", movement_cost |-> 1], [tag |-> "road", movement_cost |-> 0]},
     edge_movement_extra |-> {[tag |-> "river", movement_extra |-> 2]},
     edge_line_of_sight |-> {[tag |-> "river", blocks |-> FALSE]}]

MCTypeAttributes == [inf |-> [combat |-> 4, move |-> 5]]

MCFirstTurn ==
    [current_faction |-> "red", current_phase |-> "Movement", phase_actions_remaining |-> 2,
     turn_number |-> 1, schedule_index |-> 0, global_tick |-> 0]

\* What a title and the engine keep beside the board.
MCSessions ==
    [session_state : {Nothing, [stage |-> 1]}, engine_state : {Nothing, [cursor |-> "combat"]},
     session_state_key : {None, "title"}, rng_log : {<<>>, <<[roll |-> 3]>>}]

\* A file without units, with a board of fixed size or as large as what is on it.
MCFirstFiles ==
    {[map |-> map,
      terrain_types |-> <<[terrain |-> "plain", default |-> TRUE, block_los |-> FALSE],
                          [terrain |-> "woods", movement_cost |-> 2, hex_color |-> "green"]>>,
      unit_archetypes |-> <<[name |-> "line", type |-> "inf", faction |-> "red", combat |-> 6,
                             attributes |-> [combat |-> 5, morale |-> 1]],
                            [name |-> "horse", type |-> "inf", faction |-> "red",
                             id_prefix |-> "line!"]>>]
        @@ [t \in DOMAIN MCRows |-> <<>>] :
        map \in {[hex_size |-> 24], [hex_columns |-> 4, hex_rows |-> 3]}}

Idle == [kind |-> "none"]

Sample == CHOOSE b \in MCBoards : b.budget = 2
FirstFile == CHOOSE f \in FirstFiles : TRUE

\* A probe of the geometry, a search or a scenario file.
Start ==
    \/ ProbeInit /\ board = Sample /\ Init /\ file = FirstFile
    \/ probe = Idle /\ board \in MCBoards /\ Init /\ file = FirstFile
    \/ probe = Idle /\ board = Sample /\ Init /\ FileInit

Step ==
    \/ ProbeNext /\ UNCHANGED <<vars, file>>
    \/ probe = Idle /\ file = FirstFile /\ Next /\ UNCHANGED <<probe, file>>
    \/ probe = Idle /\ board = Sample /\ DOMAIN costs = {board.start} /\ ~Finished /\ FileNext /\ UNCHANGED <<probe, vars>>

BoardSpec == Start /\ [][Step]_<<probe, vars, file>>
=============================================================================
