------------------------------ MODULE Snapshot ------------------------------
(***************************************************************************)
(* Game states on the wire: game_state_to_wire_dict and                    *)
(* game_state_from_wire_dict of state/snapshot.py, which state updates,    *)
(* saved games and load requests go through.  A dict is a function of the  *)
(* keys that are present; JSON itself keeps dicts and lists as they are.   *)
(* Conversions of one kind of number to another are left out.              *)
(***************************************************************************)
EXTENDS EdgePaths

\* Entries that are always written, and those that are left out when they are None.
Kept(d, keys) == [k \in keys |-> d[k]]
Filled(d, keys) == [k \in {k \in keys : d[k] # None} |-> d[k]]

\* An entry that is written on a condition.
When(present, key, value) == [k \in {k \in {key} : present} |-> value]

\* A dict with the entries of two.
With(d, e) == [k \in DOMAIN d \cup DOMAIN e |-> IF k \in DOMAIN d THEN d[k] ELSE e[k]]

\* d.get(key, default).
Get(d, key, default) == IF key \in DOMAIN d THEN d[key] ELSE default

Nothing == [k \in {} |-> None]

StyleKeys == {"stroke_width", "stroke_color", "stroke_dash", "layer_z"}

---------------------------------------------------------------------------
(* game_state_to_wire_dict *)

HexWire(h) == [i |-> h[1], j |-> h[2], k |-> h[3]]

UnitWire(u) ==
    With([position |-> HexWire(u.position)],
    With(Kept(u, {"unit_id", "unit_type", "faction", "health", "active", "stack_index"}),
    With(Filled(u, {"graphics"}),
         When(u.attributes # Nothing, "attributes", u.attributes))))

EdgeKeyWire(e) == [hex_low |-> HexWire(e[1]), hex_high |-> HexWire(e[2])]

\* Slip: a flag that is false is left out like a value that is missing.
TruthyTerrainWire(t) ==
    With(Kept(t, {"terrain_type", "movement_cost", "assault_modifier", "ranged_modifier"}),
    With(Filled(t, {"hex_color"}), When(t.block_los, "block_los", TRUE)))

\* Terrain of a hex and of the hexes that are not listed.
TerrainWire(t) ==
    With(Kept(t, {"terrain_type", "movement_cost", "assault_modifier", "ranged_modifier",
                  "block_los"}),
         Filled(t, {"hex_color"}))

LocationWire(loc) == With([position |-> HexWire(loc.position)], TerrainWire(loc))

EdgeFeatureWire(f) ==
    With([edge_key |-> EdgeKeyWire(f.edge_key)],
    With(Kept(f, {"feature_id", "tags"}), Filled(f, StyleKeys)))

LinearFeatureWire(f) ==
    With([path |-> [n \in DOMAIN f.path |-> HexWire(f.path[n])]],
    With(Kept(f, {"feature_id", "tags"}), Filled(f, StyleKeys)))

BoardWire(b) ==
    With([units |-> [u \in DOMAIN b.units |-> UnitWire(b.units[u])],
          locations |-> {LocationWire(b.locations[p]) : p \in DOMAIN b.locations},
          linear_movement |-> b.linear_movement_by_tag],
    With(When(b.unset_defaults # None, "unset_defaults", TerrainWire(b.unset_defaults)),
    With(When(b.edge_features # <<>>, "edge_features",
              [n \in DOMAIN b.edge_features |-> EdgeFeatureWire(b.edge_features[n])]),
    With(When(b.linear_features # <<>>, "linear_features",
              [n \in DOMAIN b.linear_features |-> LinearFeatureWire(b.linear_features[n])]),
    With(When(b.edge_movement_extra_by_tag # Nothing, "edge_movement_extra",
              b.edge_movement_extra_by_tag),
         When(b.edge_line_of_sight_by_tag # Nothing, "edge_line_of_sight",
              b.edge_line_of_sight_by_tag))))))

ToWire(s) ==
    With([board |-> BoardWire(s.board), turn |-> s.turn],
    With(When(s.session_state # Nothing, "session_state", s.session_state),
    With(When(s.engine_state # Nothing, "engine_state", s.engine_state),
    With(Filled(s, {"session_state_key"}),
         When(s.rng_log # <<>>, "rng_log", s.rng_log)))))

---------------------------------------------------------------------------
(* game_state_from_wire_dict *)

ParseHex(d) == Hex(d.i, d.j, d.k)

UnitFromWire(w) ==
    [unit_id |-> w.unit_id, unit_type |-> w.unit_type, faction |-> w.faction,
     position |-> ParseHex(w.position), health |-> Get(w, "health", 100),
     active |-> Get(w, "active", TRUE), stack_index |-> Get(w, "stack_index", 0),
     graphics |-> Get(w, "graphics", None), attributes |-> Get(w, "attributes", Nothing)]

TerrainFromWire(w) ==
    [terrain_type |-> w.terrain_type, movement_cost |-> w.movement_cost,
     hex_color |-> Get(w, "hex_color", None),
     assault_modifier |-> Get(w, "assault_modifier", 0),
     ranged_modifier |-> Get(w, "ranged_modifier", 0), block_los |-> Get(w, "block_los", TRUE)]

\* The row of a hex; of several the last in the list would count.
LocationAt(rows, p) == CHOOSE w \in rows : ParseHex(w.position) = p

LocationsFromWire(rows) ==
    [p \in {ParseHex(w.position) : w \in rows} |->
        LET t == TerrainFromWire(LocationAt(rows, p))
        IN [position |-> p, terrain_type |-> t.terrain_type, movement_cost |-> t.movement_cost,
            hex_color |-> t.hex_color, assault_modifier |-> t.assault_modifier,
            ranged_modifier |-> t.ranged_modifier, block_los |-> t.block_los]]

EdgeFeatureFromWire(w) ==
    [feature_id |-> w.feature_id,
     edge_key |-> EdgeKey(ParseHex(w.edge_key.hex_low), ParseHex(w.edge_key.hex_high)),
     tags |-> w.tags, stroke_width |-> Get(w, "stroke_width", None),
     stroke_color |-> Get(w, "stroke_color", None),
     stroke_dash |-> Get(w, "stroke_dash", None), layer_z |-> Get(w, "layer_z", None)]

LinearFeatureFromWire(w) ==
    [feature_id |-> w.feature_id, path |-> [n \in DOMAIN w.path |-> ParseHex(w.path[n])],
     tags |-> w.tags, stroke_width |-> Get(w, "stroke_width", None),
     stroke_color |-> Get(w, "stroke_color", None),
     stroke_dash |-> Get(w, "stroke_dash", None), layer_z |-> Get(w, "layer_z", None)]

\* validate_linear_hex_path.
PathIsLinear(path) ==
    Len(path) >= 2 /\ \A n \in 1..(Len(path) - 1) : Adjacent(path[n], path[n + 1])

BoardFromWire(b) ==
    LET edges == Get(b, "edge_features", <<>>)
        lines == Get(b, "linear_features", <<>>)
    IN [units |-> [u \in DOMAIN b.units |-> UnitFromWire(b.units[u])],
        locations |-> LocationsFromWire(b.locations),
        unset_defaults |-> IF "unset_defaults" \in DOMAIN b THEN TerrainFromWire(b.unset_defaults)
                           ELSE None,
        edge_features |-> [n \in DOMAIN edges |-> EdgeFeatureFromWire(edges[n])],
        linear_features |-> [n \in DOMAIN lines |-> LinearFeatureFromWire(lines[n])],
        linear_movement_by_tag |-> Get(b, "linear_movement", Nothing),
        edge_movement_extra_by_tag |-> Get(b, "edge_movement_extra", Nothing),
        edge_line_of_sight_by_tag |-> Get(b, "edge_line_of_sight", Nothing)]

TurnRequired == {"current_faction", "current_phase", "phase_actions_remaining"}

TurnFromWire(t) ==
    [current_faction |-> t.current_faction, current_phase |-> t.current_phase,
     phase_actions_remaining |-> t.phase_actions_remaining,
     turn_number |-> Get(t, "turn_number", 1), schedule_index |-> Get(t, "schedule_index", 0),
     global_tick |-> Get(t, "global_tick", 0)]

\* What the code does not raise an error for.
IsReadable(w) ==
    /\ "turn" \in DOMAIN w /\ TurnRequired \subseteq DOMAIN w.turn
    /\ w.turn.current_faction # "" /\ w.turn.current_phase # ""
    /\ LET lines == BoardFromWire(w.board).linear_features
       IN \A n \in DOMAIN lines : PathIsLinear(lines[n].path)

FromWire(w) ==
    IF ~IsReadable(w) THEN None
    ELSE [board |-> BoardFromWire(w.board), turn |-> TurnFromWire(w.turn),
          session_state |-> Get(w, "session_state", Nothing),
          engine_state |-> Get(w, "engine_state", Nothing),
          session_state_key |-> Get(w, "session_state_key", None),
          rng_log |-> Get(w, "rng_log", <<>>)]
=============================================================================
