---------------------------- MODULE ScenarioFile ----------------------------
(***************************************************************************)
(* Reading a scenario file: scenarios/load/*.py.  A table of the file is a *)
(* function of the keys that are present; a blank string counts as an      *)
(* absent key.  The result is what schema.ScenarioData holds, or None      *)
(* where the code raises an error; which of several errors is raised is    *)
(* left out.  Assets, styles and colours are left out.                     *)
(***************************************************************************)
EXTENDS Snapshot, TLC

CONSTANT Tokens    \* what _unit_id_token makes of the prefixes that it changes

\* parse_scenario_row: keys without a default are required, unknown ones ignored.
ParseRow(required, defaults, d) ==
    IF required \subseteq DOMAIN d
    THEN [k \in required \cup DOMAIN defaults |-> IF k \in DOMAIN d THEN d[k] ELSE defaults[k]]
    ELSE None

Column(rows, key) == [n \in DOMAIN rows |-> rows[n][key]]

\* _raise_on_duplicate_strings and its like.
NoDuplicates(s) == Cardinality(Range(s)) = Len(s)

Parsed(rows) == None \notin Range(rows)

---------------------------------------------------------------------------
(* Units: load/units_parse.py *)

UnitDefaults == [graphics |-> None, health |-> 100, active |-> TRUE, attributes |-> Nothing]

UnitRequired == {"id", "type", "position", "faction"}

ArchetypeKeys == {"name", "type", "graphics", "faction", "health", "active", "id_prefix", "attributes"}

\* _normalize_unit_archetype_row_mapping: other keys are attributes and win.
ArchetypeRow(d) ==
    LET flat == [k \in DOMAIN d \ ArchetypeKeys |-> d[k]]
    IN ParseRow({"name", "type", "faction"}, UnitDefaults @@ [id_prefix |-> None],
                [attributes |-> flat @@ Get(d, "attributes", Nothing)] @@ d)

Archetypes(file) == [n \in DOMAIN file.unit_archetypes |-> ArchetypeRow(file.unit_archetypes[n])]

ArchetypeNamed(file, name) ==
    CHOOSE a \in Range(Archetypes(file)) : a.name = name

\* An archetype or type and faction, not both.
PlacementIsSound(file, g) ==
    /\ "positions" \in DOMAIN g
    /\ IF "archetype" \in DOMAIN g
       THEN /\ DOMAIN g \cap {"type", "faction"} = {}
            /\ g.archetype \in Range(Column(Archetypes(file), "name"))
       ELSE {"type", "faction"} \subseteq DOMAIN g

\* What a placement says of all its units.
Template(file, g) ==
    IF "archetype" \in DOMAIN g THEN ArchetypeNamed(file, g.archetype)
    ELSE [type |-> g.type, faction |-> g.faction, id_prefix |-> g.type \o "-" \o g.faction]
            @@ UnitDefaults

Prefix(t) == IF t.id_prefix = None THEN t.name ELSE t.id_prefix

\* Attributes of the position win over those of the placement, and these over the
\* archetype's.
PlacementRow(file, g, m) ==
    LET t == Template(file, g)
        base == [type |-> t.type, faction |-> t.faction] @@
                [k \in {"health", "active", "graphics"} |-> Get(g, k, t[k])]
        attributes == Get(m, "attributes", Nothing)
                        @@ Get(g, "attributes", Nothing) @@ t.attributes
    IN [row |-> ("attributes" :> attributes) @@ m @@ base, prefix |-> Prefix(t)]

PlacementRows(file, g) == [n \in DOMAIN g.positions |-> PlacementRow(file, g, g.positions[n])]

\* All rows in the order they are read: [[units]] first.
UnitEntries(file) ==
    [n \in DOMAIN file.units |-> [row |-> file.units[n], prefix |-> None]]
        \o FlattenSeq([n \in DOMAIN file.unit_placements |->
                           PlacementRows(file, file.unit_placements[n])])

\* _unit_id_token: two prefixes that differ in punctuation may be one token.
UnitIdToken(prefix) == Get(Tokens, prefix, prefix)

AutoId(prefix, n) == prefix \o "-" \o ToString(n)

\* Slip: only the ids this prefix was given are looked at.
NextNumberOfPrefix(acc, prefix) == Get(acc.counters, prefix, 0) + 1

\* _allocate_auto_unit_id: the number after the last one given to the token whose id
\* is free.
NextNumber(acc, prefix) ==
    Min({n \in (Get(acc.counters, prefix, 0) + 1)..(Get(acc.counters, prefix, 0) + Cardinality(acc.used) + 1) :
            AutoId(prefix, n) \notin acc.used})

\* Slip: an id that is taken is taken over by the later row.
ReadsAgain(acc, entry) == TRUE

IdIsFree(acc, entry) == "id" \in DOMAIN entry.row => entry.row.id \notin acc.used

ReadUnit(acc, entry) ==
    LET given == "id" \in DOMAIN entry.row
        token == UnitIdToken(entry.prefix)
        number == NextNumber(acc, token)
        id == IF given THEN entry.row.id ELSE AutoId(token, number)
        unit == ParseRow(UnitRequired, UnitDefaults, With([id |-> id], entry.row))
    IN IF acc = None \/ (entry.prefix = None /\ ~given) THEN None
       ELSE IF unit = None \/ ~IdIsFree(acc, entry) THEN None
       ELSE [units |-> Append(acc.units, unit), used |-> acc.used \cup {id},
             counters |-> IF given THEN acc.counters
                          ELSE With([p \in {token} |-> number], acc.counters)]

\* The names of archetypes are distinct, and placements refer to them.
UnitsAreSound(file) ==
    /\ Parsed(Archetypes(file))
    /\ NoDuplicates(Column(Archetypes(file), "name"))
    /\ \A g \in Range(file.unit_placements) : PlacementIsSound(file, g)

\* _load_scenario_units: None where the code raises.
Units(file) ==
    LET read == FoldLeft(ReadUnit, [units |-> <<>>, used |-> {}, counters |-> [p \in {} |-> 0]],
                         UnitEntries(file))
    IN IF ~UnitsAreSound(file) THEN None ELSE IF read = None THEN None ELSE read.units

---------------------------------------------------------------------------
(* Terrain and markers: load/map_parse.py *)

TerrainDefaults ==
    [movement_cost |-> 1, assault_modifier |-> 0, ranged_modifier |-> 0, block_los |-> TRUE,
     hex_color |-> None]

TerrainTypes(file) ==
    [n \in DOMAIN file.terrain_types |->
        ParseRow({"terrain"}, [default |-> FALSE] @@ TerrainDefaults, file.terrain_types[n])]

DefaultTypes(file) == SelectSeq(TerrainTypes(file), LAMBDA t : t.default)

\* _terrain_group_location_base: keys of the group win over the terrain type of its
\* name, of which the last row counts.
LocationBase(file, g) ==
    LET name == Get(g, "terrain", "plain")
        named == SelectSeq(TerrainTypes(file), LAMBDA t : t.terrain = name)
        type == IF named = <<>> THEN TerrainDefaults ELSE Last(named)
    IN [terrain |-> name] @@ [k \in DOMAIN TerrainDefaults |-> Get(g, k, type[k])]

LocationRows(file) ==
    FlattenSeq([n \in DOMAIN file.terrain_groups |->
        LET g == file.terrain_groups[n]
        IN [p \in DOMAIN g.positions |->
                ParseRow({"position"}, [terrain |-> "plain"] @@ TerrainDefaults,
                         g.positions[p] @@ LocationBase(file, g))]])

\* Grouped markers take the type and the flag of their group.
MarkerRows(file) ==
    LET grouped == FlattenSeq([n \in DOMAIN file.marker_placements |->
            LET g == file.marker_placements[n]
            IN [p \in DOMAIN g.positions |->
                    g.positions[p] @@ [type |-> g.type, active |-> Get(g, "active", TRUE)]]])
        rows == file.markers \o grouped
    IN [n \in DOMAIN rows |-> ParseRow({"id", "type", "position"}, [active |-> TRUE], rows[n])]

\* _merge_sparse_grid_hexes: a board without dimensions is the hexes in use.
OccupiedGrid(file, locations, units) ==
    LET used == {AxialFromOffset(r.position) : r \in Range(locations) \cup Range(units)}
    IN IF {"hex_columns", "hex_rows"} \subseteq DOMAIN file.map \/ used = {} THEN None ELSE used

MapIsSound(file) ==
    LET given == {"hex_columns", "hex_rows"} \cap DOMAIN file.map
    IN /\ Cardinality(given) # 1
       /\ \A k \in given : file.map[k] >= 1

---------------------------------------------------------------------------
(* Features and their tags *)

Style(d) == [k \in StyleKeys |-> Get(d, k, None)]

\* A row without feature_id is named after its kind and place.
FeatureId(d, kind, n) == Get(d, "feature_id", kind \o "-" \o ToString(n - 1))

\* _parse_edge_endpoint: two hexes, or a hex and a direction.
EndpointIsSound(e) == DOMAIN e = {"between"} \/ DOMAIN e = {"position", "direction"}

EdgeFeatureSpecs(file) ==
    [n \in DOMAIN file.edge_features |->
        LET d == file.edge_features[n]
        IN IF /\ "start_edge" \in DOMAIN d
              /\ DOMAIN d \cap {"between", "position", "direction"} = {}
              /\ \A k \in {"start_edge", "end_edge"} \cap DOMAIN d : EndpointIsSound(d[k])
           THEN [feature_id |-> FeatureId(d, "edge", n), start_edge |-> d.start_edge,
                 end_edge |-> Get(d, "end_edge", None), waypoints |-> Get(d, "waypoints", <<>>),
                 start_side |-> Get(d, "start_side", None), end_side |-> Get(d, "end_side", None),
                 tags |-> Get(d, "tags", <<>>)] @@ Style(d)
           ELSE None]

\* A linear feature is a path, the outline of hexes or a line of waypoints.
LinearFeatureSpecs(file) ==
    [n \in DOMAIN file.linear_features |->
        LET d == file.linear_features[n]
            modes == {"path", "perimeter_of", "waypoints"} \cap DOMAIN d
        IN IF Cardinality(modes) = 1 /\ \A k \in modes : Len(d[k]) >= 2
           THEN [feature_id |-> FeatureId(d, "linear", n), mode |-> CHOOSE k \in modes : TRUE,
                 points |-> d[CHOOSE k \in modes : TRUE], tags |-> Get(d, "tags", <<>>)] @@ Style(d)
           ELSE None]

\* _parse_linear_movement and its two likes: a tag has one value.  The sorted pairs the
\* code keeps are a function here.
TagTable(rows, key) == [t \in Range(Column(rows, "tag")) |->
                           (CHOOSE r \in Range(rows) : r.tag = t)[key]]

TagsAreSound(rows, key) ==
    /\ \A r \in Range(rows) : {"tag", key} \subseteq DOMAIN r
    /\ NoDuplicates(Column(rows, "tag"))

---------------------------------------------------------------------------

FileIsSound(file) ==
    /\ Units(file) # None
    /\ \A g \in Range(file.terrain_groups) : "positions" \in DOMAIN g
    /\ \A g \in Range(file.marker_placements) : {"type", "positions"} \subseteq DOMAIN g
    /\ Parsed(TerrainTypes(file)) /\ Len(DefaultTypes(file)) = 1
    /\ Parsed(LocationRows(file)) /\ Parsed(MarkerRows(file)) /\ MapIsSound(file)
    /\ Parsed(EdgeFeatureSpecs(file)) /\ NoDuplicates(Column(EdgeFeatureSpecs(file), "feature_id"))
    /\ Parsed(LinearFeatureSpecs(file)) /\ NoDuplicates(Column(LinearFeatureSpecs(file), "feature_id"))
    /\ TagsAreSound(file.linear_movement, "movement_cost")
    /\ TagsAreSound(file.edge_movement_extra, "movement_extra")
    /\ TagsAreSound(file.edge_line_of_sight, "blocks")

\* load_scenario.
ScenarioData(file) ==
    IF ~FileIsSound(file) THEN None
    ELSE [units |-> Units(file), locations |-> LocationRows(file),
          terrain_types |-> TerrainTypes(file), markers |-> MarkerRows(file),
          grid_hexes |-> OccupiedGrid(file, LocationRows(file), Units(file)),
          edge_features |-> EdgeFeatureSpecs(file), linear_features |-> LinearFeatureSpecs(file),
          linear_movement_by_tag |-> TagTable(file.linear_movement, "movement_cost"),
          edge_movement_extra_by_tag |-> TagTable(file.edge_movement_extra, "movement_extra"),
          edge_line_of_sight_by_tag |-> TagTable(file.edge_line_of_sight, "blocks")]
=============================================================================
