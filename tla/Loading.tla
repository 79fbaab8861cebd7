------------------------------ MODULE Loading ------------------------------
(***************************************************************************)
(* From a scenario file to the game that is played: scenarios/loader.py    *)
(* puts what ScenarioFile reads on a board, and every client then receives *)
(* that state over the wire of module Snapshot.  A behaviour is an author  *)
(* writing the file row by row; any of its states may be loaded.           *)
(***************************************************************************)
EXTENDS ScenarioFile

CONSTANTS
    FirstFiles,     \* the files an author starts from
    Rows,           \* per table of the file, the rows that may be written
    MaxRows,        \* bound: rows of the file
    TypeAttributes, \* the title's default attributes of each unit type
    FirstTurn,      \* the turn the title's schedule starts with
    Sessions        \* title data a played game may carry besides the board

VARIABLE file

\* A list of a file.
IsList(s) == s \in Seq(Range(s))

\* parse_positions_list raises for anything else.
PositionsAreList(g) == "positions" \in DOMAIN g => IsList(g.positions)

\* The tables of units are lists, and so are the positions of a placement.
IsFile(f) ==
    /\ {"units", "unit_placements"} \subseteq DOMAIN f
    /\ IsList(f.units) /\ IsList(f.unit_placements)
    /\ \A n \in DOMAIN f.unit_placements : PositionsAreList(f.unit_placements[n])

ASSUME FileAssumption ==
    /\ \A f \in FirstFiles : IsFile(f)
    /\ \A t \in DOMAIN Rows \cap {"unit_placements"} : \A r \in Rows[t] : PositionsAreList(r)

---------------------------------------------------------------------------
(* Features: _edge_features_from_spec and _linear_feature_from_spec *)

\* _ordered_hex_pair: None when the two hexes do not touch.
OrderedPair(e) ==
    IF "between" \in DOMAIN e
    THEN LET a == AxialFromOffset(e.between[1])
             b == AxialFromOffset(e.between[2])
         IN IF Adjacent(a, b) THEN <<a, b>> ELSE None
    ELSE LET a == AxialFromOffset(e.position) IN <<a, NeighbourHex(a, e.direction)>>

Centres(points) == [n \in DOMAIN points |-> AxialFromOffset(points[n])]

\* _extend_cells_for_end_edge: the path may stop short of the far hex of its last edge.
ExtendedTo(cells, pair) ==
    IF EdgeKey(cells[Len(cells) - 1], Last(cells)) = EdgeKey(pair[1], pair[2]) THEN cells
    ELSE IF Last(cells) = pair[1] THEN Append(cells, pair[2])
    ELSE None

PathCells(spec) ==
    LET start == OrderedPair(spec.start_edge)
        cells == Dedupe(PolylinePath(start \o Centres(spec.waypoints)))
    IN IF start = None THEN None
       ELSE IF spec.end_edge = None THEN cells
       ELSE IF OrderedPair(spec.end_edge) = None THEN None
       ELSE ExtendedTo(cells, OrderedPair(spec.end_edge))

\* edge_keys_along_hex_chain checks the sides the author gave.
SidesMatch(spec, cells) ==
    LET n == Len(cells)
    IN /\ spec.start_side # None => DirectionToward(cells[1], cells[2]) = spec.start_side % 6
       /\ spec.end_side # None => DirectionToward(cells[n], cells[n - 1]) = spec.end_side % 6

\* One feature per edge; a feature of several edges numbers them.
FeatureOfEach(spec, keys) ==
    LET id(n) == IF Len(keys) = 1 THEN spec.feature_id
                 ELSE spec.feature_id \o "~" \o ToString(n - 1)
    IN [n \in DOMAIN keys |->
            [feature_id |-> id(n), edge_key |-> keys[n], tags |-> spec.tags] @@ Style(spec)]

FeaturesAlong(spec, cells) ==
    IF cells = None THEN None
    ELSE IF ~SidesMatch(spec, cells) THEN None
    ELSE FeatureOfEach(spec, EdgeWalk(cells))

EdgeFeatures(spec) == FeaturesAlong(spec, PathCells(spec))

\* Slip: an outline is taken over without a check.
UncheckedPath(spec) ==
    IF spec.mode = "perimeter_of" THEN SetToSeq(Range(Centres(spec.points)))
    ELSE Dedupe(PolylinePath(Centres(spec.points)))

LinearPath(spec) ==
    CASE spec.mode = "path" -> Centres(spec.points)
      [] spec.mode = "waypoints" -> Dedupe(PolylinePath(Centres(spec.points)))
      [] OTHER -> PerimeterPath(Range(Centres(spec.points)))

\* None where the path cannot be made or is no chain of neighbours.
FeatureOn(spec, path) ==
    IF path = None THEN None
    ELSE IF ~PathIsLinear(path) THEN None
    ELSE [feature_id |-> spec.feature_id, path |-> path, tags |-> spec.tags] @@ Style(spec)

LinearFeature(spec) == FeatureOn(spec, LinearPath(spec))

---------------------------------------------------------------------------
(* scenario_to_initial_state *)

Terrain(row) ==
    [terrain_type |-> row.terrain] @@ [k \in DOMAIN TerrainDefaults |-> row[k]]

\* with_location: of two rows for a hex the later one counts.
Locations(rows) ==
    FoldLeft(LAMBDA locations, row :
                LET p == AxialFromOffset(row.position)
                IN (p :> ([position |-> p] @@ Terrain(row))) @@ locations,
             [p \in {} |-> None], rows)

\* Slip: every unit is put at the bottom of its hex.
AtBottom(units, p) == 0

\* next_stack_index_at_hex: on top of the active units of the hex.
NextStackIndex(units, p) ==
    1 + Max({-1} \cup {units[v].stack_index : v \in {v \in DOMAIN units :
                                                      units[v].active /\ units[v].position = p}})

\* merge_spawn_attributes of the builtin definition: the row's attributes win.
SpawnAttributes(row) == row.attributes @@ Get(TypeAttributes, row.type, Nothing)

PlaceUnit(units, row) ==
    LET p == AxialFromOffset(row.position)
        unit == [unit_id |-> row.id, unit_type |-> row.type, faction |-> row.faction,
                 position |-> p, health |-> row.health, active |-> row.active,
                 stack_index |-> NextStackIndex(units, p), graphics |-> row.graphics,
                 attributes |-> SpawnAttributes(row)]
    IN With([u \in {row.id} |-> unit], units)

InitialBoard(data, edges, lines) ==
    [units |-> FoldLeft(PlaceUnit, [u \in {} |-> None], data.units),
     locations |-> Locations(data.locations),
     unset_defaults |-> Terrain(CHOOSE t \in Range(data.terrain_types) : t.default),
     edge_features |-> FlattenSeq(edges), linear_features |-> lines,
     linear_movement_by_tag |-> data.linear_movement_by_tag,
     edge_movement_extra_by_tag |-> data.edge_movement_extra_by_tag,
     edge_line_of_sight_by_tag |-> data.edge_line_of_sight_by_tag]

\* None where one of the features is refused.
FirstState(data, edges, lines) ==
    IF (\E n \in DOMAIN edges : edges[n] = None) \/ (\E n \in DOMAIN lines : lines[n] = None)
    THEN None
    ELSE [board |-> InitialBoard(data, edges, lines), turn |-> FirstTurn,
          session_state |-> Nothing, engine_state |-> Nothing, session_state_key |-> None,
          rng_log |-> <<>>]

StateFrom(data) ==
    IF data = None THEN None
    ELSE FirstState(data,
            [n \in DOMAIN data.edge_features |-> EdgeFeatures(data.edge_features[n])],
            [n \in DOMAIN data.linear_features |-> LinearFeature(data.linear_features[n])])

InitialState(f) == StateFrom(ScenarioData(f))

---------------------------------------------------------------------------
(* The author *)

Written(f) == FoldFunction(LAMBDA a, b : a + b, 0, [t \in DOMAIN Rows |-> Len(f[t])])

FileInit == file \in FirstFiles

Write ==
    \E t \in DOMAIN Rows : \E r \in Rows[t] :
        /\ r \notin Range(file[t]) /\ Written(file) < MaxRows
        /\ file' = [file EXCEPT ![t] = Append(@, r)]

FileNext == Write

---------------------------------------------------------------------------

\* A file that loads puts every unit it names on the board, none in place of another,
\* although ids are given by the author or made up, from prefixes that other rows may
\* use as well; units of a hex are stacked in the order of the file, and a board without
\* dimensions has room for each of them.
UnitsAreAllPlaced ==
    \A s \in {InitialState(file)} \ {None} :
        LET rows == Units(file)
            At(n) == s.board.units[rows[n].id]
            grid == ScenarioData(file).grid_hexes
        IN /\ Len(rows) = Len(UnitEntries(file))
           /\ \A m, n \in DOMAIN rows : m < n =>
                /\ rows[m].id # rows[n].id
                /\ (At(m).position = At(n).position /\ At(m).active) =>
                        At(m).stack_index < At(n).stack_index
           /\ \A n \in DOMAIN rows : grid # None => At(n).position \in grid

\* A game that was loaded, and whatever a title stores with it, arrives at the clients,
\* and comes back from a saved game, as it was: no optional field takes its default for a
\* value, and nothing the loader accepts is refused on reading.
GameSurvivesTheWire ==
    \A s \in {InitialState(file)} \ {None} :
        \A d \in Sessions : \E wire \in {ToWire(d @@ s)} : FromWire(wire) = d @@ s

\* A file whose authors give distinct ids is not refused for the ids that are made up.
MadeUpIdsAreUnique ==
    UnitsAreSound(file) =>
        LET given == SelectSeq(UnitEntries(file), LAMBDA e : "id" \in DOMAIN e.row)
        IN NoDuplicates([n \in DOMAIN given |-> given[n].row.id]) => Units(file) # None
=============================================================================
