----------------------------- MODULE EdgePaths -----------------------------
(***************************************************************************)
(* Paths on the board's grid: edges between hexes (hexes/edges.py), the    *)
(* corners they meet in (hexes/vertices.py, map/layout.py) and outlines of *)
(* regions (hexes/centerline.py).  A corner is a pair of integers in units *)
(* of half a hex side and half a hex height, which is what the code's      *)
(* quantized pixels tell apart.                                            *)
(***************************************************************************)
EXTENDS HexMath

HexLess(a, b) ==
    \/ a[1] < b[1]
    \/ a[1] = b[1] /\ a[2] < b[2]

\* EdgeKey: the two hexes of an edge, the lower one first.
EdgeKey(a, b) == IF HexLess(b, a) THEN <<b, a>> ELSE <<a, b>>

Adjacent(a, b) == Distance(a, b) = 1

DirectionToward(a, b) == CHOOSE d \in Directions : NeighbourHex(a, d) = b

IncidentEdges(hexes) ==
    {EdgeKey(e[1], e[2]) : e \in UNION {{h} \X NeighbourSet(h) : h \in hexes}}

InternalEdges(hexes) == {e \in IncidentEdges(hexes) : {e[1], e[2]} \subseteq hexes}

ExteriorEdges(hexes) == IncidentEdges(hexes) \ InternalEdges(hexes)

---------------------------------------------------------------------------
(* Corners *)

\* hex_corners: the corner n * 60 degrees from the x axis, n in 0..5.
CornerOffsets == << <<2, 0>>, <<1, 1>>, <<-1, 1>>, <<-2, 0>>, <<-1, -1>>, <<1, -1>> >>

Corner(h, n) ==
    LET o == CornerOffsets[1 + (n % 6)]
    IN <<3 * h[1] + o[1], 2 * h[2] + h[1] + o[2]>>

Corners(h) == {Corner(h, n) : n \in 0..5}

\* _NEIGHBOR_DIR_TO_EDGE: which side of a hex faces the neighbour in a direction.
SideOfDirection == <<3, 2, 4, 1, 5, 0>>

\* Slip: sides are numbered like directions.
SideIsDirection(e) ==
    LET d == DirectionToward(e[1], e[2]) IN <<Corner(e[1], d), Corner(e[1], d + 1)>>

\* shared_edge_side_midpoint: the two corners of the edge, seen from its lower hex.
Ends(e) ==
    LET side == SideOfDirection[1 + DirectionToward(e[1], e[2])]
    IN <<Corner(e[1], side), Corner(e[1], side + 1)>>

ShareCorner(e, f) == Range(Ends(e)) \cap Range(Ends(f)) # {}

PixelDistance(v, w) == (v[1] - w[1]) * (v[1] - w[1]) + 3 * (v[2] - w[2]) * (v[2] - w[2])

---------------------------------------------------------------------------
(* Paths of edges *)

EdgesAlong(cells) == [n \in 1..(Len(cells) - 1) |-> EdgeKey(cells[n], cells[n + 1])]

Dedupe(s) ==
    FoldLeft(LAMBDA acc, x : IF acc # <<>> /\ Last(acc) = x THEN acc ELSE Append(acc, x), <<>>, s)

\* edge_keys_for_shape_path with expand: None when the waypoints are one cell.
EdgesOfPolyline(steps) ==
    LET cells == Dedupe(PolylinePath(steps))
    IN IF Len(cells) < 2 THEN None ELSE EdgesAlong(cells)

\* hex_chain_from_ordered_edge_keys: None where the code refuses the keys.
HexChain(keys) ==
    IF Len(keys) = 1 THEN keys[1]
    ELSE LET common == Range(keys[1]) \cap Range(keys[2])
         IN IF Cardinality(common) # 1 THEN None
            ELSE LET second == CHOOSE h \in common : TRUE
                     first == CHOOSE h \in Range(keys[1]) : h # second
                 IN FoldLeft(LAMBDA acc, n : Append(acc,
                                IF keys[n][1] = Last(acc) THEN keys[n][2] ELSE keys[n][1]),
                             <<first, second>>, [n \in 1..(Len(keys) - 1) |-> n + 1])

\* shortest_edge_key_path_within_vertex_bfs: breadth first over edges that meet.
\* The parents of the edges reached so far, one layer of the search at a time.
BfsLayer(allowed, parents) ==
    LET reached == DOMAIN parents
        fresh == {e \in allowed \ reached : \E p \in reached : ShareCorner(e, p)}
        frontier == {p \in reached : \E e \in fresh : ShareCorner(e, p)}
    IN [e \in reached \cup fresh |->
            IF e \in reached THEN parents[e]
            ELSE CHOOSE p \in frontier : ShareCorner(e, p)]

EdgeSearch(allowed, start) ==
    FoldLeft(LAMBDA parents, n : BfsLayer(allowed, parents),
             [e \in {start} |-> None], [n \in 1..Cardinality(allowed) |-> n])

\* The path from start, read off the parents from the goal backwards.
Unwind(parents, goal) ==
    Reverse(FoldLeft(LAMBDA acc, n : IF parents[Last(acc)] = None THEN acc
                                     ELSE Append(acc, parents[Last(acc)]),
                     <<goal>>, [n \in 1..Cardinality(DOMAIN parents) |-> n]))

ShortestEdgePath(allowed, start, goal) ==
    IF ~({start, goal} \subseteq allowed) THEN None
    ELSE LET parents == EdgeSearch(allowed, start)
         IN IF goal \in DOMAIN parents THEN Unwind(parents, goal) ELSE None

\* Slip: the detour at a turn is left out.
StitchWithoutDetour(spine) == Dedupe(spine)

\* stitch_vertex_adjacent_edges_along_spine: where two consecutive edges do not
\* meet, walk around the hex they turn on, first without other edges of the spine.
Detour(spine, a, b) ==
    LET turn == CHOOSE h \in Range(a) \cap Range(b) : TRUE
        local == IncidentEdges({turn})
        clear == ShortestEdgePath(local \ (Range(spine) \ {a, b}), a, b)
    IN IF clear # None THEN clear ELSE ShortestEdgePath(local, a, b)

Stitch(spine) ==
    Dedupe(FoldLeft(LAMBDA acc, n :
                        LET a == spine[n]
                            b == spine[n + 1]
                        IN IF ShareCorner(a, b) THEN Append(acc, b)
                           ELSE acc \o Tail(Detour(spine, a, b)),
                    <<spine[1]>>, [n \in 1..(Len(spine) - 1) |-> n]))

---------------------------------------------------------------------------
(* Walks along the borders of a corridor of hexes, corner by corner *)

\* Corners and edges in the order of their coordinates.
CornerLess(v, w) ==
    \/ v[1] < w[1]
    \/ v[1] = w[1] /\ v[2] < w[2]

EdgeLess(e, f) == HexLess(e[1], f[1]) \/ (e[1] = f[1] /\ HexLess(e[2], f[2]))

InOrder(vs) == SetToSortSeq(vs, CornerLess)

\* _vertex_graph_from_allowed: the corners one edge away from each corner.
CornerGraph(allowed) ==
    LET sides == {Range(Ends(e)) : e \in allowed}
    IN [v \in UNION sides |-> UNION {s \in sides : v \in s} \ {v}]

\* The search takes a corner from its queue: those beside it that were not reached yet
\* join the queue.  Nothing leads back to the corner it comes from.
Visit(search, n, graph, from) ==
    IF n > Len(search.queue) THEN search
    ELSE LET v == search.queue[n]
             fresh == graph[v] \ ({from} \cup DOMAIN search.parent)
         IN [queue |-> search.queue \o InOrder(fresh),
             parent |-> [w \in fresh |-> v] @@ search.parent]

\* The corner from which each corner is reached.
CornerSearch(graph, from, seed) ==
    FoldLeft(LAMBDA search, n : Visit(search, n, graph, from),
             [queue |-> <<seed>>, parent |-> [w \in {seed} |-> from]],
             [n \in 1..Cardinality(DOMAIN graph) |-> n]).parent

\* The corners from the far end of the start edge to g.
CornerTrail(parent, g) ==
    Reverse(FoldLeft(LAMBDA acc, n : IF Last(acc) \in DOMAIN parent
                                     THEN Append(acc, parent[Last(acc)]) ELSE acc,
                     <<g>>, [n \in 1..Cardinality(DOMAIN parent) |-> n]))

\* The edges between the corners of a trail.
EdgesCrossed(allowed, trail) ==
    [n \in 1..(Len(trail) - 1) |->
        CHOOSE e \in allowed : Range(Ends(e)) = {trail[n], trail[n + 1]}]

\* The corners of an edge that are reached by crossing it.
CrossedTo(edge, parent) ==
    {g \in Range(Ends(edge)) \cap DOMAIN parent : Range(Ends(edge)) = {g, parent[g]}}

\* _vertex_bfs_directed_start: the walks that end by crossing the goal edge.
WalksTo(allowed, goal, parent) ==
    {EdgesCrossed(allowed, CornerTrail(parent, g)) : g \in CrossedTo(goal, parent)}

\* Those that cross the start edge from one of its ends to the other.
DirectedWalks(allowed, goal, from, seed) ==
    WalksTo(allowed, goal, CornerSearch(CornerGraph(allowed), from, seed))

WalkBefore(p, q) ==
    \/ Len(p) < Len(q)
    \/ /\ Len(p) = Len(q)
       /\ \E n \in DOMAIN p : EdgeLess(p[n], q[n]) /\ \A m \in 1..(n - 1) : p[m] = q[m]

FirstWalk(walks) ==
    IF walks = {} THEN None ELSE CHOOSE w \in walks : \A v \in walks \ {w} : WalkBefore(w, v)

\* shortest_edge_key_path_hex_corridor_vertex_space.
CorridorWalk(cells, start, goal) ==
    LET allowed == IncidentEdges(Range(cells))
        a == Ends(start)[1]
        b == Ends(start)[2]
    IN IF ~({start, goal} \subseteq allowed) THEN None
       ELSE IF start = goal THEN <<start>>
       ELSE FirstWalk(DirectedWalks(allowed, goal, a, b) \cup DirectedWalks(allowed, goal, b, a))

\* Corridors longer than this are not searched corner by corner.
MaxEdgeVertexPathHexes == 36

\* Slip: the spine is used as it is when there is no shorter walk.
SpineOrWalk(cells) == EdgesAlong(cells)

\* A walk is taken instead of a stitched spine when it is no longer.
Preferred(walk, stitched) ==
    IF walk # None /\ Len(walk) <= Len(stitched) THEN walk ELSE stitched

\* With detours in it a spine is compared with a walk along the borders of the path's hexes.
Shortened(cells, spine, stitched) ==
    IF Len(stitched) > Len(spine) /\ Len(cells) <= MaxEdgeVertexPathHexes
    THEN Preferred(CorridorWalk(cells, spine[1], Last(spine)), stitched)
    ELSE stitched

EdgeWalk(cells) == Shortened(cells, EdgesAlong(cells), Stitch(EdgesAlong(cells)))

---------------------------------------------------------------------------
(* polyline_vertices_for_vertex_adjacent_edge_keys: the corners drawn *)

\* The first edge is drawn towards the edge after it.
FirstStroke(keys) ==
    LET ends == Ends(keys[1])
        Nearest(v) == Min({PixelDistance(v, w) : w \in Range(Ends(keys[2]))})
    IN IF Len(keys) = 1 \/ Nearest(ends[2]) <= Nearest(ends[1]) THEN ends
       ELSE <<ends[2], ends[1]>>

AppendPoint(out, v) == IF out # <<>> /\ Last(out) = v THEN out ELSE Append(out, v)

\* A corner on both edges comes before the rest of the edge.
Stroke(out, prev, e) ==
    LET ends == Ends(e)
        shared == Range(Ends(prev)) \cap Range(ends)
        from == IF shared = {} THEN out ELSE AppendPoint(out, CHOOSE v \in shared : TRUE)
        last == Last(from)
    IN IF last = ends[1] THEN AppendPoint(from, ends[2])
       ELSE IF last = ends[2] THEN AppendPoint(from, ends[1])
       ELSE IF PixelDistance(last, ends[1]) <= PixelDistance(last, ends[2])
            THEN AppendPoint(AppendPoint(from, ends[1]), ends[2])
       ELSE AppendPoint(AppendPoint(from, ends[2]), ends[1])

Polyline(keys) ==
    FoldLeft(LAMBDA out, n : Stroke(out, keys[n - 1], keys[n]), FirstStroke(keys),
             [n \in 1..(Len(keys) - 1) |-> n + 1])

---------------------------------------------------------------------------
(* Outlines of regions *)

\* silhouette_edge: the step from a to b runs along the outside of the region.
SilhouetteStep(a, b, region) ==
    LET inside == NeighbourSet(a) \cap NeighbourSet(b) \cap region
    IN CASE Cardinality(inside) = 2 -> FALSE
         [] inside = {} -> TRUE
         [] OTHER -> \A c \in inside : Minus(Plus(b, c), a) \notin region

\* _boundary_silhouette_adjacency.
OutlineNeighbours(region) ==
    [h \in OuterBoundary(region) |->
        {n \in NeighbourSet(h) \cap OuterBoundary(region) :
            SilhouetteStep(h, n, region) \/ SilhouetteStep(n, h, region)}]

LeastHex(hexes) == CHOOSE h \in hexes : \A g \in hexes \ {h} : HexLess(h, g)

\* Slip: the walk may turn back.
WalkBack(adj, walk) ==
    IF adj[Last(walk)] = {} THEN walk ELSE Append(walk, LeastHex(adj[Last(walk)]))

\* One step of _walk_closed_perimeter and _walk_open_perimeter.
WalkOn(adj, walk) ==
    LET previous == IF Len(walk) > 1 THEN {walk[Len(walk) - 1]} ELSE {}
        ahead == adj[Last(walk)] \ previous
    IN IF ahead = {} \/ (Len(walk) > 1 /\ Last(walk) = walk[1]) THEN walk
       ELSE Append(walk, LeastHex(ahead))

Walk(adj, start) ==
    FoldLeft(LAMBDA walk, n : WalkOn(adj, walk), <<start>>,
             [n \in 1..Cardinality(DOMAIN adj) |-> n])

\* perimeter_hex_path: None where the code raises ValueError.
PerimeterPath(region) ==
    LET adj == OutlineNeighbours(region)
        boundary == DOMAIN adj
        Degree(n) == {h \in boundary : Cardinality(adj[h]) = n}
    IN IF Cardinality(boundary) < 2 THEN None
       ELSE IF Degree(2) = boundary THEN Walk(adj, LeastHex(boundary))
       ELSE IF Cardinality(Degree(1)) = 2 /\ Degree(1) \cup Degree(2) = boundary
            THEN Walk(adj, LeastHex(Degree(1)))
       ELSE None

\* consecutive_step_on_path.
StepOnPath(path, a, b) ==
    \E n \in 1..(Len(path) - 1) : {path[n], path[n + 1]} = {a, b} /\ a # b
=============================================================================
