------------------------------- MODULE Sight -------------------------------
(***************************************************************************)
(* Lines of sight: hexes/los.py, which the rules and the attack preview    *)
(* use, with the edge features of state/map_feature_queries.py, and the    *)
(* older straight-line rule of state/logic.py.                             *)
(*                                                                         *)
(* A line that runs exactly between hexes is resolved by two rays, moved a *)
(* little to either side.  In cube coordinates the direction across        *)
(* (di, dj) is (-(di + 2 dj), 2 di + dj), so the offset is an integer      *)
(* vector over a denominator large enough not to reach the next rounding.  *)
(***************************************************************************)
EXTENDS EdgePaths

\* eps: an offset of a millionth, here of the step along the line.
OffsetScale == 1000000

Across(a, b) ==
    LET di == b[1] - a[1]
        dj == b[2] - a[2]
    IN Hex(-(di + 2 * dj), 2 * di + dj, dj - di)

\* _ray_hexes: the hexes of the line moved to the side of sign +1 or -1.
RayHexes(a, b, sign) ==
    LET n == Distance(a, b)
        side == Across(a, b)
        Point(t) == [c \in 1..3 |->
                        (a[c] * n + (b[c] - a[c]) * t) * OffsetScale + sign * side[c]]
    IN IF n = 0 THEN <<a>>
       ELSE Dedupe([t \in 1..(n + 1) |-> CubeRound(Point(t - 1), n * OffsetScale)])

\* Slip: one ray only, the line is moved to the left.
LeftRays(a, b) == {RayHexes(a, b, 1)}

Rays(a, b) == {RayHexes(a, b, 1), RayHexes(a, b, -1)}

\* The hexes between the ends of a ray, and the edges it crosses; pred of
\* edges_block_los_predicate walks a step that is not to a neighbour as a line.
Between(ray) == {ray[n] : n \in 2..(Len(ray) - 1)}

Crossed(ray) ==
    LET cells == IF Len(ray) < 2 THEN ray ELSE Dedupe(PolylinePath(ray))
    IN Range(EdgesAlong(cells))

\* _ray_path_clear, for a board's blocking hexes and edges.
RayClear(ray, hexes, edges) == Between(ray) \cap hexes = {} /\ Crossed(ray) \cap edges = {}

\* los.has_line_of_sight.
HasLineOfSight(a, b, hexes, edges) ==
    a = b \/ \E ray \in Rays(a, b) : RayClear(ray, hexes, edges)

\* _first_block_on_ray_path: hexes first, then the far side of an edge.
FirstBlock(ray, hexes, edges) ==
    LET cells == Dedupe(PolylinePath(ray))
        inside == {n \in 2..(Len(ray) - 1) : ray[n] \in hexes}
        past == {n \in 1..(Len(cells) - 1) : EdgeKey(cells[n], cells[n + 1]) \in edges}
    IN IF inside # {} THEN ray[Min(inside)] ELSE cells[Min(past) + 1]

\* los.first_blocking_hex: the nearer of the two rays' first blocks.
FirstBlockingHex(a, b, hexes, edges) ==
    IF HasLineOfSight(a, b, hexes, edges) THEN None
    ELSE LET hits == {FirstBlock(ray, hexes, edges) : ray \in Rays(a, b)}
             near == Min({Distance(a, h) : h \in hits})
         IN LeastHex({h \in hits : Distance(a, h) = near})

\* logic.has_line_of_sight: the cells of one line.
HasStraightSight(a, b, hexes, edges) == RayClear(Line(a, b), hexes, edges)

VisibleInCone(origin, r, d, hexes, edges) ==
    {h \in FilledWedge(origin, r, d) : HasStraightSight(origin, h, hexes, edges)}
=============================================================================
