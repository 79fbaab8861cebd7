--------------------------- MODULE BoardGeometry ---------------------------
(***************************************************************************)
(* What the geometry of the board promises to the rules and the editors    *)
(* that call it.  A probe is one input of the library, grown one step at a *)
(* time the way a player drags a pointer, or an author draws a path or     *)
(* paints a region.                                                        *)
(***************************************************************************)
EXTENDS Sight

CONSTANTS
    ProbeArea,      \* hexes the probes range over
    ProbeStarts,    \* hexes a probe starts from
    BlockArea,      \* hexes that may block sight
    MaxBlocks,      \* bound: blocking hexes and edges of a sight probe
    MaxCells        \* bound: cells of a path or a region

ASSUME BoardAssumption ==
    /\ ProbeArea \subseteq HexSet /\ ProbeStarts \subseteq ProbeArea /\ BlockArea \subseteq HexSet
    /\ MaxBlocks \in Nat /\ MaxCells \in Nat \ {0}

VARIABLE probe

SightProbes ==
    [kind: {"sight"}, from: ProbeArea, to: ProbeArea, hexes: SUBSET BlockArea,
     edges: SUBSET InternalEdges(BlockArea)]

PathProbes == [kind: {"path"}, cells: UNION {[1..n -> ProbeArea] : n \in 1..MaxCells}]

RegionProbes == [kind: {"region"}, cells: SUBSET ProbeArea]

ProbeInit ==
    \E h \in ProbeStarts :
        \/ probe = [kind |-> "sight", from |-> h, to |-> h, hexes |-> {}, edges |-> {}]
        \/ probe = [kind |-> "path", cells |-> <<h>>]
        \/ probe = [kind |-> "region", cells |-> {h}]

\* The target of a line of sight moves by one hex.
Drag ==
    /\ probe.kind = "sight"
    /\ \E h \in NeighbourSet(probe.to) \cap ProbeArea : probe' = [probe EXCEPT !.to = h]

Block ==
    /\ probe.kind = "sight"
    /\ Cardinality(probe.hexes) + Cardinality(probe.edges) < MaxBlocks
    /\ \/ \E h \in BlockArea \ probe.hexes :
            probe' = [probe EXCEPT !.hexes = @ \cup {h}]
       \/ \E e \in InternalEdges(BlockArea) \ probe.edges :
            probe' = [probe EXCEPT !.edges = @ \cup {e}]

\* A path goes on to a neighbour and does not turn back at once.
Draw ==
    /\ probe.kind = "path"
    /\ Len(probe.cells) < MaxCells
    /\ \E h \in NeighbourSet(Last(probe.cells)) \cap ProbeArea :
        /\ Len(probe.cells) > 1 => h # probe.cells[Len(probe.cells) - 1]
        /\ probe' = [probe EXCEPT !.cells = Append(@, h)]

\* A region is painted hex by hex and stays connected.
Paint ==
    /\ probe.kind = "region"
    /\ Cardinality(probe.cells) < MaxCells
    /\ \E h \in ((UNION {NeighbourSet(g) : g \in probe.cells}) \cap ProbeArea) \ probe.cells :
        probe' = [probe EXCEPT !.cells = @ \cup {h}]

ProbeNext == Drag \/ Block \/ Draw \/ Paint

ProbeSpec == ProbeInit /\ [][ProbeNext]_probe

---------------------------------------------------------------------------

Steps(p) == {<<p[n], p[n + 1]>> : n \in 1..(Len(p) - 1)}

\* Every line and every ray is a chain of neighbours from one end to the other,
\* although each of its hexes is rounded on its own from a floating point; a ray
\* that skipped a hex would look through it, and fire past an edge.
RaysAreUnbroken ==
    probe.kind = "sight" =>
        \A ray \in Rays(probe.from, probe.to) \cup {Line(probe.from, probe.to)} :
            /\ ray[1] = probe.from /\ Last(ray) = probe.to
            /\ \A s \in Steps(ray) : Adjacent(s[1], s[2])

\* Who sees whom is mutual, whatever blocks the view: the two rays are rounded from
\* the other end when the defender shoots back.  The hex the attack preview marks as
\* the obstacle exists exactly when the server's rule refuses the shot.
SightIsMutual ==
    probe.kind = "sight" =>
        LET Seen(a, b) == HasLineOfSight(a, b, probe.hexes, probe.edges)
            obstacle == FirstBlockingHex(probe.from, probe.to, probe.hexes, probe.edges)
        IN /\ Seen(probe.from, probe.to) = Seen(probe.to, probe.from)
           /\ obstacle # None =>
                \/ obstacle \in probe.hexes
                \/ \E e \in probe.edges : obstacle \in Range(e)

\* The edges a map feature gets from its path, joined by detours at turns or by a shorter
\* walk around the hexes of the path, are one unbroken line of the grid from the first
\* edge of the path to its last and keep to its hexes, each drawn between the two hexes it
\* separates; the drawn corners follow exactly these edges, and the path of hexes can be
\* read back from its own edges.
PathsAreUnbroken ==
    (probe.kind = "path" /\ Len(probe.cells) > 1) =>
        LET spine == EdgesAlong(probe.cells)
            keys == EdgeWalk(probe.cells)
        IN /\ keys[1] = spine[1] /\ Last(keys) = Last(spine)
           /\ \A e \in Range(keys) : Range(Ends(e)) = Corners(e[1]) \cap Corners(e[2])
           /\ Range(keys) \subseteq IncidentEdges(Range(probe.cells))
           /\ \A s \in Steps(keys) : ShareCorner(s[1], s[2])
           /\ \A s \in Steps(Polyline(keys)) : \E e \in Range(keys) : Range(Ends(e)) = {s[1], s[2]}
           /\ Len(spine) > 1 => HexChain(spine) = probe.cells

\* An outline that is not closed has its ends apart: the perimeter of a simply
\* connected region is one closed loop.
OutlineCloses ==
    probe.kind = "region" =>
        LET walk == PerimeterPath(probe.cells)
        IN walk # None /\ walk[1] # Last(walk) /\ Len(walk) > 2 => ~Adjacent(walk[1], Last(walk))

\* The outline of a connected region passes through every hex of its boundary, from
\* neighbour to neighbour, and through none twice but the first of a closed outline.
OutlineIsWhole ==
    probe.kind = "region" =>
        LET walk == PerimeterPath(probe.cells)
        IN walk # None =>
            /\ Range(walk) = OuterBoundary(probe.cells)
            /\ \A s \in Steps(walk) : Adjacent(s[1], s[2])
            /\ Len(walk) \in {Cardinality(Range(walk)), Cardinality(Range(walk)) + 1}
            /\ Len(walk) > Cardinality(Range(walk)) => walk[1] = Last(walk)
=============================================================================
