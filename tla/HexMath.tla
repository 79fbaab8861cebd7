------------------------------ MODULE HexMath ------------------------------
(***************************************************************************)
(* Hexes of the board and the lines between them: hexes/types.py,          *)
(* hexes/math.py and the shapes of hexes/shapes.py that the rules use.  A  *)
(* hex is its cube coordinates <<i, j, k>>, which sum to zero.  Fractional *)
(* coordinates are integers over a common denominator: the code computes   *)
(* them in floating point, which decides every rounding the same way on    *)
(* the distances this project checks.                                      *)
(***************************************************************************)
EXTENDS Integers, Sequences, FiniteSets, SequencesExt, FiniteSetsExt

CONSTANT None   \* Python's None, and the place of an error the code raises

\* Hex(i, j, k): the constructor recomputes k when the sum is not zero.
Hex(i, j, k) == <<i, j, IF i + j + k # 0 THEN -i - j ELSE k>>

\* The hexes there are, on a board without borders.
HexSet == {h \in Int \X Int \X Int : h[1] + h[2] + h[3] = 0}

Plus(a, b) == Hex(a[1] + b[1], a[2] + b[2], a[3] + b[3])
Minus(a, b) == Hex(a[1] - b[1], a[2] - b[2], a[3] - b[3])

Magnitude(n) == IF n < 0 THEN -n ELSE n

Length(a) == Max({Magnitude(a[1]), Magnitude(a[2]), Magnitude(a[3])})

Distance(a, b) == Length(Minus(b, a))

\* round() of Python for n / d: a half goes to the even neighbour.
RoundHalfEven(n, d) ==
    LET f == n \div d
        twice == 2 * (n % d)
    IN IF twice < d \/ (twice = d /\ f % 2 = 0) THEN f ELSE f + 1

\* Slip: the coordinate that is furthest off is kept as rounded.
KeepsWorstCoordinate(c, d) ==
    LET q == RoundHalfEven(c[1], d)
        r == RoundHalfEven(c[2], d)
    IN Hex(q, r, -q - r)

\* cube_round of c / d: the coordinate that moved furthest is recomputed from
\* the other two.
CubeRound(c, d) ==
    LET q == RoundHalfEven(c[1], d)
        r == RoundHalfEven(c[2], d)
        s == RoundHalfEven(c[3], d)
        qDiff == Magnitude(q * d - c[1])
        rDiff == Magnitude(r * d - c[2])
        sDiff == Magnitude(s * d - c[3])
    IN IF qDiff > rDiff /\ qDiff > sDiff THEN Hex(-r - s, r, s)
       ELSE IF rDiff > sDiff THEN Hex(q, -q - s, s)
       ELSE Hex(q, r, -q - r)

\* The six neighbours in the order of _NEIGHBOR_OFFSETS; a direction is 0..5.
NeighbourOffsets ==
    << <<-1, 0, 1>>, <<-1, 1, 0>>, <<0, -1, 1>>, <<0, 1, -1>>, <<1, -1, 0>>, <<1, 0, -1>> >>

Directions == 0..5

NeighbourHex(a, d) == Plus(a, NeighbourOffsets[1 + (d % 6)])

NeighbourSeq(a) == [n \in 1..6 |-> NeighbourHex(a, n - 1)]

NeighbourSet(a) == Range(NeighbourSeq(a))

\* line: N + 1 evenly spaced points from a to b, each rounded.
LineHex(a, b, n, t) ==
    CubeRound([c \in 1..3 |-> a[c] * n + (b[c] - a[c]) * t], n)

Line(a, b) ==
    LET n == Distance(a, b)
    IN [t \in 1..(n + 1) |-> LineHex(a, b, Max({n, 1}), t - 1)]

\* path: the lines between consecutive waypoints, end to end.
PolylinePath(steps) ==
    FoldLeft(LAMBDA acc, n : acc \o Line(steps[n], steps[n + 1]), <<>>,
             [n \in 1..(Len(steps) - 1) |-> n])

---------------------------------------------------------------------------
(* Shapes *)

Radius(c, r) ==
    {Plus(c, Hex(o[1], o[2], -o[1] - o[2])) :
        o \in {o \in (-r..r) \X (-r..r) : -r <= o[1] + o[2] /\ o[1] + o[2] <= r}}

Ring(c, r) == {h \in Radius(c, r) : Distance(c, h) = r}

Wedge(c, r, d) ==
    {h \in Ring(c, r) : Distance(c, Plus(h, NeighbourHex(c, d))) < r}

FilledWedge(c, r, d) == {c} \cup UNION {Wedge(c, n, d) : n \in 1..r}

\* outer_boundary: the hexes of the region with a neighbour outside it.
OuterBoundary(region) == {h \in region : ~(NeighbourSet(h) \subseteq region)}

---------------------------------------------------------------------------
(* Odd-q offset coordinates <<col, row>> of the scenario files *)

AxialFromOffset(c) ==
    LET i == c[1]
        j == c[2] - ((i - (i % 2)) \div 2)
    IN Hex(i, j, -i - j)

OffsetFromAxial(a) == <<a[1], a[2] + ((a[1] - (a[1] % 2)) \div 2)>>

\* The hexes of a board of the given size, row by row.
GridHexes(columns, rows, originCol, originRow) ==
    [n \in 1..(columns * rows) |->
        AxialFromOffset(<<originCol + ((n - 1) % columns), originRow + ((n - 1) \div columns)>>)]
=============================================================================
