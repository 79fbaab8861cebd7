--------------------------- MODULE MovementRules ---------------------------
(***************************************************************************)
(* Which moves are legal: the reachability rules of state/logic.py and the *)
(* checks of GameServer._validate_move_unit_request, over a given graph of *)
(* hexes.  A reachable hex is the end of a path every step of which may    *)
(* leave its hex (stop on entering a zone of control) and enter the next   *)
(* (terrain, budget, occupation).  The code finds cheapest paths with      *)
(* Dijkstra's algorithm; here they are a minimum over the simple paths.    *)
(***************************************************************************)
EXTENDS ActionHistory

CONSTANTS
    Neighbours,     \* passable neighbours of each hex
    StepCosts,      \* cost of a step, terrain and the title's step hook included
    Budgets,        \* the title's movement budget of each unit
    ZocOn,          \* does the title's zoc hook return adjacent_enemy_zoc_hexes
    MaxStack        \* max_active_units_per_hex, or None

ASSUME GraphAssumption ==
    /\ IsFiniteSet(Hexes)
    /\ Neighbours \in [Hexes -> SUBSET Hexes]
    /\ StepCosts \in [Hexes -> [Hexes -> Nat \ {0}]]
    /\ Budgets \in [Units -> Nat]
    /\ ZocOn \in BOOLEAN
    /\ MaxStack \in Nat \ {0} \/ MaxStack = None

\* Hexes next to an active enemy of the unit.
Zoc(s, u) ==
    IF ~ZocOn THEN {}
    ELSE UNION {Neighbours[s.units[w].position] :
                w \in {x \in Units : ActiveIn(s, x) /\ s.units[x].faction # s.units[u].faction}}

MayEnter(s, u, h) ==
    \/ ActiveAt(s, h) = {}
    \/ MaxStack # None /\ \A w \in ActiveAt(s, h) : s.units[w].faction = s.units[u].faction

\* The stacking limit counts where a move ends, not what it passes through.
MayEnd(s, h) == MaxStack # None => Cardinality(ActiveAt(s, h)) < MaxStack

PathCost(p) ==
    FoldLeft(LAMBDA c, i : c + StepCosts[p[i]][p[i + 1]], 0, [i \in 1..(Len(p) - 1) |-> i])

\* No path is continued from a hex of `zoc` or enters one of `blocked`.
Longer(s, u, budget, zoc, blocked, paths) ==
    {p \in UNION {{Append(q, h) : h \in Neighbours[Last(q)] \ Range(q)} : q \in paths} :
        /\ Len(p) > 2 => p[Len(p) - 1] \notin zoc
        /\ Last(p) \notin blocked
        /\ MayEnter(s, u, Last(p))
        /\ PathCost(p) <= budget}

\* All simple paths of the unit within the budget, from the path of one hex on.
PathsUnder(s, u, budget, zoc, blocked) ==
    FoldLeft(LAMBDA paths, n :
                paths \cup Longer(s, u, budget, zoc, blocked, {p \in paths : Len(p) = n}),
             {<<s.units[u].position>>}, [n \in 1..(Cardinality(Hexes) - 1) |-> n])

Paths(s, u, budget) == PathsUnder(s, u, budget, Zoc(s, u), {})

\* compute_valid_moves and is_valid_move: a unit may always stay where it is.
EndsOf(s, u, paths) ==
    {h \in {Last(p) : p \in paths} : h = s.units[u].position \/ MayEnd(s, h)}

ValidMoves(s, u, budget) ==
    IF ActiveIn(s, u) THEN EndsOf(s, u, Paths(s, u, budget)) ELSE {}

IsValidMove(s, u, h, budget) == h \in ValidMoves(s, u, budget)

\* shortest_move_path; the code breaks ties by the order in which it finds paths.
Cheapest(paths) ==
    IF paths = {} THEN None
    ELSE CHOOSE p \in paths : \A q \in paths : PathCost(p) <= PathCost(q)

ShortestPath(s, u, to, budget) ==
    IF ~ActiveIn(s, u) \/ (~MayEnd(s, to) /\ to # s.units[u].position) THEN None
    ELSE Cheapest({p \in Paths(s, u, budget) : Last(p) = to})

PhaseAllowsUnitMove(phase) == phase \in {"Movement", "Move"}

\* _validate_move_unit_request for a move that fulfils no retreat.
ValidMoveRequest(s, faction, u, from, to) ==
    /\ from # to
    /\ ActiveIn(s, u)
    /\ s.units[u].faction = faction
    /\ s.units[u].position = from
    /\ PhaseAllowsUnitMove(s.turn.current_phase)
    /\ \A w \in ActiveAt(s, to) \ {u} : s.units[w].faction = faction
    /\ MayEnd(s, to)
    /\ IsValidMove(s, u, to, Budgets[u])
=============================================================================
