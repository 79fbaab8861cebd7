---------------------------- MODULE MoveSearch ----------------------------
(***************************************************************************)
(* The search for legal moves: compute_reachable_hexes and                 *)
(* shortest_move_path of state/logic.py, one pop of the heap per step.     *)
(*                                                                         *)
(* The board of a search is a record: the cost of each step between        *)
(* neighbours (a step that is missing is impassable), the hexes that stop  *)
(* a move on entry, the hexes that are closed to it and the hexes whose    *)
(* occupants keep it out.  Both functions run the same loop; the second    *)
(* also keeps the hex from which each hex was reached.                     *)
(***************************************************************************)
EXTENDS HexMath

CONSTANT Places     \* hexes of the board; None is the predecessor of the start

VARIABLES
    board,      \* the input: see Boards
    costs,      \* cheapest known cost of each hex reached
    came_from,  \* the hex it was reached from at that cost
    heap        \* entries <<cost, hex>> still to expand

vars == <<board, costs, came_from, heap>>

ASSUME PlacesAssumption == None \notin Places /\ IsFiniteSet(Places)

\* A step's cost counts terrain and the title's step_cost hook.
Boards ==
    [start: Places, budget: Nat, steps: SUBSET (Places \X Places),
     cost: [Places \X Places -> Nat], zoc: SUBSET Places, blocked: SUBSET Places,
     closed: SUBSET Places]

\* A hex the search does not go on from.
Stops(h) == h # board.start /\ h \in board.blocked \cup board.zoc

\* The neighbours that may be entered from h at all.
Entries(h) ==
    {n \in Places :
        /\ <<h, n>> \in board.steps
        /\ n \in board.blocked => n = board.start
        /\ n \notin board.closed}

Init ==
    /\ costs = [h \in {board.start} |-> 0]
    /\ came_from = [h \in {board.start} |-> None]
    /\ heap = {<<0, board.start>>}

\* heappop: an entry of least cost; the code breaks ties by insertion.
IsLeast(e) == e \in heap /\ \A f \in heap : e[1] <= f[1]

\* Slip: a hex keeps the first cost it was reached at.
FirstFound(c, h) ==
    {n \in Entries(h) : c + board.cost[<<h, n>>] <= board.budget /\ n \notin DOMAIN costs}

\* Neighbours of h that are reached for the first time, or more cheaply.
Improved(c, h) ==
    {n \in Entries(h) :
        /\ c + board.cost[<<h, n>>] <= board.budget
        /\ n \in DOMAIN costs => c + board.cost[<<h, n>>] < costs[n]}

\* An entry that is out of date, or of a hex that ends the move, is dropped.
Discard(e) ==
    /\ IsLeast(e)
    /\ e[1] > costs[e[2]] \/ Stops(e[2])
    /\ heap' = heap \ {e}
    /\ UNCHANGED <<board, costs, came_from>>

Expand(e) ==
    /\ IsLeast(e)
    /\ e[1] <= costs[e[2]]
    /\ ~Stops(e[2])
    /\ LET better == Improved(e[1], e[2])
           New(n) == e[1] + board.cost[<<e[2], n>>]
       IN /\ costs' = [n \in DOMAIN costs \cup better |->
                          IF n \in better THEN New(n) ELSE costs[n]]
          /\ came_from' = [n \in DOMAIN costs \cup better |->
                              IF n \in better THEN e[2] ELSE came_from[n]]
          /\ heap' = (heap \ {e}) \cup {<<New(n), n>> : n \in better}
    /\ UNCHANGED board

Next == \E e \in heap : Discard(e) \/ Expand(e)

Finished == heap = {}

Spec == board \in Boards /\ Init /\ [][Next]_vars

---------------------------------------------------------------------------
(* Reference: the legal paths of the board from its start *)

Extensions(p) ==
    IF Stops(Last(p)) THEN {} ELSE {Append(p, n) : n \in Entries(Last(p)) \ Range(p)}

LegalPaths ==
    FoldLeft(LAMBDA paths, n : paths \cup UNION {Extensions(p) : p \in paths},
             {<<board.start>>}, [n \in 1..(Cardinality(Places) - 1) |-> n])

PathCost(p) ==
    FoldLeft(LAMBDA c, n : c + board.cost[<<p[n], p[n + 1]>>], 0, [n \in 1..(Len(p) - 1) |-> n])

Affordable(h) == {p \in LegalPaths : Last(p) = h /\ PathCost(p) <= board.budget}

\* The hexes the search reports are those some legal path within the budget leads to,
\* each at the cost of a cheapest such path.  The loop never looks back: a hex is priced
\* from whatever the heap offered first, and stops, closed hexes and the budget cut the
\* search in different places.
CostsAreCheapest ==
    Finished =>
        /\ DOMAIN costs = {h \in Places : Affordable(h) # {}}
        /\ \A h \in DOMAIN costs : costs[h] = Min({PathCost(p) : p \in Affordable(h)})

\* When the search ends no legal step leads to a hex more cheaply than reported, and
\* every hex but the start was reached by a legal step from its predecessor, at exactly
\* the predecessor's cost and the step's: walking back pays what was promised.
NoStepImproves ==
    Finished =>
        /\ \A h \in DOMAIN costs : ~Stops(h) =>
             \A n \in Entries(h) : costs[h] + board.cost[<<h, n>>] <= board.budget =>
                n \in DOMAIN costs /\ costs[n] <= costs[h] + board.cost[<<h, n>>]
        /\ \A n \in DOMAIN costs \ {board.start} :
             LET p == came_from[n]
             IN /\ p \in DOMAIN costs /\ ~Stops(p) /\ n \in Entries(p)
                /\ costs[n] = costs[p] + board.cost[<<p, n>>]
=============================================================================
