----------------------------- MODULE RetreatPath -----------------------------
(***************************************************************************)
(* Mandatory retreats: where they may go (retreat_path.py, the retreat     *)
(* half of GameServer._validate_move_unit_request, the stack check of      *)
(* authority_combat_cleanup.py).  Server and client share retreat_path.py: *)
(* the server refuses a path with validate_retreat_path, the client draws  *)
(* one hex by hex with legal_next_retreat_path_hexes.                      *)
(*                                                                         *)
(* `owed` is the number of hexes the unit must retreat, which is also its  *)
(* budget.                                                                 *)
(***************************************************************************)
EXTENDS MovementRules

CONSTANT Apart       \* cube distance of hexes

ASSUME ApartAssumption == Apart \in [Hexes -> [Hexes -> Nat]]

NextTo(s, units) == UNION {Neighbours[s.units[w].position] : w \in units}

Allies(s, u) == {w \in Units \ {u} : ActiveIn(s, w) /\ s.units[w].faction = s.units[u].faction}
Enemies(s, u) == {w \in Units : ActiveIn(s, w) /\ s.units[w].faction # s.units[u].faction}

\* retreat_impassable_enemy_zoc_hexes: friends next to a hex cover the retreat.
RetreatBlocked(s, u) == NextTo(s, Enemies(s, u)) \ NextTo(s, Allies(s, u))

RetreatPaths(s, u, owed) == PathsUnder(s, u, owed, {}, RetreatBlocked(s, u))

-----------------------------------------------------------------------------
(* What the server checks. *)

\* _validate_move_unit_request for a retreat: all but the last conjunct.
MayRetreatTo(s, f, u, from, to, owed) ==
    /\ from # to
    /\ ActiveIn(s, u) /\ s.units[u].faction = f /\ s.units[u].position = from
    /\ owed > 0
    /\ Apart[from][to] = owed
    /\ \A w \in ActiveAt(s, to) \ {u} : s.units[w].faction = f
    /\ MayEnd(s, to)

ValidRetreat(s, f, u, from, to, owed) ==
    /\ MayRetreatTo(s, f, u, from, to, owed)
    /\ to \in EndsOf(s, u, RetreatPaths(s, u, owed))

\* validate_retreat_fulfillment_stack for the units of `stack`, each owing its own number.
StackMayRetreat(s, f, stack, from, to, owed) ==
    /\ \A w \in stack : ValidRetreat(s, f, w, from, to, owed[w])
    /\ MaxStack # None => Cardinality(ActiveAt(s, to)) + Cardinality(stack) <= MaxStack

\* validate_retreat_path: of the hexes between, only that they are adjacent.
ValidRetreatPath(s, f, u, path, owed) ==
    /\ Len(path) >= 2
    /\ path[1] = s.units[u].position
    /\ \/ Len(path) = 2
       \/ /\ Len(path) - 1 = owed
          /\ \A n \in 1..(Len(path) - 1) : Apart[path[n]][path[n + 1]] = 1
    /\ ValidRetreat(s, f, u, path[1], Last(path), owed)

-----------------------------------------------------------------------------
(* What the client offers. *)

\* compute_retreat_path_highlight_sets
RetreatThrough(s, u, owed) ==
    {h \in {Last(p) : p \in RetreatPaths(s, u, owed)} \ {s.units[u].position} :
        /\ \A w \in ActiveAt(s, h) : s.units[w].faction = s.units[u].faction
        /\ MayEnd(s, h)}

RetreatEnds(s, u, owed) ==
    {h \in RetreatThrough(s, u, owed) : Apart[s.units[u].position][h] = owed}

\* can_complete_retreat_in_steps: by distance alone.
NearEnough(away, owed, steps) ==
    IF steps = 0 THEN away = owed
    ELSE /\ owed <= away + steps
         /\ away <= owed + steps /\ steps <= owed + away

\* _can_complete_retreat_with_budget: walks of exactly so many steps, whoever is there.
Walks(start, steps) ==
    FoldLeft(LAMBDA reached, n :
                UNION {{<<h, w[2] + StepCosts[w[1]][h]>> : h \in Neighbours[w[1]]} : w \in reached},
             {<<start, 0>>}, [n \in 1..steps |-> n])

CanStillEnd(from, steps, budget, ends) ==
    \E w \in Walks(from, steps) : w[2] <= budget /\ w[1] \in ends

\* A next hex from which the draft can still be completed.
Completable(path, h, owed, offered) ==
    LET steps == owed - Len(path)
        left == owed - PathCost(Append(path, h))
    IN  /\ left >= 0
        /\ h \in offered.through
        /\ NearEnough(Apart[path[1]][h], owed, steps)
        /\ CanStillEnd(h, steps, left, offered.ends)

Offered(s, u, owed) ==
    [through |-> RetreatThrough(s, u, owed), ends |-> RetreatEnds(s, u, owed)]

\* legal_next_retreat_path_hexes, of a draft that starts where the unit stands.
LegalNext(path, owed, offered) ==
    LET fresh == Neighbours[Last(path)] \ Range(path)
    IN  CASE owed = 0 \/ Len(path) > owed -> {}
          [] Len(path) = 1 ->
                offered.ends \cup {h \in fresh : Completable(path, h, owed, offered)}
          [] Len(path) > 1 /\ Len(path) = owed ->
                {h \in fresh \cap offered.ends : PathCost(Append(path, h)) <= owed}
          [] OTHER ->
                {h \in fresh : /\ Apart[path[1]][h] # owed
                               /\ Completable(path, h, owed, offered)}

LegalNextRetreatPathHexes(s, u, path, owed) ==
    IF ActiveIn(s, u) /\ path[1] = s.units[u].position
    THEN LegalNext(path, owed, Offered(s, u, owed)) ELSE {}

IsComplete(path, offered) == Len(path) >= 2 /\ Last(path) \in offered.ends

\* The paths a client can draw, hex by hex, by clicking what is offered.
Drawable(start, owed, offered) ==
    FoldLeft(LAMBDA drawn, n :
                drawn \cup UNION {{Append(p, h) : h \in LegalNext(p, owed, offered)} :
                                    p \in {q \in drawn : ~IsComplete(q, offered)}},
             {<<start>>}, [n \in 1..owed |-> n])

CompletePaths(s, u, owed) ==
    LET offered == Offered(s, u, owed)
    IN  {p \in Drawable(s.units[u].position, owed, offered) : IsComplete(p, offered)}
=============================================================================
