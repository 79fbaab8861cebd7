------------------------------ MODULE Previews ------------------------------
(***************************************************************************)
(* What the server answers a client that is drafting something: a request  *)
(* for a map-selection preview carries the draft, and the answer says what *)
(* may be clicked next and whether the draft may be confirmed              *)
(* (server/map_selection.py, hooks/map_selection_registry.py; the title's  *)
(* combat/planning.py, movement/retreat_preview.py,                        *)
(* ui/previews/place_marker.py).  A drag asks where the piece may be       *)
(* dropped (server/preview.py).  Answers change nothing on the server.     *)
(*                                                                         *)
(* A preview is a record.  `commit` is the request that confirming sends,  *)
(* or None when the button Confirm is disabled; `holds` says that the      *)
(* button End phase is disabled, None that the server leaves it open.      *)
(***************************************************************************)
EXTENDS CombatArc

CONSTANT Markers        \* markers that the map may hold

NoPreview == [kind |-> None, targets |-> {}, eligible |-> {}, commit |-> None, holds |-> None]

PreviewOf(kind, targets, commit, holds) ==
    [NoPreview EXCEPT !.kind = kind, !.targets = targets, !.commit = commit, !.holds = holds]

-----------------------------------------------------------------------------
(* An attack plan [target, attackers]. *)

AttackPlanningIsBlocked(s, f) == f # s.turn.current_faction \/ ~SegmentAllows(s, f, "Attack")

MayStillHit(s, f, h) ==
    {u \in Units : /\ ActiveIn(s, u) /\ s.units[u].faction = f
                   /\ u \notin Range(AttacksThisPhase(s))
                   /\ CanHit(s, u, {h})}

ValidTargets(s, f) == {h \in Hexes : EnemiesOn(s, f, {h}) # {} /\ MayStillHit(s, f, h) # {}}

\* The ids are sorted by name, any order does here; the lists put their anchor first.
AnchorFirst(anchor, units) == <<anchor>> \o SetToSeq(units \ {anchor})

OnTopOf(s, units) ==
    CHOOSE u \in units : \A w \in units : s.units[w].stack_index <= s.units[u].stack_index

\* build_attack_commit_payload, as the server normalises it.
AttackCommit(s, f, h, attackers) ==
    LET defenders == EnemiesOn(s, f, {h})
        first == SetToSeq(attackers)[1]
    IN  [attackers |-> AnchorFirst(first, attackers), primary_attacker |-> first,
         defenders |-> AnchorFirst(OnTopOf(s, defenders), defenders),
         primary_defender |-> OnTopOf(s, defenders)]

ValidCommit(s, f, h, attackers) ==
    attackers # {} /\ ValidParties(s, f, AttackCommit(s, f, h, attackers))

Eligible(s, f, h) == MayStillHit(s, f, h)

\* compute_attack_plan_preview
AttackPlanPreview(s, f, plan) ==
    LET selected == plan.attackers \cap Eligible(s, f, plan.target)
        offered == PreviewOf("attack_plan", ValidTargets(s, f), None, None)
        held == [offered EXCEPT !.holds = TRUE]
    IN  CASE AttackPlanningIsBlocked(s, f) -> PreviewOf("attack_plan", {}, None, None)
          [] ~AttackPlanningIsBlocked(s, f) /\ plan.target = None -> offered
          [] OTHER ->
                IF EnemiesOn(s, f, {plan.target}) = {} THEN held
                ELSE [held EXCEPT
                        !.eligible = Eligible(s, f, plan.target),
                        !.commit = IF ValidCommit(s, f, plan.target, selected)
                                   THEN AttackCommit(s, f, plan.target, selected) ELSE None]

-----------------------------------------------------------------------------
(* A retreat path [unit, hexes]. *)

\* A draft that does not start where the unit stands is continued from there.
Anchored(s, path) ==
    LET start == s.units[path.unit].position
    IN  IF path.hexes # <<>> /\ path.hexes[1] = start THEN path.hexes
        ELSE <<start>> \o path.hexes

MayConfirmRetreat(s, f, u, hexes) ==
    /\ Len(hexes) >= 2
    /\ Apart[hexes[1]][Last(hexes)] = HexesRemaining(s, u)
    /\ ValidRetreatPath(s, f, u, hexes, HexesRemaining(s, u))

\* retreat_path_preview
RetreatPathPreview(s, f, path) ==
    IF \/ path.unit = None \/ ~ActiveIn(s, path.unit) \/ s.units[path.unit].faction # f
       \/ HexesRemaining(s, path.unit) = 0
    THEN PreviewOf("retreat_path", {}, None, None)
    ELSE LET u == path.unit
             hexes == Anchored(s, path)
         IN  PreviewOf("retreat_path",
                       LegalNextRetreatPathHexes(s, u, hexes, HexesRemaining(s, u)),
                       IF MayConfirmRetreat(s, f, u, hexes)
                       THEN [unit |-> u, path |-> hexes] ELSE None,
                       TRUE)

-----------------------------------------------------------------------------
(* A marker and where to put it [marker, to]; `at` gives the markers' hexes. *)

\* default_marker_destination_allowed
MarkerHexes(s) == {h \in Hexes : ActiveAt(s, h) = {}}

\* place_marker_preview
PlaceMarkerPreview(s, at, place) ==
    IF place.marker \notin DOMAIN at THEN PreviewOf("place_marker", {}, None, None)
    ELSE LET from == at[place.marker]
             to == IF place.to = None THEN from ELSE place.to
         IN  PreviewOf("place_marker", MarkerHexes(s),
                       IF to \in MarkerHexes(s) /\ to # from
                       THEN [marker |-> place.marker, from |-> from, to |-> to] ELSE None,
                       None)

-----------------------------------------------------------------------------
(* Drags. *)

\* compute_unit_drag_preview: of the gates of a move, those that the title has too.
UnitDragHexes(s, f, u) ==
    CASE HexesRemaining(s, u) > 0 -> RetreatEnds(s, u, HexesRemaining(s, u))
      [] \E w \in Retreaters(s) : s.units[w].faction = f -> {}
      [] ~PhaseAllowsUnitMove(s.turn.current_phase) -> {}
      [] OTHER -> ValidMoves(s, u, Budgets[u])

\* compute_marker_drag_preview
MarkerDragHexes(s) == MarkerHexes(s)

DragHexes(s, f, item) ==
    IF item \in Markers THEN MarkerDragHexes(s) ELSE UnitDragHexes(s, f, item)
=============================================================================
