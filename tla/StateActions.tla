---------------------------- MODULE StateActions ----------------------------
(***************************************************************************)
(* The committed game state of hexengine and the undoable actions on it:   *)
(* src/hexengine/state/game_state.py, actions.py, movement_arc.py,         *)
(* arcs/cursor.py and the two movement arc actions of                      *)
(* server/arcs/movement_arc_effects.py.                                    *)
(*                                                                         *)
(* A StateAction is a pure function on states that also remembers, when it *)
(* is applied, what its revert will need.  The object in the history is an *)
(* entry [act, saved].  For every kind of action this module says when     *)
(* apply raises (CanApply), what it returns (Apply), what it remembers     *)
(* (Saved), when revert raises (CanRevert) and what it returns (Revert).   *)
(*                                                                         *)
(* Left out: health and graphics (no rule reads them), turn_number (no     *)
(* action changes it), terrain (constant during a match).                  *)
(***************************************************************************)
EXTENDS Integers, Sequences, FiniteSets

CONSTANTS
    Units,          \* unit ids, those of AddUnit requests included
    Factions,
    Hexes,
    Phases,         \* names of the schedule's phases
    Segments,       \* segment ids of all arcs
    ArcIds,
    Keys,           \* attribute names and session-state keys
    Values,         \* JSON values stored under them
    Draws,          \* entries of the rng log
    InterruptsAt,   \* the title's interrupt_factions_after_step hook
    None            \* Python's None, and an absent dict entry

MovementInterrupt == "MovementInterrupt"
AwaitingContinue  == "awaiting_continue"
AwaitingInterrupt == "awaiting_interrupt"

\* Partial functions: attributes of a unit, the session-state bucket.
Dicts == UNION {[K -> Values] : K \in SUBSET Keys}

Merge(d, e) == [k \in DOMAIN d \cup DOMAIN e |-> IF k \in DOMAIN e THEN e[k] ELSE d[k]]
Without(d, K) == [k \in DOMAIN d \ K |-> d[k]]

UnitStates == [faction: Factions, position: Hexes, active: BOOLEAN,
               stack_index: Nat, attributes: Dicts]

TurnStates == [current_faction: Factions,
               current_phase: Phases \cup {MovementInterrupt},
               phase_actions_remaining: Int,
               schedule_index: Nat,
               global_tick: Nat]

Cursors == [arc_id: ArcIds, segment_id: Segments, suspended: Segments \cup {None}]

MovementArcs == [unit_id: Units, path: Seq(Hexes), step_index: Nat,
                 moving_faction: Factions, budget_remaining: Int,
                 retreat_fulfillment: BOOLEAN,
                 gate: {AwaitingContinue, AwaitingInterrupt},
                 interrupt_queue: Seq(Factions),
                 saved_turn: TurnStates \cup {None}]

EngineStates == [cursor: Cursors \cup {None}, movement_arc: MovementArcs \cup {None}]

GameStates == [units: [Units -> UnitStates \cup {None}], turn: TurnStates,
               engine: EngineStates, session: Dicts, rng_log: Seq(Draws)]

(***************************************************************************)
(* The hook maps the hex a mover has just reached and the moving faction   *)
(* to the factions that get a window, already stripped of repetitions.     *)
(***************************************************************************)
NoRepeats(s) == \A i, j \in DOMAIN s : s[i] = s[j] => i = j

ASSUME InterruptsAssumption ==
    /\ InterruptsAt \in [Hexes -> [Factions -> Seq(Factions)]]
    /\ \A h \in Hexes, f \in Factions : NoRepeats(InterruptsAt[h][f])

ASSUME UnitsAssumption == IsFiniteSet(Units)

\* None is nothing else: it is no unit, turn, cursor, payload, segment or stack index.
ASSUME NoneAssumption ==
    None \notin UnitStates \cup TurnStates \cup Cursors \cup MovementArcs \cup Segments \cup Nat

-----------------------------------------------------------------------------
(* The kinds of action and the shape of each. *)

Patches == [values: Dicts, remove_keys: SUBSET Keys]
Outcomes == {"none", "attacker_retreat", "defender_retreat", "defender_destroyed"}

MoveUnits       == [kind: {"MoveUnit"}, unit_id: Units, from_hex: Hexes, to_hex: Hexes]
SetTurnStates   == [kind: {"SetTurnState"}, new_turn: TurnStates]
WriteArcs       == [kind: {"WriteArc"}, payload: MovementArcs \cup {None}]
SetArcCursors   == [kind: {"SetArcCursor"}, cursor: Cursors \cup {None}]
ResolvePasses   == [kind: {"ResolvePass"}, responding_faction: Factions]
ArcSteps        == [kind: {"ArcStep"}, flow: MovementArcs]
PatchAttributes == [kind: {"PatchAttributes"}, unit_id: Units, patch: Patches]
DeleteUnits     == [kind: {"DeleteUnit"}, unit_id: Units]
AddUnits        == [kind: {"AddUnit"}, unit_id: Units, faction: Factions,
                    position: Hexes, stack_index: Nat \cup {None}, attributes: Dicts]
SpendActions    == [kind: {"SpendAction"}, amount: Int]
NextPhases      == [kind: {"NextPhase"}, new_faction: Factions, new_phase: Phases,
                    max_actions: Int, new_schedule_index: Nat]
BucketPatches   == [kind: {"BucketPatch"}, patch: Patches]
CombatEffects   == [kind: {"CombatEffects"},
                    patches: UNION {[U -> Dicts] : U \in SUBSET Units},
                    deactivate: SUBSET Units]
Attacks         == [kind: {"Attack"}, attacker_ids: SUBSET Units, attacker_id: Units,
                    defender_ids: SUBSET Units, outcome: Outcomes, rng_entry: Seq(Draws)]

StateActionSet ==
    MoveUnits \cup SetTurnStates \cup WriteArcs \cup SetArcCursors \cup ResolvePasses
      \cup ArcSteps \cup PatchAttributes \cup DeleteUnits \cup AddUnits
      \cup SpendActions \cup NextPhases \cup BucketPatches \cup CombatEffects \cup Attacks

-----------------------------------------------------------------------------
(* Helpers on states. *)

Present(s, u) == s.units[u] # None
ActiveIn(s, u) == Present(s, u) /\ s.units[u].active

ActiveAt(s, h) == {u \in Units : ActiveIn(s, u) /\ s.units[u].position = h}

\* next_stack_index_at_hex: one above the highest counted index, 0 on an empty hex.
StackIndices(s, h, excluded) == {s.units[u].stack_index : u \in ActiveAt(s, h) \ excluded}
Highest(S) == CHOOSE n \in S : \A m \in S : m <= n
NextStackIndex(s, h, excluded) ==
    IF StackIndices(s, h, excluded) = {} THEN 0
    ELSE Highest(StackIndices(s, h, excluded)) + 1

\* with_unit and without_unit of the board, and with_active on a set of units.
WithUnit(s, u, unit) == [s EXCEPT !.units[u] = unit]

WithActive(s, U, flag) ==
    [s EXCEPT !.units = [u \in Units |-> IF u \in U THEN [s.units[u] EXCEPT !.active = flag]
                                         ELSE s.units[u]]]

PathComplete(flow) == flow.step_index >= Len(flow.path) - 1

(***************************************************************************)
(* The payload and turn after a step of a stepwise move: the two private   *)
(* actions of movement_arc_effects.py differ only in whether they build    *)
(* the payload (step_index 1) or advance it, which `flow` already shows.   *)
(* The step that reaches the last hex opens no interrupts, but the open    *)
(* never is that step (a stepwise path has at least three hexes).          *)
(***************************************************************************)
InterruptsAfterStep(flow) ==
    IF PathComplete(flow) THEN <<>>
    ELSE InterruptsAt[flow.path[flow.step_index + 1]][flow.moving_faction]

\* Slip: the window's phase misspelt.
TurnAfterStepMisnamed(s, flow) ==
    IF InterruptsAfterStep(flow) = <<>> THEN s.turn
    ELSE [s.turn EXCEPT !.current_faction = Head(InterruptsAfterStep(flow)),
                        !.current_phase = "Interrupt"]

ArcAfterStep(s, flow) ==
    LET interrupts == InterruptsAfterStep(flow)
    IN  IF PathComplete(flow) THEN [flow EXCEPT !.gate = AwaitingContinue]
        ELSE IF interrupts = <<>>
        THEN [flow EXCEPT !.gate = AwaitingContinue, !.interrupt_queue = <<>>,
                          !.saved_turn = None]
        ELSE [flow EXCEPT !.gate = AwaitingInterrupt, !.interrupt_queue = interrupts,
                          !.saved_turn = s.turn]

TurnAfterStep(s, flow) ==
    LET interrupts == InterruptsAfterStep(flow)
    IN  IF interrupts = <<>> THEN s.turn
        ELSE [s.turn EXCEPT !.current_faction = Head(interrupts),
                            !.current_phase = MovementInterrupt,
                            !.phase_actions_remaining = 1]

\* Slips: a pass takes the wrong end of the queue, or all of it; the last pass leaves
\* the gate alone; the restored turn keeps the window's action count.
ArcAfterPassFromBack(arc) ==
    IF Len(arc.interrupt_queue) = 1
    THEN [arc EXCEPT !.interrupt_queue = <<>>, !.gate = AwaitingContinue,
                     !.saved_turn = None]
    ELSE [arc EXCEPT !.interrupt_queue = SubSeq(@, 1, Len(@) - 1)]
ArcAfterPassOfAll(arc) ==
    [arc EXCEPT !.interrupt_queue = <<>>, !.gate = AwaitingContinue, !.saved_turn = None]
ArcAfterPassWaiting(arc) ==
    IF Len(arc.interrupt_queue) = 1
    THEN [arc EXCEPT !.interrupt_queue = <<>>, !.saved_turn = None]
    ELSE [arc EXCEPT !.interrupt_queue = Tail(@)]
TurnAfterPassSpent(turn, arc) ==
    IF Len(arc.interrupt_queue) = 1
    THEN [arc.saved_turn EXCEPT !.phase_actions_remaining = turn.phase_actions_remaining]
    ELSE [turn EXCEPT !.current_faction = arc.interrupt_queue[2]]

\* ResolvePassMovementInterrupt on the payload: the last pass restores the turn.
ArcAfterPass(arc) ==
    IF Len(arc.interrupt_queue) = 1
    THEN [arc EXCEPT !.interrupt_queue = <<>>, !.gate = AwaitingContinue,
                     !.saved_turn = None]
    ELSE [arc EXCEPT !.interrupt_queue = Tail(@)]

TurnAfterPass(turn, arc) ==
    IF Len(arc.interrupt_queue) = 1 THEN arc.saved_turn
    ELSE [turn EXCEPT !.current_faction = arc.interrupt_queue[2]]

-----------------------------------------------------------------------------
(* apply: when it raises, what it returns, what it remembers. *)

CanResolvePass(a, s) ==
    LET arc == s.engine.movement_arc
    IN  /\ arc # None
        /\ arc.gate = AwaitingInterrupt
        /\ arc.interrupt_queue # <<>>
        /\ Head(arc.interrupt_queue) = a.responding_faction
        /\ Len(arc.interrupt_queue) = 1 => arc.saved_turn # None

CanAttack(a, s) ==
    /\ \A u \in a.attacker_ids \cup {a.attacker_id} \cup a.defender_ids : ActiveIn(s, u)
    /\ \A d \in a.defender_ids : s.units[d].faction # s.units[a.attacker_id].faction

CanApply(a, s) ==
    CASE a.kind = "MoveUnit" -> /\ Present(s, a.unit_id)
                                /\ s.units[a.unit_id].position = a.from_hex
      [] a.kind = "ResolvePass" -> CanResolvePass(a, s)
      [] a.kind \in {"PatchAttributes", "DeleteUnit"} -> Present(s, a.unit_id)
      [] a.kind = "AddUnit" -> ~Present(s, a.unit_id)
      [] a.kind = "CombatEffects" ->
            \A u \in a.deactivate \cup DOMAIN a.patches : Present(s, u)
      [] a.kind = "Attack" -> CanAttack(a, s)
      [] OTHER -> TRUE

ApplyMoveUnit(a, s) ==
    WithUnit(s, a.unit_id,
             [s.units[a.unit_id] EXCEPT
                !.position = a.to_hex,
                !.stack_index = NextStackIndex(s, a.to_hex, {a.unit_id})])

ApplyResolvePass(s) ==
    [s EXCEPT !.engine.movement_arc = ArcAfterPass(@),
              !.turn = TurnAfterPass(@, s.engine.movement_arc)]

ApplyArcStep(a, s) ==
    [s EXCEPT !.engine.movement_arc = ArcAfterStep(s, a.flow),
              !.turn = TurnAfterStep(s, a.flow)]

\* with_attributes drops the removed keys first, a bucket patch drops them last.
ApplyPatchAttributes(a, s) ==
    WithUnit(s, a.unit_id,
             [s.units[a.unit_id] EXCEPT
                !.attributes = Merge(Without(@, a.patch.remove_keys), a.patch.values)])

ApplyBucketPatch(a, s) ==
    [s EXCEPT !.session = Without(Merge(@, a.patch.values), a.patch.remove_keys)]

ApplyAddUnit(a, s) ==
    WithUnit(s, a.unit_id,
        [faction |-> a.faction, position |-> a.position, active |-> TRUE,
         stack_index |-> IF a.stack_index # None THEN a.stack_index
                         ELSE NextStackIndex(s, a.position, {}),
         attributes |-> a.attributes])

ApplyNextPhase(a, s) ==
    [s EXCEPT !.turn = [current_faction |-> a.new_faction,
                        current_phase |-> a.new_phase,
                        phase_actions_remaining |-> a.max_actions,
                        schedule_index |-> a.new_schedule_index,
                        global_tick |-> @.global_tick + 1]]

ApplyCombatEffects(a, s) ==
    LET patched(u) == IF u \in DOMAIN a.patches
                      THEN [s.units[u] EXCEPT !.attributes = Merge(@, a.patches[u])]
                      ELSE s.units[u]
    IN  WithActive([s EXCEPT !.units = [u \in Units |-> patched(u)]], a.deactivate, FALSE)

Destroyed(a) == IF a.outcome = "defender_destroyed" THEN a.defender_ids ELSE {}

ApplyAttack(a, s) ==
    [WithActive(s, Destroyed(a), FALSE) EXCEPT !.rng_log = s.rng_log \o a.rng_entry]

Apply(a, s) ==
    CASE a.kind = "MoveUnit"        -> ApplyMoveUnit(a, s)
      [] a.kind = "SetTurnState"    -> [s EXCEPT !.turn = a.new_turn]
      [] a.kind = "WriteArc"        -> [s EXCEPT !.engine.movement_arc = a.payload]
      [] a.kind = "SetArcCursor"    -> [s EXCEPT !.engine.cursor = a.cursor]
      [] a.kind = "ResolvePass"     -> ApplyResolvePass(s)
      [] a.kind = "ArcStep"         -> ApplyArcStep(a, s)
      [] a.kind = "PatchAttributes" -> ApplyPatchAttributes(a, s)
      [] a.kind = "DeleteUnit"      -> WithActive(s, {a.unit_id}, FALSE)
      [] a.kind = "AddUnit"         -> ApplyAddUnit(a, s)
      [] a.kind = "SpendAction"     -> [s EXCEPT !.turn.phase_actions_remaining = @ - a.amount]
      [] a.kind = "NextPhase"       -> ApplyNextPhase(a, s)
      [] a.kind = "BucketPatch"     -> ApplyBucketPatch(a, s)
      [] a.kind = "CombatEffects"   -> ApplyCombatEffects(a, s)
      [] a.kind = "Attack"          -> ApplyAttack(a, s)

Saved(a, s) ==
    CASE a.kind = "MoveUnit"        -> s.units[a.unit_id].stack_index
      [] a.kind = "SetTurnState"    -> s.turn
      [] a.kind = "WriteArc"        -> s.engine.movement_arc
      [] a.kind = "SetArcCursor"    -> s.engine.cursor
      [] a.kind \in {"ResolvePass", "ArcStep"} -> [engine |-> s.engine, turn |-> s.turn]
      [] a.kind = "PatchAttributes" -> s.units[a.unit_id].attributes
      [] a.kind = "SpendAction"     -> s.turn.phase_actions_remaining
      [] a.kind = "NextPhase"       -> s.turn
      [] a.kind = "BucketPatch"     -> s.session
      [] a.kind = "Attack"          -> s.rng_log
      [] OTHER -> None

\* What an action's saved fields can hold.
SavedValues(a) ==
    CASE a.kind = "MoveUnit" -> Nat
      [] a.kind \in {"SetTurnState", "NextPhase"} -> TurnStates
      [] a.kind = "WriteArc" -> MovementArcs \cup {None}
      [] a.kind = "SetArcCursor" -> Cursors \cup {None}
      [] a.kind \in {"ResolvePass", "ArcStep"} -> [engine: EngineStates, turn: TurnStates]
      [] a.kind \in {"PatchAttributes", "BucketPatch"} -> Dicts
      [] a.kind = "SpendAction" -> Int
      [] a.kind = "Attack" -> Seq(Draws)
      [] OTHER -> {None}

-----------------------------------------------------------------------------
(* revert: when it raises and what it returns, for an entry [act, saved]. *)

CanRevert(e, s) ==
    CASE e.act.kind \in {"MoveUnit", "DeleteUnit"} -> Present(s, e.act.unit_id)
      [] e.act.kind = "Attack" -> \A u \in Destroyed(e.act) : Present(s, u)
      [] OTHER -> TRUE

\* Slips: a revert that forgets the stack index, one that forgets the rng log.
RevertMoveUnitPositionOnly(e, s) ==
    WithUnit(s, e.act.unit_id, [s.units[e.act.unit_id] EXCEPT !.position = e.act.from_hex])
RevertAttackUnitsOnly(e, s) == WithActive(s, Destroyed(e.act), TRUE)

RevertMoveUnit(e, s) ==
    WithUnit(s, e.act.unit_id,
             [s.units[e.act.unit_id] EXCEPT !.position = e.act.from_hex,
                                            !.stack_index = e.saved])

RevertPatchAttributes(e, s) ==
    IF Present(s, e.act.unit_id)
    THEN WithUnit(s, e.act.unit_id,
                  [s.units[e.act.unit_id] EXCEPT !.attributes = e.saved])
    ELSE s

RevertAttack(e, s) ==
    [WithActive(s, Destroyed(e.act), TRUE) EXCEPT !.rng_log = e.saved]

Revert(e, s) ==
    CASE e.act.kind = "MoveUnit"        -> RevertMoveUnit(e, s)
      [] e.act.kind = "SetTurnState"    -> [s EXCEPT !.turn = e.saved]
      [] e.act.kind = "WriteArc"        -> [s EXCEPT !.engine.movement_arc = e.saved]
      [] e.act.kind = "SetArcCursor"    -> [s EXCEPT !.engine.cursor = e.saved]
      [] e.act.kind \in {"ResolvePass", "ArcStep"} ->
            [s EXCEPT !.engine = e.saved.engine, !.turn = e.saved.turn]
      [] e.act.kind = "PatchAttributes" -> RevertPatchAttributes(e, s)
      [] e.act.kind = "DeleteUnit"      -> WithActive(s, {e.act.unit_id}, TRUE)
      [] e.act.kind = "AddUnit"         -> WithUnit(s, e.act.unit_id, None)
      [] e.act.kind = "SpendAction"     -> [s EXCEPT !.turn.phase_actions_remaining = e.saved]
      [] e.act.kind = "NextPhase"       -> [s EXCEPT !.turn = e.saved]
      [] e.act.kind = "BucketPatch"     -> [s EXCEPT !.session = e.saved]
      [] e.act.kind = "CombatEffects"   -> s
      [] e.act.kind = "Attack"          -> RevertAttack(e, s)

\* should_revert_prior: only SpendAction drags the entry before it along.
RevertsPrior(e) == e.act.kind = "SpendAction"

Entry(a, s) == [act |-> a, saved |-> Saved(a, s)]

(***************************************************************************)
(* The two kinds of action whose revert does not give back the state they  *)
(* were applied to: combat effects are never undone, and a DeleteUnit of a *)
(* unit that was inactive already reactivates it.                          *)
(***************************************************************************)
LossyAt(a, s) ==
    \/ a.kind = "CombatEffects" /\ Apply(a, s) # s
    \/ a.kind = "DeleteUnit" /\ ~ActiveIn(s, a.unit_id)

-----------------------------------------------------------------------------
(* For the properties: the unit an action brings in, the units a revert looks up. *)

Adds(a) == IF a.kind = "AddUnit" THEN {a.unit_id} ELSE {}

LooksUp(a) ==
    CASE a.kind \in {"MoveUnit", "DeleteUnit"} -> {a.unit_id}
      [] a.kind = "Attack" -> Destroyed(a)
      [] OTHER -> {}

OnBoard(s) == {u \in Units : Present(s, u)}
=============================================================================
