---------------------------- MODULE MovementArc ----------------------------
(***************************************************************************)
(* The arcs of a title that moves units: one routine arc per slot of the   *)
(* schedule (authoring/patterns/phase.py) and the engine's stepwise        *)
(* movement arc (arcs/movement_arc_build.py) with the guards and effects   *)
(* that the server binds to it (server/arcs/movement_arc_effects.py), run  *)
(* by module ArcRunner.  A title that fights declares an overlay arc too,  *)
(* which the constants below stand for (module CombatArc gives one); in a  *)
(* title that does not, nobody ever has to retreat.                        *)
(***************************************************************************)
EXTENDS MovementRules

CONSTANTS
    RoutineActions, \* routine arc id -> action types its segment allows
    Stepwise,       \* units whose moves the title resolves step by step
    MaxAutoSteps,   \* _MAX_AUTO_STEPS
    OverlayArcs,            \* the title's own arcs, by their id
    OverlayOwner(_, _),     \* their owner resolver: key, state -> faction or None
    OverlayPasses(_, _),    \* their guards
    OverlayEffects(_, _),   \* their effects
    OverlayRaises(_, _),    \* the effects that raise
    RetreatRemaining(_, _)  \* hook retreat_obligation_hexes_remaining, 0 for None

ASSUME MovementArcAssumption ==
    /\ Stepwise \subseteq Units
    /\ MaxAutoSteps \in Nat \ {0}
    /\ "movement" \notin DOMAIN RoutineActions \cup DOMAIN OverlayArcs

-----------------------------------------------------------------------------
(* Segments and transitions. *)

On(trigger, guard, effect, target) ==
    [trigger |-> trigger, guard |-> guard, effect |-> effect, target |-> target]
Goto(seg) == [to |-> "GOTO", segment |-> seg]
Interrupt(seg, back) == [to |-> "INTERRUPT", segment |-> seg, resume |-> back]
RESUME == [to |-> "RESUME"]
DONE == [to |-> "DONE"]

Owned(owner, actions, transitions) ==
    [owner |-> owner, allowed_actions |-> actions, transitions |-> transitions]

\* simple_phase: its segment lists actions for the dock and has no transitions.
RoutineArc(actions) ==
    [entry |-> "routine", segments |-> [x \in {"routine"} |-> Owned("CURRENT", actions, <<>>)]]

MovementSegments ==
    {"retreat_open", "stepwise_open", "continue", "step_resolve", "interrupt",
     "interrupt_resolve"}

\* build_movement_arc
StepwiseArc ==
    [entry |-> "continue",
     segments |-> [x \in MovementSegments |->
       CASE x = "retreat_open" ->
              Owned("retreating", {"MoveUnit"},
                    <<On("MoveUnit", "matches_retreat_open", "open_retreat_step",
                         Goto("step_resolve"))>>)
         [] x = "stepwise_open" ->
              Owned("CURRENT", {"MoveUnit"},
                    <<On("MoveUnit", "matches_stepwise_open", "open_stepwise_step",
                         Goto("step_resolve"))>>)
         [] x = "continue" ->
              Owned("moving", {"MoveUnit"},
                    <<On("MoveUnit", "matches_stepwise_step", "apply_step",
                         Goto("step_resolve"))>>)
         [] x = "step_resolve" ->
              Owned("NO_OWNER", {},
                    <<On("AUTO", "path_complete", "finish_path", DONE),
                      On("AUTO", "step_opened_interrupts", "none",
                         Interrupt("interrupt", "continue")),
                      On("AUTO", "always", "none", Goto("continue"))>>)
         [] x = "interrupt" ->
              Owned("CURRENT", {"PassMovementInterrupt"},
                    <<On("PassMovementInterrupt", "is_interrupt_responder",
                         "pass_interrupt", Goto("interrupt_resolve"))>>)
         [] x = "interrupt_resolve" ->
              Owned("NO_OWNER", {},
                    <<On("AUTO", "interrupt_queue_empty", "none", RESUME),
                      On("AUTO", "always", "none", Goto("interrupt"))>>)]]

DeclaredArcs ==
    [a \in DOMAIN RoutineActions \cup {"movement"} \cup DOMAIN OverlayArcs |->
        IF a \in DOMAIN RoutineActions THEN RoutineArc(RoutineActions[a])
        ELSE IF a = "movement" THEN StepwiseArc
        ELSE OverlayArcs[a]]

\* resolve_moving_faction and resolve_retreat_open_owner (all who must retreat are
\* of one faction).
MustRetreat(s) == {u \in Units : ActiveIn(s, u) /\ RetreatRemaining(s, u) > 0}

ArcOwner(key, s) ==
    CASE key = "moving" -> IF s.engine.movement_arc = None THEN None
                           ELSE s.engine.movement_arc.moving_faction
      [] key = "retreating" -> IF MustRetreat(s) = {} THEN None
                               ELSE s.units[CHOOSE u \in MustRetreat(s) : TRUE].faction
      [] OTHER -> OverlayOwner(key, s)

-----------------------------------------------------------------------------
(* Guards: over a context [state, owner, params]. *)

(***************************************************************************)
(* The next step of an open move, checked on the state of the moment: the  *)
(* reachability rules are asked with the budget that is left, from where   *)
(* the unit is now.                                                        *)
(***************************************************************************)
FitsNextStep(s, flow, params) ==
    /\ flow.step_index < Len(flow.path) - 1
    /\ params.from_hex = flow.path[flow.step_index + 1]
    /\ params.to_hex = flow.path[flow.step_index + 2]
    /\ Present(s, flow.unit_id)
    /\ s.units[flow.unit_id].position = params.from_hex
    /\ IsValidMove(s, flow.unit_id, params.to_hex, flow.budget_remaining)

MatchesStepwiseStep(ctx) ==
    LET flow == ctx.state.engine.movement_arc
    IN  /\ flow # None
        /\ flow.gate = AwaitingContinue
        /\ ctx.owner = flow.moving_faction
        /\ FitsNextStep(ctx.state, flow, ctx.params)

\* A stepwise move starts along the shortest path, whose first hex must be an
\* end a unit may stop on.
IsStepwisePath(s, u, path) ==
    /\ path # None
    /\ Len(path) > 2
    /\ IsValidMove(s, u, path[2], Budgets[u])

MatchesStepwiseOpen(ctx) ==
    LET s == ctx.state
        u == ctx.params.unit_id
    IN  /\ s.engine.movement_arc = None
        /\ Present(s, u)
        /\ s.units[u].position = ctx.params.from_hex
        /\ RetreatRemaining(s, u) = 0
        /\ u \in Stepwise
        /\ IsStepwisePath(s, u, ShortestPath(s, u, ctx.params.to_hex, Budgets[u]))

\* A retreat opens along the path of the request.
MatchesRetreatOpen(ctx) ==
    LET s == ctx.state
        p == ctx.params
    IN  /\ s.engine.movement_arc = None
        /\ Len(p.path) >= 2
        /\ RetreatRemaining(s, p.unit_id) > 0
        /\ Present(s, p.unit_id)
        /\ s.units[p.unit_id].position = p.path[1]
        /\ <<p.from_hex, p.to_hex>> = <<p.path[1], p.path[2]>>

IsInterruptResponder(ctx) ==
    LET flow == ctx.state.engine.movement_arc
    IN  /\ flow # None
        /\ flow.gate = AwaitingInterrupt
        /\ flow.interrupt_queue # <<>>
        /\ Head(flow.interrupt_queue) = ctx.owner

GuardPasses(guard, ctx) ==
    LET flow == ctx.state.engine.movement_arc
    IN  CASE guard = "matches_stepwise_open"  -> MatchesStepwiseOpen(ctx)
          [] guard = "matches_stepwise_step"  -> MatchesStepwiseStep(ctx)
          [] guard = "is_interrupt_responder" -> IsInterruptResponder(ctx)
          [] guard = "path_complete" -> flow # None => PathComplete(flow)
          [] guard = "step_opened_interrupts" -> flow # None /\ flow.interrupt_queue # <<>>
          [] guard = "interrupt_queue_empty" -> flow # None => flow.interrupt_queue = <<>>
          [] guard = "matches_retreat_open" -> MatchesRetreatOpen(ctx)
          [] guard = "always" -> TRUE
          [] OTHER -> OverlayPasses(guard, ctx)

-----------------------------------------------------------------------------
(* Effects: the actions a transition executes before the cursor moves. *)

MoveUnit(u, from, to) == [kind |-> "MoveUnit", unit_id |-> u, from_hex |-> from, to_hex |-> to]
WriteArc(payload) == [kind |-> "WriteArc", payload |-> payload]

\* build_stepwise_flow, after the first step was paid for.
FlowOf(u, path, mover, left) ==
    [unit_id |-> u, path |-> path, step_index |-> 1, moving_faction |-> mover,
     budget_remaining |-> left, retreat_fulfillment |-> FALSE, gate |-> AwaitingContinue,
     interrupt_queue |-> <<>>, saved_turn |-> None]

\* Slip: the first step is charged at the price of the second.
OpenAlongMispriced(u, path, mover) ==
    <<MoveUnit(u, path[1], path[2]),
      [kind |-> "ArcStep",
       flow |-> FlowOf(u, path, mover, Budgets[u] - StepCosts[path[2]][path[3]])]>>

OpenAlong(u, path, mover) ==
    <<MoveUnit(u, path[1], path[2]),
      [kind |-> "ArcStep",
       flow |-> FlowOf(u, path, mover, Budgets[u] - StepCosts[path[1]][path[2]])]>>

OpenStepwiseStep(ctx) ==
    LET u == ctx.params.unit_id
    IN  OpenAlong(u, ShortestPath(ctx.state, u, ctx.params.to_hex, Budgets[u]), ctx.owner)

\* build_retreat_fulfillment_flow: the first step of a retreat is not charged, and
\* opens no window.
OpenRetreatStep(ctx) ==
    LET p == ctx.params
    IN  <<MoveUnit(p.unit_id, p.path[1], p.path[2]),
          WriteArc([FlowOf(p.unit_id, p.path, ctx.owner, RetreatRemaining(ctx.state, p.unit_id))
                        EXCEPT !.retreat_fulfillment = TRUE])>>

\* A step that cannot be paid for is no action at all.
ApplyStep(ctx) ==
    LET flow == ctx.state.engine.movement_arc
        left == flow.budget_remaining - StepCosts[ctx.params.from_hex][ctx.params.to_hex]
    IN  IF left < 0 THEN <<>>
        ELSE <<MoveUnit(flow.unit_id, ctx.params.from_hex, ctx.params.to_hex),
               [kind |-> "ArcStep",
                flow |-> [flow EXCEPT !.budget_remaining = left, !.step_index = @ + 1]]>>

EffectActions(effect, ctx) ==
    CASE effect = "open_stepwise_step" -> OpenStepwiseStep(ctx)
      [] effect = "apply_step" -> ApplyStep(ctx)
      [] effect = "finish_path" -> <<WriteArc(None)>>
      [] effect = "pass_interrupt" ->
            <<[kind |-> "ResolvePass", responding_faction |-> ctx.owner]>>
      [] effect = "open_retreat_step" -> OpenRetreatStep(ctx)
      [] effect = "none" -> <<>>
      [] OTHER -> OverlayEffects(effect, ctx)

Runner == INSTANCE ArcRunner WITH
              Arcs <- DeclaredArcs, OwnerRefFaction <- ArcOwner,
              Passes <- GuardPasses, Effects <- EffectActions, EffectRaises <- OverlayRaises
=============================================================================
