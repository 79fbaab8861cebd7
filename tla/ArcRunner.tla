----------------------------- MODULE ArcRunner -----------------------------
(***************************************************************************)
(* The generic arc runner (src/hexengine/arcs/runner.py, spec.py,          *)
(* cursor.py): the one mechanism that drives any declared arc.  An arc is  *)
(* data: segments with an owner, the actions allowed in them and a list of *)
(* transitions.  Guards and effects are names that the instantiating       *)
(* module interprets, as the code takes callables from the title.          *)
(*                                                                         *)
(* Every operator works on a manager record and gives [m, raised]: a       *)
(* Python exception stops what is left to do and undoes nothing.           *)
(***************************************************************************)
EXTENDS ActionHistory

CONSTANTS
    Arcs,               \* arc id -> [entry, segments], segments by their id
    OwnerRefFaction(_, _),  \* owner resolver: key, state -> faction or None
    Passes(_, _),       \* guard name, context -> does it pass
    Effects(_, _),      \* effect name, context -> actions to execute
    EffectRaises(_, _), \* effect name, context -> does the effect itself raise
    MaxAutoSteps        \* the runner's cap on automatic steps

Ran(m) == [m |-> m, raised |-> FALSE]
Raised(m) == [m |-> m, raised |-> TRUE]

\* Execute a list of actions; the first apply that raises ends the run.
Run(r, acts) == IF r.raised THEN r ELSE ExecutedAll(r.m, acts)

SetArcCursor(cursor) == [kind |-> "SetArcCursor", cursor |-> cursor]
CursorAt(arc, seg) == [arc_id |-> arc, segment_id |-> seg, suspended |-> None]

Segment(cursor) == Arcs[cursor.arc_id].segments[cursor.segment_id]
IsAutomatic(segment) == segment.owner = "NO_OWNER"

ResolveOwner(owner, s) ==
    CASE owner = "CURRENT"  -> s.turn.current_faction
      [] owner = "NO_OWNER" -> None
      [] OTHER -> OwnerRefFaction(owner, s)

(***************************************************************************)
(* Targets: Goto keeps a suspended frame, Interrupt records one (and there *)
(* can only be one), RESUME pops it, DONE clears the cursor.               *)
(***************************************************************************)
TargetRaises(cursor, target) ==
    \/ target.to = "INTERRUPT" /\ cursor.suspended # None
    \/ target.to = "RESUME" /\ cursor.suspended = None

NextCursor(cursor, target) ==
    CASE target.to = "GOTO" -> [cursor EXCEPT !.segment_id = target.segment]
      [] target.to = "INTERRUPT" -> [cursor EXCEPT !.segment_id = target.segment,
                                                   !.suspended = target.resume]
      [] target.to = "RESUME" -> [cursor EXCEPT !.segment_id = cursor.suspended,
                                                !.suspended = None]
      [] target.to = "DONE" -> None

\* The transitions with this trigger whose guard passes, by their place in the segment.
Passing(segment, ctx, trigger) ==
    {i \in DOMAIN segment.transitions :
        /\ segment.transitions[i].trigger = trigger
        /\ Passes(segment.transitions[i].guard, ctx)}

\* The effect's actions come first, so they stay even if the target raises.
MoveCursor(r, cursor, target) ==
    IF r.raised \/ TargetRaises(cursor, target) THEN Raised(r.m)
    ELSE Run(r, <<SetArcCursor(NextCursor(cursor, target))>>)

\* An effect that raises has executed nothing.
ApplyTransition(m, cursor, t, ctx) ==
    IF EffectRaises(t.effect, ctx) THEN Raised(m)
    ELSE MoveCursor(Run(Ran(m), Effects(t.effect, ctx)), cursor, t.target)

\* The first of them in declared order.
FirstApplied(m, cursor, passing, ctx) ==
    ApplyTransition(m, cursor, Segment(cursor).transitions[Min(passing)], ctx)

AutoStep(m) ==
    LET cursor  == m.state.engine.cursor
        ctx     == [state |-> m.state, owner |-> None, params |-> None]
        passing == Passing(Segment(cursor), ctx, "AUTO")
    IN  IF passing = {} THEN Raised(m) ELSE FirstApplied(m, cursor, passing, ctx)

Resting(m) ==
    m.state.engine.cursor # None => ~IsAutomatic(Segment(m.state.engine.cursor))

Ended(r) == r.raised \/ Resting(r.m)
CutOff(r) == IF Ended(r) THEN r ELSE Raised(r.m)

AutoAdvance(r) ==
    CutOff(FoldLeft(LAMBDA x, i : IF Ended(x) THEN x ELSE AutoStep(x.m),
                    r, [i \in 1..MaxAutoSteps |-> i]))

BeginArc(r, arc) ==
    AutoAdvance(Run(r, <<SetArcCursor(CursorAt(arc, Arcs[arc].entry))>>))

(***************************************************************************)
(* submit_event: a rejection (ok FALSE) changes nothing; an event that     *)
(* finds the cursor on an automatic segment raises.                        *)
(***************************************************************************)
Rejected(m) == [ok |-> FALSE, run |-> Ran(m)]

Submitted(m, cursor, passing, ctx) ==
    IF passing = {} THEN Rejected(m)
    ELSE [ok |-> TRUE, run |-> AutoAdvance(FirstApplied(m, cursor, passing, ctx))]

SubmitEvent(m, arc, action_type, actor, params) ==
    LET cursor == m.state.engine.cursor
        owner  == ResolveOwner(Segment(cursor).owner, m.state)
        ctx    == [state |-> m.state, owner |-> owner, params |-> params]
    IN  IF cursor = None \/ cursor.arc_id # arc THEN Rejected(m)
        ELSE IF IsAutomatic(Segment(cursor)) THEN [ok |-> FALSE, run |-> Raised(m)]
        ELSE IF \/ owner = None \/ actor # owner
                \/ action_type \notin Segment(cursor).allowed_actions
             THEN Rejected(m)
        ELSE Submitted(m, cursor, Passing(Segment(cursor), ctx, action_type), ctx)
=============================================================================
