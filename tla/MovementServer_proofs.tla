----------------------- MODULE MovementServer_proofs -----------------------
(***************************************************************************)
(* What always holds of the game server's movement and undo, whatever the  *)
(* board, the schedule, the units and the factions.                        *)
(*                                                                         *)
(* The first half computes what a handler does: the arc runner's events,   *)
(* the writes of the cursor and of the flow's payload, the sync after      *)
(* them, the schedule's advance (sections 1 to 5), then one Outcome lemma  *)
(* per handler.  From it, Sound is inductive: the history can always be    *)
(* taken back, and what was broadcast shows the units as they are.         *)
(* The second half adds that the server comes to rest in a Settled state   *)
(* behind every request, as long as nobody undoes: the gate, the cursor,   *)
(* the slot and what is left of the path fit each other.  Moved says what  *)
(* a request may do to such a state, and the turn order follows.           *)
(***************************************************************************)
EXTENDS MovementServer, StateActions_proofs

-----------------------------------------------------------------------------
(* 1. The title, and the segments of the arcs its cursors stand on. *)

StepCursor(seg) == [arc_id |-> "movement", segment_id |-> seg, suspended |-> None]
WindowCursor(seg) == [arc_id |-> "movement", segment_id |-> seg, suspended |-> "continue"]
RoutineCursor(arc) == [arc_id |-> arc, segment_id |-> "routine", suspended |-> None]

\* Cursors of the routine arcs and of a stepwise move: only its windows have a frame to resume.
RestCursors ==
    {None} \cup {RoutineCursor(arc) : arc \in DOMAIN RoutineActions}
      \cup {StepCursor("stepwise_open"), StepCursor("continue"), WindowCursor("interrupt")}

\* With the two that only automatic steps leave.
KnownCursors ==
    RestCursors \cup {StepCursor("step_resolve"), WindowCursor("interrupt_resolve")}

\* A title that only moves: it registers no overlay arc, its after-phase hook patches the
\* session bucket and nothing else, its names are declared, and it starts on a cursor of a
\* routine arc or of a stepwise move.
PlainTitle ==
    /\ DOMAIN OverlayArcs = {}
    /\ \A effect, ctx : ~OverlayRaises(effect, ctx)
    /\ \A s \in GameStates : AfterPhase(s) \in Seq(BucketPatches)
    /\ {"routine"} \cup MovementSegments \subseteq Segments
    /\ {"movement"} \cup DOMAIN RoutineActions \subseteq ArcIds
    /\ \A s \in {Scenario} \cup Snapshots : s.engine.cursor \in KnownCursors

-----------------------------------------------------------------------------
LEMMA RoutineSegment ==
    ASSUME NEW c, c.arc_id \in DOMAIN RoutineActions, c.segment_id = "routine"
    PROVE  /\ Runner!Segment(c).owner = "CURRENT"
           /\ Runner!Segment(c).allowed_actions = RoutineActions[c.arc_id]
           /\ Runner!Segment(c).transitions = <<>>
  BY DEF Runner!Segment, DeclaredArcs, RoutineArc, Owned

LEMMA MovementSegment ==
    ASSUME NEW c, c.arc_id = "movement", c.segment_id \in MovementSegments
    PROVE  Runner!Segment(c) = StepwiseArc.segments[c.segment_id]
  BY MovementArcAssumption DEF Runner!Segment, DeclaredArcs

LEMMA OpenSegment ==
    ASSUME NEW c, c.arc_id = "movement", c.segment_id = "stepwise_open"
    PROVE  Runner!Segment(c) =
             Owned("CURRENT", {"MoveUnit"},
                   <<On("MoveUnit", "matches_stepwise_open", "open_stepwise_step",
                        Goto("step_resolve"))>>)
  BY MovementSegment DEF MovementSegments, StepwiseArc

LEMMA ContinueSegment ==
    ASSUME NEW c, c.arc_id = "movement", c.segment_id = "continue"
    PROVE  Runner!Segment(c) =
             Owned("moving", {"MoveUnit"},
                   <<On("MoveUnit", "matches_stepwise_step", "apply_step",
                        Goto("step_resolve"))>>)
  BY MovementSegment DEF MovementSegments, StepwiseArc

LEMMA StepResolveSegment ==
    ASSUME NEW c, c.arc_id = "movement", c.segment_id = "step_resolve"
    PROVE  Runner!Segment(c) =
             Owned("NO_OWNER", {},
                   <<On("AUTO", "path_complete", "finish_path", DONE),
                     On("AUTO", "step_opened_interrupts", "none",
                        Interrupt("interrupt", "continue")),
                     On("AUTO", "always", "none", Goto("continue"))>>)
  BY MovementSegment DEF MovementSegments, StepwiseArc

LEMMA InterruptSegment ==
    ASSUME NEW c, c.arc_id = "movement", c.segment_id = "interrupt"
    PROVE  Runner!Segment(c) =
             Owned("CURRENT", {"PassMovementInterrupt"},
                   <<On("PassMovementInterrupt", "is_interrupt_responder",
                        "pass_interrupt", Goto("interrupt_resolve"))>>)
  BY MovementSegment DEF MovementSegments, StepwiseArc

LEMMA InterruptResolveSegment ==
    ASSUME NEW c, c.arc_id = "movement", c.segment_id = "interrupt_resolve"
    PROVE  Runner!Segment(c) =
             Owned("NO_OWNER", {},
                   <<On("AUTO", "interrupt_queue_empty", "none", RESUME),
                     On("AUTO", "always", "none", Goto("interrupt"))>>)
  BY MovementSegment DEF MovementSegments, StepwiseArc

LEMMA FirstOf ==
    ASSUME NEW S \in SUBSET Nat, NEW k \in S, \A i \in S : k <= i
    PROVE  Min(S) = k
<1>1. Min(S) \in S /\ \A i \in S : Min(S) <= i
  BY DEF Min
<1>2. Min(S) \in Nat /\ k \in Nat /\ Min(S) <= k /\ k <= Min(S)
  BY <1>1
<1> QED BY <1>2

LEMMA RunnerMin == \A S : Runner!Min(S) = Min(S)
  BY DEF Runner!Min, Min

LEMMA RunnerApplies ==
    /\ \A a, s : Runner!CanApply(a, s) = CanApply(a, s)
    /\ \A a, s : Runner!Apply(a, s) = Apply(a, s)
    /\ \A a, s : Runner!Saved(a, s) = Saved(a, s)
<1>1. \A a, s : Runner!CanApply(a, s) = CanApply(a, s)
  BY DEF Runner!CanApply, Runner!CanResolvePass, Runner!CanAttack, Runner!Present,
         Runner!ActiveIn, Runner!AwaitingInterrupt,
         CanApply, CanResolvePass, CanAttack, Present, ActiveIn, AwaitingInterrupt
<1>2. \A a, s : Runner!Saved(a, s) = Saved(a, s)
  BY DEF Runner!Saved, Saved
<1>3. \A a, s : Runner!Apply(a, s) = Apply(a, s)
  BY DEF Runner!Apply, Runner!ApplyMoveUnit, Runner!ApplyResolvePass, Runner!ApplyArcStep,
         Runner!ApplyPatchAttributes, Runner!ApplyBucketPatch, Runner!ApplyAddUnit,
         Runner!ApplyNextPhase, Runner!ApplyCombatEffects, Runner!ApplyAttack,
         Runner!WithUnit, Runner!WithActive, Runner!NextStackIndex, Runner!StackIndices,
         Runner!Highest, Runner!ActiveAt, Runner!ActiveIn, Runner!Present, Runner!Merge,
         Runner!Without, Runner!ArcAfterPass, Runner!TurnAfterPass, Runner!ArcAfterStep,
         Runner!TurnAfterStep, Runner!InterruptsAfterStep, Runner!PathComplete,
         Runner!Destroyed, Runner!AwaitingContinue, Runner!AwaitingInterrupt,
         Runner!MovementInterrupt,
         Apply, ApplyMoveUnit, ApplyResolvePass, ApplyArcStep,
         ApplyPatchAttributes, ApplyBucketPatch, ApplyAddUnit,
         ApplyNextPhase, ApplyCombatEffects, ApplyAttack,
         WithUnit, WithActive, NextStackIndex, StackIndices,
         Highest, ActiveAt, ActiveIn, Present, Merge,
         Without, ArcAfterPass, TurnAfterPass, ArcAfterStep,
         TurnAfterStep, InterruptsAfterStep, PathComplete,
         Destroyed, AwaitingContinue, AwaitingInterrupt, MovementInterrupt
<1> QED BY <1>1, <1>2, <1>3

LEMMA RunnerExecutes == \A m, acts : Runner!ExecutedAll(m, acts) = ExecutedAll(m, acts)
  BY DEF Runner!ExecutedAll, ExecutedAll, Runner!Executed, Executed,
         Runner!Truncated, Truncated, Runner!Entry, Entry, Runner!FoldLeft, FoldLeft,
         Runner!MapThenFoldSet, MapThenFoldSet, Runner!Max, Max, Runner!Saved, Saved,
         Runner!CanApply, Runner!CanResolvePass, Runner!CanAttack,
         CanApply, CanResolvePass, CanAttack,
         Runner!Apply, Runner!ApplyMoveUnit, Runner!ApplyResolvePass, Runner!ApplyArcStep,
         Runner!ApplyPatchAttributes, Runner!ApplyBucketPatch, Runner!ApplyAddUnit,
         Runner!ApplyNextPhase, Runner!ApplyCombatEffects, Runner!ApplyAttack,
         Runner!WithUnit, Runner!WithActive, Runner!NextStackIndex, Runner!StackIndices,
         Runner!Highest, Runner!ActiveAt, Runner!ActiveIn, Runner!Present, Runner!Merge,
         Runner!Without, Runner!ArcAfterPass, Runner!TurnAfterPass, Runner!ArcAfterStep,
         Runner!TurnAfterStep, Runner!InterruptsAfterStep, Runner!PathComplete,
         Runner!Destroyed, Runner!AwaitingContinue, Runner!AwaitingInterrupt,
         Runner!MovementInterrupt,
         Apply, ApplyMoveUnit, ApplyResolvePass, ApplyArcStep,
         ApplyPatchAttributes, ApplyBucketPatch, ApplyAddUnit,
         ApplyNextPhase, ApplyCombatEffects, ApplyAttack,
         WithUnit, WithActive, NextStackIndex, StackIndices,
         Highest, ActiveAt, ActiveIn, Present, Merge,
         Without, ArcAfterPass, TurnAfterPass, ArcAfterStep,
         TurnAfterStep, InterruptsAfterStep, PathComplete,
         Destroyed, AwaitingContinue, AwaitingInterrupt, MovementInterrupt

\* The automatic step behind a unit's step: the path is at its end, a window opens, or the
\* move waits for its owner.
LEMMA AutoAtStepResolve ==
    ASSUME PlainTitle, NEW m,
           m.state.engine.cursor.arc_id = "movement",
           m.state.engine.cursor.segment_id = "step_resolve"
    PROVE  LET c == m.state.engine.cursor  flow == m.state.engine.movement_arc
           IN  Runner!AutoStep(m) =
                 IF flow = None \/ PathComplete(flow)
                 THEN Runner!MoveCursor(Runner!Run(Runner!Ran(m), <<WriteArc(None)>>), c, DONE)
                 ELSE IF flow.interrupt_queue # <<>>
                 THEN Runner!MoveCursor(Runner!Run(Runner!Ran(m), <<>>), c,
                                        Interrupt("interrupt", "continue"))
                 ELSE Runner!MoveCursor(Runner!Run(Runner!Ran(m), <<>>), c, Goto("continue"))
<1> DEFINE c == m.state.engine.cursor
           flow == m.state.engine.movement_arc
           ctx == [state |-> m.state, owner |-> None, params |-> None]
           seg == Runner!Segment(c)
           P == Runner!Passing(seg, ctx, "AUTO")
<1>1. seg.transitions = <<On("AUTO", "path_complete", "finish_path", DONE),
                     On("AUTO", "step_opened_interrupts", "none",
                        Interrupt("interrupt", "continue")),
                     On("AUTO", "always", "none", Goto("continue"))>>
  BY StepResolveSegment DEF Owned
<1>2. /\ DOMAIN seg.transitions = 1..3
      /\ seg.transitions[1] = On("AUTO", "path_complete", "finish_path", DONE)
      /\ seg.transitions[2] = On("AUTO", "step_opened_interrupts", "none",
                        Interrupt("interrupt", "continue"))
      /\ seg.transitions[3] = On("AUTO", "always", "none", Goto("continue"))
  BY <1>1
<1> HIDE DEF seg, ctx
<1>3. P \subseteq {1, 2, 3}
  BY <1>2 DEF Runner!Passing
<1>4. /\ 1 \in P <=> GuardPasses("path_complete", ctx)
      /\ 2 \in P <=> GuardPasses("step_opened_interrupts", ctx)
      /\ 3 \in P <=> GuardPasses("always", ctx)
  BY <1>2 DEF Runner!Passing, On
<1>5. /\ 1 \in P <=> (flow # None => PathComplete(flow))
      /\ 2 \in P <=> (flow # None /\ flow.interrupt_queue # <<>>)
      /\ 3 \in P
  BY <1>4 DEF GuardPasses, ctx
<1> HIDE DEF P
<1>6. /\ flow = None \/ PathComplete(flow) => Min(P) = 1
      /\ ~(flow = None \/ PathComplete(flow)) /\ flow.interrupt_queue # <<>> => Min(P) = 2
      /\ ~(flow = None \/ PathComplete(flow)) /\ flow.interrupt_queue = <<>> => Min(P) = 3
  BY <1>3, <1>5, FirstOf
<1>7. Runner!AutoStep(m) = Runner!ApplyTransition(m, c, seg.transitions[Min(P)], ctx)
  BY <1>5, RunnerMin DEF Runner!AutoStep, Runner!FirstApplied, seg, ctx, P
<1>8. /\ EffectActions("finish_path", ctx) = <<WriteArc(None)>>
      /\ EffectActions("none", ctx) = <<>>
  BY DEF EffectActions
<1>9. \A t : Runner!ApplyTransition(m, c, t, ctx) =
             Runner!MoveCursor(Runner!Run(Runner!Ran(m), EffectActions(t.effect, ctx)), c, t.target)
  BY DEF PlainTitle, Runner!ApplyTransition
<1>10. /\ seg.transitions[1].effect = "finish_path" /\ seg.transitions[1].target = DONE
       /\ seg.transitions[2].effect = "none"
       /\ seg.transitions[2].target = Interrupt("interrupt", "continue")
       /\ seg.transitions[3].effect = "none" /\ seg.transitions[3].target = Goto("continue")
  BY <1>2 DEF On
<1> QED BY <1>6, <1>7, <1>8, <1>9, <1>10

-----------------------------------------------------------------------------
(* 2. Runs of actions and of automatic steps, from the facts about folds. *)

\* One more action of a list; a raise ends it.
ExecStep(x, r, a) ==
    IF r.raised THEN r ELSE [m |-> Executed(r.m, a), raised |-> ~CanApply(a, r.m.state)]

Acts == INSTANCE Folding WITH op <- ExecStep

\* One more automatic step, unless the cursor rests or a step raised.
AutoOr(x, r, i) == IF Runner!Ended(r) THEN r ELSE Runner!AutoStep(r.m)

Autos == INSTANCE Folding WITH op <- AutoOr

LEMMA ExecutedAllFolds ==
    \A m, acts : ExecutedAll(m, acts) = Acts!Folded(None, Runner!Ran(m), acts)
  BY DEF ExecutedAll, FoldLeft, MapThenFoldSet, Max, Acts!Folded,
         Acts!MapThenFoldSet, Acts!Greatest, ExecStep, Runner!Ran

LEMMA ExecStepIs ==
    ASSUME NEW x, NEW r, NEW a
    PROVE  ExecStep(x, r, a) = IF r.raised THEN r
                               ELSE IF CanApply(a, r.m.state) THEN Runner!Ran(Executed(r.m, a))
                               ELSE Runner!Raised(Executed(r.m, a))
<1>1. CASE r.raised
  BY <1>1 DEF ExecStep
<1>2. CASE ~r.raised /\ CanApply(a, r.m.state)
  <2>1. (~CanApply(a, r.m.state)) = FALSE
    BY <1>2
  <2> QED BY <1>2, <2>1, Zenon DEF ExecStep, Runner!Ran
<1>3. CASE ~r.raised /\ ~CanApply(a, r.m.state)
  <2>1. (~CanApply(a, r.m.state)) = TRUE
    BY <1>3
  <2> QED BY <1>3, <2>1, Zenon DEF ExecStep, Runner!Raised
<1> QED BY <1>1, <1>2, <1>3

LEMMA ExecutedAllUnrolled ==
    ASSUME NEW m, NEW acts, NEW n \in Nat, DOMAIN acts = 1..n
    PROVE  \E g : /\ g[0] = Runner!Ran(m)
                  /\ \A k \in 0..(n - 1) : g[k + 1] = ExecStep(None, g[k], acts[k + 1])
                  /\ ExecutedAll(m, acts) = g[n]
<1>1. Acts!RunsThrough(None, Runner!Ran(m), acts, n)
  BY Acts!Unrolled
<1>2. ExecutedAll(m, acts) = Acts!Folded(None, Runner!Ran(m), acts)
  BY ExecutedAllFolds, Zenon
<1> QED BY <1>1, <1>2, Zenon DEF Acts!RunsThrough

LEMMA RunOfNone == \A m : ExecutedAll(m, <<>>) = Runner!Ran(m)
<1> SUFFICES ASSUME NEW m PROVE ExecutedAll(m, <<>>) = Runner!Ran(m)
  OBVIOUS
<1> DEFINE acts == <<>>
           N == 0
<1>1. DOMAIN acts = 1..N /\ N \in Nat
  OBVIOUS
<1> HIDE DEF acts
<1>2. PICK g : g[0] = Runner!Ran(m) /\ ExecutedAll(m, acts) = g[0]
  BY <1>1, ExecutedAllUnrolled
<1> QED BY <1>2 DEF acts

LEMMA RunOfOneIn ==
    ASSUME NEW m, NEW a, NEW acts, NEW n \in Nat, n = 1, DOMAIN acts = 1..n, acts[1] = a
    PROVE  ExecutedAll(m, acts) = IF CanApply(a, m.state) THEN Runner!Ran(Executed(m, a))
                                  ELSE Runner!Raised(Executed(m, a))
<1>2. PICK g : /\ g[0] = Runner!Ran(m)
               /\ \A k \in 0..(n - 1) : g[k + 1] = ExecStep(None, g[k], acts[k + 1])
               /\ ExecutedAll(m, acts) = g[n]
  BY ExecutedAllUnrolled
<1>3. 0 \in 0..(n - 1) /\ 0 + 1 = 1
  OBVIOUS
<1>4. g[1] = ExecStep(None, g[0], a)
  BY <1>2, <1>3
<1>5. Runner!Ran(m).m = m /\ Runner!Ran(m).raised = FALSE
  BY DEF Runner!Ran
<1> QED BY <1>2, <1>3, <1>4, <1>5, ExecStepIs

LEMMA RunOfOne ==
    ASSUME NEW m, NEW a
    PROVE  ExecutedAll(m, <<a>>) = IF CanApply(a, m.state) THEN Runner!Ran(Executed(m, a))
                                   ELSE Runner!Raised(Executed(m, a))
<1>1. DOMAIN <<a>> = 1..1 /\ 1 \in Nat /\ <<a>>[1] = a
  OBVIOUS
<1> QED BY <1>1, RunOfOneIn

\* The second action runs on what the first left, unless the first raised.
LEMMA RunOfTwo ==
    ASSUME NEW m, NEW a, NEW b
    PROVE  ExecutedAll(m, <<a, b>>) =
             IF ~CanApply(a, m.state) THEN Runner!Raised(Executed(m, a))
             ELSE IF CanApply(b, Executed(m, a).state)
             THEN Runner!Ran(Executed(Executed(m, a), b))
             ELSE Runner!Raised(Executed(Executed(m, a), b))
<1> DEFINE acts == <<a, b>>
           N == 2
<1>1. DOMAIN acts = 1..N /\ N \in Nat /\ acts[1] = a /\ acts[2] = b
  OBVIOUS
<1> HIDE DEF acts, N
<1>2. PICK g : /\ g[0] = Runner!Ran(m)
               /\ \A k \in 0..(N - 1) : g[k + 1] = ExecStep(None, g[k], acts[k + 1])
               /\ ExecutedAll(m, acts) = g[N]
  BY <1>1, ExecutedAllUnrolled
<1>3. N = 2 /\ 0 \in 0..(N - 1) /\ 0 + 1 = 1 /\ 1 \in 0..(N - 1) /\ 1 + 1 = 2
  BY DEF N
<1>4. g[1] = ExecStep(None, g[0], a) /\ g[2] = ExecStep(None, g[1], b)
  BY <1>1, <1>2, <1>3
<1>5. /\ \A x : Runner!Ran(x).m = x /\ Runner!Ran(x).raised = FALSE
      /\ \A x : Runner!Raised(x).m = x /\ Runner!Raised(x).raised = TRUE
  BY DEF Runner!Ran, Runner!Raised
<1>6. g[1] = IF CanApply(a, m.state) THEN Runner!Ran(Executed(m, a))
             ELSE Runner!Raised(Executed(m, a))
  BY <1>2, <1>4, <1>5, ExecStepIs
<1>7. g[2] = IF ~CanApply(a, m.state) THEN Runner!Raised(Executed(m, a))
             ELSE IF CanApply(b, Executed(m, a).state)
             THEN Runner!Ran(Executed(Executed(m, a), b))
             ELSE Runner!Raised(Executed(Executed(m, a), b))
  BY <1>4, <1>5, <1>6, ExecStepIs
<1> QED BY <1>2, <1>3, <1>7 DEF acts

\* A run of automatic steps that comes to rest after the first is that step, within every
\* bound on their number.
LEMMA AutoAdvanceOnce ==
    ASSUME NEW r
    PROVE  /\ Runner!Ended(r) => Runner!AutoAdvance(r) = r
           /\ ~Runner!Ended(r) /\ Runner!Ended(Runner!AutoStep(r.m)) =>
                 Runner!AutoAdvance(r) = Runner!AutoStep(r.m)
<1> DEFINE N == MaxAutoSteps
           seq == [i \in 1..MaxAutoSteps |-> i]
           first == IF Runner!Ended(r) THEN r ELSE Runner!AutoStep(r.m)
<1>1. Runner!AutoAdvance(r) = Runner!CutOff(Autos!Folded(None, r, seq))
  BY DEF Runner!AutoAdvance, Runner!FoldLeft, Runner!MapThenFoldSet, Runner!Max,
         Autos!Folded, Autos!MapThenFoldSet, Autos!Greatest, AutoOr
<1>2. N \in Nat /\ N # 0 /\ DOMAIN seq = 1..N
  BY MovementArcAssumption
<1> HIDE DEF seq, N
<1>3. PICK g : /\ g[0] = r
               /\ \A k \in 0..(N - 1) : g[k + 1] = AutoOr(None, g[k], seq[k + 1])
               /\ Autos!Folded(None, r, seq) = g[N]
  <2>1. Autos!RunsThrough(None, r, seq, N)
    BY ONLY <1>2, Autos!Unrolled
  <2> QED BY <2>1, Zenon DEF Autos!RunsThrough
<1>4. SUFFICES ASSUME Runner!Ended(first)
               PROVE  Runner!AutoAdvance(r) = first
  OBVIOUS
<1>5. g[1] = first
  <2>1. 0 \in 0..(N - 1) /\ 0 + 1 = 1
    BY <1>2
  <2>2. g[1] = AutoOr(None, g[0], seq[1])
    BY <1>3, <2>1
  <2> QED BY <1>3, <2>2 DEF AutoOr
<1> HIDE DEF first
<1> DEFINE S == {k \in 0..N : k = 0 \/ g[k] = first}
<1>6. 0 \in S
  BY <1>2
<1>7. ASSUME NEW k \in 0..(N - 1), k \in S PROVE k + 1 \in S
  <2>1. k + 1 \in 0..N /\ (k # 0 => g[k] = first)
    BY <1>2, <1>7
  <2>2. CASE k = 0
    BY <1>5, <2>1, <2>2
  <2>3. CASE k # 0
    <3>1. g[k + 1] = AutoOr(None, first, seq[k + 1])
      BY <1>3, <2>1, <2>3
    <3>2. g[k + 1] = first
      BY <1>4, <3>1 DEF AutoOr
    <3> QED BY <2>1, <3>2
  <2> QED BY <2>2, <2>3
<1> HIDE DEF S
<1>8. 0..N \subseteq S
  BY <1>2, <1>6, <1>7, Autos!BoundedInduction
<1>9. N \in S /\ N # 0
  BY <1>2, <1>8
<1>10. g[N] = first
  BY <1>9 DEF S
<1> QED BY <1>1, <1>3, <1>4, <1>10 DEF Runner!CutOff

-----------------------------------------------------------------------------
(* 3. Where the runner moves the cursor, and where automatic steps end. *)

LEMMA CursorsAt ==
    /\ \A seg : Runner!CursorAt("movement", seg) = StepCursor(seg)
    /\ \A seg : [Runner!CursorAt("movement", seg) EXCEPT !.suspended = "continue"] = WindowCursor(seg)
    /\ \A arc : Runner!CursorAt(arc, "routine") = RoutineCursor(arc)
  BY DEF Runner!CursorAt, StepCursor, WindowCursor, RoutineCursor

LEMMA CursorFields ==
    /\ \A seg : LET c == StepCursor(seg)
                IN  c.arc_id = "movement" /\ c.segment_id = seg /\ c.suspended = None
    /\ \A seg : LET c == WindowCursor(seg)
                IN  c.arc_id = "movement" /\ c.segment_id = seg /\ c.suspended = "continue"
    /\ \A arc : LET c == RoutineCursor(arc)
                IN  c.arc_id = arc /\ c.segment_id = "routine" /\ c.suspended = None
  BY DEF StepCursor, WindowCursor, RoutineCursor

LEMMA KnownCursorsType == PlainTitle => KnownCursors \subseteq Cursors \cup {None}
<1> SUFFICES ASSUME PlainTitle PROVE KnownCursors \subseteq Cursors \cup {None}
  OBVIOUS
<1>1. /\ "routine" \in Segments /\ "movement" \in ArcIds /\ DOMAIN RoutineActions \subseteq ArcIds
      /\ {"stepwise_open", "continue", "step_resolve", "interrupt", "interrupt_resolve"}
             \subseteq Segments
  BY DEF PlainTitle, MovementSegments
<1> QED BY <1>1 DEF KnownCursors, RestCursors, StepCursor, WindowCursor, RoutineCursor,
                    Runner!CursorAt, Cursors

LEMMA RunIs ==
    /\ \A m, acts : Runner!Run(Runner!Ran(m), acts) = ExecutedAll(m, acts)
    /\ \A m, acts : Runner!Run(Runner!Raised(m), acts) = Runner!Raised(m)
    /\ \A m : Runner!Ran(m).m = m /\ Runner!Ran(m).raised = FALSE
    /\ \A m : Runner!Raised(m).m = m /\ Runner!Raised(m).raised = TRUE
  BY RunnerExecutes DEF Runner!Run, Runner!Ran, Runner!Raised

\* The manager after the cursor was written, and after the flow was closed.
Placed(m, c) == Executed(m, Runner!SetArcCursor(c))
Finished(m) == Executed(m, WriteArc(None))

LEMMA Places ==
    ASSUME NEW m, NEW c
    PROVE  /\ ExecutedAll(m, <<Runner!SetArcCursor(c)>>) = Runner!Ran(Placed(m, c))
           /\ Placed(m, c).state = [m.state EXCEPT !.engine.cursor = c]
<1>1. CanApply(Runner!SetArcCursor(c), m.state)
  BY DEF CanApply, Runner!SetArcCursor
<1>2. Apply(Runner!SetArcCursor(c), m.state) = [m.state EXCEPT !.engine.cursor = c]
  BY DEF Apply, Runner!SetArcCursor
<1> QED BY <1>1, <1>2, RunOfOne DEF Placed, Executed

LEMMA Finishes ==
    ASSUME NEW m
    PROVE  /\ ExecutedAll(m, <<WriteArc(None)>>) = Runner!Ran(Finished(m))
           /\ Finished(m).state = [m.state EXCEPT !.engine.movement_arc = None]
<1>1. CanApply(WriteArc(None), m.state)
  BY DEF CanApply, WriteArc
<1>2. Apply(WriteArc(None), m.state) = [m.state EXCEPT !.engine.movement_arc = None]
  BY DEF Apply, WriteArc
<1> QED BY <1>1, <1>2, RunOfOne DEF Finished, Executed

\* A transition whose target exists writes the cursor once; a run that raised writes none.
LEMMA MovesCursor ==
    ASSUME NEW m, NEW cursor, NEW target
    PROVE  /\ Runner!MoveCursor(Runner!Raised(m), cursor, target) = Runner!Raised(m)
           /\ ~Runner!TargetRaises(cursor, target) =>
                 Runner!MoveCursor(Runner!Ran(m), cursor, target) =
                     Runner!Ran(Placed(m, Runner!NextCursor(cursor, target)))
<1>1. Runner!MoveCursor(Runner!Raised(m), cursor, target) = Runner!Raised(m)
  BY RunIs DEF Runner!MoveCursor
<1>2. ASSUME ~Runner!TargetRaises(cursor, target)
      PROVE  Runner!MoveCursor(Runner!Ran(m), cursor, target) =
                     Runner!Ran(Placed(m, Runner!NextCursor(cursor, target)))
  <2> DEFINE next == Runner!NextCursor(cursor, target)
  <2>1. Runner!MoveCursor(Runner!Ran(m), cursor, target) =
          Runner!Run(Runner!Ran(m), <<Runner!SetArcCursor(next)>>)
    BY <1>2, RunIs DEF Runner!MoveCursor
  <2> HIDE DEF next
  <2>2. Runner!Run(Runner!Ran(m), <<Runner!SetArcCursor(next)>>)
          = ExecutedAll(m, <<Runner!SetArcCursor(next)>>)
    BY RunIs
  <2>3. ExecutedAll(m, <<Runner!SetArcCursor(next)>>) = Runner!Ran(Placed(m, next))
    BY Places
  <2> QED BY <2>1, <2>2, <2>3 DEF next
<1> QED BY <1>1, <1>2

LEMMA NextCursors ==
    ASSUME PlainTitle, NEW seg, NEW x
    PROVE  /\ ~Runner!TargetRaises(StepCursor(seg), Goto(x))
           /\ Runner!NextCursor(StepCursor(seg), Goto(x)) = StepCursor(x)
           /\ ~Runner!TargetRaises(WindowCursor(seg), Goto(x))
           /\ Runner!NextCursor(WindowCursor(seg), Goto(x)) = WindowCursor(x)
           /\ ~Runner!TargetRaises(StepCursor(seg), Interrupt(x, "continue"))
           /\ Runner!NextCursor(StepCursor(seg), Interrupt(x, "continue")) = WindowCursor(x)
           /\ ~Runner!TargetRaises(StepCursor(seg), DONE)
           /\ Runner!NextCursor(StepCursor(seg), DONE) = None
           /\ ~Runner!TargetRaises(WindowCursor(seg), RESUME)
           /\ Runner!NextCursor(WindowCursor(seg), RESUME) = StepCursor("continue")
<1>1. "continue" # None
  BY NoneAssumption DEF PlainTitle, MovementSegments
<1>2. /\ Goto(x).to = "GOTO" /\ Goto(x).segment = x
      /\ LET t == Interrupt(x, "continue")
         IN  t.to = "INTERRUPT" /\ t.segment = x /\ t.resume = "continue"
      /\ RESUME.to = "RESUME" /\ DONE.to = "DONE"
  BY DEF Goto, Interrupt, RESUME, DONE
<1>3. StepCursor(seg).suspended = None /\ WindowCursor(seg).suspended = "continue"
  BY CursorFields
<1>4. /\ ~Runner!TargetRaises(StepCursor(seg), Goto(x))
      /\ ~Runner!TargetRaises(WindowCursor(seg), Goto(x))
      /\ ~Runner!TargetRaises(StepCursor(seg), Interrupt(x, "continue"))
      /\ ~Runner!TargetRaises(StepCursor(seg), DONE)
      /\ ~Runner!TargetRaises(WindowCursor(seg), RESUME)
  BY <1>1, <1>2, <1>3, Zenon DEF Runner!TargetRaises
<1>5. /\ \A c : Runner!NextCursor(c, Goto(x)) = [c EXCEPT !.segment_id = x]
      /\ \A c : Runner!NextCursor(c, Interrupt(x, "continue"))
                  = [c EXCEPT !.segment_id = x, !.suspended = "continue"]
      /\ \A c : Runner!NextCursor(c, DONE) = None
      /\ \A c : Runner!NextCursor(c, RESUME)
                  = [c EXCEPT !.segment_id = c.suspended, !.suspended = None]
  BY <1>2, Zenon DEF Runner!NextCursor
<1>6. /\ [StepCursor(seg) EXCEPT !.segment_id = x] = StepCursor(x)
      /\ [WindowCursor(seg) EXCEPT !.segment_id = x] = WindowCursor(x)
      /\ [StepCursor(seg) EXCEPT !.segment_id = x, !.suspended = "continue"] = WindowCursor(x)
      /\ [WindowCursor(seg) EXCEPT !.segment_id = "continue", !.suspended = None]
           = StepCursor("continue")
  <2>1. [StepCursor(seg) EXCEPT !.segment_id = x] = StepCursor(x)
    BY DEF StepCursor
  <2>2. [WindowCursor(seg) EXCEPT !.segment_id = x] = WindowCursor(x)
    BY DEF WindowCursor
  <2>3. [StepCursor(seg) EXCEPT !.segment_id = x, !.suspended = "continue"] = WindowCursor(x)
    <3>1. [StepCursor(x) EXCEPT !.suspended = "continue"] = WindowCursor(x)
      BY DEF StepCursor, WindowCursor
    <3>2. [StepCursor(seg) EXCEPT !.segment_id = x, !.suspended = "continue"]
            = [[StepCursor(seg) EXCEPT !.segment_id = x] EXCEPT !.suspended = "continue"]
      OBVIOUS
    <3> QED BY <2>1, <3>1, <3>2
  <2>4. [WindowCursor(seg) EXCEPT !.segment_id = "continue", !.suspended = None]
           = StepCursor("continue")
    <3> DEFINE back == "continue"
    <3> HIDE DEF back
    <3>1. [WindowCursor(seg) EXCEPT !.segment_id = back] = WindowCursor(back)
      BY DEF WindowCursor
    <3>2. [WindowCursor(back) EXCEPT !.suspended = None] = StepCursor(back)
      BY DEF StepCursor, WindowCursor
    <3>3. [WindowCursor(seg) EXCEPT !.segment_id = back, !.suspended = None]
            = [[WindowCursor(seg) EXCEPT !.segment_id = back] EXCEPT !.suspended = None]
      OBVIOUS
    <3> QED BY <3>1, <3>2, <3>3 DEF back
  <2> QED BY <2>1, <2>2, <2>3, <2>4
<1>7. [WindowCursor(seg) EXCEPT !.segment_id = WindowCursor(seg).suspended, !.suspended = None]
        = StepCursor("continue")
  BY <1>3, <1>6
<1> QED BY <1>4, <1>5, <1>6, <1>7

\* The automatic step behind a pass: the next responder's window, or back to the move.
LEMMA AutoAtInterruptResolve ==
    ASSUME PlainTitle, NEW m,
           m.state.engine.cursor.arc_id = "movement",
           m.state.engine.cursor.segment_id = "interrupt_resolve"
    PROVE  LET c == m.state.engine.cursor  flow == m.state.engine.movement_arc
           IN  Runner!AutoStep(m) =
                 Runner!MoveCursor(Runner!Run(Runner!Ran(m), <<>>), c,
                                   IF flow = None \/ flow.interrupt_queue = <<>> THEN RESUME
                                   ELSE Goto("interrupt"))
<1> DEFINE c == m.state.engine.cursor
           flow == m.state.engine.movement_arc
           ctx == [state |-> m.state, owner |-> None, params |-> None]
           seg == Runner!Segment(c)
           P == Runner!Passing(seg, ctx, "AUTO")
<1>1. seg.transitions = <<On("AUTO", "interrupt_queue_empty", "none", RESUME),
                          On("AUTO", "always", "none", Goto("interrupt"))>>
  BY InterruptResolveSegment DEF Owned
<1>2. /\ DOMAIN seg.transitions = 1..2
      /\ seg.transitions[1] = On("AUTO", "interrupt_queue_empty", "none", RESUME)
      /\ seg.transitions[2] = On("AUTO", "always", "none", Goto("interrupt"))
  BY <1>1
<1> HIDE DEF seg, ctx
<1>3. P \subseteq {1, 2}
  BY <1>2 DEF Runner!Passing
<1>4. /\ 1 \in P <=> GuardPasses("interrupt_queue_empty", ctx)
      /\ 2 \in P <=> GuardPasses("always", ctx)
  BY <1>2 DEF Runner!Passing, On
<1>5. /\ 1 \in P <=> (flow # None => flow.interrupt_queue = <<>>)
      /\ 2 \in P
  BY <1>4 DEF GuardPasses, ctx
<1> HIDE DEF P
<1>6. /\ flow = None \/ flow.interrupt_queue = <<>> => Min(P) = 1
      /\ ~(flow = None \/ flow.interrupt_queue = <<>>) => Min(P) = 2
  BY <1>3, <1>5, FirstOf
<1>7. Runner!AutoStep(m) = Runner!ApplyTransition(m, c, seg.transitions[Min(P)], ctx)
  BY <1>5, RunnerMin DEF Runner!AutoStep, Runner!FirstApplied, seg, ctx, P
<1>8. EffectActions("none", ctx) = <<>>
  BY DEF EffectActions
<1>9. \A t : Runner!ApplyTransition(m, c, t, ctx) =
             Runner!MoveCursor(Runner!Run(Runner!Ran(m), EffectActions(t.effect, ctx)), c, t.target)
  BY DEF PlainTitle, Runner!ApplyTransition
<1>10. /\ seg.transitions[1].effect = "none" /\ seg.transitions[1].target = RESUME
       /\ seg.transitions[2].effect = "none" /\ seg.transitions[2].target = Goto("interrupt")
  BY <1>2 DEF On
<1> QED BY <1>6, <1>7, <1>8, <1>9, <1>10

LEMMA KnownSegmentOwner ==
    /\ \A arc \in DOMAIN RoutineActions : Runner!Segment(RoutineCursor(arc)).owner = "CURRENT"
    /\ Runner!Segment(StepCursor("stepwise_open")).owner = "CURRENT"
    /\ Runner!Segment(StepCursor("continue")).owner = "moving"
    /\ Runner!Segment(StepCursor("step_resolve")).owner = "NO_OWNER"
    /\ Runner!Segment(WindowCursor("interrupt")).owner = "CURRENT"
    /\ Runner!Segment(WindowCursor("interrupt_resolve")).owner = "NO_OWNER"
  BY CursorFields, RoutineSegment, OpenSegment, ContinueSegment, StepResolveSegment,
     InterruptSegment, InterruptResolveSegment DEF Owned

LEMMA RestIsResting ==
    ASSUME NEW m, m.state.engine.cursor \in RestCursors
    PROVE  Runner!Resting(m)
<1>1. \A arc \in DOMAIN RoutineActions : ~Runner!IsAutomatic(Runner!Segment(RoutineCursor(arc)))
  BY KnownSegmentOwner DEF Runner!IsAutomatic
<1>2. /\ ~Runner!IsAutomatic(Runner!Segment(StepCursor("stepwise_open")))
      /\ ~Runner!IsAutomatic(Runner!Segment(StepCursor("continue")))
      /\ ~Runner!IsAutomatic(Runner!Segment(WindowCursor("interrupt")))
  BY KnownSegmentOwner DEF Runner!IsAutomatic
<1> QED BY <1>1, <1>2 DEF Runner!Resting, RestCursors

LEMMA AutomaticIsNotResting ==
    ASSUME NEW m, m.state.engine.cursor \in {StepCursor("step_resolve"),
                                             WindowCursor("interrupt_resolve")}
    PROVE  m.state.engine.cursor # None => ~Runner!Resting(m)
  BY KnownSegmentOwner DEF Runner!Resting, Runner!IsAutomatic

LEMMA AutoAtRest ==
    ASSUME NEW m
    PROVE  /\ m.state.engine.cursor \in RestCursors =>
                Runner!AutoAdvance(Runner!Ran(m)) = Runner!Ran(m)
           /\ Runner!AutoAdvance(Runner!Raised(m)) = Runner!Raised(m)
<1>1. Runner!Ended(Runner!Raised(m))
  BY RunIs DEF Runner!Ended
<1>2. m.state.engine.cursor \in RestCursors => Runner!Ended(Runner!Ran(m))
  BY RunIs, RestIsResting DEF Runner!Ended
<1> QED BY <1>1, <1>2, AutoAdvanceOnce

\* An automatic step that comes to rest is the last.
LEMMA AutoOne ==
    ASSUME NEW m, NEW n, Runner!AutoStep(m) = Runner!Ran(n), ~Runner!Resting(m),
           n.state.engine.cursor \in RestCursors
    PROVE  Runner!AutoAdvance(Runner!Ran(m)) = Runner!Ran(n)
<1>1. ~Runner!Ended(Runner!Ran(m))
  BY RunIs DEF Runner!Ended
<1>2. Runner!Ended(Runner!Ran(n))
  BY RunIs, RestIsResting DEF Runner!Ended
<1> QED BY <1>1, <1>2, RunIs, AutoAdvanceOnce

\* What a write to one entry of the engine state leaves alone.
LEMMA SetCursorFields ==
    ASSUME NEW s \in GameStates, NEW c
    PROVE  LET t == [s EXCEPT !.engine.cursor = c]
           IN  /\ t.engine.cursor = c
               /\ t.engine.movement_arc = s.engine.movement_arc
               /\ t.units = s.units /\ t.turn = s.turn
               /\ c \in Cursors \cup {None} => t \in GameStates
  BY DEF GameStates, EngineStates

LEMMA SetArcFields ==
    ASSUME NEW s \in GameStates, NEW x
    PROVE  LET t == [s EXCEPT !.engine.movement_arc = x]
           IN  /\ t.engine.movement_arc = x
               /\ t.engine.cursor = s.engine.cursor
               /\ t.units = s.units /\ t.turn = s.turn
               /\ x \in MovementArcs \cup {None} => t \in GameStates
  BY DEF GameStates, EngineStates

LEMMA PlacedCursor ==
    ASSUME NEW m, m.state \in GameStates, NEW c
    PROVE  /\ Placed(m, c).state.engine.cursor = c
           /\ Placed(m, c).state.engine.movement_arc = m.state.engine.movement_arc
           /\ Placed(m, c).state.units = m.state.units
           /\ Placed(m, c).state.turn = m.state.turn
           /\ c \in Cursors \cup {None} => Placed(m, c).state \in GameStates
<1>1. Placed(m, c).state = [m.state EXCEPT !.engine.cursor = c]
  BY Places
<1> QED BY <1>1, SetCursorFields

LEMMA FinishedArc ==
    ASSUME NEW m, m.state \in GameStates
    PROVE  /\ Finished(m).state.engine.movement_arc = None
           /\ Finished(m).state.engine.cursor = m.state.engine.cursor
           /\ Finished(m).state.units = m.state.units
           /\ Finished(m).state.turn = m.state.turn
           /\ Finished(m).state \in GameStates
<1>1. Finished(m).state = [m.state EXCEPT !.engine.movement_arc = None]
  BY Finishes
<1> QED BY <1>1, SetArcFields

\* Where the automatic steps behind a unit's step and behind a pass end.
SettledStep(m) ==
    LET flow == m.state.engine.movement_arc
    IN  IF flow = None \/ PathComplete(flow) THEN Placed(Finished(m), None)
        ELSE IF flow.interrupt_queue # <<>> THEN Placed(m, WindowCursor("interrupt"))
        ELSE Placed(m, StepCursor("continue"))

SettledPass(m) ==
    LET flow == m.state.engine.movement_arc
    IN  IF flow = None \/ flow.interrupt_queue = <<>> THEN Placed(m, StepCursor("continue"))
        ELSE Placed(m, WindowCursor("interrupt"))

LEMMA CursorsAreNotNone ==
    ASSUME PlainTitle
    PROVE  /\ \A seg \in MovementSegments : StepCursor(seg) # None /\ WindowCursor(seg) # None
           /\ \A arc \in DOMAIN RoutineActions : RoutineCursor(arc) # None
<1>1. /\ "routine" \in Segments /\ "movement" \in ArcIds /\ DOMAIN RoutineActions \subseteq ArcIds
      /\ MovementSegments \subseteq Segments /\ "continue" \in Segments
  BY DEF PlainTitle, MovementSegments
<1>2. /\ \A seg \in MovementSegments : StepCursor(seg) \in Cursors /\ WindowCursor(seg) \in Cursors
      /\ \A arc \in DOMAIN RoutineActions : RoutineCursor(arc) \in Cursors
  BY <1>1 DEF StepCursor, WindowCursor, RoutineCursor, Cursors
<1> QED BY <1>2, NoneAssumption

\* _auto_advance behind a step takes exactly one automatic step.
LEMMA AutoAfterStep ==
    ASSUME PlainTitle, NEW m, m.state \in GameStates,
           m.state.engine.cursor = StepCursor("step_resolve")
    PROVE  Runner!AutoAdvance(Runner!Ran(m)) = Runner!Ran(SettledStep(m))
<1> DEFINE flow == m.state.engine.movement_arc
           c == StepCursor("step_resolve")
<1>1. ~Runner!Resting(m)
  BY AutomaticIsNotResting, CursorsAreNotNone DEF MovementSegments
<1>2. Runner!AutoStep(m) = Runner!Ran(SettledStep(m))
  <2>1. CASE flow = None \/ PathComplete(flow)
    <3>1. Runner!AutoStep(m) = Runner!MoveCursor(Runner!Run(Runner!Ran(m), <<WriteArc(None)>>), c, DONE)
      BY <2>1, AutoAtStepResolve, CursorFields
    <3>2. Runner!AutoStep(m) = Runner!MoveCursor(Runner!Ran(Finished(m)), c, DONE)
      <4>1. Runner!Run(Runner!Ran(m), <<WriteArc(None)>>) = Runner!Ran(Finished(m))
        <5> DEFINE acts == <<WriteArc(None)>>
        <5>1. ExecutedAll(m, acts) = Runner!Ran(Finished(m))
          BY Finishes
        <5> HIDE DEF acts
        <5>2. Runner!Run(Runner!Ran(m), acts) = Runner!Ran(Finished(m))
          BY <5>1, RunIs
        <5> QED BY <5>2 DEF acts
      <4> QED BY <3>1, <4>1
    <3> QED BY <2>1, <3>2, MovesCursor, NextCursors DEF SettledStep
  <2>2. CASE ~(flow = None \/ PathComplete(flow)) /\ flow.interrupt_queue # <<>>
    <3>1. Runner!AutoStep(m) = Runner!MoveCursor(Runner!Run(Runner!Ran(m), <<>>), c,
                                                 Interrupt("interrupt", "continue"))
      BY <2>2, AutoAtStepResolve, CursorFields
    <3>2. Runner!AutoStep(m) = Runner!MoveCursor(Runner!Ran(m), c, Interrupt("interrupt", "continue"))
      BY <3>1, RunIs, RunOfNone
    <3> QED BY <2>2, <3>2, MovesCursor, NextCursors DEF SettledStep
  <2>3. CASE ~(flow = None \/ PathComplete(flow)) /\ flow.interrupt_queue = <<>>
    <3>1. Runner!AutoStep(m) = Runner!MoveCursor(Runner!Run(Runner!Ran(m), <<>>), c, Goto("continue"))
      BY <2>3, AutoAtStepResolve, CursorFields
    <3>2. Runner!AutoStep(m) = Runner!MoveCursor(Runner!Ran(m), c, Goto("continue"))
      BY <3>1, RunIs, RunOfNone
    <3> QED BY <2>3, <3>2, MovesCursor, NextCursors DEF SettledStep
  <2> QED BY <2>1, <2>2, <2>3
<1>3. SettledStep(m).state.engine.cursor \in RestCursors
  BY PlacedCursor, FinishedArc DEF SettledStep, RestCursors
<1> QED BY <1>1, <1>2, <1>3, AutoOne

\* And behind a pass.
LEMMA AutoAfterPass ==
    ASSUME PlainTitle, NEW m, m.state \in GameStates,
           m.state.engine.cursor = WindowCursor("interrupt_resolve")
    PROVE  Runner!AutoAdvance(Runner!Ran(m)) = Runner!Ran(SettledPass(m))
<1> DEFINE flow == m.state.engine.movement_arc
           c == WindowCursor("interrupt_resolve")
<1>1. ~Runner!Resting(m)
  BY AutomaticIsNotResting, CursorsAreNotNone DEF MovementSegments
<1>2. Runner!AutoStep(m) = Runner!Ran(SettledPass(m))
  <2>1. CASE flow = None \/ flow.interrupt_queue = <<>>
    <3>1. Runner!AutoStep(m) = Runner!MoveCursor(Runner!Run(Runner!Ran(m), <<>>), c, RESUME)
      BY <2>1, AutoAtInterruptResolve, CursorFields
    <3>2. Runner!AutoStep(m) = Runner!MoveCursor(Runner!Ran(m), c, RESUME)
      BY <3>1, RunIs, RunOfNone
    <3> QED BY <2>1, <3>2, MovesCursor, NextCursors DEF SettledPass
  <2>2. CASE ~(flow = None \/ flow.interrupt_queue = <<>>)
    <3>1. Runner!AutoStep(m) = Runner!MoveCursor(Runner!Run(Runner!Ran(m), <<>>), c, Goto("interrupt"))
      BY <2>2, AutoAtInterruptResolve, CursorFields
    <3>2. Runner!AutoStep(m) = Runner!MoveCursor(Runner!Ran(m), c, Goto("interrupt"))
      BY <3>1, RunIs, RunOfNone
    <3> QED BY <2>2, <3>2, MovesCursor, NextCursors DEF SettledPass
  <2> QED BY <2>1, <2>2
<1>3. SettledPass(m).state.engine.cursor \in RestCursors
  BY PlacedCursor DEF SettledPass, RestCursors
<1> QED BY <1>1, <1>2, <1>3, AutoOne

-----------------------------------------------------------------------------
(* 4. A history that can be taken back: every entry finds the units it looks   *)
(* up on the board that is left when the entries above it are reverted.        *)

LEMMA CutOff ==
    ASSUME NEW S, NEW q \in Seq(S), NEW n \in 0..Len(q)
    PROVE  /\ SubSeq(q, 1, n) \in Seq(S)
           /\ Len(SubSeq(q, 1, n)) = n
           /\ \A i \in 1..n : SubSeq(q, 1, n)[i] = q[i]
  OBVIOUS

LEMMA PutAfter ==
    ASSUME NEW S, NEW q \in Seq(S), NEW n \in 0..Len(q), NEW x \in S
    PROVE  /\ Append(SubSeq(q, 1, n), x) \in Seq(S)
           /\ Len(Append(SubSeq(q, 1, n), x)) = n + 1
           /\ \A i \in 1..n : Append(SubSeq(q, 1, n), x)[i] = q[i]
           /\ Append(SubSeq(q, 1, n), x)[n + 1] = x
<1>1. /\ SubSeq(q, 1, n) \in Seq(S)
      /\ Len(SubSeq(q, 1, n)) = n
      /\ \A i \in 1..n : SubSeq(q, 1, n)[i] = q[i]
  BY CutOff
<1> DEFINE c == SubSeq(q, 1, n)
<1> HIDE DEF c
<1> QED BY <1>1 DEF c

LEMMA CutFront ==
    ASSUME NEW S, NEW q \in Seq(S), NEW k \in 0..Len(q)
    PROVE  /\ SubSeq(q, k + 1, Len(q)) \in Seq(S)
           /\ Len(SubSeq(q, k + 1, Len(q))) = Len(q) - k
           /\ \A i \in 1..(Len(q) - k) : SubSeq(q, k + 1, Len(q))[i] = q[k + i]
  OBVIOUS

-----------------------------------------------------------------------------
\* A state, an action and an entry that only hold cursors of the title.
KnownState(s) == s \in GameStates /\ s.engine.cursor \in KnownCursors

KnownAction(a) ==
    /\ a \in StateActionSet
    /\ a.kind = "SetArcCursor" => a.cursor \in KnownCursors

KnownEntry(e) ==
    /\ KnownAction(e.act)
    /\ e.saved \in SavedValues(e.act)
    /\ e.act.kind = "SetArcCursor" => e.saved \in KnownCursors
    /\ e.act.kind \in {"ResolvePass", "ArcStep"} => e.saved.engine.cursor \in KnownCursors

\* The entry takes who is on the board from S to T, and finds the units it looks up in S.
Carries(e, S, T) ==
    /\ S \cap Adds(e.act) = {}
    /\ T = S \cup Adds(e.act)
    /\ LooksUp(e.act) \subseteq S

\* b is who was on the board before each entry, and after the last.
BoardsOf(m, b) ==
    /\ OnBoard(m.state) = b[m.pointer + 1]
    /\ \A i \in 1..Len(m.history) : Carries(m.history[i], b[i], b[i + 1])

\* A manager whose history is made of such entries.
Shaped(m) ==
    /\ m = [state |-> m.state, history |-> m.history, pointer |-> m.pointer]
    /\ \E S : m.history \in Seq(S)
    /\ m.pointer \in 0..Len(m.history)
    /\ KnownState(m.state)
    /\ \A i \in 1..Len(m.history) : KnownEntry(m.history[i])

\* A manager whose entries can be reverted in order, each on the board it was executed on.
Healthy(m) == Shaped(m) /\ \E b : BoardsOf(m, b)

LEMMA ActionAdds == \A a \in StateActionSet : Adds(a) \subseteq Units
  BY DEF Adds, StateActionSet, MoveUnits, SetTurnStates, WriteArcs, SetArcCursors,
         ResolvePasses, ArcSteps, PatchAttributes, DeleteUnits, AddUnits, SpendActions,
         NextPhases, BucketPatches, CombatEffects, Attacks

\* An action that applies finds its units, and adds none that stood there.
LEMMA ApplyCarries ==
    ASSUME NEW s \in GameStates, NEW a \in StateActionSet, CanApply(a, s)
    PROVE  Carries(Entry(a, s), OnBoard(s), OnBoard(Apply(a, s)))
<1>0. Entry(a, s).act = a
  BY DEF Entry
<1>1. OnBoard(Apply(a, s)) = OnBoard(s) \cup Adds(a)
  BY ActionAdds, ApplyType DEF OnBoard
<1>2. OnBoard(s) \cap Adds(a) = {}
  BY DEF CanApply, OnBoard, Adds
<1>3. LooksUp(a) \subseteq OnBoard(s)
  <2>1. CASE a \in MoveUnits \cup DeleteUnits
    BY <2>1 DEF MoveUnits, DeleteUnits, LooksUp, OnBoard, CanApply
  <2>2. CASE a \in Attacks
    <3>1. a.kind = "Attack" /\ Destroyed(a) \subseteq Units
      BY <2>2 DEF Attacks, Destroyed
    <3>2. \A u \in Destroyed(a) : Present(s, u)
      BY <3>1 DEF CanApply, CanAttack, ActiveIn, Destroyed
    <3> QED BY <3>1, <3>2 DEF LooksUp, OnBoard
  <2>3. CASE a \notin MoveUnits \cup DeleteUnits \cup Attacks
    BY <2>3 DEF LooksUp, StateActionSet, SetTurnStates, WriteArcs, SetArcCursors,
           ResolvePasses, ArcSteps, PatchAttributes, AddUnits, SpendActions,
           NextPhases, BucketPatches, CombatEffects
  <2> QED BY <2>1, <2>2, <2>3
<1> QED BY <1>0, <1>1, <1>2, <1>3 DEF Carries

\* Nothing but the cursor, the payload-and-turn actions and their reverts writes the cursor.
LEMMA ApplyKnown ==
    ASSUME NEW s, KnownState(s), NEW a, KnownAction(a), CanApply(a, s)
    PROVE  KnownState(Apply(a, s)) /\ KnownEntry(Entry(a, s))
<1>1. /\ s \in GameStates /\ a \in StateActionSet
      /\ Apply(a, s) \in GameStates /\ Saved(a, s) \in SavedValues(a)
  BY ApplyType DEF KnownState, KnownAction
<1>2. \A t : t.engine = s.engine => t.engine.cursor = s.engine.cursor
  OBVIOUS
<1>3. Apply(a, s).engine.cursor = IF a.kind = "SetArcCursor" THEN a.cursor ELSE s.engine.cursor
  <2>1. s = [units |-> s.units, turn |-> s.turn, engine |-> s.engine,
             session |-> s.session, rng_log |-> s.rng_log]
        /\ s.engine = [cursor |-> s.engine.cursor, movement_arc |-> s.engine.movement_arc]
    BY <1>1 DEF GameStates, EngineStates
  <2>2. CASE a.kind = "SetArcCursor"
    BY <2>1, <2>2 DEF Apply
  <2>3. CASE a.kind = "ResolvePass"
    <3>1. Apply(a, s) = [s EXCEPT !.engine.movement_arc = ArcAfterPass(@),
                                  !.turn = TurnAfterPass(@, s.engine.movement_arc)]
      BY <2>3 DEF Apply, ApplyResolvePass
    <3> QED BY <2>1, <2>3, <3>1
  <2>4. CASE a.kind = "ArcStep"
    <3>1. Apply(a, s) = [s EXCEPT !.engine.movement_arc = ArcAfterStep(s, a.flow),
                                  !.turn = TurnAfterStep(s, a.flow)]
      BY <2>4 DEF Apply, ApplyArcStep
    <3> QED BY <2>1, <2>4, <3>1
  <2>5. CASE a.kind = "WriteArc"
    BY <2>1, <2>5 DEF Apply
  <2>6. CASE a.kind \notin {"SetArcCursor", "ResolvePass", "ArcStep", "WriteArc"}
    <3>1. Apply(a, s).engine = s.engine
      BY <1>1, <2>1, <2>6 DEF StateActionSet, MoveUnits, SetTurnStates, WriteArcs, SetArcCursors,
         ResolvePasses, ArcSteps, PatchAttributes, DeleteUnits, AddUnits, SpendActions,
         NextPhases, BucketPatches, CombatEffects, Attacks, Apply, ApplyMoveUnit,
         ApplyPatchAttributes, ApplyBucketPatch, ApplyAddUnit, ApplyNextPhase,
         ApplyCombatEffects, ApplyAttack, WithUnit, WithActive
    <3> QED BY <2>6, <3>1
  <2> QED BY <2>2, <2>3, <2>4, <2>5, <2>6
<1>4. KnownState(Apply(a, s))
  BY <1>1, <1>3 DEF KnownState, KnownAction
<1>5. Entry(a, s).act = a /\ Entry(a, s).saved = Saved(a, s)
  BY DEF Entry
<1>6. /\ a.kind = "SetArcCursor" => Saved(a, s) = s.engine.cursor
      /\ a.kind \in {"ResolvePass", "ArcStep"} => Saved(a, s).engine = s.engine
  BY DEF Saved
<1>7. KnownEntry(Entry(a, s))
  BY <1>1, <1>5, <1>6 DEF KnownEntry, KnownState
<1> QED BY <1>4, <1>7

LEMMA RevertKnown ==
    ASSUME NEW s, KnownState(s), NEW e, KnownEntry(e), CanRevert(e, s)
    PROVE  KnownState(Revert(e, s))
<1>1. /\ s \in GameStates /\ e.act \in StateActionSet /\ e.saved \in SavedValues(e.act)
      /\ Revert(e, s) \in GameStates
  BY RevertType DEF KnownState, KnownEntry, KnownAction
<1>3. Revert(e, s).engine.cursor \in {s.engine.cursor} \cup KnownCursors
  <2>1. s = [units |-> s.units, turn |-> s.turn, engine |-> s.engine,
             session |-> s.session, rng_log |-> s.rng_log]
        /\ s.engine = [cursor |-> s.engine.cursor, movement_arc |-> s.engine.movement_arc]
    BY <1>1 DEF GameStates, EngineStates
  <2>2. CASE e.act.kind = "SetArcCursor"
    BY <2>1, <2>2 DEF Revert, KnownEntry
  <2>3. CASE e.act.kind \in {"ResolvePass", "ArcStep"}
    <3>1. Revert(e, s) = [s EXCEPT !.engine = e.saved.engine, !.turn = e.saved.turn]
      BY <2>3 DEF Revert
    <3>2. Revert(e, s).engine = e.saved.engine
      BY <2>1, <3>1
    <3> QED BY <2>3, <3>2 DEF KnownEntry
  <2>5. CASE e.act.kind = "WriteArc"
    BY <2>1, <2>5 DEF Revert
  <2>6. CASE e.act.kind \notin {"SetArcCursor", "ResolvePass", "ArcStep", "WriteArc"}
    <3>1. Revert(e, s).engine = s.engine
      BY <1>1, <2>1, <2>6 DEF StateActionSet, MoveUnits, SetTurnStates, WriteArcs, SetArcCursors,
         ResolvePasses, ArcSteps, PatchAttributes, DeleteUnits, AddUnits, SpendActions,
         NextPhases, BucketPatches, CombatEffects, Attacks, Revert, RevertMoveUnit,
         RevertPatchAttributes, RevertAttack, WithUnit, WithActive
    <3> QED BY <3>1
  <2> QED BY <2>2, <2>3, <2>5, <2>6
<1> QED BY <1>1, <1>3 DEF KnownState

\* So its entry can be reverted on the board it left, and gives back the board before.
LEMMA CarriesBack ==
    ASSUME NEW s, KnownState(s), NEW e, KnownEntry(e), NEW S, NEW T,
           Carries(e, S, T), OnBoard(s) = T
    PROVE  /\ CanRevert(e, s)
           /\ KnownState(Revert(e, s))
           /\ OnBoard(Revert(e, s)) = S
<1>1. LooksUp(e.act) \subseteq OnBoard(s)
  BY DEF Carries
<1>2. CanRevert(e, s)
  BY <1>1 DEF CanRevert, LooksUp, OnBoard
<1>3. \A w \in Units : Present(Revert(e, s), w) <=> Present(s, w) /\ w \notin Adds(e.act)
  BY <1>2, RevertType DEF KnownEntry, KnownState, KnownAction
<1>4. OnBoard(Revert(e, s)) = OnBoard(s) \ Adds(e.act)
  BY <1>3 DEF OnBoard
<1> QED BY <1>2, <1>4, RevertKnown DEF Carries

LEMMA FreshIsHealthy ==
    ASSUME NEW s, KnownState(s)
    PROVE  Healthy(Manager(s))
<1>1. /\ Manager(s).state = s /\ Manager(s).history = <<>> /\ Manager(s).pointer = 0
      /\ Manager(s) = [state |-> Manager(s).state, history |-> Manager(s).history,
                       pointer |-> Manager(s).pointer]
  BY DEF Manager
<1>2. Manager(s).history \in Seq({}) /\ Len(Manager(s).history) = 0
  BY <1>1
<1>3. Shaped(Manager(s))
  BY <1>1, <1>2 DEF Shaped
<1>4. BoardsOf(Manager(s), [i \in {1} |-> OnBoard(s)])
  BY <1>1, <1>2 DEF BoardsOf
<1> QED BY <1>3, <1>4 DEF Healthy

LEMMA TruncatedIsHealthy ==
    ASSUME NEW m, Healthy(m)
    PROVE  /\ Healthy(Truncated(m)) /\ Truncated(m).state = m.state
           /\ Truncated(m).pointer = m.pointer /\ Len(Truncated(m).history) = m.pointer
           /\ \A i \in 1..m.pointer : Truncated(m).history[i] = m.history[i]
<1> DEFINE p == m.pointer
           H == m.history
           c == SubSeq(H, 1, p)
<1>1. PICK S : H \in Seq(S)
  BY DEF Healthy, Shaped
<1>2. PICK b : BoardsOf(m, b)
  BY DEF Healthy
<1>3. /\ p \in 0..Len(H) /\ KnownState(m.state)
      /\ m = [state |-> m.state, history |-> m.history, pointer |-> m.pointer]
      /\ \A i \in 1..Len(H) : KnownEntry(H[i])
  BY DEF Healthy, Shaped
<1>4. /\ Truncated(m).state = m.state /\ Truncated(m).history = c /\ Truncated(m).pointer = p
      /\ Truncated(m) = [state |-> Truncated(m).state, history |-> Truncated(m).history,
                         pointer |-> Truncated(m).pointer]
  <2>1. Truncated(m) = [m EXCEPT !.history = c]
    BY DEF Truncated
  <2> HIDE DEF c
  <2> QED BY <1>3, <2>1
<1>5. c \in Seq(S) /\ Len(c) = p /\ \A i \in 1..p : c[i] = H[i]
  <2> HIDE DEF p, H
  <2> QED BY <1>1, <1>3, CutOff
<1>6. \A i \in 1..p : i \in 1..Len(H)
  BY <1>3
<1> HIDE DEF c
<1>7. Shaped(Truncated(m))
  BY <1>3, <1>4, <1>5, <1>6 DEF Shaped
<1>8. BoardsOf(Truncated(m), b)
  BY <1>2, <1>3, <1>4, <1>5, <1>6 DEF BoardsOf
<1> QED BY <1>4, <1>5, <1>7, <1>8 DEF Healthy

\* Executing an action keeps the manager healthy, whether it applies or raises.
LEMMA ExecutedIsHealthy ==
    ASSUME NEW m, Healthy(m), NEW a, KnownAction(a)
    PROVE  Healthy(Executed(m, a))
<1>1. CASE ~CanApply(a, m.state)
  BY <1>1, TruncatedIsHealthy DEF Executed
<1>2. CASE CanApply(a, m.state)
  <2> DEFINE p == m.pointer
             H == m.history
             e == Entry(a, m.state)
             t == Apply(a, m.state)
             c == Append(SubSeq(H, 1, p), e)
             x == Executed(m, a)
  <2>1. PICK S0 : H \in Seq(S0)
    BY DEF Healthy, Shaped
  <2>2. PICK b : BoardsOf(m, b)
    BY DEF Healthy
  <2>3. /\ p \in 0..Len(H) /\ KnownState(m.state)
        /\ m = [state |-> m.state, history |-> m.history, pointer |-> m.pointer]
        /\ \A i \in 1..Len(H) : KnownEntry(H[i])
    BY DEF Healthy, Shaped
  <2>4. /\ x.state = t /\ x.history = c /\ x.pointer = p + 1
        /\ x = [state |-> x.state, history |-> x.history, pointer |-> x.pointer]
    BY <1>2, <2>3 DEF Executed, Truncated
  <2>5. KnownState(t) /\ KnownEntry(e)
    BY <1>2, <2>3, ApplyKnown
  <2>6. Carries(e, OnBoard(m.state), OnBoard(t))
    BY <1>2, <2>3, ApplyCarries DEF KnownState, KnownAction
  <2> DEFINE S == S0 \cup {e}
             d == [i \in 1..(p + 2) |-> IF i = p + 2 THEN OnBoard(t) ELSE b[i]]
  <2>7. /\ c \in Seq(S) /\ Len(c) = p + 1 /\ c[p + 1] = e
        /\ \A i \in 1..p : c[i] = H[i]
    <3>1. H \in Seq(S) /\ e \in S
      BY <2>1
    <3> HIDE DEF p, H, e, S
    <3> QED BY <2>3, <3>1, PutAfter
  <2>8. /\ \A i \in 1..(p + 1) : i \in 1..p \/ i = p + 1
        /\ \A i \in 1..p : i \in 1..Len(H) /\ d[i] = b[i] /\ d[i + 1] = b[i + 1]
        /\ d[p + 1] = b[p + 1] /\ d[p + 2] = OnBoard(t) /\ (p + 1) + 1 = p + 2
        /\ p + 1 \in 0..(p + 1)
    BY <2>3
  <2> HIDE DEF c, e, t, d, x
  <2>9. Shaped(x)
    <3>1. \A i \in 1..(p + 1) : KnownEntry(c[i])
      BY <2>3, <2>5, <2>7, <2>8
    <3> QED BY <2>4, <2>5, <2>7, <2>8, <3>1 DEF Shaped
  <2>10. BoardsOf(x, d)
    <3>1. ASSUME NEW i \in 1..p PROVE Carries(c[i], d[i], d[i + 1])
      BY <2>2, <2>7, <2>8 DEF BoardsOf
    <3>2. Carries(c[p + 1], d[p + 1], d[(p + 1) + 1])
      BY <2>2, <2>6, <2>7, <2>8 DEF BoardsOf
    <3>3. \A i \in 1..(p + 1) : Carries(c[i], d[i], d[i + 1])
      BY <2>8, <3>1, <3>2
    <3>4. OnBoard(x.state) = d[x.pointer + 1]
      BY <2>4, <2>8
    <3> QED BY <2>4, <2>7, <3>3, <3>4 DEF BoardsOf
  <2> QED BY <2>9, <2>10 DEF Healthy, x
<1> QED BY <1>1, <1>2

\* An undo of a healthy manager raises nowhere, coupled or not, and leaves a healthy one.
LEMMA UndoIsHealthy ==
    ASSUME NEW m, Healthy(m), CanUndo(m)
    PROVE  /\ ~UndoRaisesAtOnce(m) /\ ~UndoRaisesHalfway(m)
           /\ Healthy(Undone(m))
<1> DEFINE p == m.pointer
           H == m.history
           e == LastEntry(m)
           half == HalfUndone(m)
           d == PriorEntry(m)
           back == Revert(d, half)
<1>1. PICK S : H \in Seq(S)
  BY DEF Healthy, Shaped
<1>2. PICK b : BoardsOf(m, b)
  BY DEF Healthy
<1>3. /\ p \in 1..Len(H) /\ KnownState(m.state)
      /\ m = [state |-> m.state, history |-> m.history, pointer |-> m.pointer]
      /\ \A i \in 1..Len(H) : KnownEntry(H[i])
  BY DEF Healthy, Shaped, CanUndo
<1>4. /\ CanRevert(e, m.state) /\ KnownState(half) /\ OnBoard(half) = b[p]
  <2>1. KnownEntry(e) /\ Carries(e, b[p], b[p + 1]) /\ OnBoard(m.state) = b[p + 1]
    BY <1>2, <1>3 DEF LastEntry, BoardsOf
  <2> HIDE DEF e, p
  <2> QED BY <1>3, <2>1, CarriesBack DEF HalfUndone, e
<1>5. ASSUME UndoIsCoupled(m)
      PROVE  CanRevert(d, half) /\ KnownState(back) /\ OnBoard(back) = b[p - 1]
             /\ p - 2 \in 0..Len(H) /\ (p - 2) + 1 = p - 1
  <2>1. p - 1 \in 1..Len(H) /\ (p - 1) + 1 = p /\ p - 2 \in 0..Len(H) /\ (p - 2) + 1 = p - 1
    BY <1>3, <1>5 DEF UndoIsCoupled
  <2>2. KnownEntry(d) /\ Carries(d, b[p - 1], b[p])
    BY <1>2, <1>3, <2>1 DEF PriorEntry, BoardsOf
  <2> HIDE DEF d, half, p
  <2>3. CanRevert(d, half) /\ KnownState(Revert(d, half)) /\ OnBoard(Revert(d, half)) = b[p - 1]
    BY <1>4, <2>2, CarriesBack
  <2> QED BY <2>1, <2>3
<1>6. ~UndoRaisesAtOnce(m) /\ ~UndoRaisesHalfway(m)
  BY <1>4, <1>5 DEF UndoRaisesAtOnce, UndoRaisesHalfway
<1>7. \E n \in 0..Len(H) : \E s : /\ Undone(m) = [state |-> s, history |-> H, pointer |-> n]
                                  /\ KnownState(s) /\ OnBoard(s) = b[n + 1]
  <2>1. CASE UndoIsCoupled(m)
    <3>1. Undone(m) = [state |-> back, history |-> H, pointer |-> p - 2]
      BY <1>3, <1>6, <2>1 DEF Undone
    <3> HIDE DEF back, p, H
    <3> QED BY <1>5, <2>1, <3>1
  <2>2. CASE ~UndoIsCoupled(m)
    <3>1. Undone(m) = [state |-> half, history |-> H, pointer |-> p - 1]
      BY <1>3, <1>6, <2>2 DEF Undone
    <3>2. p - 1 \in 0..Len(H) /\ (p - 1) + 1 = p
      BY <1>3
    <3> HIDE DEF half, p, H
    <3> QED BY <1>4, <3>1, <3>2
  <2> QED BY <2>1, <2>2
<1>8. PICK n \in 0..Len(H) :
        \E s : /\ Undone(m) = [state |-> s, history |-> H, pointer |-> n]
               /\ KnownState(s) /\ OnBoard(s) = b[n + 1]
  BY <1>7
<1>9. PICK s : /\ Undone(m) = [state |-> s, history |-> H, pointer |-> n]
               /\ KnownState(s) /\ OnBoard(s) = b[n + 1]
  BY <1>8
<1>10. /\ Undone(m).state = s /\ Undone(m).history = H /\ Undone(m).pointer = n
       /\ Undone(m) = [state |-> Undone(m).state, history |-> Undone(m).history,
                       pointer |-> Undone(m).pointer]
  BY <1>9
<1>11. Shaped(Undone(m))
  BY <1>1, <1>3, <1>9, <1>10 DEF Shaped
<1>12. BoardsOf(Undone(m), b)
  BY <1>2, <1>9, <1>10 DEF BoardsOf
<1> QED BY <1>6, <1>11, <1>12 DEF Healthy

\* So does a redo.
LEMMA RedoIsHealthy ==
    ASSUME NEW m, Healthy(m), CanRedo(m)
    PROVE  Healthy(Redone(m))
<1> DEFINE p == m.pointer
           H == m.history
           s == m.state
           a == NextEntry(m).act
           t == Apply(a, s)
           e == Entry(a, s)
           x == Redone(m)
<1>1. CASE RedoRaises(m)
  BY <1>1 DEF Redone
<1>2. CASE ~RedoRaises(m)
  <2>1. PICK S0 : H \in Seq(S0)
    BY DEF Healthy, Shaped
  <2>2. PICK b : BoardsOf(m, b)
    BY DEF Healthy
  <2>3. /\ p \in 0..Len(H) /\ p + 1 \in 1..Len(H) /\ KnownState(s)
        /\ \A i \in 1..Len(H) : KnownEntry(H[i])
        /\ NextEntry(m) = H[p + 1]
    BY DEF Healthy, Shaped, CanRedo, NextEntry
  <2>4. CanApply(a, s) /\ KnownAction(a)
    BY <1>2, <2>3 DEF RedoRaises, KnownEntry
  <2>5. KnownState(t) /\ KnownEntry(e) /\ Carries(e, OnBoard(s), OnBoard(t)) /\ e.act = a
    BY <2>3, <2>4, ApplyKnown, ApplyCarries DEF KnownState, KnownAction, Entry
  <2>6. /\ x.state = t /\ x.history = [H EXCEPT ![p + 1] = e] /\ x.pointer = p + 1
        /\ x = [state |-> x.state, history |-> x.history, pointer |-> x.pointer]
    BY <1>2 DEF Redone
  <2>7. /\ Len(x.history) = Len(H)
        /\ x.history \in Seq(S0 \cup {e})
        /\ x.history[p + 1] = e
        /\ \A i \in 1..Len(H) : i # p + 1 => x.history[i] = H[i]
    <3> DEFINE S == S0 \cup {e}
    <3>1. H \in Seq(S) /\ e \in S BY <2>1
    <3>2. PICK k \in 1..Len(H) : k = p + 1 BY <2>3
    <3> HIDE DEF S, H, e, p, x
    <3> QED BY <2>6, <3>1, <3>2 DEF S
  <2>8. /\ Carries(H[p + 1], b[p + 1], b[(p + 1) + 1]) /\ OnBoard(s) = b[p + 1]
    BY <2>2, <2>3 DEF BoardsOf
  <2>9. /\ \A S, T : Carries(H[p + 1], S, T) <=> Carries(e, S, T)
        /\ OnBoard(t) = b[(p + 1) + 1]
    BY <2>3, <2>5, <2>8 DEF Carries
  <2>10. p + 1 \in 0..Len(H)
    BY <2>3
  <2> HIDE DEF x, t, e, a
  <2>11. Shaped(x)
    BY <2>3, <2>5, <2>6, <2>7, <2>10 DEF Shaped
  <2>12. BoardsOf(x, b)
    <3>1. \A i \in 1..Len(H) : Carries(x.history[i], b[i], b[i + 1])
      BY <2>2, <2>7, <2>8, <2>9 DEF BoardsOf
    <3> QED BY <2>6, <2>7, <2>9, <3>1 DEF BoardsOf
  <2> QED BY <2>11, <2>12 DEF Healthy, x
<1> QED BY <1>1, <1>2

\* Dropping the oldest entries leaves the rest revertible.
LEMMA ForgetfulIsHealthy ==
    ASSUME NEW m, Healthy(m)
    PROVE  Healthy(Forgetful(m)) /\ Forgetful(m).state = m.state
<1> DEFINE p == m.pointer
           H == m.history
           k == p - MaxUndo
           x == Forgetful(m)
           c == SubSeq(H, k + 1, Len(H))
<1>1. PICK S : H \in Seq(S)
  BY DEF Healthy, Shaped
<1>2. PICK b : BoardsOf(m, b)
  BY DEF Healthy
<1>3. /\ p \in 0..Len(H) /\ KnownState(m.state)
      /\ m = [state |-> m.state, history |-> m.history, pointer |-> m.pointer]
      /\ \A i \in 1..Len(H) : KnownEntry(H[i])
  BY DEF Healthy, Shaped
<1>4. CASE k <= 0
  BY <1>4 DEF Forgetful
<1>5. CASE ~(k <= 0)
  <2>1. /\ x.state = m.state /\ x.history = c /\ x.pointer = MaxUndo
        /\ x = [state |-> x.state, history |-> x.history, pointer |-> x.pointer]
    BY <1>3, <1>5 DEF Forgetful
  <2>2. MaxUndo \in Nat /\ k \in 0..Len(H) /\ MaxUndo \in 0..(Len(H) - k)
    BY <1>1, <1>3, <1>5, ServerAssumption
  <2>3. c \in Seq(S) /\ Len(c) = Len(H) - k /\ \A i \in 1..(Len(H) - k) : c[i] = H[k + i]
    <3> HIDE DEF H, k, p
    <3> QED BY <1>1, <2>2, CutFront
  <2> DEFINE d == [i \in 1..(Len(H) - k + 1) |-> b[k + i]]
  <2>4. /\ \A i \in 1..(Len(H) - k) : k + i \in 1..Len(H)
        /\ \A i \in 1..(Len(H) - k) : d[i] = b[k + i] /\ d[i + 1] = b[(k + i) + 1]
        /\ d[MaxUndo + 1] = b[p + 1]
    <3>1. Len(H) \in Nat /\ p \in Nat /\ k \in Nat /\ k + (MaxUndo + 1) = p + 1
      BY <1>1, <1>3, <2>2
    <3>2. MaxUndo + 1 \in 1..(Len(H) - k + 1)
      <4> HIDE DEF k, p, H
      <4> QED BY ONLY <2>2, <3>1
    <3>3. \A i \in 1..(Len(H) - k) : /\ i \in 1..(Len(H) - k + 1) /\ i + 1 \in 1..(Len(H) - k + 1)
                                     /\ k + (i + 1) = (k + i) + 1
                                     /\ k + i \in 1..Len(H)
      BY <3>1
    <3>4. d[MaxUndo + 1] = b[k + (MaxUndo + 1)]
      BY <3>2
    <3> HIDE DEF k, p, H
    <3> QED BY <3>1, <3>3, <3>4
  <2> HIDE DEF x, c, d, k
  <2>5. Shaped(x)
    BY <1>3, <2>1, <2>2, <2>3, <2>4 DEF Shaped
  <2>6. BoardsOf(x, d)
    <3>1. ASSUME NEW i \in 1..(Len(H) - k) PROVE Carries(c[i], d[i], d[i + 1])
      BY <1>2, <2>3, <2>4 DEF BoardsOf
    <3>2. OnBoard(x.state) = d[x.pointer + 1]
      BY <1>2, <2>1, <2>4 DEF BoardsOf
    <3> QED BY <2>1, <2>3, <3>1, <3>2 DEF BoardsOf
  <2> QED BY <2>1, <2>5, <2>6 DEF Healthy, x
<1> QED BY <1>4, <1>5

\* A list of actions that stops halfway is healthy, too.
LEMMA ExecutedAllIsHealthy ==
    ASSUME NEW m, Healthy(m), NEW acts, NEW n \in Nat, DOMAIN acts = 1..n,
           \A i \in 1..n : KnownAction(acts[i])
    PROVE  Healthy(ExecutedAll(m, acts).m)
<1>1. PICK g : /\ g[0] = Runner!Ran(m)
               /\ \A k \in 0..(n - 1) : g[k + 1] = ExecStep(None, g[k], acts[k + 1])
               /\ ExecutedAll(m, acts) = g[n]
  BY ExecutedAllUnrolled
<1> DEFINE S == {k \in 0..n : Healthy(g[k].m)}
<1>2. 0 \in S
  BY <1>1, RunIs
<1>3. ASSUME NEW k \in 0..(n - 1), k \in S PROVE k + 1 \in S
  <2>1. k + 1 \in 0..n /\ k + 1 \in 1..n /\ Healthy(g[k].m)
    BY <1>3
  <2>2. Healthy(Executed(g[k].m, acts[k + 1]))
    BY <2>1, ExecutedIsHealthy
  <2>3. Healthy(g[k + 1].m)
    BY <1>1, <2>1, <2>2, ExecStepIs, RunIs
  <2> QED BY <2>1, <2>3
<1> HIDE DEF S
<1>4. 0..n \subseteq S
  BY <1>2, <1>3, Acts!BoundedInduction
<1>5. n \in S
  BY <1>4
<1> QED BY <1>1, <1>5 DEF S

-----------------------------------------------------------------------------
(* 5. The calls the handlers share: the routine cursor, the sync behind a step, *)
(* the advance to the next slot and the price of a move.                        *)

LEMMA SlotType ==
    ASSUME NEW n \in Nat
    PROVE  /\ Slot(n).routine_arc_id \in DOMAIN RoutineActions
           /\ Slot(n).faction \in Factions /\ Slot(n).phase \in Phases
           /\ Slot(n).max_actions \in Nat
           /\ NextIndex(n) \in Nat /\ NextIndex(n) < Len(Schedule)
<1>1. Len(Schedule) \in Nat \ {0}
  BY ServerAssumption
<1>2. (n % Len(Schedule)) + 1 \in 1..Len(Schedule)
  <2> DEFINE k == Len(Schedule)
  <2> HIDE DEF k
  <2>1. k \in Nat \ {0} BY <1>1 DEF k
  <2>2. n % k \in 0..(k - 1) BY <2>1
  <2>3. (n % k) + 1 \in 1..k BY <2>1, <2>2
  <2> QED BY <2>3 DEF k
<1>3. Slot(n) \in [routine_arc_id: DOMAIN RoutineActions, faction: Factions,
                         phase: Phases, max_actions: Nat]
  <2> DEFINE i == (n % Len(Schedule)) + 1
  <2>1. i \in 1..Len(Schedule)
    BY <1>2
  <2> HIDE DEF i
  <2>2. Schedule[i] \in [routine_arc_id: DOMAIN RoutineActions, faction: Factions,
                          phase: Phases, max_actions: Nat]
    <3> DEFINE S == [routine_arc_id: DOMAIN RoutineActions, faction: Factions,
                     phase: Phases, max_actions: Nat]
    <3>1. Schedule \in Seq(S)
      BY ServerAssumption
    <3> HIDE DEF S
    <3>2. Schedule[i] \in S
      BY <2>1, <3>1
    <3> QED BY <3>2 DEF S
  <2> QED BY <2>2 DEF Slot, i
<1>4. NextIndex(n) \in 0..(Len(Schedule) - 1)
  <2> DEFINE k == Len(Schedule)
             j == (n % k) + 1
  <2>1. j \in Nat /\ k \in Nat \ {0}
    BY <1>1, <1>2
  <2> HIDE DEF k, j
  <2>2. j % k \in 0..(k - 1) BY <2>1
  <2> QED BY <2>2 DEF NextIndex, k, j
<1> QED BY <1>1, <1>3, <1>4

LEMMA SetsCursor ==
    ASSUME NEW m, NEW c
    PROVE  SetCursor(Runner!Ran(m), c) = Runner!Ran(Placed(m, c))
<1> DEFINE acts == <<Runner!SetArcCursor(c)>>
<1>1. ExecutedAll(m, acts) = Runner!Ran(Placed(m, c))
  BY Places
<1> HIDE DEF acts
<1>2. Runner!Run(Runner!Ran(m), acts) = Runner!Ran(Placed(m, c))
  BY <1>1, RunIs
<1> QED BY <1>2 DEF SetCursor, acts

LEMMA RoutineArcs ==
    ASSUME NEW arc \in DOMAIN RoutineActions
    PROVE  DeclaredArcs[arc].entry = "routine"
  BY DEF DeclaredArcs, RoutineArc

\* Where begin_routine_slot leaves the cursor.
InSlot(m) == Placed(m, RoutineCursor(Slot(m.state.turn.schedule_index).routine_arc_id))

LEMMA BeginsSlot ==
    ASSUME NEW m, m.state \in GameStates
    PROVE  BeginRoutineSlot(Runner!Ran(m)) = Runner!Ran(InSlot(m))
<1> DEFINE arc == Slot(m.state.turn.schedule_index).routine_arc_id
           x == Placed(m, RoutineCursor(arc))
<1>1. arc \in DOMAIN RoutineActions
  <2>1. m.state.turn.schedule_index \in Nat
    BY DEF GameStates, TurnStates
  <2> QED BY <2>1, SlotType
<1> HIDE DEF arc
<1>2. Runner!CursorAt(arc, DeclaredArcs[arc].entry) = RoutineCursor(arc)
  BY <1>1, RoutineArcs, CursorsAt
<1>3. Runner!Run(Runner!Ran(m), <<Runner!SetArcCursor(RoutineCursor(arc))>>) = Runner!Ran(x)
  BY SetsCursor DEF SetCursor
<1>4. x.state.engine.cursor \in RestCursors
  BY <1>1, PlacedCursor DEF RestCursors
<1>5. Runner!AutoAdvance(Runner!Ran(x)) = Runner!Ran(x)
  BY <1>4, AutoAtRest
<1>6. Runner!BeginArc(Runner!Ran(m), arc)
        = Runner!AutoAdvance(Runner!Run(Runner!Ran(m), <<Runner!SetArcCursor(RoutineCursor(arc))>>))
  BY <1>2 DEF Runner!BeginArc
<1>7. Runner!BeginArc(Runner!Ran(m), arc) = Runner!Ran(x)
  BY <1>3, <1>5, <1>6
<1>8. BeginRoutineSlot(Runner!Ran(m)) = Runner!BeginArc(Runner!Ran(m), arc)
  BY RunIs DEF BeginRoutineSlot, arc
<1> QED BY <1>7, <1>8 DEF InSlot, arc

\* The cursor is cleared and the routine cursor put back.
BackInSlot(m) == InSlot(Placed(m, None))

LEMMA RestoresRoutine ==
    ASSUME NEW m, m.state \in GameStates
    PROVE  RestoreRoutineCursor(SetCursor(Runner!Ran(m), None)) = Runner!Ran(BackInSlot(m))
<1> DEFINE x == Placed(m, None)
<1>1. x.state \in GameStates /\ x.state.engine.cursor = None
  BY PlacedCursor
<1>2. SetCursor(Runner!Ran(m), None) = Runner!Ran(x)
  BY SetsCursor
<1> HIDE DEF x
<1>3. RestoreRoutineCursor(Runner!Ran(x)) = BeginRoutineSlot(Runner!Ran(x))
  BY <1>1, RunIs DEF RestoreRoutineCursor
<1> QED BY <1>1, <1>2, <1>3, BeginsSlot DEF BackInSlot, x

\* What sync_movement_cursor_from_payload leaves: the cursor of the gate, or the slot's routine.
Synced(m) ==
    LET flow == m.state.engine.movement_arc
    IN  IF flow = None THEN BackInSlot(m)
        ELSE Placed(m, IF flow.gate = AwaitingInterrupt THEN WindowCursor("interrupt")
                       ELSE StepCursor("continue"))

\* The sync never raises by itself.
LEMMA SyncsCursor ==
    ASSUME NEW m, m.state \in GameStates
    PROVE  /\ SyncMovementCursor(Runner!Ran(m)) = Runner!Ran(Synced(m))
           /\ SyncMovementCursor(Runner!Raised(m)) = Runner!Raised(m)
<1> DEFINE flow == m.state.engine.movement_arc
<1>1. CASE flow = None
  BY <1>1, RunIs, RestoresRoutine DEF SyncMovementCursor, Synced
<1>2. CASE flow # None /\ flow.gate = AwaitingInterrupt
  BY <1>2, RunIs, CursorsAt, SetsCursor DEF SyncMovementCursor, Synced
<1>3. CASE flow # None /\ flow.gate # AwaitingInterrupt
  BY <1>3, RunIs, CursorsAt, SetsCursor DEF SyncMovementCursor, Synced
<1> QED BY <1>1, <1>2, <1>3, RunIs DEF SyncMovementCursor

LEMMA InSlotState ==
    ASSUME PlainTitle, NEW m, m.state \in GameStates
    PROVE  /\ InSlot(m).state \in GameStates
           /\ InSlot(m).state.engine.cursor =
                RoutineCursor(Slot(m.state.turn.schedule_index).routine_arc_id)
           /\ InSlot(m).state.engine.cursor \in RestCursors \ {None}
           /\ InSlot(m).state.engine.movement_arc = m.state.engine.movement_arc
           /\ InSlot(m).state.units = m.state.units
           /\ InSlot(m).state.turn = m.state.turn
<1> DEFINE arc == Slot(m.state.turn.schedule_index).routine_arc_id
<1>1. arc \in DOMAIN RoutineActions
  <2>1. m.state.turn.schedule_index \in Nat
    BY DEF GameStates, TurnStates
  <2> QED BY <2>1, SlotType
<1>2. RoutineCursor(arc) \in RestCursors \ {None} /\ RoutineCursor(arc) \in Cursors
  BY <1>1, CursorsAreNotNone, KnownCursorsType DEF RestCursors, KnownCursors
<1> HIDE DEF arc
<1>3. InSlot(m) = Placed(m, RoutineCursor(arc))
  BY DEF InSlot, arc
<1> QED BY <1>2, <1>3, PlacedCursor DEF arc

LEMMA BackInSlotState ==
    ASSUME PlainTitle, NEW m, m.state \in GameStates
    PROVE  /\ BackInSlot(m).state \in GameStates
           /\ BackInSlot(m).state.engine.cursor =
                RoutineCursor(Slot(m.state.turn.schedule_index).routine_arc_id)
           /\ BackInSlot(m).state.engine.cursor \in RestCursors \ {None}
           /\ BackInSlot(m).state.engine.movement_arc = m.state.engine.movement_arc
           /\ BackInSlot(m).state.units = m.state.units
           /\ BackInSlot(m).state.turn = m.state.turn
<1> DEFINE x == Placed(m, None)
<1>1. /\ x.state \in GameStates /\ x.state.units = m.state.units
      /\ x.state.turn = m.state.turn
      /\ x.state.engine.movement_arc = m.state.engine.movement_arc
  BY PlacedCursor
<1> HIDE DEF x
<1> QED BY <1>1, InSlotState DEF BackInSlot, x

LEMMA SyncedState ==
    ASSUME PlainTitle, NEW m, m.state \in GameStates
    PROVE  LET flow == m.state.engine.movement_arc
           IN  /\ Synced(m).state \in GameStates
               /\ Synced(m).state.engine.cursor =
                    IF flow = None
                    THEN RoutineCursor(Slot(m.state.turn.schedule_index).routine_arc_id)
                    ELSE IF flow.gate = AwaitingInterrupt THEN WindowCursor("interrupt")
                    ELSE StepCursor("continue")
               /\ Synced(m).state.engine.cursor \in RestCursors \ {None}
               /\ Synced(m).state.engine.movement_arc = flow
               /\ Synced(m).state.units = m.state.units
               /\ Synced(m).state.turn = m.state.turn
<1> DEFINE flow == m.state.engine.movement_arc
<1>1. CASE flow = None
  BY <1>1, BackInSlotState DEF Synced
<1>2. CASE flow # None
  <2> DEFINE c == IF flow.gate = AwaitingInterrupt THEN WindowCursor("interrupt")
                  ELSE StepCursor("continue")
  <2>1. c \in RestCursors \ {None} /\ c \in Cursors
    <3>1. c # None
      BY CursorsAreNotNone DEF MovementSegments
    <3>2. c \in RestCursors
      BY DEF RestCursors
    <3> QED BY <3>1, <3>2, KnownCursorsType DEF KnownCursors
  <2> HIDE DEF c
  <2>2. Synced(m) = Placed(m, c)
    BY <1>2 DEF Synced, c
  <2> QED BY <1>2, <2>1, <2>2, PlacedCursor DEF c
<1> QED BY <1>1, <1>2

\* The after-phase hook's patches leave units, turn and engine state alone.
LEMMA PatchesRun ==
    ASSUME NEW m, m.state \in GameStates, NEW acts \in Seq(BucketPatches)
    PROVE  LET x == ExecutedAll(m, acts).m
           IN  /\ ExecutedAll(m, acts) = Runner!Ran(x)
               /\ x.state \in GameStates
               /\ x.state.units = m.state.units
               /\ x.state.turn = m.state.turn
               /\ x.state.engine = m.state.engine
               /\ Healthy(m) => Healthy(x)
<1> DEFINE n == Len(acts)
           Like(s) == /\ s \in GameStates /\ s.units = m.state.units
                      /\ s.turn = m.state.turn /\ s.engine = m.state.engine
<1>1. n \in Nat /\ DOMAIN acts = 1..n /\ \A i \in 1..n : acts[i] \in BucketPatches
  OBVIOUS
<1>2. \A a \in BucketPatches : KnownAction(a) /\ a.kind = "BucketPatch"
  BY DEF BucketPatches, KnownAction, StateActionSet
<1>3. ASSUME NEW s, Like(s), NEW a \in BucketPatches
      PROVE  CanApply(a, s) /\ Like(Apply(a, s))
  <2>1. a.kind = "BucketPatch" /\ a \in StateActionSet
    BY <1>2 DEF KnownAction
  <2>2. CanApply(a, s)
    BY <2>1 DEF CanApply
  <2>3. Apply(a, s) \in GameStates
    BY <1>3, <2>1, <2>2, ApplyType
  <2>4. Apply(a, s) = ApplyBucketPatch(a, s)
    BY <2>1 DEF Apply
  <2>5. /\ Apply(a, s).units = s.units /\ Apply(a, s).turn = s.turn
        /\ Apply(a, s).engine = s.engine
    BY <1>3, <2>4 DEF ApplyBucketPatch, GameStates
  <2> QED BY <1>3, <2>2, <2>3, <2>5
<1>4. Like(m.state)
  OBVIOUS
<1> HIDE DEF n, Like
<1>5. PICK g : /\ g[0] = Runner!Ran(m)
               /\ \A k \in 0..(n - 1) : g[k + 1] = ExecStep(None, g[k], acts[k + 1])
               /\ ExecutedAll(m, acts) = g[n]
  BY <1>1, ExecutedAllUnrolled
<1> DEFINE S == {k \in 0..n : \E y : /\ g[k] = Runner!Ran(y) /\ Like(y.state)
                                     /\ Healthy(m) => Healthy(y)}
<1>6. 0 \in S
  BY <1>1, <1>4, <1>5
<1>7. ASSUME NEW k \in 0..(n - 1), k \in S PROVE k + 1 \in S
  <2>1. k + 1 \in 0..n /\ k + 1 \in 1..n
    BY <1>1
  <2>2. PICK y : g[k] = Runner!Ran(y) /\ Like(y.state) /\ (Healthy(m) => Healthy(y))
    BY <1>7
  <2> DEFINE a == acts[k + 1]
             z == Executed(y, a)
  <2>3. a \in BucketPatches
    BY <1>1, <2>1
  <2> HIDE DEF a
  <2>4. CanApply(a, y.state) /\ Like(Apply(a, y.state))
    BY <1>3, <2>2, <2>3
  <2>5. z.state = Apply(a, y.state)
    BY <2>4 DEF Executed
  <2>6. Healthy(m) => Healthy(z)
    BY <1>2, <2>2, <2>3, ExecutedIsHealthy
  <2>7. g[k + 1] = Runner!Ran(z)
    BY <1>5, <2>2, <2>4, ExecStepIs, RunIs DEF a
  <2> HIDE DEF z
  <2> QED BY <2>1, <2>4, <2>5, <2>6, <2>7
<1> HIDE DEF S
<1>8. 0..n \subseteq S
  BY <1>1, <1>6, <1>7, Acts!BoundedInduction
<1>9. PICK y : /\ g[n] = Runner!Ran(y) /\ Like(y.state) /\ (Healthy(m) => Healthy(y))
  <2>1. n \in S
    BY <1>1, <1>8
  <2> QED BY <2>1 DEF S
<1>10. ExecutedAll(m, acts).m = y
  BY <1>5, <1>9, RunIs
<1> QED BY <1>5, <1>9, <1>10 DEF Like

\* The turn of the next slot of the rota.
NextTurn(turn) ==
    LET n == NextIndex(turn.schedule_index)
    IN  [current_faction |-> Slot(n).faction, current_phase |-> Slot(n).phase,
         phase_actions_remaining |-> Slot(n).max_actions, schedule_index |-> n,
         global_tick |-> turn.global_tick + 1]

\* The next slot is on, and a flow that was open is dropped.
PhaseEnded(m) == Executed(Executed(m, NextPhase(m.state)), WriteArc(None))

LEMMA KnownMoves ==
    /\ \A a \in StateActionSet : a.kind # "SetArcCursor" => KnownAction(a)
    /\ \A c \in KnownCursors : PlainTitle => KnownAction(Runner!SetArcCursor(c))
    /\ KnownAction(WriteArc(None))
    /\ \A k \in Int : KnownAction([kind |-> "SpendAction", amount |-> k])
    /\ \A s \in GameStates : NextPhase(s) \in NextPhases /\ KnownAction(NextPhase(s))
<1>1. \A a \in StateActionSet : a.kind # "SetArcCursor" => KnownAction(a)
  BY DEF KnownAction
<1>2. ASSUME NEW c \in KnownCursors, PlainTitle PROVE KnownAction(Runner!SetArcCursor(c))
  <2>1. c \in Cursors \cup {None}
    BY <1>2, KnownCursorsType
  <2>2. Runner!SetArcCursor(c) \in SetArcCursors
    BY <2>1 DEF Runner!SetArcCursor, SetArcCursors
  <2> QED BY <2>2 DEF KnownAction, StateActionSet, Runner!SetArcCursor
<1>3. KnownAction(WriteArc(None))
  <2>1. WriteArc(None) \in WriteArcs
    BY DEF WriteArc, WriteArcs
  <2> QED BY <2>1 DEF KnownAction, StateActionSet, WriteArcs
<1>4. ASSUME NEW k \in Int PROVE KnownAction([kind |-> "SpendAction", amount |-> k])
  <2>1. [kind |-> "SpendAction", amount |-> k] \in SpendActions
    BY DEF SpendActions
  <2> QED BY <2>1 DEF KnownAction, StateActionSet
<1>5. ASSUME NEW s \in GameStates PROVE NextPhase(s) \in NextPhases /\ KnownAction(NextPhase(s))
  <2> DEFINE n == NextIndex(s.turn.schedule_index)
  <2>1. n \in Nat
    BY SlotType DEF GameStates, TurnStates
  <2>2. NextPhase(s) = [kind |-> "NextPhase", new_faction |-> Slot(n).faction,
                        new_phase |-> Slot(n).phase, max_actions |-> Slot(n).max_actions,
                        new_schedule_index |-> n]
    BY DEF NextPhase
  <2> HIDE DEF n
  <2>3. NextPhase(s) \in NextPhases
    BY <2>1, <2>2, SlotType DEF NextPhases
  <2> QED BY <2>3 DEF KnownAction, StateActionSet, NextPhases
<1> QED BY <1>1, <1>2, <1>3, <1>4, <1>5

LEMMA PlacedIsHealthy ==
    ASSUME PlainTitle, NEW m, Healthy(m), NEW c \in KnownCursors
    PROVE  Healthy(Placed(m, c))
  BY KnownMoves, ExecutedIsHealthy DEF Placed

LEMMA HealthyState ==
    ASSUME NEW m, Healthy(m)
    PROVE  m.state \in GameStates /\ m.state.engine.cursor \in KnownCursors
  BY DEF Healthy, Shaped, KnownState

LEMMA PhaseEndedState ==
    ASSUME NEW m, m.state \in GameStates
    PROVE  /\ ExecutedAll(m, <<NextPhase(m.state), WriteArc(None)>>) = Runner!Ran(PhaseEnded(m))
           /\ PhaseEnded(m).state \in GameStates
           /\ PhaseEnded(m).state.units = m.state.units
           /\ PhaseEnded(m).state.turn = NextTurn(m.state.turn)
           /\ PhaseEnded(m).state.engine.movement_arc = None
           /\ Healthy(m) => Healthy(PhaseEnded(m))
<1> DEFINE s == m.state
           a == NextPhase(s)
           b == WriteArc(None)
           y == Executed(m, a)
<1>1. CanApply(a, s) /\ Apply(a, s) = ApplyNextPhase(a, s) /\ \A t : CanApply(b, t)
  BY DEF NextPhase, WriteArc, CanApply, Apply
<1>2. y.state = ApplyNextPhase(a, s)
  BY <1>1 DEF Executed
<1>3. a \in NextPhases /\ KnownAction(a) /\ a \in StateActionSet
  BY KnownMoves DEF KnownAction
<1>4. y.state \in GameStates
  BY <1>1, <1>2, <1>3, ApplyType
<1>5. y.state.units = s.units /\ y.state.engine = s.engine /\ y.state.turn = NextTurn(s.turn)
  <2>1. y.state = [s EXCEPT !.turn = NextTurn(s.turn)]
    BY <1>2 DEF ApplyNextPhase, NextPhase, NextTurn, GameStates
  <2> QED BY <2>1 DEF GameStates
<1>6. PhaseEnded(m) = Finished(y)
  BY DEF PhaseEnded, Finished
<1>7. Healthy(m) => Healthy(y)
  BY <1>3, ExecutedIsHealthy
<1>8. Healthy(m) => Healthy(PhaseEnded(m))
  BY <1>7, KnownMoves, ExecutedIsHealthy DEF PhaseEnded
<1> HIDE DEF y, a, b
<1>9. ExecutedAll(m, <<a, b>>) = Runner!Ran(Executed(Executed(m, a), b))
  BY <1>1, RunOfTwo DEF y
<1> QED BY <1>4, <1>5, <1>6, <1>8, <1>9, FinishedArc DEF a, b, PhaseEnded

\* With the slot's routine cursor, and the hook behind it.
Advanced(m) ==
    ExecutedAll(InSlot(PhaseEnded(m)), AfterPhase(InSlot(PhaseEnded(m)).state)).m

\* _after_next_phase_applied does not raise, and leads to the next slot of the rota at rest.
LEMMA AdvancesPhase ==
    ASSUME PlainTitle, NEW m, m.state \in GameStates
    PROVE  /\ AdvancePhase(Runner!Ran(m)) = Runner!Ran(Advanced(m))
           /\ Advanced(m).state \in GameStates
           /\ Advanced(m).state.units = m.state.units
           /\ Advanced(m).state.turn = NextTurn(m.state.turn)
           /\ Advanced(m).state.engine.movement_arc = None
           /\ Advanced(m).state.engine.cursor =
                RoutineCursor(Slot(NextIndex(m.state.turn.schedule_index)).routine_arc_id)
           /\ Advanced(m).state.engine.cursor \in RestCursors \ {None}
           /\ Healthy(m) => Healthy(Advanced(m))
<1> DEFINE t == PhaseEnded(m)
           x == InSlot(t)
           acts == <<NextPhase(m.state), WriteArc(None)>>
<1>1. /\ ExecutedAll(m, acts) = Runner!Ran(t)
      /\ t.state \in GameStates /\ t.state.units = m.state.units
      /\ t.state.turn = NextTurn(m.state.turn)
      /\ t.state.engine.movement_arc = None
      /\ Healthy(m) => Healthy(t)
  BY PhaseEndedState
<1> HIDE DEF t
<1>2. /\ x.state \in GameStates
      /\ x.state.engine.cursor = RoutineCursor(Slot(t.state.turn.schedule_index).routine_arc_id)
      /\ x.state.engine.cursor \in RestCursors \ {None}
      /\ x.state.engine.movement_arc = None
      /\ x.state.units = m.state.units
      /\ x.state.turn = NextTurn(m.state.turn)
  BY <1>1, InSlotState
<1>3. NextTurn(m.state.turn).schedule_index = NextIndex(m.state.turn.schedule_index)
  BY DEF NextTurn
<1>4. Healthy(m) => Healthy(x)
  <2>1. InSlot(t) = Placed(t, x.state.engine.cursor)
    BY <1>2 DEF InSlot
  <2>2. x.state.engine.cursor \in KnownCursors
    BY <1>2 DEF KnownCursors
  <2> QED BY <1>1, <2>1, <2>2, PlacedIsHealthy
<1>5. BeginRoutineSlot(Runner!Run(Runner!Ran(m), acts)) = Runner!Ran(x)
  <2> HIDE DEF acts
  <2>1. Runner!Run(Runner!Ran(m), acts) = Runner!Ran(t)
    BY <1>1, RunIs
  <2> QED BY <1>1, <2>1, BeginsSlot
<1>6. AfterPhase(x.state) \in Seq(BucketPatches)
  BY <1>2 DEF PlainTitle
<1> HIDE DEF x, acts
<1>7. AdvancePhase(Runner!Ran(m)) = Runner!Run(Runner!Ran(x), AfterPhase(x.state))
  BY <1>5, RunIs DEF AdvancePhase, acts
<1>8. Advanced(m) = ExecutedAll(x, AfterPhase(x.state)).m
  BY DEF Advanced, x, t
<1>9. AdvancePhase(Runner!Ran(m)) = ExecutedAll(x, AfterPhase(x.state))
  BY <1>7, RunIs
<1>10. /\ ExecutedAll(x, AfterPhase(x.state)) = Runner!Ran(Advanced(m))
       /\ Advanced(m).state \in GameStates
       /\ Advanced(m).state.units = x.state.units
       /\ Advanced(m).state.turn = x.state.turn
       /\ Advanced(m).state.engine = x.state.engine
       /\ Healthy(x) => Healthy(Advanced(m))
  BY <1>2, <1>6, <1>8, PatchesRun
<1> QED BY <1>1, <1>2, <1>3, <1>4, <1>9, <1>10

Spending(k) == [kind |-> "SpendAction", amount |-> k]

SpentOne(m) == Executed(m, Spending(1))

\* One action is spent for the move; the last of the slot ends the phase.
Paid(m) == IF SpentOne(m).state.turn.phase_actions_remaining > 0 THEN SpentOne(m)
           ELSE Advanced(SpentOne(m))

LEMMA SpendsAction ==
    ASSUME NEW m, m.state \in GameStates, NEW k \in Int
    PROVE  LET x == Executed(m, Spending(k))
           IN  /\ ExecutedAll(m, <<Spending(k)>>) = Runner!Ran(x)
               /\ x.state \in GameStates
               /\ x.state.units = m.state.units
               /\ x.state.engine = m.state.engine
               /\ x.state.turn = [m.state.turn EXCEPT !.phase_actions_remaining = @ - k]
               /\ Healthy(m) => Healthy(x)
<1> DEFINE a == Spending(k)
           x == Executed(m, a)
<1>1. CanApply(a, m.state)
      /\ Apply(a, m.state) = [m.state EXCEPT !.turn.phase_actions_remaining = @ - k]
  BY DEF CanApply, Apply, Spending
<1>2. KnownAction(a) /\ a \in StateActionSet
  BY KnownMoves DEF KnownAction, Spending
<1> HIDE DEF a
<1>3. x.state = [m.state EXCEPT !.turn.phase_actions_remaining = @ - k]
  BY <1>1 DEF Executed
<1>4. ExecutedAll(m, <<a>>) = Runner!Ran(x)
  BY <1>1, RunOfOne
<1>5. x.state \in GameStates
  BY <1>1, <1>2, <1>3, ApplyType
<1>6. Healthy(m) => Healthy(x)
  BY <1>2, ExecutedIsHealthy
<1> HIDE DEF x
<1>7. /\ x.state.units = m.state.units
      /\ x.state.engine = m.state.engine
      /\ x.state.turn = [m.state.turn EXCEPT !.phase_actions_remaining = @ - k]
  BY <1>3 DEF GameStates
<1> QED BY <1>4, <1>5, <1>6, <1>7 DEF a, x

\* _spend_action_after_normal_move_unit does not raise.
LEMMA PaysForMove ==
    ASSUME PlainTitle, NEW m, m.state \in GameStates
    PROVE  /\ SpendAfterMove(Runner!Ran(m)) = Runner!Ran(Paid(m))
           /\ Paid(m).state \in GameStates
           /\ Paid(m).state.units = m.state.units
           /\ Healthy(m) => Healthy(Paid(m))
<1> DEFINE a == Spending(1)
           x == SpentOne(m)
<1>1. /\ ExecutedAll(m, <<a>>) = Runner!Ran(x)
      /\ x.state \in GameStates
      /\ x.state.units = m.state.units
      /\ Healthy(m) => Healthy(x)
  <2> DEFINE k == 1
             y == Executed(m, Spending(k))
  <2>1. k \in Int
    OBVIOUS
  <2> HIDE DEF k
  <2>2. /\ ExecutedAll(m, <<Spending(k)>>) = Runner!Ran(y)
        /\ y.state \in GameStates
        /\ y.state.units = m.state.units
        /\ Healthy(m) => Healthy(y)
    BY <2>1, SpendsAction
  <2> QED BY <2>2 DEF SpentOne, k
<1>2. Runner!Run(Runner!Ran(m), <<a>>) = Runner!Ran(x)
  <2> DEFINE acts == <<a>>
  <2>1. ExecutedAll(m, acts) = Runner!Ran(x)
    BY <1>1
  <2> HIDE DEF acts
  <2>2. Runner!Run(Runner!Ran(m), acts) = Runner!Ran(x)
    BY <2>1, RunIs
  <2> QED BY <2>2 DEF acts
<1>3. SpendAfterMove(Runner!Ran(m)) = AdvanceIfSpent(Runner!Ran(x))
  BY <1>2 DEF SpendAfterMove, Spending
<1> HIDE DEF x
<1>4. AdvanceIfSpent(Runner!Ran(x)) =
        IF x.state.turn.phase_actions_remaining > 0 THEN Runner!Ran(x)
        ELSE AdvancePhase(Runner!Ran(x))
  BY RunIs DEF AdvanceIfSpent
<1>5. Paid(m) = IF x.state.turn.phase_actions_remaining > 0 THEN x ELSE Advanced(x)
  BY DEF Paid, x
<1> QED BY <1>1, <1>3, <1>4, <1>5, AdvancesPhase

-----------------------------------------------------------------------------
(* 6. The cost of a path is the sum of its steps, and every path the search    *)
(* finds starts at the unit and is paid for by the budget.                     *)

\* The folds of the path's cost and of the search's rounds.
AddStep(p, c, i) == c + StepCosts[p[i]][p[i + 1]]

Costs == INSTANCE Folding WITH op <- AddStep

StepLonger(x, paths, n) ==
    paths \cup Longer(x.s, x.u, x.budget, x.zoc, x.blocked, {p \in paths : Len(p) = n})

Growth == INSTANCE Folding WITH op <- StepLonger

LEMMA PathCostFolds ==
    \A p : PathCost(p) = Costs!Folded(p, 0, [i \in 1..(Len(p) - 1) |-> i])
  BY DEF PathCost, Costs!Folded, FoldLeft, MapThenFoldSet,
         Costs!MapThenFoldSet, Max, Costs!Greatest, AddStep

LEMMA PathsFold ==
    \A x : PathsUnder(x.s, x.u, x.budget, x.zoc, x.blocked) =
              Growth!Folded(x, {<<x.s.units[x.u].position>>},
                            [n \in 1..(Cardinality(Hexes) - 1) |-> n])
  BY DEF PathsUnder, Growth!Folded, FoldLeft, MapThenFoldSet,
         Growth!MapThenFoldSet, Max, Growth!Greatest, StepLonger

\* The cost grows along the path from 0, by the cost of each step.
LEMMA PathCostSums ==
    ASSUME NEW p \in Seq(Hexes), p # <<>>
    PROVE  \E g : /\ g[0] = 0
                  /\ \A k \in 0..(Len(p) - 2) : g[k + 1] = g[k] + StepCosts[p[k + 1]][p[k + 2]]
                  /\ \A k \in 0..(Len(p) - 1) : g[k] \in Nat
                  /\ PathCost(p) = g[Len(p) - 1]
<1> DEFINE n == Len(p) - 1
           seq == [i \in 1..n |-> i]
<1>1. n \in Nat /\ DOMAIN seq = 1..n /\ Len(p) = n + 1 /\ n - 1 = Len(p) - 2
  OBVIOUS
<1>2. \A k \in 0..(n - 1) : k + 1 \in 1..n /\ seq[k + 1] = k + 1 /\ (k + 1) + 1 = k + 2
                            /\ p[k + 1] \in Hexes /\ p[k + 2] \in Hexes
  BY <1>1
<1> DEFINE none == 0
<1>3. PathCost(p) = Costs!Folded(p, none, seq)
  BY PathCostFolds
<1> HIDE DEF n, seq, none
<1>4. PICK g : /\ g[0] = none
               /\ \A k \in 0..(n - 1) : g[k + 1] = AddStep(p, g[k], seq[k + 1])
               /\ Costs!Folded(p, none, seq) = g[n]
  <2>1. n \in Nat /\ DOMAIN seq = 1..n
    BY <1>1
  <2>2. Costs!RunsThrough(p, none, seq, n)
    BY <2>1, Costs!Unrolled
  <2> QED BY <2>2, Zenon DEF Costs!RunsThrough
<1>5. \A k \in 0..(n - 1) : g[k + 1] = g[k] + StepCosts[p[k + 1]][p[k + 2]]
  BY <1>2, <1>4 DEF AddStep
<1> DEFINE S == {k \in 0..n : g[k] \in Nat}
<1>6. 0 \in S
  BY <1>1, <1>4 DEF none
<1>7. ASSUME NEW k \in 0..(n - 1), k \in S PROVE k + 1 \in S
  <2>1. StepCosts[p[k + 1]][p[k + 2]] \in Nat
    BY <1>2, GraphAssumption
  <2>2. k + 1 \in 0..n
    BY <1>1
  <2>3. g[k] \in Nat /\ g[k + 1] = g[k] + StepCosts[p[k + 1]][p[k + 2]]
    BY <1>5, <1>7
  <2>4. g[k + 1] \in Nat
    BY ONLY <2>1, <2>3
  <2> QED BY <2>2, <2>4
<1> HIDE DEF S
<1>8. 0..n \subseteq S
  BY <1>1, <1>6, <1>7, Costs!BoundedInduction
<1>9. \A k \in 0..n : g[k] \in Nat
  BY <1>8 DEF S
<1> QED BY <1>1, <1>3, <1>4, <1>5, <1>9 DEF n, none

LEMMA PathCostType ==
    ASSUME NEW p \in Seq(Hexes), p # <<>>
    PROVE  PathCost(p) \in Nat
<1>1. Len(p) - 1 \in 0..(Len(p) - 1)
  OBVIOUS
<1> QED BY <1>1, PathCostSums

\* The first step is paid for, then the rest of the path.
LEMMA PathCostFirst ==
    ASSUME NEW p \in Seq(Hexes), Len(p) > 1
    PROVE  PathCost(p) = StepCosts[p[1]][p[2]] + PathCost(SubSeq(p, 2, Len(p)))
<1> DEFINE q == SubSeq(p, 2, Len(p))
           n == Len(p) - 2
<1>1. /\ q \in Seq(Hexes) /\ Len(q) = n + 1 /\ n \in Nat /\ Len(q) - 1 = n /\ Len(q) - 2 = n - 1
      /\ \A i \in 1..(n + 1) : q[i] = p[i + 1]
      /\ Len(p) = n + 2
  OBVIOUS
<1> HIDE DEF q, n
<1>2. p # <<>> /\ q # <<>>
  BY <1>1
<1>3. PICK g : /\ g[0] = 0
               /\ \A k \in 0..(Len(p) - 2) : g[k + 1] = g[k] + StepCosts[p[k + 1]][p[k + 2]]
               /\ \A k \in 0..(Len(p) - 1) : g[k] \in Nat
               /\ PathCost(p) = g[Len(p) - 1]
  BY <1>2, PathCostSums
<1>4. PICK h : /\ h[0] = 0
               /\ \A k \in 0..(n - 1) : h[k + 1] = h[k] + StepCosts[q[k + 1]][q[k + 2]]
               /\ \A k \in 0..n : h[k] \in Nat
               /\ PathCost(q) = h[n]
  BY <1>1, <1>2, PathCostSums
<1> DEFINE c == StepCosts[p[1]][p[2]]
           S == {k \in 0..n : g[k + 1] = c + h[k]}
<1>5. c \in Nat /\ Len(p) - 2 = n /\ Len(p) - 1 = n + 1
  <2>1. p[1] \in Hexes /\ p[2] \in Hexes
    OBVIOUS
  <2> QED BY <1>1, <2>1, GraphAssumption
<1> HIDE DEF c
<1>6. 0 \in S
  <2>1. 0 \in 0..(Len(p) - 2) /\ 0 + 1 = 1 /\ 0 + 2 = 2 /\ 0 \in 0..n
    BY <1>1
  <2>2. g[0 + 1] = g[0] + StepCosts[p[0 + 1]][p[0 + 2]]
    BY <1>3, <2>1
  <2> QED BY <1>3, <1>4, <1>5, <2>1, <2>2 DEF c
<1>7. ASSUME NEW k \in 0..(n - 1), k \in S PROVE k + 1 \in S
  <2>1. /\ k + 1 \in 0..n /\ k + 1 \in 0..(Len(p) - 2) /\ k \in 0..n
        /\ q[k + 1] = p[k + 2] /\ q[k + 2] = p[k + 3]
        /\ (k + 1) + 1 = k + 2 /\ (k + 1) + 2 = k + 3
    <3>1. k + 1 \in 1..(n + 1) /\ k + 2 \in 1..(n + 1) /\ (k + 1) + 1 = k + 2 /\ (k + 2) + 1 = k + 3
      BY <1>1
    <3>2. q[k + 1] = p[k + 2] /\ q[k + 2] = p[k + 3]
      BY <1>1, <3>1
    <3> QED BY <1>1, <3>1, <3>2
  <2>2. g[k + 2] = g[k + 1] + StepCosts[p[k + 2]][p[k + 3]]
    BY <1>3, <2>1
  <2>3. h[k + 1] = h[k] + StepCosts[p[k + 2]][p[k + 3]]
    BY <1>4, <2>1
  <2>4. StepCosts[p[k + 2]][p[k + 3]] \in Nat
    <3>1. p[k + 2] \in Hexes /\ p[k + 3] \in Hexes
      BY <1>1
    <3> QED BY <3>1, GraphAssumption
  <2>5. g[k + 1] = c + h[k]
    BY <1>7
  <2> DEFINE w == StepCosts[p[k + 2]][p[k + 3]]
  <2> HIDE DEF w
  <2>6. h[k] \in Nat
    BY <1>4, <2>1
  <2>7. g[k + 2] = c + h[k + 1]
    <3>1. c \in Nat /\ w \in Nat /\ g[k + 2] = g[k + 1] + w /\ h[k + 1] = h[k] + w
      BY <1>5, <2>2, <2>3, <2>4, Zenon DEF w
    <3> QED BY ONLY <3>1, <2>5, <2>6
  <2> QED BY <2>1, <2>7
<1> HIDE DEF S
<1>8. 0..n \subseteq S
  BY <1>1, <1>6, <1>7, Costs!BoundedInduction
<1>9. n \in S
  BY <1>1, <1>8
<1>10. g[n + 1] = c + h[n]
  BY <1>9 DEF S
<1> QED BY <1>3, <1>4, <1>5, <1>10 DEF c, q

\* A path from where the unit stands, paid for by the budget unless it ends there.
Walkable(s, u, budget, p) ==
    /\ p \in Seq(Hexes) /\ p # <<>>
    /\ p[1] = s.units[u].position
    /\ Len(p) > 1 => PathCost(p) <= budget

\* The search extends walkable paths to walkable paths.
LEMMA LongerIsWalkable ==
    ASSUME NEW s, NEW u, NEW budget, NEW zoc, NEW blocked, NEW paths,
           \A p \in paths : Walkable(s, u, budget, p)
    PROVE  \A p \in Longer(s, u, budget, zoc, blocked, paths) : Walkable(s, u, budget, p)
<1> SUFFICES ASSUME NEW p \in Longer(s, u, budget, zoc, blocked, paths)
             PROVE  Walkable(s, u, budget, p)
  OBVIOUS
<1>0. PICK q \in paths : \E h \in Neighbours[Last(q)] : p = Append(q, h)
  BY DEF Longer
<1>1. PICK h \in Neighbours[Last(q)] : p = Append(q, h)
  BY <1>0
<1>2. PathCost(p) <= budget
  BY DEF Longer
<1>3. q \in Seq(Hexes) /\ q # <<>> /\ q[1] = s.units[u].position
  BY <1>1 DEF Walkable
<1>4. h \in Hexes
  <2>1. Last(q) \in Hexes
    BY <1>3 DEF Last
  <2> QED BY <1>1, <2>1, GraphAssumption
<1>5. p \in Seq(Hexes) /\ p # <<>> /\ p[1] = q[1]
  BY <1>1, <1>3, <1>4
<1> QED BY <1>2, <1>3, <1>5 DEF Walkable

Grows(g, w, first, idx, n) ==
    /\ g[0] = first
    /\ \A k \in 0..(n - 1) : g[k + 1] = StepLonger(w, g[k], idx[k + 1])
    /\ Growth!Folded(w, first, idx) = g[n]

LEMMA PathsGrow ==
    ASSUME NEW w, NEW first, NEW idx, NEW n \in Nat, DOMAIN idx = 1..n
    PROVE  \E g : Grows(g, w, first, idx, n)
<1>1. Growth!RunsThrough(w, first, idx, n)
  BY Growth!Unrolled
<1> QED BY <1>1, Zenon DEF Growth!RunsThrough, Grows

\* Every path of the search is walkable: a set induction over its rounds.
LEMMA PathsAreWalkable ==
    ASSUME NEW s \in GameStates, NEW u \in Units, Present(s, u), NEW budget, NEW zoc, NEW blocked
    PROVE  \A p \in PathsUnder(s, u, budget, zoc, blocked) : Walkable(s, u, budget, p)
<1> DEFINE w == [s |-> s, u |-> u, budget |-> budget, zoc |-> zoc, blocked |-> blocked]
           first == {<<w.s.units[w.u].position>>}
           n == Cardinality(Hexes) - 1
           idx == [i \in 1..n |-> i]
           Good(P) == \A p \in P : Walkable(w.s, w.u, w.budget, p)
<1>1. w.s = s /\ w.u = u /\ w.budget = budget /\ w.zoc = zoc /\ w.blocked = blocked
  OBVIOUS
<1> HIDE DEF w
<1>2. w.s.units[w.u].position \in Hexes
  BY <1>1 DEF GameStates, UnitStates, Present
<1>3. n \in Nat /\ DOMAIN idx = 1..n
  <2>1. IsFiniteSet(Hexes) /\ Hexes # {}
    BY <1>2, GraphAssumption
  <2>2. Cardinality(Hexes) \in Nat /\ Cardinality(Hexes) # 0
    BY <2>1, FS_CardinalityType, FS_EmptySet
  <2> QED BY <2>2
<1>4. Good(first)
  <2> DEFINE h == w.s.units[w.u].position
  <2>1. h \in Hexes BY <1>2
  <2> HIDE DEF h
  <2>2. <<h>> \in Seq(Hexes) /\ <<h>> # <<>> /\ <<h>>[1] = h /\ Len(<<h>>) = 1
    BY <2>1
  <2>3. Walkable(w.s, w.u, w.budget, <<h>>)
    BY <2>2 DEF Walkable, h
  <2> QED BY <2>3 DEF h
<1>5. PathsUnder(w.s, w.u, w.budget, w.zoc, w.blocked) = Growth!Folded(w, first, idx)
  BY PathsFold
<1> HIDE DEF first, n, idx
<1>6. PICK g : Grows(g, w, first, idx, n)
  BY <1>3, PathsGrow
<1> DEFINE S == {k \in 0..n : Good(g[k])}
<1>7. 0 \in S
  BY <1>3, <1>4, <1>6 DEF Grows
<1>8. ASSUME NEW k \in 0..(n - 1), k \in S PROVE k + 1 \in S
  <2>1. k + 1 \in 0..n
    BY <1>3
  <2>2. Good(g[k])
    BY <1>8
  <2> DEFINE part == {p \in g[k] : Len(p) = idx[k + 1]}
  <2>3. \A p \in Longer(w.s, w.u, w.budget, w.zoc, w.blocked, part) : Walkable(w.s, w.u, w.budget, p)
    <3>1. \A p \in part : Walkable(w.s, w.u, w.budget, p)
      BY <2>2
    <3> HIDE DEF part
    <3> QED BY <3>1, LongerIsWalkable
  <2>4. g[k + 1] = g[k] \cup Longer(w.s, w.u, w.budget, w.zoc, w.blocked, part)
    BY <1>6 DEF StepLonger, Grows
  <2> HIDE DEF part
  <2>5. Good(g[k + 1])
    BY <2>2, <2>3, <2>4
  <2> QED BY <2>1, <2>5
<1> HIDE DEF S
<1>9. 0..n \subseteq S
  BY <1>3, <1>7, <1>8, Growth!BoundedInduction
<1>10. Good(g[n])
  <2>1. n \in S
    BY <1>3, <1>9
  <2> QED BY <2>1 DEF S
<1>11. Good(PathsUnder(w.s, w.u, w.budget, w.zoc, w.blocked))
  BY <1>5, <1>6, <1>10 DEF Grows
<1> HIDE DEF Good
<1>12. Good(PathsUnder(s, u, budget, zoc, blocked))
  BY <1>1, <1>11
<1> QED BY <1>1, <1>12 DEF Good

\* The shortest path is a path, if there is one.
LEMMA ShortestIsWalkable ==
    ASSUME NEW s \in GameStates, NEW u \in Units, NEW to, NEW budget,
           ShortestPath(s, u, to, budget) # None
    PROVE  Walkable(s, u, budget, ShortestPath(s, u, to, budget))
<1> DEFINE P == {p \in Paths(s, u, budget) : Last(p) = to}
           C == {PathCost(p) : p \in P}
<1>1. ShortestPath(s, u, to, budget) = Cheapest(P) /\ Present(s, u)
  BY DEF ShortestPath, ActiveIn
<1>2. P # {}
  BY <1>1 DEF Cheapest
<1>3. \A p \in P : Walkable(s, u, budget, p)
  BY <1>1, PathsAreWalkable DEF Paths
<1>4. C \in SUBSET Nat /\ C # {}
  BY <1>2, <1>3, PathCostType DEF Walkable
<1>5. PICK c \in C : \A d \in C : c <= d
  BY <1>4, Costs!LeastNumber
<1>6. \E p \in P : \A q \in P : PathCost(p) <= PathCost(q)
  BY <1>5
<1>7. Cheapest(P) \in P
  BY <1>2, <1>6 DEF Cheapest
<1> QED BY <1>1, <1>3, <1>7

-----------------------------------------------------------------------------
(* 7. What submit_event makes of an event in each segment. *)

\* Events that no segment of the stepwise arc awaits.
LEMMA SubmitsElsewhere ==
    ASSUME NEW m, NEW t, NEW f, NEW params
    PROVE  /\ m.state.engine.cursor \in {None} \cup {RoutineCursor(arc) : arc \in DOMAIN RoutineActions}
                => Runner!SubmitEvent(m, "movement", t, f, params) = Runner!Rejected(m)
           /\ m.state.engine.cursor \in {StepCursor("step_resolve"), WindowCursor("interrupt_resolve")}
                /\ PlainTitle
                => Runner!SubmitEvent(m, "movement", t, f, params) = [ok |-> FALSE, run |-> Runner!Raised(m)]
<1> DEFINE c == m.state.engine.cursor
<1>1. ASSUME c \in {None} \cup {RoutineCursor(arc) : arc \in DOMAIN RoutineActions}
      PROVE  Runner!SubmitEvent(m, "movement", t, f, params) = Runner!Rejected(m)
  <2>1. c = None \/ c.arc_id # "movement"
    BY <1>1, CursorFields, MovementArcAssumption
  <2> QED BY <2>1 DEF Runner!SubmitEvent
<1>2. ASSUME c \in {StepCursor("step_resolve"), WindowCursor("interrupt_resolve")}, PlainTitle
      PROVE  Runner!SubmitEvent(m, "movement", t, f, params) = [ok |-> FALSE, run |-> Runner!Raised(m)]
  <2>1. c # None /\ c.arc_id = "movement"
    BY <1>2, CursorFields, CursorsAreNotNone DEF MovementSegments
  <2>2. Runner!IsAutomatic(Runner!Segment(c))
    BY <1>2, KnownSegmentOwner DEF Runner!IsAutomatic
  <2> QED BY <2>1, <2>2 DEF Runner!SubmitEvent
<1> QED BY <1>1, <1>2

ContextOf(m, owner, params) == [state |-> m.state, owner |-> owner, params |-> params]

\* What submit_event makes of a segment with one transition.
LEMMA SubmitsTo ==
    ASSUME PlainTitle, NEW m, NEW c, m.state.engine.cursor = c, c # None, c.arc_id = "movement",
           NEW owner, owner # "NO_OWNER", NEW type, NEW guard, NEW effect, NEW target,
           Runner!Segment(c) = Owned(owner, {type}, <<On(type, guard, effect, target)>>),
           NEW t, NEW f, NEW params
    PROVE  LET o == Runner!ResolveOwner(owner, m.state)
               ctx == ContextOf(m, o, params)
           IN  Runner!SubmitEvent(m, "movement", t, f, params) =
                 IF o = None \/ f # o \/ t # type \/ ~GuardPasses(guard, ctx)
                 THEN Runner!Rejected(m)
                 ELSE [ok |-> TRUE,
                       run |-> Runner!AutoAdvance(
                                 Runner!MoveCursor(Runner!Run(Runner!Ran(m), EffectActions(effect, ctx)),
                                                   c, target))]
<1> DEFINE o == Runner!ResolveOwner(owner, m.state)
           ctx == ContextOf(m, o, params)
           seg == Runner!Segment(c)
           P == Runner!Passing(seg, ctx, t)
<1>1. /\ seg.owner = owner /\ seg.allowed_actions = {type}
      /\ seg.transitions = <<On(type, guard, effect, target)>>
  BY DEF Owned
<1>2. DOMAIN seg.transitions = {1} /\ seg.transitions[1] = On(type, guard, effect, target)
  BY <1>1
<1> HIDE DEF seg
<1>3. /\ On(type, guard, effect, target).trigger = type
      /\ On(type, guard, effect, target).guard = guard
      /\ On(type, guard, effect, target).effect = effect
      /\ On(type, guard, effect, target).target = target
  BY DEF On
<1>4. P = IF t = type /\ GuardPasses(guard, ctx) THEN {1} ELSE {}
  BY <1>2, <1>3 DEF Runner!Passing
<1>5. Min({1}) = 1
  BY FirstOf
<1>6. Runner!SubmitEvent(m, "movement", t, f, params) =
        IF o = None \/ f # o \/ t \notin {type} THEN Runner!Rejected(m)
        ELSE Runner!Submitted(m, c, P, ctx)
  <2>1. ~Runner!IsAutomatic(seg)
    BY <1>1 DEF Runner!IsAutomatic
  <2> QED BY <1>1, <2>1 DEF Runner!SubmitEvent, ContextOf, seg
<1> HIDE DEF P, ctx, o
<1>7. CASE o = None \/ f # o \/ t # type
  BY <1>6, <1>7 DEF o, ctx
<1>8. CASE ~(o = None \/ f # o \/ t # type) /\ ~GuardPasses(guard, ctx)
  BY <1>4, <1>6, <1>8 DEF Runner!Submitted, o, ctx
<1>9. CASE ~(o = None \/ f # o \/ t # type) /\ GuardPasses(guard, ctx)
  <2>1. P = {1} /\ P # {}
    BY <1>4, <1>9
  <2>2. Runner!Submitted(m, c, P, ctx) =
          [ok |-> TRUE, run |-> Runner!AutoAdvance(Runner!FirstApplied(m, c, P, ctx))]
    BY <2>1 DEF Runner!Submitted
  <2>3. Runner!FirstApplied(m, c, P, ctx)
          = Runner!ApplyTransition(m, c, On(type, guard, effect, target), ctx)
    BY <1>2, <1>5, <2>1, RunnerMin DEF Runner!FirstApplied, seg
  <2>4. Runner!ApplyTransition(m, c, On(type, guard, effect, target), ctx) =
          Runner!MoveCursor(Runner!Run(Runner!Ran(m), EffectActions(effect, ctx)), c, target)
    BY <1>3 DEF Runner!ApplyTransition, PlainTitle
  <2>5. Runner!SubmitEvent(m, "movement", t, f, params) = Runner!Submitted(m, c, P, ctx)
    BY <1>6, <1>9
  <2>6. Runner!SubmitEvent(m, "movement", t, f, params) =
          [ok |-> TRUE,
           run |-> Runner!AutoAdvance(
                     Runner!MoveCursor(Runner!Run(Runner!Ran(m), EffectActions(effect, ctx)),
                                       c, target))]
    BY <2>2, <2>3, <2>4, <2>5
  <2> QED BY <1>9, <2>6 DEF o, ctx
<1> QED BY <1>7, <1>8, <1>9

\* The manager after the two actions of a step: the unit, then the payload.
StepOf(flow) == [kind |-> "ArcStep", flow |-> flow]

Stepped(m, u, from, to, flow) == Executed(Executed(m, MoveUnit(u, from, to)), StepOf(flow))

LEMMA StepFields ==
    ASSUME NEW s \in GameStates, NEW t \in GameStates, t.turn = s.turn, NEW flow
    PROVE  ArcAfterStep(t, flow) = ArcAfterStep(s, flow) /\ TurnAfterStep(t, flow) = TurnAfterStep(s, flow)
  BY DEF ArcAfterStep, TurnAfterStep

\* The move of a unit that stands on its from_hex applies, and moves it only.
LEMMA MovesUnit ==
    ASSUME NEW m, m.state \in GameStates, NEW u \in Units, NEW from \in Hexes, NEW to \in Hexes,
           Present(m.state, u), m.state.units[u].position = from
    PROVE  LET x == Executed(m, MoveUnit(u, from, to))
           IN  /\ CanApply(MoveUnit(u, from, to), m.state)
               /\ KnownAction(MoveUnit(u, from, to))
               /\ x.state \in GameStates
               /\ x.state.units[u] # None /\ x.state.units[u].position = to
               /\ x.state.turn = m.state.turn
               /\ x.state.engine = m.state.engine
               /\ Healthy(m) => Healthy(x)
<1> DEFINE a == MoveUnit(u, from, to)
           s == m.state
           x == Executed(m, a)
           unit == [s.units[u] EXCEPT !.position = to,
                                      !.stack_index = NextStackIndex(s, to, {u})]
<1>1. a \in MoveUnits /\ a.kind = "MoveUnit" /\ a.unit_id = u /\ a.from_hex = from /\ a.to_hex = to
  BY DEF MoveUnit, MoveUnits
<1>2. a \in StateActionSet /\ KnownAction(a)
  BY <1>1 DEF StateActionSet, KnownAction
<1>3. CanApply(a, s)
  BY <1>1 DEF CanApply
<1>4. Apply(a, s) = WithUnit(s, u, unit)
  BY <1>1 DEF Apply, ApplyMoveUnit
<1>5. x.state = WithUnit(s, u, unit)
  BY <1>3, <1>4 DEF Executed
<1>6. x.state \in GameStates /\ (\A w \in Units : Present(x.state, w) <=> Present(s, w) \/ w \in Adds(a))
  BY <1>2, <1>3, <1>4, <1>5, ApplyType
<1>7. s.units[u] \in UnitStates
  BY DEF GameStates, Present
<1>8. x.state.units[u] = unit /\ unit.position = to
  BY <1>5, <1>7, WithUnitGet DEF UnitStates
<1>9. x.state.units[u] # None
  BY <1>6 DEF Present
<1>10. x.state.turn = s.turn /\ x.state.engine = s.engine
  BY <1>5 DEF WithUnit, GameStates
<1>11. Healthy(m) => Healthy(x)
  BY <1>2, ExecutedIsHealthy
<1> QED BY <1>2, <1>3, <1>6, <1>8, <1>9, <1>10, <1>11

\* So the step's two actions run through, and leave the payload and turn of the step.
LEMMA StepRuns ==
    ASSUME NEW m, m.state \in GameStates, NEW u \in Units, NEW from \in Hexes, NEW to \in Hexes,
           Present(m.state, u), m.state.units[u].position = from, NEW flow \in MovementArcs
    PROVE  LET x == Stepped(m, u, from, to, flow)
           IN  /\ ExecutedAll(m, <<MoveUnit(u, from, to), StepOf(flow)>>) = Runner!Ran(x)
               /\ x.state \in GameStates
               /\ x.state.units[u] # None /\ x.state.units[u].position = to
               /\ x.state.turn = TurnAfterStep(m.state, flow)
               /\ x.state.engine.movement_arc = ArcAfterStep(m.state, flow)
               /\ x.state.engine.cursor = m.state.engine.cursor
               /\ Healthy(m) => Healthy(x)
<1> DEFINE a == MoveUnit(u, from, to)
           b == StepOf(flow)
           y == Executed(m, a)
           x == Stepped(m, u, from, to, flow)
<1>1. /\ CanApply(a, m.state) /\ y.state \in GameStates
      /\ y.state.units[u] # None /\ y.state.units[u].position = to
      /\ y.state.turn = m.state.turn /\ y.state.engine = m.state.engine
      /\ Healthy(m) => Healthy(y)
  BY MovesUnit
<1>2. b.kind = "ArcStep" /\ b.flow = flow /\ b \in StateActionSet /\ KnownAction(b)
  BY DEF StepOf, StateActionSet, ArcSteps, KnownAction
<1> HIDE DEF b, a
<1>3. CanApply(b, y.state)
  BY <1>2 DEF CanApply
<1>4. Apply(b, y.state) = ApplyArcStep(b, y.state)
  BY <1>2 DEF Apply
<1>5. x = Executed(y, b)
  BY DEF Stepped, a, b
<1>6. ExecutedAll(m, <<a, b>>) = Runner!Ran(x)
  BY <1>1, <1>3, <1>5, RunOfTwo
<1> HIDE DEF x, y
<1>7. x.state = [y.state EXCEPT !.engine.movement_arc = ArcAfterStep(y.state, flow),
                                !.turn = TurnAfterStep(y.state, flow)]
  BY <1>2, <1>3, <1>4, <1>5 DEF Executed, ApplyArcStep
<1>8. x.state \in GameStates
  BY <1>1, <1>2, <1>3, <1>4, <1>5, ApplyType DEF Executed
<1>9. ArcAfterStep(y.state, flow) = ArcAfterStep(m.state, flow)
      /\ TurnAfterStep(y.state, flow) = TurnAfterStep(m.state, flow)
  BY <1>1, StepFields
<1>10. /\ x.state.units = y.state.units
       /\ x.state.turn = TurnAfterStep(y.state, flow)
       /\ x.state.engine.movement_arc = ArcAfterStep(y.state, flow)
       /\ x.state.engine.cursor = y.state.engine.cursor
  BY <1>1, <1>7 DEF GameStates, EngineStates
<1>11. Healthy(y) => Healthy(x)
  BY <1>2, <1>5, ExecutedIsHealthy
<1> QED BY <1>1, <1>6, <1>8, <1>9, <1>10, <1>11 DEF x, a, b

\* A step that was executed and has come to rest.
Resolved(m, u, from, to, flow) ==
    SettledStep(Placed(Stepped(m, u, from, to, flow), StepCursor("step_resolve")))

\* The payload's path, index and budget are what the step wrote.
LEMMA StepKeepsPath ==
    ASSUME NEW s \in GameStates, NEW flow \in MovementArcs
    PROVE  LET x == ArcAfterStep(s, flow)
           IN  /\ x \in MovementArcs /\ x # None
               /\ x.unit_id = flow.unit_id /\ x.path = flow.path
               /\ x.step_index = flow.step_index
               /\ x.moving_faction = flow.moving_faction
               /\ x.budget_remaining = flow.budget_remaining
               /\ x.retreat_fulfillment = flow.retreat_fulfillment
               /\ PathComplete(x) <=> PathComplete(flow)
<1> DEFINE x == ArcAfterStep(s, flow)
           interrupts == InterruptsAfterStep(flow)
<1>1. interrupts \in Seq(Factions)
  <2>1. CASE PathComplete(flow)
    BY <2>1 DEF InterruptsAfterStep
  <2>2. CASE ~PathComplete(flow)
    <3>1. flow.path[flow.step_index + 1] \in Hexes /\ flow.moving_faction \in Factions
      BY <2>2 DEF PathComplete, MovementArcs
    <3> QED BY <2>2, <3>1, InterruptsAssumption DEF InterruptsAfterStep
  <2> QED BY <2>1, <2>2
<1>2. s.turn \in TurnStates
  BY DEF GameStates
<1> HIDE DEF interrupts
<1>3. x = IF PathComplete(flow) THEN [flow EXCEPT !.gate = AwaitingContinue]
          ELSE IF interrupts = <<>>
          THEN [flow EXCEPT !.gate = AwaitingContinue, !.interrupt_queue = <<>>,
                            !.saved_turn = None]
          ELSE [flow EXCEPT !.gate = AwaitingInterrupt, !.interrupt_queue = interrupts,
                            !.saved_turn = s.turn]
  BY DEF ArcAfterStep, interrupts
<1>4. x \in MovementArcs
  BY <1>1, <1>2, <1>3, Zenon DEF MovementArcs
<1>5. /\ x.unit_id = flow.unit_id /\ x.path = flow.path
      /\ x.step_index = flow.step_index
      /\ x.moving_faction = flow.moving_faction
      /\ x.budget_remaining = flow.budget_remaining
      /\ x.retreat_fulfillment = flow.retreat_fulfillment
  BY <1>3 DEF MovementArcs
<1> QED BY <1>4, <1>5, NoneAssumption DEF PathComplete

LEMMA SettledStepState ==
    ASSUME PlainTitle, NEW m, m.state \in GameStates
    PROVE  LET flow == m.state.engine.movement_arc
           IN  /\ SettledStep(m).state \in GameStates
               /\ SettledStep(m).state.units = m.state.units
               /\ SettledStep(m).state.turn = m.state.turn
               /\ SettledStep(m).state.engine.movement_arc =
                    IF flow = None \/ PathComplete(flow) THEN None ELSE flow
               /\ Healthy(m) => Healthy(SettledStep(m))
<1> DEFINE flow == m.state.engine.movement_arc
<1>1. {None, WindowCursor("interrupt"), StepCursor("continue")} \subseteq KnownCursors
  BY DEF KnownCursors, RestCursors
<1>2. {None, WindowCursor("interrupt"), StepCursor("continue")} \subseteq Cursors \cup {None}
  BY <1>1, KnownCursorsType
<1>3. CASE flow = None \/ PathComplete(flow)
  <2>1. SettledStep(m) = Placed(Finished(m), None)
    BY <1>3 DEF SettledStep
  <2>2. Healthy(m) => Healthy(Finished(m))
    BY KnownMoves, ExecutedIsHealthy DEF Finished
  <2>3. Healthy(m) => Healthy(Placed(Finished(m), None))
    BY <1>1, <2>2, PlacedIsHealthy
  <2> QED BY <1>2, <1>3, <2>1, <2>3, FinishedArc, PlacedCursor
<1>4. CASE ~(flow = None \/ PathComplete(flow))
  <2>1. PICK c \in {WindowCursor("interrupt"), StepCursor("continue")} : SettledStep(m) = Placed(m, c)
    BY <1>4 DEF SettledStep
  <2>2. Healthy(m) => Healthy(Placed(m, c))
    BY <1>1, <2>1, PlacedIsHealthy
  <2> QED BY <1>2, <1>4, <2>1, <2>2, PlacedCursor
<1> QED BY <1>3, <1>4

LEMMA SettledPassState ==
    ASSUME PlainTitle, NEW m, m.state \in GameStates
    PROVE  /\ SettledPass(m).state \in GameStates
           /\ SettledPass(m).state.units = m.state.units
           /\ SettledPass(m).state.turn = m.state.turn
           /\ SettledPass(m).state.engine.movement_arc = m.state.engine.movement_arc
           /\ Healthy(m) => Healthy(SettledPass(m))
<1>1. {WindowCursor("interrupt"), StepCursor("continue")} \subseteq KnownCursors
  BY DEF KnownCursors, RestCursors
<1>2. {WindowCursor("interrupt"), StepCursor("continue")} \subseteq Cursors \cup {None}
  BY <1>1, KnownCursorsType
<1>3. PICK c \in {WindowCursor("interrupt"), StepCursor("continue")} : SettledPass(m) = Placed(m, c)
  BY DEF SettledPass
<1>4. Healthy(m) => Healthy(Placed(m, c))
  BY <1>1, <1>3, PlacedIsHealthy
<1> QED BY <1>2, <1>3, <1>4, PlacedCursor

LEMMA SyncedIsHealthy ==
    ASSUME PlainTitle, NEW m, Healthy(m)
    PROVE  Healthy(Synced(m)) /\ Healthy(InSlot(m)) /\ Healthy(BackInSlot(m))
<1>1. \A n : Healthy(n) => Healthy(InSlot(n))
  <2> SUFFICES ASSUME NEW n, Healthy(n) PROVE Healthy(InSlot(n))
    OBVIOUS
  <2>1. n.state.turn.schedule_index \in Nat
    BY HealthyState DEF GameStates, TurnStates
  <2>2. RoutineCursor(Slot(n.state.turn.schedule_index).routine_arc_id) \in KnownCursors
    BY <2>1, SlotType DEF KnownCursors, RestCursors
  <2> QED BY <2>2, PlacedIsHealthy DEF InSlot
<1>2. {None, WindowCursor("interrupt"), StepCursor("continue")} \subseteq KnownCursors
  BY DEF KnownCursors, RestCursors
<1>3. \A c \in KnownCursors : Healthy(Placed(m, c))
  BY PlacedIsHealthy
<1>4. Healthy(BackInSlot(m))
  BY <1>1, <1>2, <1>3 DEF BackInSlot
<1> QED BY <1>1, <1>2, <1>3, <1>4 DEF Synced

\* A step's whole run: unit, payload, transition and the automatic step behind it.
LEMMA StepResolves ==
    ASSUME PlainTitle, NEW m, m.state \in GameStates, NEW u \in Units, NEW from \in Hexes,
           NEW to \in Hexes, Present(m.state, u), m.state.units[u].position = from,
           NEW flow \in MovementArcs, NEW seg
    PROVE  LET x == Resolved(m, u, from, to, flow)
           IN  /\ Runner!AutoAdvance(
                    Runner!MoveCursor(
                      Runner!Run(Runner!Ran(m), <<MoveUnit(u, from, to), StepOf(flow)>>),
                      StepCursor(seg), Goto("step_resolve"))) = Runner!Ran(x)
               /\ x.state \in GameStates
               /\ x.state.units[u] # None /\ x.state.units[u].position = to
               /\ x.state.turn = TurnAfterStep(m.state, flow)
               /\ x.state.engine.movement_arc =
                    IF PathComplete(flow) THEN None ELSE ArcAfterStep(m.state, flow)
               /\ Healthy(m) => Healthy(x)
<1> DEFINE acts == <<MoveUnit(u, from, to), StepOf(flow)>>
           y == Stepped(m, u, from, to, flow)
           z == Placed(y, StepCursor("step_resolve"))
           x == Resolved(m, u, from, to, flow)
<1>1. /\ ExecutedAll(m, acts) = Runner!Ran(y)
      /\ y.state \in GameStates
      /\ y.state.units[u] # None /\ y.state.units[u].position = to
      /\ y.state.turn = TurnAfterStep(m.state, flow)
      /\ y.state.engine.movement_arc = ArcAfterStep(m.state, flow)
      /\ Healthy(m) => Healthy(y)
  BY StepRuns
<1>2. x = SettledStep(z)
  BY DEF Resolved
<1> HIDE DEF acts, y
<1>3. StepCursor("step_resolve") \in KnownCursors
  BY DEF KnownCursors
<1>4. /\ z.state \in GameStates
      /\ z.state.engine.cursor = StepCursor("step_resolve")
      /\ z.state.engine.movement_arc = y.state.engine.movement_arc
      /\ z.state.units = y.state.units
      /\ z.state.turn = y.state.turn
  BY <1>1, <1>3, KnownCursorsType, PlacedCursor
<1>5. Healthy(y) => Healthy(z)
  BY <1>3, PlacedIsHealthy
<1>6. Runner!Run(Runner!Ran(m), acts) = Runner!Ran(y)
  BY <1>1, RunIs
<1>7. Runner!MoveCursor(Runner!Ran(y), StepCursor(seg), Goto("step_resolve")) = Runner!Ran(z)
  BY MovesCursor, NextCursors
<1> HIDE DEF x, z
<1>8. Runner!AutoAdvance(Runner!Ran(z)) = Runner!Ran(x)
  BY <1>2, <1>4, AutoAfterStep
<1>9. /\ x.state \in GameStates /\ x.state.units = z.state.units /\ x.state.turn = z.state.turn
      /\ x.state.engine.movement_arc =
           IF z.state.engine.movement_arc = None \/ PathComplete(z.state.engine.movement_arc)
           THEN None ELSE z.state.engine.movement_arc
      /\ Healthy(z) => Healthy(x)
  BY <1>2, <1>4, SettledStepState
<1>10. /\ ArcAfterStep(m.state, flow) # None
       /\ PathComplete(ArcAfterStep(m.state, flow)) <=> PathComplete(flow)
  BY StepKeepsPath
<1>11. x.state.engine.movement_arc =
         IF PathComplete(flow) THEN None ELSE ArcAfterStep(m.state, flow)
  BY <1>1, <1>4, <1>9, <1>10
<1> QED BY <1>1, <1>4, <1>5, <1>6, <1>7, <1>8, <1>9, <1>11 DEF x, acts

LEMMA MovementOwners ==
    /\ \A s : Runner!ResolveOwner("CURRENT", s) = s.turn.current_faction
    /\ \A s : Runner!ResolveOwner("NO_OWNER", s) = None
    /\ \A s : Runner!ResolveOwner("moving", s) =
                IF s.engine.movement_arc = None THEN None
                ELSE s.engine.movement_arc.moving_faction
  BY DEF Runner!ResolveOwner, ArcOwner

LEMMA StepGuards ==
    /\ \A ctx : GuardPasses("matches_stepwise_open", ctx) <=> MatchesStepwiseOpen(ctx)
    /\ \A ctx : GuardPasses("matches_stepwise_step", ctx) <=> MatchesStepwiseStep(ctx)
    /\ \A ctx : GuardPasses("is_interrupt_responder", ctx) <=> IsInterruptResponder(ctx)
<1>1. \A ctx : GuardPasses("matches_stepwise_open", ctx) <=> MatchesStepwiseOpen(ctx)
  BY DEF GuardPasses
<1>2. \A ctx : GuardPasses("matches_stepwise_step", ctx) <=> MatchesStepwiseStep(ctx)
  BY DEF GuardPasses
<1>3. \A ctx : GuardPasses("is_interrupt_responder", ctx) <=> IsInterruptResponder(ctx)
  BY DEF GuardPasses
<1> QED BY <1>1, <1>2, <1>3

LEMMA StepEffects ==
    /\ \A ctx : EffectActions("open_stepwise_step", ctx) = OpenStepwiseStep(ctx)
    /\ \A ctx : EffectActions("apply_step", ctx) = ApplyStep(ctx)
    /\ \A ctx : EffectActions("pass_interrupt", ctx) =
                  <<[kind |-> "ResolvePass", responding_faction |-> ctx.owner]>>
<1>1. \A ctx : EffectActions("open_stepwise_step", ctx) = OpenStepwiseStep(ctx)
  BY DEF EffectActions
<1>2. \A ctx : EffectActions("apply_step", ctx) = ApplyStep(ctx)
  BY DEF EffectActions
<1>3. \A ctx : EffectActions("pass_interrupt", ctx) =
                  <<[kind |-> "ResolvePass", responding_faction |-> ctx.owner]>>
  BY DEF EffectActions
<1> QED BY <1>1, <1>2, <1>3

\* What submit_event makes of an event at each place a cursor rests.
LEMMA SubmitsAtOpen ==
    ASSUME PlainTitle, NEW m, m.state.engine.cursor = StepCursor("stepwise_open"),
           NEW t, NEW f, NEW params
    PROVE  LET o == m.state.turn.current_faction  ctx == ContextOf(m, o, params)
           IN  Runner!SubmitEvent(m, "movement", t, f, params) =
                 IF o = None \/ f # o \/ t # "MoveUnit" \/ ~MatchesStepwiseOpen(ctx)
                 THEN Runner!Rejected(m)
                 ELSE [ok |-> TRUE,
                       run |-> Runner!AutoAdvance(
                                 Runner!MoveCursor(Runner!Run(Runner!Ran(m), OpenStepwiseStep(ctx)),
                                                   StepCursor("stepwise_open"), Goto("step_resolve")))]
<1> DEFINE c == StepCursor("stepwise_open")
<1>1. c # None /\ c.arc_id = "movement" /\ c.segment_id = "stepwise_open"
  BY CursorFields, CursorsAreNotNone DEF MovementSegments
<1>2. Runner!Segment(c) =
        Owned("CURRENT", {"MoveUnit"},
              <<On("MoveUnit", "matches_stepwise_open", "open_stepwise_step",
                   Goto("step_resolve"))>>)
  BY <1>1, OpenSegment
<1> DEFINE owner == "CURRENT"  type == "MoveUnit"  guard == "matches_stepwise_open"
           effect == "open_stepwise_step"  target == Goto("step_resolve")
           o == Runner!ResolveOwner(owner, m.state)
           ctx == ContextOf(m, o, params)
<1>3. owner # "NO_OWNER" /\ m.state.engine.cursor = c
  OBVIOUS
<1>4. Runner!Segment(c) = Owned(owner, {type}, <<On(type, guard, effect, target)>>)
  BY <1>2
<1> HIDE DEF owner, type, guard, effect, target, c
<1>5. Runner!SubmitEvent(m, "movement", t, f, params) =
                 IF o = None \/ f # o \/ t # type \/ ~GuardPasses(guard, ctx)
                 THEN Runner!Rejected(m)
                 ELSE [ok |-> TRUE,
                       run |-> Runner!AutoAdvance(
                                 Runner!MoveCursor(Runner!Run(Runner!Ran(m), EffectActions(effect, ctx)),
                                                   c, target))]
  BY <1>1, <1>3, <1>4, SubmitsTo
<1>6. o = m.state.turn.current_faction
  BY MovementOwners DEF owner
<1>7. GuardPasses(guard, ctx) <=> MatchesStepwiseOpen(ctx)
  BY StepGuards DEF guard
<1>8. EffectActions(effect, ctx) = OpenStepwiseStep(ctx)
  BY StepEffects DEF effect
<1> HIDE DEF ctx, o
<1>9. Runner!SubmitEvent(m, "movement", t, f, params) =
                 IF o = None \/ f # o \/ t # type \/ ~MatchesStepwiseOpen(ctx)
                 THEN Runner!Rejected(m)
                 ELSE [ok |-> TRUE,
                       run |-> Runner!AutoAdvance(
                                 Runner!MoveCursor(Runner!Run(Runner!Ran(m), OpenStepwiseStep(ctx)),
                                                   c, target))]
  BY <1>5, <1>7, <1>8
<1> QED BY <1>6, <1>9 DEF ctx, c, type, target

LEMMA SubmitsAtContinue ==
    ASSUME PlainTitle, NEW m, m.state.engine.cursor = StepCursor("continue"),
           NEW t, NEW f, NEW params
    PROVE  LET flow == m.state.engine.movement_arc
               o == IF flow = None THEN None ELSE flow.moving_faction
               ctx == ContextOf(m, o, params)
           IN  Runner!SubmitEvent(m, "movement", t, f, params) =
                 IF o = None \/ f # o \/ t # "MoveUnit" \/ ~MatchesStepwiseStep(ctx)
                 THEN Runner!Rejected(m)
                 ELSE [ok |-> TRUE,
                       run |-> Runner!AutoAdvance(
                                 Runner!MoveCursor(Runner!Run(Runner!Ran(m), ApplyStep(ctx)),
                                                   StepCursor("continue"), Goto("step_resolve")))]
<1> DEFINE c == StepCursor("continue")
<1>1. c # None /\ c.arc_id = "movement" /\ c.segment_id = "continue"
  BY CursorFields, CursorsAreNotNone DEF MovementSegments
<1>2. Runner!Segment(c) =
        Owned("moving", {"MoveUnit"},
              <<On("MoveUnit", "matches_stepwise_step", "apply_step", Goto("step_resolve"))>>)
  BY <1>1, ContinueSegment
<1> DEFINE owner == "moving"  type == "MoveUnit"  guard == "matches_stepwise_step"
           effect == "apply_step"  target == Goto("step_resolve")
           o == Runner!ResolveOwner(owner, m.state)
           ctx == ContextOf(m, o, params)
<1>3. owner # "NO_OWNER" /\ m.state.engine.cursor = c
  OBVIOUS
<1>4. Runner!Segment(c) = Owned(owner, {type}, <<On(type, guard, effect, target)>>)
  BY <1>2
<1> HIDE DEF owner, type, guard, effect, target, c
<1>5. Runner!SubmitEvent(m, "movement", t, f, params) =
                 IF o = None \/ f # o \/ t # type \/ ~GuardPasses(guard, ctx)
                 THEN Runner!Rejected(m)
                 ELSE [ok |-> TRUE,
                       run |-> Runner!AutoAdvance(
                                 Runner!MoveCursor(Runner!Run(Runner!Ran(m), EffectActions(effect, ctx)),
                                                   c, target))]
  BY <1>1, <1>3, <1>4, SubmitsTo
<1>6. o = IF m.state.engine.movement_arc = None THEN None
          ELSE m.state.engine.movement_arc.moving_faction
  BY MovementOwners DEF owner
<1>7. GuardPasses(guard, ctx) <=> MatchesStepwiseStep(ctx)
  BY StepGuards DEF guard
<1>8. EffectActions(effect, ctx) = ApplyStep(ctx)
  BY StepEffects DEF effect
<1> HIDE DEF ctx, o
<1>9. Runner!SubmitEvent(m, "movement", t, f, params) =
                 IF o = None \/ f # o \/ t # type \/ ~MatchesStepwiseStep(ctx)
                 THEN Runner!Rejected(m)
                 ELSE [ok |-> TRUE,
                       run |-> Runner!AutoAdvance(
                                 Runner!MoveCursor(Runner!Run(Runner!Ran(m), ApplyStep(ctx)),
                                                   c, target))]
  BY <1>5, <1>7, <1>8
<1> QED BY <1>6, <1>9 DEF ctx, c, type, target

Passes(f) == <<[kind |-> "ResolvePass", responding_faction |-> f]>>

LEMMA SubmitsAtInterrupt ==
    ASSUME PlainTitle, NEW m, m.state.engine.cursor = WindowCursor("interrupt"),
           NEW t, NEW f, NEW params
    PROVE  LET o == m.state.turn.current_faction  ctx == ContextOf(m, o, params)
           IN  Runner!SubmitEvent(m, "movement", t, f, params) =
                 IF o = None \/ f # o \/ t # "PassMovementInterrupt" \/ ~IsInterruptResponder(ctx)
                 THEN Runner!Rejected(m)
                 ELSE [ok |-> TRUE,
                       run |-> Runner!AutoAdvance(
                                 Runner!MoveCursor(Runner!Run(Runner!Ran(m), Passes(o)),
                                                   WindowCursor("interrupt"),
                                                   Goto("interrupt_resolve")))]
<1> DEFINE c == WindowCursor("interrupt")
<1>1. c # None /\ c.arc_id = "movement" /\ c.segment_id = "interrupt"
  BY CursorFields, CursorsAreNotNone DEF MovementSegments
<1>2. Runner!Segment(c) =
        Owned("CURRENT", {"PassMovementInterrupt"},
              <<On("PassMovementInterrupt", "is_interrupt_responder", "pass_interrupt",
                   Goto("interrupt_resolve"))>>)
  BY <1>1, InterruptSegment
<1> DEFINE owner == "CURRENT"  type == "PassMovementInterrupt"  guard == "is_interrupt_responder"
           effect == "pass_interrupt"  target == Goto("interrupt_resolve")
           o == Runner!ResolveOwner(owner, m.state)
           ctx == ContextOf(m, o, params)
<1>3. owner # "NO_OWNER" /\ m.state.engine.cursor = c
  OBVIOUS
<1>4. Runner!Segment(c) = Owned(owner, {type}, <<On(type, guard, effect, target)>>)
  BY <1>2
<1> HIDE DEF owner, type, guard, effect, target, c
<1>5. Runner!SubmitEvent(m, "movement", t, f, params) =
                 IF o = None \/ f # o \/ t # type \/ ~GuardPasses(guard, ctx)
                 THEN Runner!Rejected(m)
                 ELSE [ok |-> TRUE,
                       run |-> Runner!AutoAdvance(
                                 Runner!MoveCursor(Runner!Run(Runner!Ran(m), EffectActions(effect, ctx)),
                                                   c, target))]
  BY <1>1, <1>3, <1>4, SubmitsTo
<1>6. o = m.state.turn.current_faction
  BY MovementOwners DEF owner
<1>7. GuardPasses(guard, ctx) <=> IsInterruptResponder(ctx)
  BY StepGuards DEF guard
<1>8. EffectActions(effect, ctx) = Passes(o)
  <2>1. ctx.owner = o
    BY DEF ContextOf
  <2>2. EffectActions(effect, ctx) = <<[kind |-> "ResolvePass", responding_faction |-> ctx.owner]>>
    BY StepEffects DEF effect
  <2> HIDE DEF ctx, o
  <2> QED BY <2>1, <2>2 DEF Passes
<1> HIDE DEF ctx, o
<1>9. Runner!SubmitEvent(m, "movement", t, f, params) =
                 IF o = None \/ f # o \/ t # type \/ ~IsInterruptResponder(ctx)
                 THEN Runner!Rejected(m)
                 ELSE [ok |-> TRUE,
                       run |-> Runner!AutoAdvance(
                                 Runner!MoveCursor(Runner!Run(Runner!Ran(m), Passes(o)),
                                                   c, target))]
  BY <1>5, <1>7, <1>8
<1> QED BY <1>6, <1>9 DEF ctx, c, type, target

\* The payload of an open move after one more step.
NextFlow(flow, from, to) ==
    [flow EXCEPT !.budget_remaining = flow.budget_remaining - StepCosts[from][to],
                 !.step_index = @ + 1]

LEMMA NextFlowType ==
    ASSUME NEW flow \in MovementArcs, NEW from \in Hexes, NEW to \in Hexes
    PROVE  LET x == NextFlow(flow, from, to)
           IN  /\ x \in MovementArcs
               /\ x.unit_id = flow.unit_id /\ x.path = flow.path
               /\ x.step_index = flow.step_index + 1
               /\ x.moving_faction = flow.moving_faction
               /\ x.budget_remaining = flow.budget_remaining - StepCosts[from][to]
               /\ x.retreat_fulfillment = flow.retreat_fulfillment
<1>1. StepCosts[from][to] \in Int
  BY GraphAssumption
<1>2. flow.budget_remaining - StepCosts[from][to] \in Int
  BY <1>1 DEF MovementArcs
<1> DEFINE k == flow.budget_remaining - StepCosts[from][to]
<1> HIDE DEF k
<1> DEFINE x == NextFlow(flow, from, to)
<1>3. x = [flow EXCEPT !.budget_remaining = k, !.step_index = flow.step_index + 1]
  BY DEF NextFlow, k
<1> HIDE DEF x
<1>4. k \in Int /\ flow.step_index + 1 \in Nat
  BY <1>2 DEF MovementArcs, k
<1>5. /\ x \in MovementArcs
      /\ x.unit_id = flow.unit_id /\ x.path = flow.path
      /\ x.step_index = flow.step_index + 1
      /\ x.moving_faction = flow.moving_faction
      /\ x.budget_remaining = k
      /\ x.retreat_fulfillment = flow.retreat_fulfillment
  BY <1>3, <1>4 DEF MovementArcs
<1> QED BY <1>5 DEF x, k

\* The event of a continued move is rejected, raises off a resting cursor, or makes the step:
\* no third way to run a step that fits the payload and its budget.
LEMMA ContinueRuns ==
    ASSUME PlainTitle, NEW m, m.state \in GameStates, m.state.engine.cursor \in KnownCursors,
           NEW f, NEW from \in Hexes, NEW to \in Hexes,
           m.state.engine.movement_arc # None,
           FitsNextStep(m.state, m.state.engine.movement_arc,
                        MoveParams(m.state.engine.movement_arc.unit_id, from, to)),
           StepCosts[from][to] <= m.state.engine.movement_arc.budget_remaining
    PROVE  LET flow == m.state.engine.movement_arc
               e == Runner!SubmitEvent(m, "movement", "MoveUnit", f, MoveParams(flow.unit_id, from, to))
           IN  \/ e = Runner!Rejected(m)
               \/ e = [ok |-> FALSE, run |-> Runner!Raised(m)]
                  /\ m.state.engine.cursor \notin RestCursors
               \/ /\ m.state.engine.cursor = StepCursor("continue")
                  /\ f = flow.moving_faction /\ flow.gate = AwaitingContinue
                  /\ e = [ok |-> TRUE, run |-> Runner!Ran(Resolved(m, flow.unit_id, from, to,
                                                             NextFlow(flow, from, to)))]
<1> DEFINE flow == m.state.engine.movement_arc
           P == MoveParams(flow.unit_id, from, to)
           type == "MoveUnit"
           e == Runner!SubmitEvent(m, "movement", type, f, P)
           c == m.state.engine.cursor
<1>1. /\ flow \in MovementArcs
      /\ flow.unit_id \in Units /\ Present(m.state, flow.unit_id)
      /\ m.state.units[flow.unit_id].position = from
      /\ P.from_hex = from /\ P.to_hex = to
  BY DEF GameStates, EngineStates, FitsNextStep, MoveParams, MovementArcs
<1>2. CASE c \in {None} \cup {RoutineCursor(arc) : arc \in DOMAIN RoutineActions}
  BY <1>2, SubmitsElsewhere
<1>3. CASE c \in {StepCursor("step_resolve"), WindowCursor("interrupt_resolve")}
  <2>1. c \notin RestCursors
    <3>1. ~Runner!Resting(m)
      BY <1>3, AutomaticIsNotResting, CursorsAreNotNone DEF MovementSegments
    <3> QED BY <3>1, RestIsResting
  <2>2. e = [ok |-> FALSE, run |-> Runner!Raised(m)]
    BY <1>3, SubmitsElsewhere
  <2> QED BY <2>1, <2>2
<1>4. CASE c = WindowCursor("interrupt")
  <2>1. type # "PassMovementInterrupt"
    OBVIOUS
  <2> HIDE DEF type
  <2>2. e = Runner!Rejected(m)
    BY <1>4, <2>1, SubmitsAtInterrupt
  <2> QED BY <2>2 DEF type
<1>5. CASE c = StepCursor("stepwise_open")
  <2> DEFINE ctx == ContextOf(m, m.state.turn.current_faction, P)
  <2>1. ~MatchesStepwiseOpen(ctx)
    BY DEF MatchesStepwiseOpen, ContextOf
  <2>2. e = Runner!Rejected(m)
    BY <1>5, <2>1, SubmitsAtOpen
  <2> QED BY <2>2
<1>6. CASE c = StepCursor("continue")
  <2> DEFINE o == IF flow = None THEN None ELSE flow.moving_faction
             ctx == ContextOf(m, o, P)
             next == NextFlow(flow, from, to)
             acts == <<MoveUnit(flow.unit_id, from, to), StepOf(next)>>
  <2>1. e = IF o = None \/ f # o \/ type # "MoveUnit" \/ ~MatchesStepwiseStep(ctx)
                 THEN Runner!Rejected(m)
                 ELSE [ok |-> TRUE,
                       run |-> Runner!AutoAdvance(
                                 Runner!MoveCursor(Runner!Run(Runner!Ran(m), ApplyStep(ctx)),
                                                   StepCursor("continue"), Goto("step_resolve")))]
    <3> HIDE DEF P, type
    <3> QED BY <1>6, SubmitsAtContinue
  <2>2. ctx.state = m.state /\ ctx.owner = flow.moving_faction /\ ctx.params = P
    BY DEF ContextOf
  <2>3. ApplyStep(ctx) = acts
    <3>1. ~(flow.budget_remaining - StepCosts[from][to] < 0)
      <4>1. flow.budget_remaining \in Nat /\ StepCosts[from][to] \in Nat
        BY <1>1, GraphAssumption DEF MovementArcs
      <4> DEFINE left == flow.budget_remaining
                 w == StepCosts[from][to]
      <4>2. left \in Nat /\ w \in Nat /\ w <= left
        BY <1>1, <4>1
      <4> HIDE DEF left, w
      <4>3. ~(left - w < 0)
        BY ONLY <4>2
      <4> QED BY <4>3 DEF left, w
    <3>2. ctx.params.from_hex = from /\ ctx.params.to_hex = to /\ ctx.state.engine.movement_arc = flow
      BY <1>1, <2>2
    <3> HIDE DEF ctx, P, flow
    <3>3. ApplyStep(ctx) =
            <<MoveUnit(flow.unit_id, from, to),
               [kind |-> "ArcStep",
                flow |-> [flow EXCEPT !.budget_remaining = flow.budget_remaining - StepCosts[from][to],
                                      !.step_index = @ + 1]]>>
      BY <3>1, <3>2 DEF ApplyStep
    <3> QED BY <3>3 DEF StepOf, NextFlow, ctx, P, flow
  <2>4. next \in MovementArcs
    BY <1>1, NextFlowType
  <2> DEFINE x == Resolved(m, flow.unit_id, from, to, next)
             moved == Runner!MoveCursor(Runner!Run(Runner!Ran(m), acts),
                                        StepCursor("continue"), Goto("step_resolve"))
  <2>5. Runner!AutoAdvance(moved) = Runner!Ran(x)
    BY <1>1, <2>4, StepResolves
  <2> HIDE DEF x, next, acts
  <2>6. CASE o = None \/ f # o \/ type # "MoveUnit" \/ ~MatchesStepwiseStep(ctx)
    <3>1. e = Runner!Rejected(m)
      BY <2>1, <2>6
    <3> QED BY <3>1
  <2>7. CASE ~(o = None \/ f # o \/ type # "MoveUnit" \/ ~MatchesStepwiseStep(ctx))
    <3>1. e = [ok |-> TRUE, run |-> Runner!AutoAdvance(moved)]
      BY <2>1, <2>3, <2>7
    <3>2. e = [ok |-> TRUE, run |-> Runner!Ran(x)]
      BY <3>1, <2>5, Zenon
    <3>3. f = flow.moving_faction /\ flow.gate = AwaitingContinue
      BY <2>7, <2>2, Zenon DEF MatchesStepwiseStep
    <3> QED BY <1>6, <3>2, <3>3 DEF x, next
  <2> QED BY <2>6, <2>7
<1> QED BY <1>2, <1>3, <1>4, <1>5, <1>6 DEF KnownCursors, RestCursors

\* The first step of a stepwise move: the payload it writes.
OpenFlow(u, path, f) == FlowOf(u, path, f, Budgets[u] - StepCosts[path[1]][path[2]])

LEMMA OpenFlowType ==
    ASSUME NEW u \in Units, NEW path \in Seq(Hexes), Len(path) > 2, NEW f \in Factions
    PROVE  LET x == OpenFlow(u, path, f)
           IN  /\ x \in MovementArcs
               /\ x.unit_id = u /\ x.path = path /\ x.step_index = 1 /\ x.moving_faction = f
               /\ x.budget_remaining = Budgets[u] - StepCosts[path[1]][path[2]]
               /\ x.retreat_fulfillment = FALSE
<1>1. path[1] \in Hexes /\ path[2] \in Hexes
  OBVIOUS
<1>2. StepCosts[path[1]][path[2]] \in Int /\ Budgets[u] \in Int
  BY <1>1, GraphAssumption
<1> DEFINE k == Budgets[u] - StepCosts[path[1]][path[2]]
<1>3. k \in Int
  BY <1>2
<1> HIDE DEF k
<1> QED BY <1>3 DEF OpenFlow, FlowOf, MovementArcs, k

\* The event that opens a stepwise move is rejected, or takes the first step of a paid path.
LEMMA OpenRuns ==
    ASSUME PlainTitle, NEW m, m.state \in GameStates,
           m.state.engine.cursor = StepCursor("stepwise_open"),
           NEW f, NEW u \in Units, NEW from, NEW to \in Hexes
    PROVE  LET e == Runner!SubmitEvent(m, "movement", "MoveUnit", f, MoveParams(u, from, to))
               path == ShortestPath(m.state, u, to, Budgets[u])
           IN  \/ e = Runner!Rejected(m)
               \/ /\ f = m.state.turn.current_faction
                  /\ m.state.engine.movement_arc = None
                  /\ Present(m.state, u) /\ m.state.units[u].position = path[1]
                  /\ path \in Seq(Hexes) /\ Len(path) > 2 /\ PathCost(path) <= Budgets[u]
                  /\ e = [ok |-> TRUE, run |-> Runner!Ran(Resolved(m, u, path[1], path[2],
                                                                  OpenFlow(u, path, f)))]
<1> DEFINE P == MoveParams(u, from, to)
           type == "MoveUnit"
           e == Runner!SubmitEvent(m, "movement", type, f, P)
           path == ShortestPath(m.state, u, to, Budgets[u])
           o == m.state.turn.current_faction
           ctx == ContextOf(m, o, P)
           acts == <<MoveUnit(u, path[1], path[2]), StepOf(OpenFlow(u, path, o))>>
<1>1. e = IF o = None \/ f # o \/ type # "MoveUnit" \/ ~MatchesStepwiseOpen(ctx)
                 THEN Runner!Rejected(m)
                 ELSE [ok |-> TRUE,
                       run |-> Runner!AutoAdvance(
                                 Runner!MoveCursor(Runner!Run(Runner!Ran(m), OpenStepwiseStep(ctx)),
                                                   StepCursor("stepwise_open"), Goto("step_resolve")))]
  BY SubmitsAtOpen
<1>2. ctx.state = m.state /\ ctx.owner = o /\ ctx.params = P
  BY DEF ContextOf
<1>3. P.unit_id = u /\ P.to_hex = to
  BY DEF MoveParams
<1>4. CASE o = None \/ f # o \/ type # "MoveUnit" \/ ~MatchesStepwiseOpen(ctx)
  <2>1. e = Runner!Rejected(m)
    BY <1>1, <1>4
  <2> QED BY <2>1
<1>5. CASE ~(o = None \/ f # o \/ type # "MoveUnit" \/ ~MatchesStepwiseOpen(ctx))
  <2>1. /\ m.state.engine.movement_arc = None
        /\ Present(m.state, u)
        /\ path # None /\ Len(path) > 2
    BY <1>2, <1>3, <1>5 DEF MatchesStepwiseOpen, IsStepwisePath
  <2>2. Walkable(m.state, u, Budgets[u], path)
    BY <2>1, ShortestIsWalkable
  <2>3. /\ path \in Seq(Hexes) /\ path[1] = m.state.units[u].position
        /\ PathCost(path) <= Budgets[u]
    BY <2>1, <2>2 DEF Walkable
  <2>4. path[1] \in Hexes /\ path[2] \in Hexes
    BY <2>1, <2>3
  <2>5. o \in Factions
    BY DEF GameStates, TurnStates
  <2>6. OpenFlow(u, path, o) \in MovementArcs
    BY <2>1, <2>3, <2>5, OpenFlowType
  <2>7. OpenStepwiseStep(ctx) = acts
    <3>1. OpenStepwiseStep(ctx) = OpenAlong(u, path, o)
      BY <1>2, <1>3 DEF OpenStepwiseStep
    <3> HIDE DEF path, o
    <3> QED BY <3>1 DEF OpenAlong, StepOf, OpenFlow
  <2> DEFINE x == Resolved(m, u, path[1], path[2], OpenFlow(u, path, o))
             moved == Runner!MoveCursor(Runner!Run(Runner!Ran(m), acts),
                                        StepCursor("stepwise_open"), Goto("step_resolve"))
  <2>8. Runner!AutoAdvance(moved) = Runner!Ran(x)
    BY <2>1, <2>3, <2>4, <2>6, StepResolves
  <2>9. e = [ok |-> TRUE, run |-> Runner!AutoAdvance(moved)]
    BY <1>1, <1>5, <2>7
  <2>10. e = [ok |-> TRUE, run |-> Runner!Ran(x)]
    BY <2>8, <2>9
  <2>11. f = o
    BY <1>5
  <2> HIDE DEF e, path
  <2> QED BY <2>1, <2>3, <2>10, <2>11 DEF e, path
<1> QED BY <1>4, <1>5

PassOf(f) == [kind |-> "ResolvePass", responding_faction |-> f]

\* A pass that was executed and has come to rest.
Passed(m, f) == SettledPass(Placed(Executed(m, PassOf(f)), WindowCursor("interrupt_resolve")))

\* A pass applies if the responder is at the head of the queue, and moves no unit.
LEMMA PassesOne ==
    ASSUME NEW m, m.state \in GameStates, NEW f \in Factions
    PROVE  LET x == Executed(m, PassOf(f))  flow == m.state.engine.movement_arc
           IN  /\ CanApply(PassOf(f), m.state) <=> CanResolvePass(PassOf(f), m.state)
               /\ ExecutedAll(m, Passes(f)) = IF CanResolvePass(PassOf(f), m.state)
                                              THEN Runner!Ran(x) ELSE Runner!Raised(x)
               /\ x.state \in GameStates
               /\ x.state.units = m.state.units
               /\ x.state.engine.cursor = m.state.engine.cursor
               /\ CanResolvePass(PassOf(f), m.state) =>
                    /\ x.state.engine.movement_arc = ArcAfterPass(flow)
                    /\ x.state.turn = TurnAfterPass(m.state.turn, flow)
               /\ ~CanResolvePass(PassOf(f), m.state) => x.state = m.state
               /\ Healthy(m) => Healthy(x)
<1> DEFINE a == PassOf(f)
           x == Executed(m, a)
           s == m.state
           flow == s.engine.movement_arc
<1>1. a \in ResolvePasses /\ a.kind = "ResolvePass" /\ a.responding_faction = f
  BY DEF PassOf, ResolvePasses
<1>2. a \in StateActionSet /\ KnownAction(a)
  BY <1>1 DEF StateActionSet, KnownAction
<1>3. CanApply(a, s) <=> CanResolvePass(a, s)
  BY <1>1 DEF CanApply
<1>4. Healthy(m) => Healthy(x)
  BY <1>2, ExecutedIsHealthy
<1>5. Apply(a, s) = ApplyResolvePass(s)
  BY <1>1 DEF Apply
<1>6. Passes(f) = <<a>>
  BY DEF Passes, PassOf
<1> HIDE DEF a
<1>7. CASE CanResolvePass(a, s)
  <2>1. x.state = [s EXCEPT !.engine.movement_arc = ArcAfterPass(flow),
                            !.turn = TurnAfterPass(s.turn, flow)]
    BY <1>3, <1>5, <1>7 DEF Executed, ApplyResolvePass
  <2>2. x.state \in GameStates
    BY <1>2, <1>3, <1>7, ApplyType DEF Executed
  <2>3. /\ x.state.units = s.units /\ x.state.engine.cursor = s.engine.cursor
        /\ x.state.engine.movement_arc = ArcAfterPass(flow)
        /\ x.state.turn = TurnAfterPass(s.turn, flow)
    BY <2>1 DEF GameStates, EngineStates
  <2>4. ExecutedAll(m, <<a>>) = Runner!Ran(x)
    BY <1>3, <1>7, RunOfOne
  <2> QED BY <1>3, <1>4, <1>6, <1>7, <2>2, <2>3, <2>4 DEF a
<1>8. CASE ~CanResolvePass(a, s)
  <2>1. x = Truncated(m)
    BY <1>3, <1>8 DEF Executed
  <2> DEFINE h == SubSeq(m.history, 1, m.pointer)
  <2>2. Truncated(m) = [m EXCEPT !.history = h]
    BY DEF Truncated
  <2> HIDE DEF h
  <2>3. x.state = m.state
    BY <2>1, <2>2
  <2>4. ExecutedAll(m, <<a>>) = Runner!Raised(x)
    BY <1>3, <1>8, RunOfOne
  <2> QED BY <1>3, <1>4, <1>6, <1>8, <2>3, <2>4 DEF a
<1> QED BY <1>7, <1>8

LEMMA PassedState ==
    ASSUME PlainTitle, NEW m, m.state \in GameStates, NEW f \in Factions,
           CanResolvePass(PassOf(f), m.state)
    PROVE  LET x == Passed(m, f)  flow == m.state.engine.movement_arc
           IN  /\ x.state \in GameStates
               /\ x.state.units = m.state.units
               /\ x.state.engine.movement_arc = ArcAfterPass(flow)
               /\ x.state.turn = TurnAfterPass(m.state.turn, flow)
               /\ Healthy(m) => Healthy(x)
<1> DEFINE y == Executed(m, PassOf(f))
           z == Placed(y, WindowCursor("interrupt_resolve"))
<1>1. WindowCursor("interrupt_resolve") \in KnownCursors
  BY DEF KnownCursors
<1>2. /\ y.state \in GameStates /\ y.state.units = m.state.units
      /\ y.state.engine.movement_arc = ArcAfterPass(m.state.engine.movement_arc)
      /\ y.state.turn = TurnAfterPass(m.state.turn, m.state.engine.movement_arc)
      /\ Healthy(m) => Healthy(y)
  BY PassesOne
<1> HIDE DEF y
<1>3. /\ z.state \in GameStates
      /\ z.state.engine.movement_arc = y.state.engine.movement_arc
      /\ z.state.units = y.state.units
      /\ z.state.turn = y.state.turn
      /\ Healthy(y) => Healthy(z)
  BY <1>1, <1>2, KnownCursorsType, PlacedCursor, PlacedIsHealthy
<1> HIDE DEF z
<1>4. /\ SettledPass(z).state \in GameStates
      /\ SettledPass(z).state.engine.movement_arc = z.state.engine.movement_arc
      /\ SettledPass(z).state.units = z.state.units
      /\ SettledPass(z).state.turn = z.state.turn
      /\ Healthy(z) => Healthy(SettledPass(z))
  BY <1>3, SettledPassState
<1> QED BY <1>2, <1>3, <1>4 DEF Passed, y, z

\* The event of a pass is rejected, raises off a resting cursor, or passes in the window of
\* the faction that sent it.
LEMMA PassRuns ==
    ASSUME PlainTitle, NEW m, m.state \in GameStates, m.state.engine.cursor \in KnownCursors,
           NEW f
    PROVE  LET flow == m.state.engine.movement_arc
               e == Runner!SubmitEvent(m, "movement", "PassMovementInterrupt", f, None)
           IN  \/ e = Runner!Rejected(m)
               \/ e = [ok |-> FALSE, run |-> Runner!Raised(m)]
                  /\ m.state.engine.cursor \notin RestCursors
               \/ /\ m.state.engine.cursor = WindowCursor("interrupt")
                  /\ f = m.state.turn.current_faction
                  /\ flow # None /\ flow.gate = AwaitingInterrupt
                  /\ flow.interrupt_queue # <<>> /\ Head(flow.interrupt_queue) = f
                  /\ e = [ok |-> TRUE, run |-> IF CanResolvePass(PassOf(f), m.state)
                                               THEN Runner!Ran(Passed(m, f))
                                               ELSE Runner!Raised(Executed(m, PassOf(f)))]
<1> DEFINE flow == m.state.engine.movement_arc
           type == "PassMovementInterrupt"
           e == Runner!SubmitEvent(m, "movement", type, f, None)
           c == m.state.engine.cursor
<1>2. CASE c \in {None} \cup {RoutineCursor(arc) : arc \in DOMAIN RoutineActions}
  BY <1>2, SubmitsElsewhere
<1>3. CASE c \in {StepCursor("step_resolve"), WindowCursor("interrupt_resolve")}
  <2>1. c \notin RestCursors
    <3>1. ~Runner!Resting(m)
      BY <1>3, AutomaticIsNotResting, CursorsAreNotNone DEF MovementSegments
    <3> QED BY <3>1, RestIsResting
  <2>2. e = [ok |-> FALSE, run |-> Runner!Raised(m)]
    BY <1>3, SubmitsElsewhere
  <2> QED BY <2>1, <2>2
<1>4. CASE c = StepCursor("continue")
  <2>1. type # "MoveUnit"
    OBVIOUS
  <2> HIDE DEF type
  <2>2. e = Runner!Rejected(m)
    BY <1>4, <2>1, SubmitsAtContinue
  <2> QED BY <2>2 DEF type
<1>5. CASE c = StepCursor("stepwise_open")
  <2>1. type # "MoveUnit"
    OBVIOUS
  <2> HIDE DEF type
  <2>2. e = Runner!Rejected(m)
    BY <1>5, <2>1, SubmitsAtOpen
  <2> QED BY <2>2 DEF type
<1>6. CASE c = WindowCursor("interrupt")
  <2> DEFINE o == m.state.turn.current_faction
             ctx == ContextOf(m, o, None)
             moved == Runner!MoveCursor(Runner!Run(Runner!Ran(m), Passes(o)),
                                        WindowCursor("interrupt"), Goto("interrupt_resolve"))
  <2>1. e = IF o = None \/ f # o \/ type # "PassMovementInterrupt" \/ ~IsInterruptResponder(ctx)
                 THEN Runner!Rejected(m)
                 ELSE [ok |-> TRUE, run |-> Runner!AutoAdvance(moved)]
    BY <1>6, SubmitsAtInterrupt
  <2>2. ctx.state = m.state /\ ctx.owner = o
    BY DEF ContextOf
  <2>3. o \in Factions
    BY DEF GameStates, TurnStates
  <2> DEFINE y == Executed(m, PassOf(o))
             z == Placed(y, WindowCursor("interrupt_resolve"))
  <2>4. /\ ExecutedAll(m, Passes(o)) = IF CanResolvePass(PassOf(o), m.state)
                                       THEN Runner!Ran(y) ELSE Runner!Raised(y)
        /\ y.state \in GameStates
    BY <2>3, PassesOne
  <2> HIDE DEF y
  <2>5. CanResolvePass(PassOf(o), m.state) =>
          Runner!AutoAdvance(moved) = Runner!Ran(Passed(m, o))
    <3> SUFFICES ASSUME CanResolvePass(PassOf(o), m.state)
                 PROVE  Runner!AutoAdvance(moved) = Runner!Ran(Passed(m, o))
      OBVIOUS
    <3>1. Runner!Run(Runner!Ran(m), Passes(o)) = Runner!Ran(y)
      BY <2>4, RunIs
    <3>2. moved = Runner!Ran(z)
      BY <3>1, MovesCursor, NextCursors
    <3>3. z.state \in GameStates /\ z.state.engine.cursor = WindowCursor("interrupt_resolve")
      <4>1. WindowCursor("interrupt_resolve") \in KnownCursors
        BY DEF KnownCursors
      <4> QED BY <2>4, <4>1, KnownCursorsType, PlacedCursor
    <3> HIDE DEF z, moved
    <3>4. Runner!AutoAdvance(Runner!Ran(z)) = Runner!Ran(SettledPass(z))
      BY <3>3, AutoAfterPass
    <3> QED BY <3>2, <3>4 DEF Passed, y, z
  <2>6. ~CanResolvePass(PassOf(o), m.state) =>
          Runner!AutoAdvance(moved) = Runner!Raised(y)
    <3> SUFFICES ASSUME ~CanResolvePass(PassOf(o), m.state)
                 PROVE  Runner!AutoAdvance(moved) = Runner!Raised(y)
      OBVIOUS
    <3>1. Runner!Run(Runner!Ran(m), Passes(o)) = Runner!Raised(y)
      BY <2>4, RunIs
    <3>2. moved = Runner!Raised(y)
      BY <3>1, MovesCursor
    <3> HIDE DEF moved
    <3> QED BY <3>2, AutoAtRest
  <2> HIDE DEF moved
  <2>7. CASE o = None \/ f # o \/ type # "PassMovementInterrupt" \/ ~IsInterruptResponder(ctx)
    <3>1. e = Runner!Rejected(m)
      BY <2>1, <2>7
    <3> QED BY <3>1
  <2>8. CASE ~(o = None \/ f # o \/ type # "PassMovementInterrupt" \/ ~IsInterruptResponder(ctx))
    <3>1. e = [ok |-> TRUE, run |-> Runner!AutoAdvance(moved)]
      BY <2>1, <2>8
    <3>2. f = o
      BY <2>8
    <3>3. e = [ok |-> TRUE, run |-> IF CanResolvePass(PassOf(o), m.state)
                                    THEN Runner!Ran(Passed(m, o)) ELSE Runner!Raised(y)]
      BY <2>5, <2>6, <3>1
    <3>4. flow # None /\ flow.gate = AwaitingInterrupt
          /\ flow.interrupt_queue # <<>> /\ Head(flow.interrupt_queue) = o
      BY <2>2, <2>8 DEF IsInterruptResponder
    <3> QED BY <1>6, <3>2, <3>3, <3>4 DEF y
  <2> QED BY <2>7, <2>8
<1> QED BY <1>2, <1>3, <1>4, <1>5, <1>6 DEF KnownCursors, RestCursors

-----------------------------------------------------------------------------
(* 8. The outcome of each handler: what it leaves in the manager, what it shows. *)

KnownMgr == mgr.state \in GameStates /\ mgr.state.engine.cursor \in KnownCursors

LEMMA AnswersRan ==
    ASSUME NEW m
    PROVE  /\ AnswersOrFails(Runner!Ran(m)) <=> Answers(Runner!Ran(m), m.state)
           /\ AnswersOrFails(Runner!Raised(m)) <=> Fails(Runner!Raised(m))
           /\ AnswersAnyway(Runner!Ran(m)) <=> Answers(Runner!Ran(m), m.state)
  BY RunIs DEF AnswersOrFails, AnswersAnyway

\* Where a continued move ends up before its action is spent.
Continued(m, from, to) ==
    LET flow == m.state.engine.movement_arc
    IN  Synced(Resolved(m, flow.unit_id, from, to, NextFlow(flow, from, to)))

\* continue_stepwise_move_unit: the step and its sync, and the action is spent if it was the last.
LEMMA ContinueOutcome ==
    ASSUME PlainTitle, KnownMgr, NEW f, NEW from \in Hexes, NEW to \in Hexes,
           ContinueMove(f, from, to)
    PROVE  LET flow == mgr.state.engine.movement_arc
               x == Continued(mgr, from, to)
           IN  /\ flow # None
               /\ FitsNextStep(mgr.state, flow, MoveParams(flow.unit_id, from, to))
               /\ StepCosts[from][to] <= flow.budget_remaining
               /\ \/ mgr.state.engine.cursor \notin RestCursors /\ Fails(Runner!Raised(mgr))
                  \/ /\ mgr.state.engine.cursor = StepCursor("continue")
                     /\ f = flow.moving_faction /\ flow.gate = AwaitingContinue
                     /\ IF x.state.engine.movement_arc = None
                        THEN Answers(Runner!Ran(Paid(x)), x.state)
                        ELSE Answers(Runner!Ran(x), x.state)
<1> DEFINE flow == mgr.state.engine.movement_arc
           P == MoveParams(flow.unit_id, from, to)
           type == "MoveUnit"
           e == Runner!SubmitEvent(mgr, "movement", type, f, P)
           y == Resolved(mgr, flow.unit_id, from, to, NextFlow(flow, from, to))
           x == Continued(mgr, from, to)
<1>1. /\ mgr.state \in GameStates /\ mgr.state.engine.cursor \in KnownCursors
      /\ flow # None
      /\ FitsNextStep(mgr.state, flow, P)
      /\ StepCosts[from][to] <= flow.budget_remaining
      /\ e.ok \/ e.run.raised
      /\ AnswersBeforeSpending(SyncMovementCursor(e.run))
  BY Zenon DEF KnownMgr, ContinueMove, ContinueIsAccepted, ContinueEvent, IsTaken
<1>2. \/ e = Runner!Rejected(mgr)
      \/ e = [ok |-> FALSE, run |-> Runner!Raised(mgr)]
         /\ mgr.state.engine.cursor \notin RestCursors
      \/ /\ mgr.state.engine.cursor = StepCursor("continue")
         /\ f = flow.moving_faction /\ flow.gate = AwaitingContinue
         /\ e = [ok |-> TRUE, run |-> Runner!Ran(y)]
  BY <1>1, ContinueRuns
<1> HIDE DEF e, P
<1>3. e # Runner!Rejected(mgr)
  BY <1>1, RunIs DEF Runner!Rejected
<1>4. CASE /\ e = [ok |-> FALSE, run |-> Runner!Raised(mgr)]
           /\ mgr.state.engine.cursor \notin RestCursors
  <2>1. SyncMovementCursor(e.run) = Runner!Raised(mgr)
    BY <1>1, <1>4, SyncsCursor
  <2>2. AnswersBeforeSpending(Runner!Raised(mgr)) => Fails(Runner!Raised(mgr))
    BY RunIs, AnswersRan DEF AnswersBeforeSpending
  <2> QED BY <1>1, <1>2, <1>4, <2>1, <2>2 DEF P
<1>5. CASE /\ mgr.state.engine.cursor = StepCursor("continue")
           /\ f = flow.moving_faction /\ flow.gate = AwaitingContinue
           /\ e = [ok |-> TRUE, run |-> Runner!Ran(y)]
  <2>1. /\ flow \in MovementArcs /\ flow.unit_id \in Units
        /\ Present(mgr.state, flow.unit_id)
        /\ mgr.state.units[flow.unit_id].position = from
    BY <1>1 DEF GameStates, EngineStates, MovementArcs, FitsNextStep, P, MoveParams
  <2>2. NextFlow(flow, from, to) \in MovementArcs
    BY <2>1, NextFlowType
  <2>3. y.state \in GameStates
    BY <1>1, <2>1, <2>2, StepResolves
  <2>4. SyncMovementCursor(e.run) = Runner!Ran(x)
    BY <1>5, <2>3, SyncsCursor DEF Continued
  <2>5. x.state \in GameStates
    BY <2>3, SyncedState DEF Continued
  <2> HIDE DEF x, y
  <2>6. AnswersBeforeSpending(Runner!Ran(x)) =>
          IF x.state.engine.movement_arc = None
          THEN Answers(Runner!Ran(Paid(x)), x.state)
          ELSE Answers(Runner!Ran(x), x.state)
    BY <2>5, RunIs, AnswersRan, PaysForMove DEF AnswersBeforeSpending
  <2> QED BY <1>1, <1>5, <2>4, <2>6 DEF x, P
<1> QED BY <1>2, <1>3, <1>4, <1>5

\* Where the first step of a stepwise move ends up.
AtOpen(m) == Placed(m, StepCursor("stepwise_open"))

Opened(m, u, path, f) ==
    Synced(Resolved(AtOpen(m), u, path[1], path[2], OpenFlow(u, path, f)))

LEMMA AtOpenState ==
    ASSUME PlainTitle, NEW m, m.state \in GameStates
    PROVE  /\ AtOpen(m).state \in GameStates
           /\ AtOpen(m).state.engine.cursor = StepCursor("stepwise_open")
           /\ AtOpen(m).state.engine.movement_arc = m.state.engine.movement_arc
           /\ AtOpen(m).state.units = m.state.units
           /\ AtOpen(m).state.turn = m.state.turn
           /\ Healthy(m) => Healthy(AtOpen(m))
<1>1. StepCursor("stepwise_open") \in KnownCursors
  BY DEF KnownCursors, RestCursors
<1> QED BY <1>1, KnownCursorsType, PlacedCursor, PlacedIsHealthy DEF AtOpen

\* The handler of a stepwise move: refused with the routine cursor back, or one step on.
LEMMA OpenOutcome ==
    ASSUME PlainTitle, KnownMgr, NEW f, NEW u \in Units, NEW from, NEW to \in Hexes,
           OpenStepwise(f, u, from, to)
    PROVE  LET path == ShortestPath(AtOpen(mgr).state, u, to, Budgets[u])
               x == Opened(mgr, u, path, f)
           IN  /\ mgr.state.engine.movement_arc = None
               /\ ActorMayAct(f, mgr.state)
               /\ mgr.state.units[u].faction = f
               /\ \/ Fails(Runner!Ran(BackInSlot(AtOpen(mgr))))
                  \/ /\ f = mgr.state.turn.current_faction
                     /\ Present(mgr.state, u) /\ mgr.state.units[u].position = path[1]
                     /\ path \in Seq(Hexes) /\ Len(path) > 2 /\ PathCost(path) <= Budgets[u]
                     /\ Answers(Runner!Ran(x), x.state)
<1> DEFINE P == MoveParams(u, from, to)
           type == "MoveUnit"
           m == AtOpen(mgr)
           e == Runner!SubmitEvent(m, "movement", type, f, P)
           path == ShortestPath(m.state, u, to, Budgets[u])
           y == Resolved(m, u, path[1], path[2], OpenFlow(u, path, f))
           x == Opened(mgr, u, path, f)
<1>1. /\ mgr.state \in GameStates
      /\ m.state \in GameStates
      /\ m.state.engine.cursor = StepCursor("stepwise_open")
      /\ m.state.engine.movement_arc = mgr.state.engine.movement_arc
      /\ m.state.units = mgr.state.units
      /\ m.state.turn = mgr.state.turn
  BY AtOpenState DEF KnownMgr
<1>2. SetCursor(Runner!Ran(mgr), Runner!CursorAt("movement", "stepwise_open")) = Runner!Ran(m)
  BY SetsCursor, CursorsAt DEF AtOpen
<1>3. /\ NewMove(f, u, from, to)
      /\ AnswersOpening(e)
  BY <1>2, RunIs DEF OpenStepwise
<1>4. /\ mgr.state.engine.movement_arc = None
      /\ ActorMayAct(f, mgr.state)
      /\ mgr.state.units[u].faction = f
  BY <1>3 DEF NewMove, ValidMoveRequest
<1>5. \/ e = Runner!Rejected(m)
      \/ /\ f = m.state.turn.current_faction
         /\ m.state.engine.movement_arc = None
         /\ Present(m.state, u) /\ m.state.units[u].position = path[1]
         /\ path \in Seq(Hexes) /\ Len(path) > 2 /\ PathCost(path) <= Budgets[u]
         /\ e = [ok |-> TRUE, run |-> Runner!Ran(y)]
  BY <1>1, OpenRuns
<1> HIDE DEF e, P
<1>6. CASE e = Runner!Rejected(m)
  <2>1. ~IsTaken(e) /\ e.run = Runner!Ran(m)
    BY <1>6, RunIs DEF Runner!Rejected, IsTaken
  <2>2. Fails(RestoreRoutineCursor(SetCursor(e.run, None)))
    BY <1>3, <2>1 DEF AnswersOpening
  <2>3. Fails(Runner!Ran(BackInSlot(m)))
    BY <1>1, <2>1, <2>2, RestoresRoutine
  <2> QED BY <1>4, <2>3
<1>7. CASE /\ f = m.state.turn.current_faction
           /\ m.state.engine.movement_arc = None
           /\ Present(m.state, u) /\ m.state.units[u].position = path[1]
           /\ path \in Seq(Hexes) /\ Len(path) > 2 /\ PathCost(path) <= Budgets[u]
           /\ e = [ok |-> TRUE, run |-> Runner!Ran(y)]
  <2>1. IsTaken(e) /\ e.run = Runner!Ran(y)
    BY <1>7 DEF IsTaken
  <2>2. AnswersOrFails(SyncMovementCursor(Runner!Ran(y)))
    BY <1>3, <2>1 DEF AnswersOpening
  <2>3. f \in Factions /\ path[1] \in Hexes /\ path[2] \in Hexes
    BY <1>1, <1>7 DEF GameStates, TurnStates
  <2>4. OpenFlow(u, path, f) \in MovementArcs
    BY <1>7, <2>3, OpenFlowType
  <2>5. y.state \in GameStates
    BY <1>1, <1>7, <2>3, <2>4, StepResolves
  <2>6. SyncMovementCursor(Runner!Ran(y)) = Runner!Ran(x)
    BY <2>5, SyncsCursor DEF Opened
  <2>7. Answers(Runner!Ran(x), x.state)
    BY <2>2, <2>6, AnswersRan
  <2>8. /\ f = mgr.state.turn.current_faction
        /\ Present(mgr.state, u) /\ mgr.state.units[u].position = path[1]
    BY <1>1, <1>7 DEF Present
  <2> QED BY <1>4, <1>7, <2>7, <2>8
<1> QED BY <1>5, <1>6, <1>7

\* The handler of a move at once: the unit moves and the action is spent.
LEMMA AtOnceOutcome ==
    ASSUME PlainTitle, KnownMgr, NEW f, NEW u \in Units, NEW from \in Hexes, NEW to \in Hexes,
           MoveAtOnce(f, u, from, to)
    PROVE  LET y == Executed(mgr, MoveUnit(u, from, to))  x == Paid(y)
           IN  /\ mgr.state.engine.movement_arc = None
               /\ ActorMayAct(f, mgr.state)
               /\ Present(mgr.state, u) /\ mgr.state.units[u].position = from
               /\ Answers(Runner!Ran(x), x.state)
<1> DEFINE a == MoveUnit(u, from, to)
           y == Executed(mgr, a)
           x == Paid(y)
<1>1. /\ mgr.state \in GameStates
      /\ mgr.state.engine.movement_arc = None
      /\ ActorMayAct(f, mgr.state)
      /\ Present(mgr.state, u) /\ mgr.state.units[u].position = from
      /\ AnswersAnyway(SpendAfterMove(Runner!Run(Runner!Ran(mgr), <<a>>)))
  BY DEF KnownMgr, MoveAtOnce, NewMove, ValidMoveRequest, ActiveIn
<1>2. CanApply(a, mgr.state) /\ y.state \in GameStates
  BY <1>1, MovesUnit
<1> HIDE DEF a
<1>3. Runner!Run(Runner!Ran(mgr), <<a>>) = Runner!Ran(y)
  <2>1. ExecutedAll(mgr, <<a>>) = Runner!Ran(y)
    BY <1>2, RunOfOne
  <2> QED BY <2>1, RunIs
<1> HIDE DEF y
<1>4. SpendAfterMove(Runner!Ran(y)) = Runner!Ran(x)
  BY <1>2, PaysForMove
<1>5. Answers(Runner!Ran(x), x.state)
  BY <1>1, <1>3, <1>4, AnswersRan
<1> QED BY <1>1, <1>5 DEF y, a

\* The handler of a pass.
LEMMA PassOutcome ==
    ASSUME PlainTitle, KnownMgr, NEW f, PassMovementInterrupt(f)
    PROVE  LET flow == mgr.state.engine.movement_arc
               x == Synced(Passed(mgr, f))
           IN  \/ mgr.state.engine.cursor \notin RestCursors /\ Fails(Runner!Raised(mgr))
               \/ /\ mgr.state.engine.cursor = WindowCursor("interrupt")
                  /\ f = mgr.state.turn.current_faction /\ f \in Factions
                  /\ flow # None /\ flow.gate = AwaitingInterrupt
                  /\ flow.interrupt_queue # <<>> /\ Head(flow.interrupt_queue) = f
                  /\ IF CanResolvePass(PassOf(f), mgr.state)
                     THEN Answers(Runner!Ran(x), x.state)
                     ELSE Fails(Runner!Raised(Executed(mgr, PassOf(f))))
<1> DEFINE flow == mgr.state.engine.movement_arc
           type == "PassMovementInterrupt"
           e == Runner!SubmitEvent(mgr, "movement", type, f, None)
           y == Passed(mgr, f)
           z == Executed(mgr, PassOf(f))
           x == Synced(y)
<1>1. /\ mgr.state \in GameStates /\ mgr.state.engine.cursor \in KnownCursors
      /\ e.ok \/ e.run.raised
      /\ AnswersOrFails(SyncMovementCursor(e.run))
  BY DEF KnownMgr, PassMovementInterrupt, PassIsAccepted, PassEvent, IsTaken
<1>2. \/ e = Runner!Rejected(mgr)
      \/ e = [ok |-> FALSE, run |-> Runner!Raised(mgr)]
         /\ mgr.state.engine.cursor \notin RestCursors
      \/ /\ mgr.state.engine.cursor = WindowCursor("interrupt")
         /\ f = mgr.state.turn.current_faction
         /\ flow # None /\ flow.gate = AwaitingInterrupt
         /\ flow.interrupt_queue # <<>> /\ Head(flow.interrupt_queue) = f
         /\ e = [ok |-> TRUE, run |-> IF CanResolvePass(PassOf(f), mgr.state)
                                      THEN Runner!Ran(y) ELSE Runner!Raised(z)]
  BY <1>1, PassRuns
<1> HIDE DEF e
<1>3. e # Runner!Rejected(mgr)
  BY <1>1, RunIs DEF Runner!Rejected
<1>4. CASE e = [ok |-> FALSE, run |-> Runner!Raised(mgr)]
           /\ mgr.state.engine.cursor \notin RestCursors
  <2>1. SyncMovementCursor(e.run) = Runner!Raised(mgr)
    BY <1>1, <1>4, SyncsCursor
  <2> QED BY <1>1, <1>4, <2>1, AnswersRan
<1>5. CASE /\ mgr.state.engine.cursor = WindowCursor("interrupt")
           /\ f = mgr.state.turn.current_faction
           /\ flow # None /\ flow.gate = AwaitingInterrupt
           /\ flow.interrupt_queue # <<>> /\ Head(flow.interrupt_queue) = f
           /\ e = [ok |-> TRUE, run |-> IF CanResolvePass(PassOf(f), mgr.state)
                                        THEN Runner!Ran(y) ELSE Runner!Raised(z)]
  <2>1. f \in Factions
    BY <1>1, <1>5 DEF GameStates, TurnStates
  <2>2. CASE CanResolvePass(PassOf(f), mgr.state)
    <3>1. e.run = Runner!Ran(y)
      BY <1>5, <2>2
    <3>2. y.state \in GameStates
      BY <1>1, <2>1, <2>2, PassedState
    <3>3. SyncMovementCursor(e.run) = Runner!Ran(x)
      BY <3>1, <3>2, SyncsCursor
    <3>4. Answers(Runner!Ran(x), x.state)
      BY <1>1, <3>3, AnswersRan
    <3> QED BY <1>5, <2>1, <2>2, <3>4
  <2>3. CASE ~CanResolvePass(PassOf(f), mgr.state)
    <3>1. e.run = Runner!Raised(z)
      BY <1>5, <2>3
    <3>2. z.state \in GameStates
      BY <1>1, <2>1, PassesOne
    <3>3. SyncMovementCursor(e.run) = Runner!Raised(z)
      BY <3>1, <3>2, SyncsCursor
    <3>4. Fails(Runner!Raised(z))
      BY <1>1, <3>3, AnswersRan
    <3> QED BY <1>5, <2>1, <2>3, <3>4
  <2> QED BY <2>2, <2>3
<1> QED BY <1>2, <1>3, <1>4, <1>5

-----------------------------------------------------------------------------
(* 9. Every request ends with a manager that can be taken back and a broadcast  *)
(* of the units as they are.                                                    *)

\* Every segment a cursor can stand on has a presentation.
AllPresented == \A c \in KnownCursors \ {None} : c.segment_id \in Presented

\* The handler leaves m behind, and shows its units if it shows anything new.
Ends(m) ==
    /\ Healthy(m) /\ mgr' = Forgetful(m) /\ failed' \in BOOLEAN
    /\ \/ published' = published /\ m.state.units = mgr.state.units
       \/ \E shown \in GameStates :
             /\ shown.units = m.state.units /\ shown.engine.cursor \in KnownCursors
             /\ published' = IF CanBeShown(shown) THEN shown ELSE published

\* A handler that answers ends so,
LEMMA AnswersEnds ==
    ASSUME NEW m, Healthy(m), NEW shown \in GameStates, shown.units = m.state.units,
           shown.engine.cursor \in KnownCursors, Answers(Runner!Ran(m), shown)
    PROVE  Ends(m)
  BY RunIs DEF Answers, Ends

\* and one that fails does if it has moved no unit.
LEMMA FailsEnds ==
    ASSUME NEW m, Healthy(m), m.state.units = mgr.state.units, NEW r,
           r \in {Runner!Ran(m), Runner!Raised(m)}, Fails(r)
    PROVE  Ends(m)
  BY RunIs DEF Fails, Ends

LEMMA HealthyIsKnown == ASSUME Healthy(mgr) PROVE KnownMgr
  BY HealthyState DEF KnownMgr

LEMMA ContinueEnds ==
    ASSUME PlainTitle, Healthy(mgr), NEW f, NEW from \in Hexes, NEW to \in Hexes,
           ContinueMove(f, from, to)
    PROVE  \E m : Ends(m)
<1> DEFINE flow == mgr.state.engine.movement_arc
           next == NextFlow(flow, from, to)
           y == Resolved(mgr, flow.unit_id, from, to, next)
           x == Continued(mgr, from, to)
<1>1. /\ KnownMgr /\ flow # None
      /\ FitsNextStep(mgr.state, flow, MoveParams(flow.unit_id, from, to))
      /\ \/ mgr.state.engine.cursor \notin RestCursors /\ Fails(Runner!Raised(mgr))
         \/ IF x.state.engine.movement_arc = None
            THEN Answers(Runner!Ran(Paid(x)), x.state)
            ELSE Answers(Runner!Ran(x), x.state)
  BY HealthyIsKnown, ContinueOutcome
<1>2. /\ flow \in MovementArcs /\ flow.unit_id \in Units
      /\ Present(mgr.state, flow.unit_id)
      /\ mgr.state.units[flow.unit_id].position = from
  BY <1>1 DEF KnownMgr, GameStates, EngineStates, MovementArcs, FitsNextStep, MoveParams
<1>3. next \in MovementArcs
  BY <1>2, NextFlowType
<1>4. y.state \in GameStates /\ Healthy(y)
  BY <1>1, <1>2, <1>3, StepResolves DEF KnownMgr
<1>5. x = Synced(y)
  BY DEF Continued
<1> HIDE DEF y, x
<1>6. Healthy(x) /\ x.state \in GameStates /\ x.state.engine.cursor \in KnownCursors
  BY <1>4, <1>5, SyncedIsHealthy, HealthyState
<1>7. Healthy(Paid(x)) /\ Paid(x).state.units = x.state.units
  BY <1>6, PaysForMove
<1> QED BY <1>1, <1>6, <1>7, AnswersEnds, FailsEnds

LEMMA OpenEnds ==
    ASSUME PlainTitle, Healthy(mgr), NEW f, NEW u \in Units, NEW from, NEW to \in Hexes,
           OpenStepwise(f, u, from, to)
    PROVE  \E m : Ends(m)
<1> DEFINE m == AtOpen(mgr)
           path == ShortestPath(m.state, u, to, Budgets[u])
           y == Resolved(m, u, path[1], path[2], OpenFlow(u, path, f))
           x == Opened(mgr, u, path, f)
<1>1. /\ KnownMgr
      /\ \/ Fails(Runner!Ran(BackInSlot(m)))
         \/ /\ f = mgr.state.turn.current_faction
            /\ Present(mgr.state, u) /\ mgr.state.units[u].position = path[1]
            /\ path \in Seq(Hexes) /\ Len(path) > 2
            /\ Answers(Runner!Ran(x), x.state)
  BY HealthyIsKnown, OpenOutcome
<1>2. m.state \in GameStates /\ m.state.units = mgr.state.units /\ Healthy(m)
  BY <1>1, AtOpenState DEF KnownMgr
<1> HIDE DEF m
<1>3. CASE Fails(Runner!Ran(BackInSlot(m)))
  <2>1. Healthy(BackInSlot(m)) /\ BackInSlot(m).state.units = mgr.state.units
    BY <1>2, SyncedIsHealthy, BackInSlotState
  <2> QED BY <1>3, <2>1, FailsEnds
<1>4. CASE /\ f = mgr.state.turn.current_faction
           /\ Present(mgr.state, u) /\ mgr.state.units[u].position = path[1]
           /\ path \in Seq(Hexes) /\ Len(path) > 2
           /\ Answers(Runner!Ran(x), x.state)
  <2>1. f \in Factions /\ path[1] \in Hexes /\ path[2] \in Hexes
    BY <1>1, <1>4 DEF KnownMgr, GameStates, TurnStates
  <2>2. OpenFlow(u, path, f) \in MovementArcs
    BY <1>4, <2>1, OpenFlowType
  <2>3. Present(m.state, u) /\ m.state.units[u].position = path[1]
    BY <1>2, <1>4 DEF Present
  <2>4. y.state \in GameStates /\ Healthy(y)
    BY <1>2, <2>1, <2>2, <2>3, StepResolves
  <2>5. x = Synced(y)
    BY DEF Opened, m
  <2> HIDE DEF x, y
  <2>6. Healthy(x) /\ x.state \in GameStates /\ x.state.engine.cursor \in KnownCursors
    BY <2>4, <2>5, SyncedIsHealthy, HealthyState
  <2> QED BY <1>4, <2>6, AnswersEnds
<1> QED BY <1>1, <1>3, <1>4

LEMMA AtOnceEnds ==
    ASSUME PlainTitle, Healthy(mgr), NEW f, NEW u \in Units, NEW from \in Hexes, NEW to \in Hexes,
           MoveAtOnce(f, u, from, to)
    PROVE  \E m : Ends(m)
<1> DEFINE y == Executed(mgr, MoveUnit(u, from, to))
           x == Paid(y)
<1>1. /\ KnownMgr
      /\ Present(mgr.state, u) /\ mgr.state.units[u].position = from
      /\ Answers(Runner!Ran(x), x.state)
  BY HealthyIsKnown, AtOnceOutcome
<1>2. y.state \in GameStates /\ Healthy(y)
  BY <1>1, MovesUnit DEF KnownMgr
<1> HIDE DEF y
<1>3. Healthy(x) /\ x.state \in GameStates /\ x.state.engine.cursor \in KnownCursors
  BY <1>2, PaysForMove, HealthyState
<1> QED BY <1>1, <1>3, AnswersEnds

LEMMA PassEnds ==
    ASSUME PlainTitle, Healthy(mgr), NEW f, PassMovementInterrupt(f)
    PROVE  \E m : Ends(m)
<1> DEFINE y == Passed(mgr, f)
           z == Executed(mgr, PassOf(f))
           x == Synced(y)
<1>1. /\ KnownMgr
      /\ \/ Fails(Runner!Raised(mgr))
         \/ /\ f \in Factions
            /\ IF CanResolvePass(PassOf(f), mgr.state)
               THEN Answers(Runner!Ran(x), x.state)
               ELSE Fails(Runner!Raised(z))
  BY HealthyIsKnown, PassOutcome
<1>2. CASE Fails(Runner!Raised(mgr))
  BY <1>2, FailsEnds
<1>3. CASE f \in Factions /\ CanResolvePass(PassOf(f), mgr.state) /\ Answers(Runner!Ran(x), x.state)
  <2>1. y.state \in GameStates /\ Healthy(y)
    BY <1>1, <1>3, PassedState DEF KnownMgr
  <2> HIDE DEF y
  <2>2. Healthy(x) /\ x.state \in GameStates /\ x.state.engine.cursor \in KnownCursors
    BY <2>1, SyncedIsHealthy, HealthyState
  <2> QED BY <1>3, <2>2, AnswersEnds
<1>4. CASE f \in Factions /\ Fails(Runner!Raised(z))
  <2>1. Healthy(z) /\ z.state.units = mgr.state.units
    BY <1>1, <1>4, PassesOne DEF KnownMgr
  <2> QED BY <1>4, <2>1, FailsEnds
<1> QED BY <1>1, <1>2, <1>3, <1>4

\* The handler of the next-phase request.
LEMMA NextPhaseOutcome ==
    ASSUME PlainTitle, KnownMgr, NEW f, RequestNextPhase(f)
    PROVE  /\ mgr.state.engine.movement_arc = None
           /\ ActorMayAct(f, mgr.state) /\ SegmentAllowsNextPhase(mgr.state)
           /\ Answers(Runner!Ran(Advanced(mgr)), Advanced(mgr).state)
<1>1. AdvancePhase(Runner!Ran(mgr)) = Runner!Ran(Advanced(mgr))
  BY AdvancesPhase DEF KnownMgr
<1> QED BY <1>1, AnswersRan DEF RequestNextPhase

LEMMA NextPhaseEnds ==
    ASSUME PlainTitle, Healthy(mgr), NEW f, RequestNextPhase(f)
    PROVE  \E m : Ends(m)
<1>1. KnownMgr /\ Answers(Runner!Ran(Advanced(mgr)), Advanced(mgr).state)
  BY HealthyIsKnown, NextPhaseOutcome
<1>2. Healthy(Advanced(mgr))
  BY <1>1, AdvancesPhase DEF KnownMgr
<1> QED BY <1>1, <1>2, HealthyState, AnswersEnds

\* Requests for one action of the client's.
LEMMA PlainKinds ==
    /\ \A a \in PlainRequests : a \in StateActionSet /\ KnownAction(a)
          /\ a \in DeleteUnits \cup AddUnits \cup SpendActions
    /\ \A a \in PatchRequests : a \in StateActionSet /\ KnownAction(a) /\ a \in PatchAttributes
<1>1. PlainRequests \subseteq DeleteUnits \cup AddUnits \cup SpendActions
      /\ PatchRequests \subseteq PatchAttributes
  BY ServerAssumption
<1>2. \A a \in DeleteUnits \cup AddUnits \cup SpendActions \cup PatchAttributes :
         a \in StateActionSet /\ a.kind # "SetArcCursor"
  BY DEF StateActionSet, DeleteUnits, AddUnits, SpendActions, PatchAttributes
<1> QED BY <1>1, <1>2, KnownMoves

LEMMA RunsOne ==
    ASSUME NEW m, NEW a
    PROVE  Runner!Run(Runner!Ran(m), <<a>>) =
             IF CanApply(a, m.state) THEN Runner!Ran(Executed(m, a)) ELSE Runner!Raised(Executed(m, a))
<1> DEFINE acts == <<a>>
<1>1. ExecutedAll(m, acts) = IF CanApply(a, m.state) THEN Runner!Ran(Executed(m, a))
                             ELSE Runner!Raised(Executed(m, a))
  BY RunOfOne
<1> HIDE DEF acts
<1>2. Runner!Run(Runner!Ran(m), acts) = ExecutedAll(m, acts)
  BY RunIs
<1> QED BY <1>1, <1>2 DEF acts

\* A plain action runs and is shown, or fails and only cuts off what could be redone.
LEMMA PlainOutcome ==
    ASSUME NEW f, NEW a \in PlainRequests, RequestPlain(f, a)
    PROVE  LET x == Executed(mgr, a)
           IN  /\ InBounds /\ ActorMayAct(f, mgr.state)
               /\ IF CanApply(a, mgr.state) THEN Answers(Runner!Ran(x), x.state)
                  ELSE Fails(Runner!Ran(x)) /\ x = Truncated(mgr)
<1> DEFINE x == Executed(mgr, a)
           r == Runner!Run(Runner!Ran(mgr), <<a>>)
<1>1. r = IF CanApply(a, mgr.state) THEN Runner!Ran(x) ELSE Runner!Raised(x)
  BY RunsOne
<1>2. /\ InBounds /\ ActorMayAct(f, mgr.state)
      /\ IF CanApply(a, mgr.state) THEN Answers(r, r.m.state)
         ELSE Fails([r EXCEPT !.raised = FALSE])
  BY DEF RequestPlain
<1> HIDE DEF r
<1>3. CASE CanApply(a, mgr.state)
  BY <1>1, <1>2, <1>3, RunIs
<1>4. CASE ~CanApply(a, mgr.state)
  <2>1. [r EXCEPT !.raised = FALSE] = Runner!Ran(x)
    <3>1. r = [m |-> x, raised |-> TRUE]
      BY <1>1, <1>4 DEF Runner!Raised
    <3> HIDE DEF x
    <3> DEFINE no == FALSE  yes == TRUE
    <3> HIDE DEF no, yes
    <3>2. [[m |-> x, raised |-> yes] EXCEPT !.raised = no] = [m |-> x, raised |-> no]
      OBVIOUS
    <3>3. [r EXCEPT !.raised = FALSE] = [m |-> x, raised |-> FALSE]
      BY <3>1, <3>2 DEF no, yes
    <3> QED BY <3>3 DEF Runner!Ran
  <2>2. x = Truncated(mgr)
    BY <1>4 DEF Executed
  <2> QED BY <1>2, <1>4, <2>1, <2>2
<1> QED BY <1>3, <1>4

LEMMA PlainEnds ==
    ASSUME Healthy(mgr), NEW f, NEW a \in PlainRequests, RequestPlain(f, a)
    PROVE  \E m : Ends(m)
<1> DEFINE x == Executed(mgr, a)
<1>1. IF CanApply(a, mgr.state) THEN Answers(Runner!Ran(x), x.state)
      ELSE Fails(Runner!Ran(x)) /\ x = Truncated(mgr)
  BY PlainOutcome
<1>2. Healthy(x)
  BY PlainKinds, ExecutedIsHealthy
<1> HIDE DEF x
<1>3. CASE CanApply(a, mgr.state)
  BY <1>1, <1>2, <1>3, HealthyState, AnswersEnds
<1>4. CASE ~CanApply(a, mgr.state)
  BY <1>1, <1>2, <1>4, TruncatedIsHealthy, FailsEnds
<1> QED BY <1>3, <1>4

LEMMA PatchOutcome ==
    ASSUME NEW f, NEW a \in PatchRequests, RequestPatch(f, a)
    PROVE  LET x == Executed(mgr, a)
           IN  /\ CanApply(a, mgr.state)
               /\ Answers(Runner!Ran(x), x.state)
<1> DEFINE x == Executed(mgr, a)
           r == Runner!Run(Runner!Ran(mgr), <<a>>)
<1>1. r = IF CanApply(a, mgr.state) THEN Runner!Ran(x) ELSE Runner!Raised(x)
  BY RunsOne
<1>2. ActiveIn(mgr.state, a.unit_id) /\ Answers(r, r.m.state)
  BY DEF RequestPatch
<1>3. CanApply(a, mgr.state)
  BY <1>2, PlainKinds DEF CanApply, PatchAttributes, ActiveIn
<1> QED BY <1>1, <1>2, <1>3, RunIs

LEMMA PatchEnds ==
    ASSUME Healthy(mgr), NEW f, NEW a \in PatchRequests, RequestPatch(f, a)
    PROVE  \E m : Ends(m)
<1> DEFINE x == Executed(mgr, a)
<1>1. Answers(Runner!Ran(x), x.state)
  BY PatchOutcome
<1>2. Healthy(x)
  BY PlainKinds, ExecutedIsHealthy
<1> QED BY <1>1, <1>2, HealthyState, AnswersEnds

LEMMA UndoEnds ==
    ASSUME Healthy(mgr), RequestUndo
    PROVE  \E m : Ends(m)
<1>1. /\ ~UndoRaisesAtOnce(mgr) /\ ~UndoRaisesHalfway(mgr) /\ Healthy(Undone(mgr))
  BY UndoIsHealthy DEF RequestUndo
<1>2. Answers(Runner!Ran(Undone(mgr)), Undone(mgr).state)
  BY <1>1 DEF RequestUndo
<1> QED BY <1>1, <1>2, HealthyState, AnswersEnds

LEMMA RedoEnds ==
    ASSUME Healthy(mgr), RequestRedo
    PROVE  \E m : Ends(m)
<1>1. Healthy(Redone(mgr))
  BY RedoIsHealthy DEF RequestRedo
<1>2. CASE RedoRaises(mgr)
  BY <1>2, FailsEnds DEF RequestRedo
<1>3. CASE ~RedoRaises(mgr)
  BY <1>1, <1>3, HealthyState, AnswersEnds DEF RequestRedo
<1> QED BY <1>2, <1>3

LEMMA LoadEnds ==
    ASSUME PlainTitle, NEW s \in Snapshots, LoadSnapshot(s)
    PROVE  \E m : Ends(m)
<1>1. KnownState(s)
  BY ServerAssumption DEF PlainTitle, KnownState
<1>2. Healthy(Manager(s)) /\ Manager(s).state = s
  BY <1>1, FreshIsHealthy DEF Manager
<1> QED BY <1>1, <1>2, AnswersEnds DEF LoadSnapshot, KnownState

\* The inductive invariant of every behaviour, undo and redo included.
Sound ==
    /\ Healthy(mgr)
    /\ published \in GameStates
    /\ failed \in BOOLEAN
    /\ AllPresented => published.units = mgr.state.units

LEMMA EndsSound ==
    ASSUME Sound, NEW m, Ends(m)
    PROVE  Sound'
<1>1. Healthy(mgr') /\ mgr'.state = m.state
  BY ForgetfulIsHealthy DEF Ends
<1>2. failed' \in BOOLEAN
  BY DEF Ends
<1>3. CASE published' = published /\ m.state.units = mgr.state.units
  BY <1>1, <1>2, <1>3 DEF Sound
<1>4. CASE \E shown \in GameStates :
             /\ shown.units = m.state.units /\ shown.engine.cursor \in KnownCursors
             /\ published' = IF CanBeShown(shown) THEN shown ELSE published
  <2>1. PICK shown \in GameStates :
             /\ shown.units = m.state.units /\ shown.engine.cursor \in KnownCursors
             /\ published' = IF CanBeShown(shown) THEN shown ELSE published
    BY <1>4
  <2>2. published' \in GameStates
    BY <2>1 DEF Sound
  <2>3. AllPresented => CanBeShown(shown)
    BY <2>1 DEF AllPresented, CanBeShown
  <2> QED BY <1>1, <1>2, <2>1, <2>2, <2>3 DEF Sound
<1> QED BY <1>3, <1>4 DEF Ends

LEMMA InitSound == ASSUME PlainTitle, Init PROVE Sound
<1> DEFINE m == Manager(Scenario)
           x == InSlot(m)
<1>1. KnownState(Scenario)
  BY ServerAssumption DEF PlainTitle, KnownState
<1>2. Healthy(m) /\ m.state \in GameStates
  BY <1>1, FreshIsHealthy, HealthyState
<1> HIDE DEF m
<1>3. BeginRoutineSlot(Runner!Ran(m)).m = x
  BY <1>2, BeginsSlot, RunIs
<1>4. Healthy(x)
  BY <1>2, SyncedIsHealthy
<1> HIDE DEF x
<1>5. /\ mgr = Forgetful(x) /\ published = mgr.state /\ failed = FALSE
  BY <1>3 DEF Init, m
<1>6. Healthy(mgr)
  BY <1>4, <1>5, ForgetfulIsHealthy
<1> QED BY <1>5, <1>6, HealthyState DEF Sound

\* One case per request of the client or of the controller.
LEMMA NextEnds ==
    ASSUME PlainTitle, Sound, Next
    PROVE  \E m : Ends(m)
<1>0. Healthy(mgr)
  BY DEF Sound
<1>1. CASE ActionRequest
  <2>1. CASE \E f \in Factions, from, to \in Hexes : ContinueMove(f, from, to)
    BY <1>0, <2>1, ContinueEnds
  <2>2. CASE \E f \in Factions, u \in {w \in Units : ActiveIn(mgr.state, w)}, to \in Hexes :
                OpenStepwise(f, u, Standing(u), to)
    BY <1>0, <2>2, OpenEnds
  <2>3. CASE \E f \in Factions, u \in {w \in Units : ActiveIn(mgr.state, w)}, to \in Hexes :
                MoveAtOnce(f, u, Standing(u), to)
    <3>1. PICK f \in Factions, u \in {w \in Units : ActiveIn(mgr.state, w)}, to \in Hexes :
                MoveAtOnce(f, u, Standing(u), to)
      BY <2>3
    <3>2. Standing(u) \in Hexes
      BY <1>0, HealthyState DEF Standing, ActiveIn, Present, GameStates, UnitStates
    <3> QED BY <1>0, <3>1, <3>2, AtOnceEnds
  <2>4. CASE \E f \in Factions : PassMovementInterrupt(f)
    BY <1>0, <2>4, PassEnds
  <2>5. CASE \E f \in Factions : RequestNextPhase(f)
    BY <1>0, <2>5, NextPhaseEnds
  <2>6. CASE \E f \in Factions, a \in PlainRequests : RequestPlain(f, a)
    BY <1>0, <2>6, PlainEnds
  <2>7. CASE \E f \in Factions, a \in PatchRequests : RequestPatch(f, a)
    BY <1>0, <2>7, PatchEnds
  <2> QED BY <1>1, <2>1, <2>2, <2>3, <2>4, <2>5, <2>6, <2>7 DEF ActionRequest, Moves
<1>2. CASE RequestUndo
  BY <1>0, <1>2, UndoEnds
<1>3. CASE RequestRedo
  BY <1>0, <1>3, RedoEnds
<1>4. CASE \E s \in Snapshots : LoadSnapshot(s)
  BY <1>4, LoadEnds
<1> QED BY <1>1, <1>2, <1>3, <1>4 DEF Next

\* The history can always be taken back entry by entry, and what is shown is a state whose
\* units are the ones on the board.
THEOREM StaysSound == PlainTitle => (Spec => []Sound)
<1> SUFFICES ASSUME PlainTitle PROVE Spec => []Sound
  OBVIOUS
<1>1. Init => Sound
  BY InitSound
<1>2. Sound /\ [Next]_vars => Sound'
  <2> SUFFICES ASSUME Sound, [Next]_vars PROVE Sound'
    OBVIOUS
  <2>1. CASE Next
    BY <2>1, NextEnds, EndsSound
  <2>2. CASE UNCHANGED vars
    BY <2>2 DEF vars, Sound
  <2> QED BY <2>1, <2>2
<1> QED BY <1>1, <1>2, PTL DEF Spec

\* Manager, broadcast and failure flag have their types, whatever is requested.
THEOREM TypeCorrect == PlainTitle => (Spec => []TypeOK)
<1> SUFFICES ASSUME PlainTitle PROVE Spec => []TypeOK
  OBVIOUS
<1>1. Spec => []Sound
  BY StaysSound
<1>2. Sound => TypeOK
  BY HealthyState DEF Sound, TypeOK
<1> QED BY <1>1, <1>2, PTL

\* No undo raises, on the entry it takes back first or on the one coupled with it
\* (action_manager.py undo, game_server.py _handle_undo_request): every entry finds its units again.
THEOREM UndoIsSafe == PlainTitle => (Spec => []UndoNeverFails)
<1> SUFFICES ASSUME PlainTitle PROVE Spec => []UndoNeverFails
  OBVIOUS
<1>1. Spec => []Sound
  BY StaysSound
<1>2. Sound => UndoNeverFails
  BY UndoIsHealthy DEF Sound, UndoNeverFails
<1> QED BY <1>1, <1>2, PTL

\* After every request, failed ones too, the clients have seen the units where they are, if
\* every segment has a presentation (without one the wire form of the state raises).
THEOREM UnitsAlwaysPublished == PlainTitle /\ AllPresented => (Spec => []UnitsArePublished)
<1> SUFFICES ASSUME PlainTitle, AllPresented PROVE Spec => []UnitsArePublished
  OBVIOUS
<1>1. Spec => []Sound
  BY StaysSound
<1>2. Sound => UnitsArePublished
  BY DEF Sound, UnitsArePublished
<1> QED BY <1>1, <1>2, PTL

-----------------------------------------------------------------------------
(* 10. The states in which the server rests between two requests. *)

\* The second sequence ends with the first.
Closes(s, t) == Len(s) <= Len(t) /\ \A i \in 1..Len(s) : s[i] = t[Len(t) - Len(s) + i]

LEMMA SameSequence ==
    ASSUME NEW S, NEW a \in Seq(S), NEW b \in Seq(S), Len(a) = Len(b),
           \A i \in 1..Len(b) : a[i] = b[i]
    PROVE  a = b
  OBVIOUS

LEMMA SuffixIs ==
    ASSUME NEW S, NEW s \in Seq(S), NEW t \in Seq(S)
    PROVE  IsSuffix(s, t) <=> Closes(s, t)
<1> DEFINE p == Reverse(s)
           q == Reverse(t)
<1>1. /\ p \in Seq(S) /\ Len(p) = Len(s) /\ \A i \in 1..Len(s) : p[i] = s[Len(s) - i + 1]
      /\ q \in Seq(S) /\ Len(q) = Len(t) /\ \A i \in 1..Len(t) : q[i] = t[Len(t) - i + 1]
  BY DEF Reverse
<1>2. IsSuffix(s, t) <=> Len(p) <= Len(q) /\ SubSeq(p, 1, Len(p)) = SubSeq(q, 1, Len(p))
  BY DEF IsSuffix, IsPrefix
<1> HIDE DEF p, q
<1>3. ASSUME Len(p) <= Len(q)
      PROVE  SubSeq(p, 1, Len(p)) = SubSeq(q, 1, Len(p)) <=> \A i \in 1..Len(p) : p[i] = q[i]
  <2> DEFINE a == SubSeq(p, 1, Len(p))
             b == SubSeq(q, 1, Len(p))
  <2>1. /\ a \in Seq(S) /\ Len(a) = Len(p) /\ \A i \in 1..Len(p) : a[i] = p[i]
        /\ b \in Seq(S) /\ Len(b) = Len(p) /\ \A i \in 1..Len(p) : b[i] = q[i]
    BY <1>1, <1>3, CutOff
  <2> HIDE DEF a, b
  <2>2. (\A i \in 1..Len(p) : a[i] = b[i]) => a = b
    BY <2>1, SameSequence
  <2> QED BY <2>1, <2>2 DEF a, b
<1>4. ASSUME Len(s) <= Len(t), \A i \in 1..Len(s) : p[i] = q[i], NEW i \in 1..Len(s)
      PROVE  s[i] = t[Len(t) - Len(s) + i]
  <2> DEFINE j == Len(s) - i + 1
  <2>1. j \in 1..Len(s) /\ Len(s) - j + 1 = i /\ Len(t) - j + 1 = Len(t) - Len(s) + i
        /\ j \in 1..Len(t)
    BY <1>4
  <2> HIDE DEF j
  <2> QED BY <1>1, <1>4, <2>1
<1>5. ASSUME Len(s) <= Len(t), \A i \in 1..Len(s) : s[i] = t[Len(t) - Len(s) + i],
             NEW i \in 1..Len(s)
      PROVE  p[i] = q[i]
  <2> DEFINE j == Len(s) - i + 1
  <2>1. j \in 1..Len(s) /\ Len(t) - i + 1 = Len(t) - Len(s) + j /\ i \in 1..Len(t)
    BY <1>5
  <2> HIDE DEF j
  <2>2. p[i] = s[j]
    BY <1>1 DEF j
  <2> QED BY <1>1, <1>5, <2>1, <2>2
<1>6. CASE Len(s) <= Len(t)
  <2>1. IsSuffix(s, t) <=> \A i \in 1..Len(s) : p[i] = q[i]
    BY <1>1, <1>2, <1>3, <1>6
  <2> QED BY <1>4, <1>5, <1>6, <2>1 DEF Closes
<1>7. CASE ~(Len(s) <= Len(t))
  BY <1>1, <1>2, <1>7 DEF Closes
<1> QED BY <1>6, <1>7

LEMMA EmptySuffix ==
    ASSUME NEW S, NEW t \in Seq(S), NEW e \in Seq(S), Len(e) = 0
    PROVE  IsSuffix(e, t)
<1>1. Closes(e, t)
  BY DEF Closes
<1> QED BY <1>1, SuffixIs

LEMMA WholeSuffix ==
    ASSUME NEW S, NEW t \in Seq(S)
    PROVE  IsSuffix(t, t)
<1>1. Closes(t, t)
  BY DEF Closes
<1> QED BY <1>1, SuffixIs

LEMMA TailSuffix ==
    ASSUME NEW S, NEW t \in Seq(S), NEW s \in Seq(S), IsSuffix(s, t), s # <<>>
    PROVE  IsSuffix(Tail(s), t)
<1> DEFINE r == Tail(s)
<1>1. /\ r \in Seq(S) /\ Len(r) = Len(s) - 1 /\ \A i \in 1..(Len(s) - 1) : r[i] = s[i + 1]
      /\ t \in Seq(S)
  OBVIOUS
<1> HIDE DEF r
<1>2. Len(s) <= Len(t) /\ \A i \in 1..Len(s) : s[i] = t[Len(t) - Len(s) + i]
  BY SuffixIs DEF Closes
<1>3. ASSUME NEW i \in 1..Len(r) PROVE r[i] = t[Len(t) - Len(r) + i]
  <2>1. i + 1 \in 1..Len(s) /\ Len(t) - Len(s) + (i + 1) = Len(t) - Len(r) + i
    BY <1>1
  <2> QED BY <1>1, <1>2, <2>1
<1>4. Closes(r, t)
  BY <1>1, <1>2, <1>3 DEF Closes
<1>5. r \in Seq(S) /\ t \in Seq(S)
  BY <1>1
<1>6. IsSuffix(r, t)
  BY ONLY <1>4, <1>5, SuffixIs
<1> QED BY <1>6 DEF r

-----------------------------------------------------------------------------
\* The turn is that of the slot.
OnSlot(turn, n) == turn.current_faction = Slot(n).faction /\ turn.current_phase = Slot(n).phase

RoutineCursors == {None} \cup {RoutineCursor(arc) : arc \in DOMAIN RoutineActions}

\* At rest without a move: a routine cursor, on the slot.
QuietAt(s) == s.engine.cursor \in RoutineCursors /\ OnSlot(s.turn, s.turn.schedule_index)

\* The move has steps left, its unit stands where it stopped, and the budget pays the rest.
RestFits(s, flow) ==
    /\ flow.step_index \in 1..(Len(flow.path) - 2)
    /\ Present(s, flow.unit_id)
    /\ s.units[flow.unit_id].position = flow.path[flow.step_index + 1]
    /\ PathCost(SubSeq(flow.path, flow.step_index + 1, Len(flow.path))) <= flow.budget_remaining

\* Nobody is asked.
Nobody(queue) == queue = <<>>

\* At rest before the owner's next step.
ContinueAt(s, flow) ==
    /\ s.engine.cursor = StepCursor("continue")
    /\ flow.saved_turn = None /\ Nobody(flow.interrupt_queue)
    /\ OnSlot(s.turn, s.turn.schedule_index)

\* At rest in a window: the first of the queue has the word, the slot's turn is kept.
WindowAt(s, flow) ==
    /\ s.engine.cursor = WindowCursor("interrupt")
    /\ flow.saved_turn # None /\ ~Nobody(flow.interrupt_queue)
    /\ s.turn.current_faction = Head(flow.interrupt_queue)
    /\ s.turn.current_phase = MovementInterrupt
    /\ flow.saved_turn.schedule_index = s.turn.schedule_index
    /\ OnSlot(flow.saved_turn, s.turn.schedule_index)

\* At rest with a move open: one of the two, by its gate.
OpenAt(s, flow) ==
    /\ flow.moving_faction = Slot(s.turn.schedule_index).faction
    /\ RestFits(s, flow)
    /\ IsSuffix(flow.interrupt_queue,
                InterruptsAt[flow.path[flow.step_index + 1]][flow.moving_faction])
    /\ flow.gate = AwaitingContinue => ContinueAt(s, flow)
    /\ flow.gate = AwaitingInterrupt => WindowAt(s, flow)

\* The server at rest: the gate, the cursor, the slot, the queue and the budget fit.
Settled(s) ==
    /\ s \in GameStates
    /\ s.turn.schedule_index < Len(Schedule)
    /\ IF s.engine.movement_arc = None THEN QuietAt(s) ELSE OpenAt(s, s.engine.movement_arc)

LEMMA SettledAt ==
    ASSUME NEW s, Settled(s), NEW flow, flow = s.engine.movement_arc, flow # None
    PROVE  /\ flow \in MovementArcs /\ OpenAt(s, flow)
           /\ \/ flow.gate = AwaitingContinue /\ ContinueAt(s, flow)
              \/ flow.gate = AwaitingInterrupt /\ WindowAt(s, flow)
<1>1. s.engine.movement_arc \in MovementArcs
  BY DEF Settled, GameStates, EngineStates
<1>2. OpenAt(s, flow)
  BY DEF Settled
<1>3. flow.gate \in {AwaitingContinue, AwaitingInterrupt}
  BY <1>1 DEF MovementArcs
<1> QED BY <1>1, <1>2, <1>3 DEF OpenAt

LEMMA SettledQuiet ==
    ASSUME NEW s, Settled(s), s.engine.movement_arc = None
    PROVE  /\ s.engine.cursor \in RoutineCursors
           /\ OnSlot(s.turn, s.turn.schedule_index)
  BY DEF Settled, QuietAt

LEMMA SettledTurn ==
    ASSUME NEW s, Settled(s)
    PROVE  /\ s \in GameStates /\ s.turn \in TurnStates
           /\ s.turn.schedule_index \in Nat /\ s.turn.schedule_index < Len(Schedule)
<1>1. s \in GameStates /\ s.turn.schedule_index < Len(Schedule)
  BY DEF Settled
<1>2. s.turn \in TurnStates
  BY <1>1 DEF GameStates
<1> QED BY <1>1, <1>2 DEF TurnStates

LEMMA SettledRests ==
    ASSUME NEW s, Settled(s)
    PROVE  s.engine.cursor \in RestCursors /\ s.engine.cursor \in KnownCursors
<1>1. CASE s.engine.movement_arc = None
  BY <1>1, SettledQuiet DEF RoutineCursors, RestCursors, KnownCursors
<1>2. CASE s.engine.movement_arc # None
  <2>1. s.engine.cursor \in {StepCursor("continue"), WindowCursor("interrupt")}
    BY <1>2, SettledAt DEF ContinueAt, WindowAt
  <2> QED BY <2>1 DEF RestCursors, KnownCursors
<1> QED BY <1>1, <1>2

\* The next slot's turn is on its slot.
LEMMA NextTurnSettles ==
    ASSUME NEW turn \in TurnStates
    PROVE  /\ OnSlot(NextTurn(turn), NextTurn(turn).schedule_index)
           /\ NextTurn(turn).schedule_index < Len(Schedule)
           /\ NextTurn(turn).schedule_index = NextIndex(turn.schedule_index)
           /\ NextTurn(turn).phase_actions_remaining = Slot(NextIndex(turn.schedule_index)).max_actions
<1>1. turn.schedule_index \in Nat
  BY DEF TurnStates
<1> DEFINE n == NextIndex(turn.schedule_index)
<1>2. n \in Nat /\ n < Len(Schedule)
  BY <1>1, SlotType
<1> HIDE DEF n
<1> QED BY <1>2 DEF NextTurn, OnSlot, n

LEMMA AdvancedSettles ==
    ASSUME PlainTitle, NEW m, m.state \in GameStates
    PROVE  Settled(Advanced(m).state)
<1>1. /\ Advanced(m).state \in GameStates
      /\ Advanced(m).state.turn = NextTurn(m.state.turn)
      /\ Advanced(m).state.engine.movement_arc = None
      /\ Advanced(m).state.engine.cursor =
                RoutineCursor(Slot(NextIndex(m.state.turn.schedule_index)).routine_arc_id)
  BY AdvancesPhase
<1>2. m.state.turn \in TurnStates /\ m.state.turn.schedule_index \in Nat
  BY DEF GameStates, TurnStates
<1>3. NextIndex(m.state.turn.schedule_index) \in Nat
  BY <1>2, SlotType
<1>4. Slot(NextIndex(m.state.turn.schedule_index)).routine_arc_id \in DOMAIN RoutineActions
  BY <1>3, SlotType
<1> QED BY <1>1, <1>2, <1>4, NextTurnSettles DEF Settled, QuietAt, RoutineCursors

\* The action of a move is paid, and the slot may end.
LEMMA PaidState ==
    ASSUME PlainTitle, NEW m, m.state \in GameStates
    PROVE  LET left == m.state.turn.phase_actions_remaining
           IN  IF left > 1
               THEN /\ Paid(m).state.turn = [m.state.turn EXCEPT !.phase_actions_remaining = left - 1]
                    /\ Paid(m).state.engine = m.state.engine
                    /\ Paid(m).state.units = m.state.units
                    /\ Paid(m).state \in GameStates
               ELSE /\ Settled(Paid(m).state)
                    /\ Paid(m).state.engine.movement_arc = None
                    /\ Paid(m).state.turn.schedule_index = NextIndex(m.state.turn.schedule_index)
                    /\ Paid(m).state.turn.phase_actions_remaining =
                         Slot(NextIndex(m.state.turn.schedule_index)).max_actions
<1> DEFINE left == m.state.turn.phase_actions_remaining
           x == SpentOne(m)
           k == 1
<1>1. k \in Int /\ m.state.turn \in TurnStates /\ left \in Int
  BY DEF GameStates, TurnStates
<1>2. /\ x.state \in GameStates /\ x.state.units = m.state.units
      /\ x.state.engine = m.state.engine
      /\ x.state.turn = [m.state.turn EXCEPT !.phase_actions_remaining = left - k]
  <2>1. x = Executed(m, Spending(k))
    BY DEF SpentOne
  <2> HIDE DEF x, k
  <2> QED BY <1>1, <2>1, SpendsAction
<1>3. x.state.turn.phase_actions_remaining = left - 1
      /\ x.state.turn.schedule_index = m.state.turn.schedule_index
      /\ x.state.turn \in TurnStates
  BY <1>1, <1>2 DEF TurnStates
<1>4. Paid(m) = IF left > 1 THEN x ELSE Advanced(x)
  BY <1>1, <1>3 DEF Paid
<1> HIDE DEF x
<1>5. CASE left > 1
  BY <1>2, <1>4, <1>5
<1>6. CASE ~(left > 1)
  <2>1. Paid(m) = Advanced(x)
    BY <1>4, <1>6
  <2>2. Settled(Advanced(x).state)
    BY <1>2, AdvancedSettles
  <2>3. /\ Advanced(x).state.turn = NextTurn(x.state.turn)
        /\ Advanced(x).state.engine.movement_arc = None
    BY <1>2, AdvancesPhase
  <2> QED BY <1>3, <1>6, <2>1, <2>2, <2>3, NextTurnSettles
<1> QED BY <1>5, <1>6

\* Paying for a move that is over leaves the server at rest.
LEMMA PaidSettles ==
    ASSUME PlainTitle, NEW m, Settled(m.state), m.state.engine.movement_arc = None
    PROVE  Settled(Paid(m).state) /\ Paid(m).state.engine.movement_arc = None
<1> DEFINE left == m.state.turn.phase_actions_remaining
           s == m.state
           t == Paid(m).state
<1>1. s \in GameStates /\ s.turn \in TurnStates
  BY DEF Settled, GameStates
<1>2. CASE left > 1
  <2>1. /\ t.turn = [s.turn EXCEPT !.phase_actions_remaining = left - 1]
        /\ t.engine = s.engine /\ t \in GameStates
    BY <1>1, <1>2, PaidState
  <2>2. /\ t.turn.schedule_index = s.turn.schedule_index
        /\ t.turn.current_faction = s.turn.current_faction
        /\ t.turn.current_phase = s.turn.current_phase
    BY <1>1, <2>1 DEF TurnStates
  <2> QED BY <2>1, <2>2 DEF Settled, QuietAt, OnSlot
<1>3. CASE ~(left > 1)
  BY <1>1, <1>3, PaidState
<1> QED BY <1>2, <1>3

\* The payload after a step that opened no window, and after one that did.
LEMMA StepGates ==
    ASSUME NEW s \in GameStates, NEW flow \in MovementArcs
    PROVE  LET x == ArcAfterStep(s, flow)
               t == TurnAfterStep(s, flow)
               q == InterruptsAt[flow.path[flow.step_index + 1]][flow.moving_faction]
           IN  /\ PathComplete(flow) => t = s.turn
               /\ ~PathComplete(flow) => q \in Seq(Factions)
               /\ ~PathComplete(flow) /\ Nobody(q) =>
                    /\ t = s.turn
                    /\ x.gate = AwaitingContinue /\ Nobody(x.interrupt_queue) /\ x.saved_turn = None
               /\ ~PathComplete(flow) /\ ~Nobody(q) =>
                    /\ t.current_faction = Head(q) /\ t.current_phase = MovementInterrupt
                    /\ t.schedule_index = s.turn.schedule_index
                    /\ x.gate = AwaitingInterrupt /\ x.interrupt_queue = q /\ x.saved_turn = s.turn
<1> DEFINE x == ArcAfterStep(s, flow)
           t == TurnAfterStep(s, flow)
           q == InterruptsAt[flow.path[flow.step_index + 1]][flow.moving_faction]
<1>1. s.turn \in TurnStates
  BY DEF GameStates
<1>2. CASE PathComplete(flow)
  BY <1>2 DEF TurnAfterStep, InterruptsAfterStep
<1>3. CASE ~PathComplete(flow)
  <2>1. flow.path[flow.step_index + 1] \in Hexes /\ flow.moving_faction \in Factions
    BY <1>3 DEF PathComplete, MovementArcs
  <2>2. q \in Seq(Factions)
    BY <2>1, InterruptsAssumption
  <2>3. InterruptsAfterStep(flow) = q
    BY <1>3 DEF InterruptsAfterStep
  <2> HIDE DEF q
  <2>4. x = IF q = <<>>
            THEN [flow EXCEPT !.gate = AwaitingContinue, !.interrupt_queue = <<>>,
                              !.saved_turn = None]
            ELSE [flow EXCEPT !.gate = AwaitingInterrupt, !.interrupt_queue = q,
                              !.saved_turn = s.turn]
    BY <1>3, <2>3 DEF ArcAfterStep
  <2>5. t = IF q = <<>> THEN s.turn
            ELSE [s.turn EXCEPT !.current_faction = Head(q),
                                !.current_phase = MovementInterrupt,
                                !.phase_actions_remaining = 1]
    BY <2>3 DEF TurnAfterStep
  <2> HIDE DEF x, t
  <2>6. CASE Nobody(q)
    <3>1. q = <<>>
      BY <2>6 DEF Nobody
    <3>2. x.gate = AwaitingContinue /\ x.interrupt_queue = q /\ x.saved_turn = None /\ t = s.turn
      BY <2>4, <2>5, <3>1 DEF MovementArcs
    <3> QED BY <1>3, <2>2, <2>6, <3>2 DEF x, t, q
  <2>7. CASE ~Nobody(q)
    <3>0. q # <<>>
      BY <2>7 DEF Nobody
    <3>1. /\ x.gate = AwaitingInterrupt /\ x.interrupt_queue = q /\ x.saved_turn = s.turn
      BY <2>4, <3>0 DEF MovementArcs
    <3>2. /\ t.current_faction = Head(q) /\ t.current_phase = MovementInterrupt
          /\ t.schedule_index = s.turn.schedule_index
      BY <1>1, <2>5, <3>0 DEF TurnStates
    <3> QED BY <1>3, <2>2, <2>7, <3>1, <3>2 DEF x, t, q
  <2> QED BY <2>6, <2>7
<1> QED BY <1>2, <1>3

\* What a step has to be for the server to come to rest behind it.
StepIsPaid(m, u, from, to, flow) ==
    /\ m.state \in GameStates
    /\ u \in Units /\ from \in Hexes /\ to \in Hexes
    /\ Present(m.state, u) /\ m.state.units[u].position = from
    /\ flow \in MovementArcs /\ flow.unit_id = u
    /\ flow.step_index \in 1..(Len(flow.path) - 1)
    /\ flow.path[flow.step_index + 1] = to
    /\ m.state.turn.schedule_index < Len(Schedule)
    /\ OnSlot(m.state.turn, m.state.turn.schedule_index)
    /\ flow.moving_faction = Slot(m.state.turn.schedule_index).faction
    /\ PathCost(SubSeq(flow.path, flow.step_index + 1, Len(flow.path))) <= flow.budget_remaining

\* A step that is paid for leaves the server at rest, behind its path or in a window.
LEMMA StepSettles ==
    ASSUME PlainTitle, NEW m, NEW u, NEW from, NEW to, NEW flow, StepIsPaid(m, u, from, to, flow)
    PROVE  LET x == Synced(Resolved(m, u, from, to, flow))
           IN  /\ Settled(x.state)
               /\ HomeTurn(x.state) = m.state.turn
               /\ x.state.engine.movement_arc = None <=> PathComplete(flow)
               /\ x.state.engine.movement_arc = None => x.state.turn = m.state.turn
<1> DEFINE y == Resolved(m, u, from, to, flow)
           x == Synced(y)
           arc == ArcAfterStep(m.state, flow)
           q == InterruptsAt[flow.path[flow.step_index + 1]][flow.moving_faction]
           n == m.state.turn.schedule_index
<1>0. /\ m.state \in GameStates /\ u \in Units /\ from \in Hexes /\ to \in Hexes
      /\ Present(m.state, u) /\ m.state.units[u].position = from /\ flow \in MovementArcs
  BY DEF StepIsPaid
<1> HIDE DEF x, q, n
<1>1. /\ y.state \in GameStates
      /\ y.state.units[u] # None /\ y.state.units[u].position = to
      /\ y.state.turn = TurnAfterStep(m.state, flow)
      /\ y.state.engine.movement_arc = IF PathComplete(flow) THEN None ELSE arc
  <2> DEFINE seg == "continue"
  <2> HIDE DEF seg
  <2>1. /\ Runner!AutoAdvance(
              Runner!MoveCursor(
                 Runner!Run(Runner!Ran(m), <<MoveUnit(u, from, to), StepOf(flow)>>),
                 StepCursor(seg), Goto("step_resolve"))) = Runner!Ran(y)
        /\ y.state \in GameStates
        /\ y.state.units[u] # None /\ y.state.units[u].position = to
        /\ y.state.turn = TurnAfterStep(m.state, flow)
        /\ y.state.engine.movement_arc = IF PathComplete(flow) THEN None ELSE arc
        /\ Healthy(m) => Healthy(y)
    BY <1>0, StepResolves
  <2> QED BY <2>1
<1> USE DEF x, q, n
<1>2. m.state \in GameStates /\ flow \in MovementArcs /\ m.state.turn \in TurnStates /\ n \in Nat
  BY DEF StepIsPaid, GameStates, TurnStates
<1>3. /\ arc \in MovementArcs /\ arc # None
      /\ arc.unit_id = flow.unit_id /\ arc.path = flow.path
      /\ arc.step_index = flow.step_index
      /\ arc.moving_faction = flow.moving_faction
      /\ arc.budget_remaining = flow.budget_remaining
  BY <1>2, StepKeepsPath
<1>4. /\ x.state \in GameStates
      /\ x.state.engine.cursor =
           IF y.state.engine.movement_arc = None
           THEN RoutineCursor(Slot(y.state.turn.schedule_index).routine_arc_id)
           ELSE IF y.state.engine.movement_arc.gate = AwaitingInterrupt
           THEN WindowCursor("interrupt") ELSE StepCursor("continue")
      /\ x.state.engine.movement_arc = y.state.engine.movement_arc
      /\ x.state.units = y.state.units
      /\ x.state.turn = y.state.turn
  BY <1>1, SyncedState
<1>5. /\ PathComplete(flow) => y.state.turn = m.state.turn
      /\ ~PathComplete(flow) => q \in Seq(Factions)
      /\ ~PathComplete(flow) /\ Nobody(q) =>
           /\ y.state.turn = m.state.turn
           /\ arc.gate = AwaitingContinue /\ Nobody(arc.interrupt_queue) /\ arc.saved_turn = None
      /\ ~PathComplete(flow) /\ ~Nobody(q) =>
           /\ y.state.turn.current_faction = Head(q)
           /\ y.state.turn.current_phase = MovementInterrupt
           /\ y.state.turn.schedule_index = n
           /\ arc.gate = AwaitingInterrupt /\ arc.interrupt_queue = q /\ arc.saved_turn = m.state.turn
  BY <1>1, <1>2, StepGates
<1> HIDE DEF x, y, arc, q
<1>6. CASE PathComplete(flow)
  <2>1. Slot(n).routine_arc_id \in DOMAIN RoutineActions
    BY <1>2, SlotType
  <2>2. /\ x.state.engine.movement_arc = None
        /\ x.state.turn = m.state.turn
        /\ x.state.engine.cursor = RoutineCursor(Slot(n).routine_arc_id)
    BY <1>1, <1>4, <1>5, <1>6
  <2>3. Settled(x.state)
    BY <1>4, <2>1, <2>2 DEF Settled, QuietAt, RoutineCursors, StepIsPaid
  <2> QED BY <1>6, <2>2, <2>3 DEF HomeTurn, x, y
<1>7. CASE ~PathComplete(flow)
  <2>1. x.state.engine.movement_arc = arc
    BY <1>1, <1>4, <1>7
  <2>2. flow.step_index \in 1..(Len(flow.path) - 2)
    BY <1>2, <1>7 DEF StepIsPaid, PathComplete, MovementArcs
  <2>3. RestFits(x.state, arc)
    BY <1>1, <1>3, <1>4, <2>2 DEF RestFits, StepIsPaid, Present
  <2>4. arc.path[arc.step_index + 1] = flow.path[flow.step_index + 1]
        /\ InterruptsAt[arc.path[arc.step_index + 1]][arc.moving_faction] = q
    BY <1>3 DEF q
  <2>5. CASE Nobody(q)
    <3>1. /\ x.state.turn = m.state.turn
          /\ arc.gate = AwaitingContinue /\ Nobody(arc.interrupt_queue) /\ arc.saved_turn = None
          /\ x.state.engine.cursor = StepCursor("continue")
      BY <1>1, <1>3, <1>4, <1>5, <1>7, <2>5 DEF AwaitingContinue, AwaitingInterrupt
    <3>2. IsSuffix(arc.interrupt_queue, q)
      <4>1. arc.interrupt_queue = q
        BY <2>5, <3>1 DEF Nobody
      <4>2. q \in Seq(Factions)
        BY <1>5, <1>7
      <4> QED BY <4>1, <4>2, WholeSuffix
    <3>3. arc.gate # AwaitingInterrupt
      BY <3>1 DEF AwaitingContinue, AwaitingInterrupt
    <3>4. OpenAt(x.state, arc)
      BY <1>3, <2>3, <2>4, <3>1, <3>2, <3>3 DEF OpenAt, ContinueAt, StepIsPaid
    <3>5. Settled(x.state)
      BY <1>3, <1>4, <2>1, <3>1, <3>4 DEF Settled, StepIsPaid
    <3> QED BY <1>3, <1>7, <2>1, <3>1, <3>5 DEF HomeTurn, x, y
  <2>6. CASE ~Nobody(q)
    <3>1. /\ x.state.turn.current_faction = Head(q)
          /\ x.state.turn.current_phase = MovementInterrupt
          /\ x.state.turn.schedule_index = n
          /\ arc.gate = AwaitingInterrupt /\ arc.interrupt_queue = q /\ arc.saved_turn = m.state.turn
          /\ x.state.engine.cursor = WindowCursor("interrupt")
      BY <1>1, <1>3, <1>4, <1>5, <1>7, <2>6
    <3>2. IsSuffix(arc.interrupt_queue, q)
      <4>1. q \in Seq(Factions)
        BY <1>5, <1>7
      <4> QED BY <3>1, <4>1, WholeSuffix
    <3>3. arc.gate # AwaitingContinue /\ arc.saved_turn # None
      BY <1>2, <3>1, NoneAssumption DEF AwaitingContinue, AwaitingInterrupt
    <3>4. WindowAt(x.state, arc)
      BY <2>6, <3>1, <3>3 DEF WindowAt, StepIsPaid
    <3>5. OpenAt(x.state, arc)
      BY <1>3, <2>3, <2>4, <3>1, <3>2, <3>3, <3>4 DEF OpenAt, StepIsPaid
    <3>6. Settled(x.state)
      BY <1>3, <1>4, <2>1, <3>1, <3>5 DEF Settled, StepIsPaid
    <3> QED BY <1>3, <1>7, <2>1, <3>1, <3>3, <3>6 DEF HomeTurn, x, y
  <2> QED BY <2>5, <2>6
<1> QED BY <1>6, <1>7

-----------------------------------------------------------------------------
(* 11. Every request but undo and redo leads from rest to rest. *)

\* What is left of a path behind its first k hexes.
RestOf(path, k) == SubSeq(path, k + 1, Len(path))

LEMMA RestOfIs ==
    ASSUME NEW S, NEW path \in Seq(S), NEW k \in 0..Len(path)
    PROVE  /\ RestOf(path, k) \in Seq(S) /\ Len(RestOf(path, k)) = Len(path) - k
           /\ \A i \in 1..(Len(path) - k) : RestOf(path, k)[i] = path[k + i]
  BY CutFront DEF RestOf

LEMMA RestOfRest ==
    ASSUME NEW S, NEW path \in Seq(S), NEW k \in 0..(Len(path) - 1)
    PROVE  RestOf(RestOf(path, k), 1) = RestOf(path, k + 1)
<1> DEFINE n == Len(path)
           j == k + 1
           one == 1
           p == RestOf(path, k)
           q == RestOf(path, j)
           r == RestOf(p, one)
<1>1. n \in Nat /\ k \in 0..n /\ j \in 0..n /\ k \in Nat /\ j = k + 1
  OBVIOUS
<1>2. p \in Seq(S) /\ Len(p) = n - k /\ \A i \in 1..(n - k) : p[i] = path[k + i]
  BY <1>1, RestOfIs
<1> HIDE DEF p, j, one
<1>3. q \in Seq(S) /\ Len(q) = n - j /\ \A i \in 1..(n - j) : q[i] = path[j + i]
  BY <1>1, RestOfIs
<1>4. one \in 0..Len(p)
  BY <1>1, <1>2 DEF one
<1>5. r \in Seq(S) /\ Len(r) = Len(p) - one /\ \A i \in 1..(Len(p) - one) : r[i] = p[one + i]
  BY <1>2, <1>4, RestOfIs
<1> HIDE DEF n, q, r
<1>6. Len(r) = Len(q)
  BY <1>1, <1>2, <1>3, <1>5 DEF one
<1>7. ASSUME NEW i \in 1..Len(q) PROVE r[i] = q[i]
  <2>1. /\ i \in 1..(n - j) /\ one + i \in 1..(n - k) /\ i \in 1..(Len(p) - one)
        /\ k + (one + i) = j + i
    BY <1>1, <1>2, <1>3 DEF one
  <2> QED BY <1>2, <1>3, <1>5, <2>1
<1>8. r = q
  BY <1>3, <1>5, <1>6, <1>7, SameSequence
<1> QED BY <1>8 DEF r, q, p, j, one

\* What is left costs the next step, and then what is left behind it.
LEMMA RestCost ==
    ASSUME NEW path \in Seq(Hexes), NEW k \in 1..(Len(path) - 2)
    PROVE  PathCost(SubSeq(path, k + 1, Len(path))) =
             StepCosts[path[k + 1]][path[k + 2]] + PathCost(SubSeq(path, k + 2, Len(path)))
<1> DEFINE p == RestOf(path, k)
<1>1. k \in Nat /\ k \in 0..Len(path) /\ k \in 0..(Len(path) - 1) /\ Len(path) - k >= 2
      /\ (k + 1) + 1 = k + 2
  OBVIOUS
<1>2. p \in Seq(Hexes) /\ Len(p) = Len(path) - k
      /\ \A i \in 1..(Len(path) - k) : p[i] = path[k + i]
  BY <1>1, RestOfIs
<1>3. RestOf(p, 1) = RestOf(path, k + 1)
  BY <1>1, RestOfRest
<1> HIDE DEF p
<1>4. RestOf(p, 1) = SubSeq(p, 2, Len(p)) /\ RestOf(path, k + 1) = SubSeq(path, k + 2, Len(path))
  BY <1>1 DEF RestOf
<1>5. p[1] = path[k + 1] /\ p[2] = path[k + 2] /\ Len(p) >= 2
  BY <1>1, <1>2
<1>6. PathCost(p) = StepCosts[p[1]][p[2]] + PathCost(SubSeq(p, 2, Len(p)))
  BY <1>2, <1>5, PathCostFirst
<1>7. p = SubSeq(path, k + 1, Len(path))
  BY DEF p, RestOf
<1> QED BY <1>3, <1>4, <1>5, <1>6, <1>7

-----------------------------------------------------------------------------
(* What a request without undo or redo may do to the state. *)

ArcOf(s) == s.engine.movement_arc

\* A move opens; the slot goes on.
Opens(s, t) == ArcOf(s) = None /\ ArcOf(t) # None /\ HomeTurn(t) = s.turn

\* One step on.
StepsOn(s, t) ==
    /\ ArcOf(s) # None /\ ArcOf(s).gate = AwaitingContinue
    /\ ArcOf(t) # None /\ HomeTurn(t) = s.turn

\* A window goes to the next responder or back to the mover.
Hands(s, t) ==
    /\ ArcOf(s) # None /\ ArcOf(s).gate = AwaitingInterrupt
    /\ ArcOf(t) = ArcAfterPass(ArcOf(s)) /\ HomeTurn(t) = HomeTurn(s)

\* A move is over: one action less, or the next slot.
Pays(s, t) ==
    LET left == s.turn.phase_actions_remaining  n == NextIndex(s.turn.schedule_index)
    IN  /\ ArcOf(s) # None => ArcOf(s).gate = AwaitingContinue
        /\ ArcOf(t) = None
        /\ IF left > 1 THEN t.turn = [s.turn EXCEPT !.phase_actions_remaining = left - 1]
           ELSE /\ t.turn.schedule_index = n
                /\ t.turn.phase_actions_remaining = Slot(n).max_actions

\* The owner ends the phase.
EndsSlot(s, t) == ArcOf(s) = None /\ ArcOf(t) = None /\ t.turn = NextTurn(s.turn)

\* A client spends actions by an action of its own.
Spends(s, t) ==
    /\ ArcOf(t) = ArcOf(s)
    /\ \E a \in PlainRequests \cap SpendActions :
          t.turn = [s.turn EXCEPT !.phase_actions_remaining = @ - a.amount]

\* Neither the move nor the turn changes.
Keeps(s, t) == ArcOf(t) = ArcOf(s) /\ t.turn = s.turn

\* One of these, or a snapshot is loaded.
Moved(s, t) ==
    \/ Opens(s, t) \/ StepsOn(s, t) \/ Hands(s, t) \/ Pays(s, t) \/ EndsSlot(s, t)
    \/ Spends(s, t) \/ Keeps(s, t) \/ t \in Snapshots

\* The handler comes to its end and leaves m, at rest.
Leaves(m) ==
    /\ mgr' = Forgetful(m) /\ failed' = FALSE
    /\ Settled(m.state) /\ Moved(mgr.state, m.state)

LEMMA Left ==
    ASSUME NEW m, Settled(m.state), Moved(mgr.state, m.state),
           (\E shown : Answers(Runner!Ran(m), shown)) \/ Fails(Runner!Ran(m))
    PROVE  Leaves(m)
  BY RunIs DEF Answers, Fails, Leaves

LEMMA PaidPays ==
    ASSUME PlainTitle, NEW s, NEW m, Settled(m.state), ArcOf(m.state) = None, m.state.turn = s.turn,
           ArcOf(s) # None => ArcOf(s).gate = AwaitingContinue
    PROVE  Settled(Paid(m).state) /\ Pays(s, Paid(m).state)
<1>1. m.state \in GameStates
  BY DEF Settled
<1>2. Settled(Paid(m).state) /\ ArcOf(Paid(m).state) = None
  BY PaidSettles DEF ArcOf
<1>3. LET left == m.state.turn.phase_actions_remaining  n == NextIndex(m.state.turn.schedule_index)
      IN  IF left > 1
          THEN Paid(m).state.turn = [m.state.turn EXCEPT !.phase_actions_remaining = left - 1]
          ELSE /\ Paid(m).state.turn.schedule_index = n
               /\ Paid(m).state.turn.phase_actions_remaining = Slot(n).max_actions
  BY <1>1, PaidState
<1> QED BY <1>2, <1>3 DEF Pays

\* A continued move leads from rest to rest: the rest of the path is paid for, so the next
\* step is, and its window is that of the hex it leads to.
LEMMA ContinueLeaves ==
    ASSUME PlainTitle, Settled(mgr.state), NEW f, NEW from \in Hexes, NEW to \in Hexes,
           ContinueMove(f, from, to)
    PROVE  \E m : Leaves(m)
<1> DEFINE s == mgr.state
           flow == s.engine.movement_arc
           k == flow.step_index
           next == NextFlow(flow, from, to)
           x == Continued(mgr, from, to)
<1>1. s \in GameStates /\ s.engine.cursor \in RestCursors /\ KnownMgr
  BY SettledRests DEF Settled, KnownMgr
<1>2. /\ flow # None
      /\ FitsNextStep(s, flow, MoveParams(flow.unit_id, from, to))
      /\ StepCosts[from][to] <= flow.budget_remaining
      /\ flow.gate = AwaitingContinue
      /\ IF x.state.engine.movement_arc = None
         THEN Answers(Runner!Ran(Paid(x)), x.state)
         ELSE Answers(Runner!Ran(x), x.state)
  BY <1>1, ContinueOutcome
<1>3. s = mgr.state /\ flow = s.engine.movement_arc
  OBVIOUS
<1>4. flow \in MovementArcs /\ OpenAt(s, flow) /\ ContinueAt(s, flow)
      /\ s.turn.schedule_index < Len(Schedule)
  <2>1. AwaitingContinue # AwaitingInterrupt
    BY DEF AwaitingContinue, AwaitingInterrupt
  <2> HIDE DEF s, flow, x
  <2> QED BY <1>2, <1>3, <2>1, SettledAt, SettledTurn
<1> HIDE DEF s, flow, x
<1>5. /\ flow.unit_id \in Units /\ flow.path \in Seq(Hexes) /\ k \in Nat
      /\ flow.budget_remaining \in Int
  BY <1>4 DEF MovementArcs
<1>6. /\ RestFits(s, flow)
      /\ flow.moving_faction = Slot(s.turn.schedule_index).faction
      /\ OnSlot(s.turn, s.turn.schedule_index)
  BY <1>4 DEF OpenAt, ContinueAt
<1>7. /\ Present(s, flow.unit_id)
      /\ k \in 1..(Len(flow.path) - 2)
  BY <1>6 DEF RestFits
<1>8. /\ s.units[flow.unit_id].position = from
      /\ from = flow.path[k + 1] /\ to = flow.path[k + 2]
  BY <1>2, <1>6 DEF FitsNextStep, MoveParams, RestFits
<1>9. /\ next \in MovementArcs
      /\ next.unit_id = flow.unit_id /\ next.path = flow.path
      /\ next.step_index = k + 1
      /\ next.moving_faction = flow.moving_faction
      /\ next.budget_remaining = flow.budget_remaining - StepCosts[from][to]
  BY <1>4, NextFlowType
<1> HIDE DEF k, next
<1>10. PathCost(SubSeq(flow.path, k + 2, Len(flow.path))) <= next.budget_remaining
  <2> DEFINE a == PathCost(SubSeq(flow.path, k + 1, Len(flow.path)))
             b == PathCost(SubSeq(flow.path, k + 2, Len(flow.path)))
  <2>1. a = StepCosts[from][to] + b
    BY <1>5, <1>7, <1>8, RestCost
  <2>2. a <= flow.budget_remaining
    BY <1>6 DEF RestFits, k
  <2>3. StepCosts[from][to] \in Nat
    BY GraphAssumption
  <2>4. b \in Nat
    <3> DEFINE j == k + 1
    <3>1. j \in 0..Len(flow.path) /\ j + 1 = k + 2 /\ j < Len(flow.path)
      BY <1>5, <1>7
    <3> HIDE DEF j
    <3> DEFINE y == SubSeq(flow.path, j + 1, Len(flow.path))
    <3>2. y \in Seq(Hexes) /\ Len(y) = Len(flow.path) - j
      BY <1>5, <3>1, CutFront
    <3> HIDE DEF y
    <3>3. y # <<>>
      BY <1>5, <3>1, <3>2
    <3>4. PathCost(y) \in Nat
      BY <3>2, <3>3, PathCostType
    <3> QED BY <3>1, <3>4 DEF y
  <2> DEFINE c == StepCosts[from][to]  d == flow.budget_remaining  e == next.budget_remaining
  <2>5. e = d - c /\ d \in Int
    BY <1>5, <1>9
  <2> HIDE DEF a, b, c, d, e
  <2>6. b <= e
    BY <2>1, <2>2, <2>3, <2>4, <2>5 DEF c, d
  <2> QED BY <2>6 DEF b, e
<1>11. StepIsPaid(mgr, flow.unit_id, from, to, next)
  <2>1. next.step_index \in 1..(Len(next.path) - 1)
    BY <1>5, <1>7, <1>9
  <2>2. next.path[next.step_index + 1] = to /\ next.step_index + 1 = k + 2
    BY <1>5, <1>8, <1>9
  <2>3. PathCost(SubSeq(next.path, next.step_index + 1, Len(next.path))) <= next.budget_remaining
    BY <1>9, <1>10, <2>2
  <2>4. next.moving_faction = Slot(s.turn.schedule_index).faction
    BY <1>6, <1>9
  <2> QED BY <1>1, <1>3, <1>4, <1>5, <1>6, <1>7, <1>8, <1>9, <2>1, <2>2, <2>3, <2>4, Zenon DEF StepIsPaid
<1>12. x = Synced(Resolved(mgr, flow.unit_id, from, to, next))
  BY DEF x, Continued, flow, s, next
<1>13. /\ Settled(x.state)
       /\ HomeTurn(x.state) = s.turn
       /\ x.state.engine.movement_arc = None => x.state.turn = s.turn
  BY <1>3, <1>11, <1>12, StepSettles
<1>14. ArcOf(s) = flow /\ flow.gate = AwaitingContinue
  BY <1>2, <1>3 DEF ArcOf
<1>15. CASE x.state.engine.movement_arc = None
  <2>1. Settled(Paid(x).state) /\ Pays(s, Paid(x).state)
    BY <1>13, <1>14, <1>15, PaidPays DEF ArcOf
  <2>2. Leaves(Paid(x))
    BY <1>2, <1>3, <1>15, <2>1, Left DEF Moved
  <2> QED BY <2>2
<1>16. CASE x.state.engine.movement_arc # None
  <2>1. StepsOn(s, x.state)
    BY <1>2, <1>13, <1>14, <1>16 DEF StepsOn, ArcOf
  <2>2. Leaves(x)
    BY <1>2, <1>3, <1>13, <1>16, <2>1, Left DEF Moved
  <2> QED BY <2>2
<1> QED BY <1>15, <1>16

LEMMA TailOfOne ==
    ASSUME NEW S, NEW q \in Seq(S), Len(q) = 1
    PROVE  Tail(q) = <<>>
<1> DEFINE r == Tail(q)
<1>1. r \in Seq(S) /\ Len(r) = 0
  OBVIOUS
<1> HIDE DEF r
<1>2. r = <<>>
  BY <1>1
<1> QED BY <1>2 DEF r

LEMMA LongTail ==
    ASSUME NEW S, NEW q \in Seq(S), q # <<>>, Len(q) # 1
    PROVE  Tail(q) # <<>> /\ Head(Tail(q)) = q[2]
<1> DEFINE r == Tail(q)
<1>1. PICK n \in Nat : n = Len(q) OBVIOUS
<1>2. n # 0 /\ n # 1 BY <1>1
<1>3. n >= 2 BY ONLY <1>1, <1>2
<1>4. r \in Seq(S) /\ Len(r) = n - 1 /\ \A i \in 1..(n - 1) : r[i] = q[i + 1]
  BY <1>1
<1> HIDE DEF r
<1>5. r # <<>> /\ r[1] = q[2]
  BY <1>3, <1>4
<1>6. Head(r) = r[1]
  BY <1>4, <1>5
<1> QED BY <1>5, <1>6 DEF r

\* So does the first step,
LEMMA OpenLeaves ==
    ASSUME PlainTitle, Settled(mgr.state), NEW f, NEW u \in Units, NEW from, NEW to \in Hexes,
           OpenStepwise(f, u, from, to)
    PROVE  \E m : Leaves(m)
<1> DEFINE s == mgr.state
           m == AtOpen(mgr)
           path == ShortestPath(m.state, u, to, Budgets[u])
           flow == OpenFlow(u, path, f)
           x == Opened(mgr, u, path, f)
           n == s.turn.schedule_index
<1>1. s \in GameStates /\ KnownMgr
  BY SettledRests DEF Settled, KnownMgr
<1>2. /\ s.engine.movement_arc = None
      /\ \/ Fails(Runner!Ran(BackInSlot(m)))
         \/ /\ f = s.turn.current_faction
            /\ Present(s, u) /\ s.units[u].position = path[1]
            /\ path \in Seq(Hexes) /\ Len(path) > 2 /\ PathCost(path) <= Budgets[u]
            /\ Answers(Runner!Ran(x), x.state)
  BY <1>1, OpenOutcome
<1>3. /\ m.state \in GameStates /\ m.state.engine.movement_arc = None
      /\ m.state.units = s.units /\ m.state.turn = s.turn
  BY <1>1, <1>2, AtOpenState
<1>4. /\ n < Len(Schedule) /\ n \in Nat
      /\ OnSlot(s.turn, n)
  BY <1>1, <1>2 DEF Settled, QuietAt, GameStates, TurnStates
<1> HIDE DEF m, path
<1>5. CASE Fails(Runner!Ran(BackInSlot(m)))
  <2> DEFINE y == BackInSlot(m)
  <2>1. /\ y.state \in GameStates
        /\ y.state.engine.cursor = RoutineCursor(Slot(n).routine_arc_id)
        /\ y.state.engine.movement_arc = None
        /\ y.state.turn = s.turn
    BY <1>3, BackInSlotState
  <2> HIDE DEF y
  <2>2. Slot(n).routine_arc_id \in DOMAIN RoutineActions
    BY <1>4, SlotType
  <2>3. Settled(y.state)
    BY <1>4, <2>1, <2>2 DEF Settled, QuietAt, RoutineCursors
  <2>4. Keeps(s, y.state)
    BY <1>2, <2>1 DEF Keeps, ArcOf
  <2>5. Leaves(y)
    BY <1>5, <2>3, <2>4, Left DEF Moved, y
  <2> QED BY <2>5
<1>6. CASE /\ f = s.turn.current_faction
           /\ Present(s, u) /\ s.units[u].position = path[1]
           /\ path \in Seq(Hexes) /\ Len(path) > 2 /\ PathCost(path) <= Budgets[u]
           /\ Answers(Runner!Ran(x), x.state)
  <2>1. f \in Factions /\ path[1] \in Hexes /\ path[2] \in Hexes
    BY <1>1, <1>6 DEF GameStates, TurnStates
  <2>2. /\ flow \in MovementArcs
        /\ flow.unit_id = u /\ flow.path = path /\ flow.step_index = 1 /\ flow.moving_faction = f
        /\ flow.budget_remaining = Budgets[u] - StepCosts[path[1]][path[2]]
    <3>1. path \in Seq(Hexes) /\ Len(path) > 2
      BY <1>6
    <3>2. flow \in MovementArcs
      BY <2>1, <3>1, OpenFlowType
    <3> DEFINE k == Budgets[u] - StepCosts[path[1]][path[2]]
    <3> HIDE DEF k
    <3>3. /\ flow.unit_id = u /\ flow.path = path /\ flow.step_index = 1
          /\ flow.moving_faction = f /\ flow.budget_remaining = k
      BY DEF OpenFlow, FlowOf, k
    <3> HIDE DEF flow
    <3> QED BY <3>2, <3>3 DEF k
  <2> HIDE DEF flow
  <2>3. PathCost(SubSeq(path, 2, Len(path))) <= flow.budget_remaining
    <3> DEFINE q == SubSeq(path, 2, Len(path))
               j == 1
    <3>1. PathCost(path) = StepCosts[path[1]][path[2]] + PathCost(q)
      BY <1>6, PathCostFirst
    <3>2. j \in 0..Len(path) /\ SubSeq(path, j + 1, Len(path)) = q /\ Len(path) - j > 0
      BY <1>6
    <3> HIDE DEF j, q
    <3>3. q \in Seq(Hexes) /\ Len(q) = Len(path) - j
      BY <1>6, <3>2, CutFront
    <3>4. q # <<>>
      BY <3>2, <3>3
    <3>5. PathCost(q) \in Nat /\ StepCosts[path[1]][path[2]] \in Nat /\ Budgets[u] \in Nat
      BY <2>1, <3>3, <3>4, PathCostType, GraphAssumption
    <3> DEFINE c == StepCosts[path[1]][path[2]]  b == Budgets[u]  d == PathCost(q)  e == PathCost(path)
    <3> HIDE DEF b, c, d, e
    <3>6. e = c + d /\ c \in Nat /\ d \in Nat /\ b \in Nat /\ e <= b
      BY <1>6, <3>1, <3>5 DEF b, c, d, e
    <3>7. d <= b - c
      BY <3>6
    <3> QED BY <2>2, <3>7 DEF b, c, d, q
  <2>4. StepIsPaid(m, u, path[1], path[2], flow)
    <3>1. Present(m.state, u) /\ m.state.units[u].position = path[1]
      BY <1>3, <1>6 DEF Present
    <3>2. flow.step_index \in 1..(Len(flow.path) - 1) /\ flow.step_index + 1 = 2
      BY <1>6, <2>2
    <3>3. flow.moving_faction = Slot(m.state.turn.schedule_index).faction
      BY <1>3, <1>4, <1>6, <2>2 DEF OnSlot
    <3> QED BY <1>3, <1>4, <2>1, <2>2, <2>3, <3>1, <3>2, <3>3 DEF StepIsPaid
  <2>5. x = Synced(Resolved(m, u, path[1], path[2], flow))
    BY DEF Opened, m, flow
  <2>6. /\ Settled(x.state)
        /\ HomeTurn(x.state) = s.turn
        /\ x.state.engine.movement_arc = None <=> PathComplete(flow)
    BY <1>3, <2>4, <2>5, StepSettles
  <2>7. ~PathComplete(flow)
    BY <1>6, <2>2 DEF PathComplete
  <2>8. Opens(s, x.state)
    BY <1>2, <2>6, <2>7 DEF Opens, ArcOf
  <2> HIDE DEF x
  <2>9. Leaves(x)
    BY <1>6, <2>6, <2>8, Left DEF Moved
  <2> QED BY <2>9
<1> QED BY <1>2, <1>5, <1>6

\* a move at once,
LEMMA AtOnceLeaves ==
    ASSUME PlainTitle, Settled(mgr.state), NEW f, NEW u \in Units, NEW from \in Hexes,
           NEW to \in Hexes, MoveAtOnce(f, u, from, to)
    PROVE  \E m : Leaves(m)
<1> DEFINE s == mgr.state
           y == Executed(mgr, MoveUnit(u, from, to))
           x == Paid(y)
<1>1. s \in GameStates /\ KnownMgr
  BY SettledRests DEF Settled, KnownMgr
<1>2. /\ s.engine.movement_arc = None
      /\ Present(s, u) /\ s.units[u].position = from
      /\ Answers(Runner!Ran(x), x.state)
  BY <1>1, AtOnceOutcome
<1>3. /\ y.state \in GameStates /\ y.state.turn = s.turn /\ y.state.engine = s.engine
  BY <1>1, <1>2, MovesUnit
<1> HIDE DEF y
<1>4. Settled(y.state) /\ ArcOf(y.state) = None
  BY <1>2, <1>3 DEF Settled, QuietAt, ArcOf
<1>5. Settled(x.state) /\ Pays(s, x.state)
  BY <1>2, <1>3, <1>4, PaidPays DEF ArcOf
<1> HIDE DEF x
<1>6. Leaves(x)
  BY <1>2, <1>5, Left DEF Moved
<1> QED BY <1>6

\* The payload and the turn after a pass in a window.
LEMMA PassGates ==
    ASSUME NEW flow \in MovementArcs, NEW turn \in TurnStates, ~Nobody(flow.interrupt_queue),
           flow.saved_turn # None
    PROVE  LET x == ArcAfterPass(flow)  t == TurnAfterPass(turn, flow)  q == flow.interrupt_queue
           IN  /\ x \in MovementArcs /\ x # None
               /\ x.unit_id = flow.unit_id /\ x.path = flow.path
               /\ x.step_index = flow.step_index /\ x.moving_faction = flow.moving_faction
               /\ x.budget_remaining = flow.budget_remaining
               /\ x.interrupt_queue = Tail(q)
               /\ Len(q) = 1 =>
                    /\ x.gate = AwaitingContinue /\ x.saved_turn = None /\ Nobody(x.interrupt_queue)
                    /\ t = flow.saved_turn
               /\ Len(q) # 1 =>
                    /\ x.gate = flow.gate /\ x.saved_turn = flow.saved_turn
                    /\ ~Nobody(x.interrupt_queue)
                    /\ t.current_faction = Head(x.interrupt_queue)
                    /\ t.current_phase = turn.current_phase
                    /\ t.schedule_index = turn.schedule_index
<1> DEFINE x == ArcAfterPass(flow)
           t == TurnAfterPass(turn, flow)
           q == flow.interrupt_queue
<1>1. q \in Seq(Factions) /\ q # <<>>
  BY DEF MovementArcs, Nobody
<1>2. x \in MovementArcs /\ x # None
  BY <1>1, ArcPassType, NoneAssumption
<1>3. CASE Len(q) = 1
  <2> DEFINE e == <<>>
  <2>1. e = Tail(q) /\ e \in Seq(Factions)
    BY <1>1, <1>3, TailOfOne
  <2>2. x = [flow EXCEPT !.interrupt_queue = e, !.gate = AwaitingContinue, !.saved_turn = None]
    BY <1>3 DEF ArcAfterPass
  <2>3. t = flow.saved_turn
    BY <1>3 DEF TurnAfterPass
  <2> HIDE DEF x, t, e, q
  <2>4. /\ x.unit_id = flow.unit_id /\ x.path = flow.path
        /\ x.step_index = flow.step_index /\ x.moving_faction = flow.moving_faction
        /\ x.budget_remaining = flow.budget_remaining
        /\ x.interrupt_queue = e /\ x.gate = AwaitingContinue /\ x.saved_turn = None
    BY <2>2 DEF MovementArcs
  <2>5. Nobody(e)
    BY DEF Nobody, e
  <2> QED BY <1>2, <1>3, <2>1, <2>3, <2>4, <2>5 DEF x, t, q
<1>4. CASE Len(q) # 1
  <2> DEFINE r == Tail(q)
             h == q[2]
  <2>1. r \in Seq(Factions) /\ h \in Factions /\ r # <<>> /\ Head(r) = h
    <3>1. r \in Seq(Factions) /\ h \in Factions
      BY <1>1, <1>4, LongQueue
    <3> HIDE DEF r, h
    <3>2. r # <<>> /\ Head(r) = h
      BY <1>1, <1>4, LongTail DEF r, h
    <3> QED BY <3>1, <3>2
  <2>2. x = [flow EXCEPT !.interrupt_queue = r]
    BY <1>4 DEF ArcAfterPass
  <2>3. t = [turn EXCEPT !.current_faction = h]
    BY <1>4 DEF TurnAfterPass
  <2> HIDE DEF x, t, q, r, h
  <2>4. /\ x.unit_id = flow.unit_id /\ x.path = flow.path
        /\ x.step_index = flow.step_index /\ x.moving_faction = flow.moving_faction
        /\ x.budget_remaining = flow.budget_remaining
        /\ x.interrupt_queue = r /\ x.gate = flow.gate /\ x.saved_turn = flow.saved_turn
    BY <2>2 DEF MovementArcs
  <2>5. /\ t.current_faction = h
        /\ t.current_phase = turn.current_phase
        /\ t.schedule_index = turn.schedule_index
    BY <2>3 DEF TurnStates
  <2>6. r = Tail(q)
    BY DEF r
  <2>7. ~Nobody(r)
    BY <2>1 DEF Nobody
  <2> QED BY <1>2, <1>4, <2>1, <2>4, <2>5, <2>6, <2>7 DEF x, t, q
<1> QED BY <1>3, <1>4

LEMMA InnerHex ==
    ASSUME NEW path \in Seq(Hexes), NEW k \in 1..(Len(path) - 2)
    PROVE  path[k + 1] \in Hexes
<1>1. Len(path) \in Nat /\ k \in Nat
  OBVIOUS
<1>2. k + 1 \in 1..Len(path)
  BY <1>1
<1> QED BY <1>2

\* a pass,
LEMMA PassLeaves ==
    ASSUME PlainTitle, Settled(mgr.state), NEW f, PassMovementInterrupt(f)
    PROVE  \E m : Leaves(m)
<1> DEFINE s == mgr.state
           flow == s.engine.movement_arc
           n == s.turn.schedule_index
           y == Passed(mgr, f)
           x == Synced(y)
           arc == ArcAfterPass(flow)
           t == TurnAfterPass(s.turn, flow)
           q == flow.interrupt_queue
           all == InterruptsAt[flow.path[flow.step_index + 1]][flow.moving_faction]
<1>1. s \in GameStates /\ s.engine.cursor \in RestCursors /\ KnownMgr
  BY SettledRests DEF Settled, KnownMgr
<1>2. /\ f \in Factions
      /\ flow # None /\ flow.gate = AwaitingInterrupt
      /\ Head(q) = f
      /\ CanResolvePass(PassOf(f), s) => Answers(Runner!Ran(x), x.state)
  BY <1>1, PassOutcome
<1>3. s = mgr.state /\ flow = s.engine.movement_arc
  OBVIOUS
<1> HIDE DEF s, flow, x
<1>4. /\ flow \in MovementArcs /\ OpenAt(s, flow) /\ WindowAt(s, flow)
      /\ s.turn \in TurnStates /\ n \in Nat /\ n < Len(Schedule)
  <2>1. AwaitingContinue # AwaitingInterrupt
    BY DEF AwaitingContinue, AwaitingInterrupt
  <2> QED BY <1>2, <1>3, <2>1, SettledAt, SettledTurn
<1>5. /\ RestFits(s, flow)
      /\ flow.moving_faction = Slot(n).faction
      /\ IsSuffix(q, all)
  BY <1>4 DEF OpenAt
<1>6. /\ flow.saved_turn # None /\ ~Nobody(q)
      /\ s.turn.current_phase = MovementInterrupt
      /\ flow.saved_turn.schedule_index = n
      /\ OnSlot(flow.saved_turn, n)
  BY <1>4 DEF WindowAt
<1>7. CanResolvePass(PassOf(f), s)
  BY <1>2, <1>3, <1>6 DEF CanResolvePass, PassOf, Nobody
<1>8. /\ y.state \in GameStates /\ y.state.units = s.units
      /\ y.state.engine.movement_arc = arc /\ y.state.turn = t
  BY <1>1, <1>2, <1>3, <1>7, PassedState
<1>9. Answers(Runner!Ran(x), x.state)
  BY <1>2, <1>7
<1>10. /\ arc \in MovementArcs /\ arc # None
       /\ arc.unit_id = flow.unit_id /\ arc.path = flow.path
       /\ arc.step_index = flow.step_index /\ arc.moving_faction = flow.moving_faction
       /\ arc.budget_remaining = flow.budget_remaining
       /\ arc.interrupt_queue = Tail(q)
       /\ Len(q) = 1 =>
            /\ arc.gate = AwaitingContinue /\ arc.saved_turn = None /\ Nobody(arc.interrupt_queue)
            /\ t = flow.saved_turn
       /\ Len(q) # 1 =>
            /\ arc.gate = flow.gate /\ arc.saved_turn = flow.saved_turn
            /\ ~Nobody(arc.interrupt_queue)
            /\ t.current_faction = Head(arc.interrupt_queue)
            /\ t.current_phase = s.turn.current_phase
            /\ t.schedule_index = n
  BY <1>4, <1>6, PassGates
<1> HIDE DEF y, arc, t
<1>11. /\ x.state \in GameStates
       /\ x.state.engine.cursor = IF arc.gate = AwaitingInterrupt THEN WindowCursor("interrupt")
                                  ELSE StepCursor("continue")
       /\ x.state.engine.movement_arc = arc
       /\ x.state.units = s.units
       /\ x.state.turn = t
  BY <1>8, <1>10, SyncedState DEF x
<1>12. RestFits(x.state, arc)
  BY <1>5, <1>10, <1>11 DEF RestFits, Present
<1>13. IsSuffix(arc.interrupt_queue,
                InterruptsAt[arc.path[arc.step_index + 1]][arc.moving_faction])
  <2>1. q \in Seq(Factions) /\ flow.moving_faction \in Factions /\ flow.path \in Seq(Hexes)
    BY <1>4 DEF MovementArcs
  <2>2. flow.step_index \in 1..(Len(flow.path) - 2)
    BY <1>5 DEF RestFits
  <2>3. flow.path[flow.step_index + 1] \in Hexes
    BY <2>1, <2>2, InnerHex
  <2>4. all \in Seq(Factions)
    BY <2>1, <2>3, InterruptsAssumption
  <2>5. InterruptsAt[arc.path[arc.step_index + 1]][arc.moving_faction] = all
    BY <1>10
  <2> HIDE DEF all, q
  <2>6. IsSuffix(Tail(q), all)
    <3>1. q # <<>>
      BY <1>6 DEF Nobody
    <3> QED BY <1>5, <2>1, <2>4, <3>1, TailSuffix
  <2> QED BY <1>10, <2>5, <2>6
<1>14. ArcOf(s) = flow /\ ArcOf(x.state) = arc /\ arc = ArcAfterPass(flow)
  BY <1>3, <1>11 DEF ArcOf, arc
<1> HIDE DEF q, n, all
<1>15. CASE Len(q) = 1
  <2>1. /\ arc.gate = AwaitingContinue /\ arc.saved_turn = None /\ Nobody(arc.interrupt_queue)
        /\ x.state.turn = flow.saved_turn
        /\ x.state.turn.schedule_index = n
        /\ x.state.engine.cursor = StepCursor("continue")
        /\ arc.gate # AwaitingInterrupt
    BY <1>6, <1>10, <1>11, <1>15 DEF AwaitingContinue, AwaitingInterrupt
  <2>2. ContinueAt(x.state, arc)
    BY <1>6, <2>1 DEF ContinueAt
  <2>3. OpenAt(x.state, arc)
    BY <1>5, <1>10, <1>12, <1>13, <2>1, <2>2 DEF OpenAt
  <2>4. Settled(x.state)
    BY <1>4, <1>10, <1>11, <2>1, <2>3 DEF Settled
  <2>5. HomeTurn(x.state) = HomeTurn(s)
    BY <1>2, <1>3, <1>6, <1>11, <2>1 DEF HomeTurn
  <2>6. Hands(s, x.state)
    BY <1>2, <1>14, <2>5 DEF Hands
  <2>7. Leaves(x)
    BY <1>3, <1>9, <2>4, <2>6, Left DEF Moved
  <2> QED BY <2>7
<1>16. CASE Len(q) # 1
  <2>1. /\ arc.gate = AwaitingInterrupt /\ arc.saved_turn = flow.saved_turn
        /\ ~Nobody(arc.interrupt_queue)
        /\ x.state.turn.current_faction = Head(arc.interrupt_queue)
        /\ x.state.turn.current_phase = MovementInterrupt
        /\ x.state.turn.schedule_index = n
        /\ x.state.engine.cursor = WindowCursor("interrupt")
        /\ arc.gate # AwaitingContinue
    BY <1>2, <1>6, <1>10, <1>11, <1>16 DEF AwaitingContinue, AwaitingInterrupt
  <2>2. WindowAt(x.state, arc)
    BY <1>6, <2>1 DEF WindowAt
  <2>3. OpenAt(x.state, arc)
    BY <1>5, <1>10, <1>12, <1>13, <2>1, <2>2 DEF OpenAt
  <2>4. Settled(x.state)
    BY <1>4, <1>10, <1>11, <2>1, <2>3 DEF Settled
  <2>5. HomeTurn(x.state) = HomeTurn(s)
    BY <1>2, <1>3, <1>6, <1>10, <1>11, <2>1 DEF HomeTurn
  <2>6. Hands(s, x.state)
    BY <1>2, <1>14, <2>5 DEF Hands
  <2>7. Leaves(x)
    BY <1>3, <1>9, <2>4, <2>6, Left DEF Moved
  <2> QED BY <2>7
<1> QED BY <1>15, <1>16

\* the end of the phase,
LEMMA NextPhaseLeaves ==
    ASSUME PlainTitle, Settled(mgr.state), NEW f, RequestNextPhase(f)
    PROVE  \E m : Leaves(m)
<1> DEFINE s == mgr.state
           x == Advanced(mgr)
<1>1. s \in GameStates /\ KnownMgr
  BY SettledRests DEF Settled, KnownMgr
<1>2. s.engine.movement_arc = None /\ Answers(Runner!Ran(x), x.state)
  BY <1>1, NextPhaseOutcome
<1>3. Settled(x.state)
  BY <1>1, AdvancedSettles
<1>4. EndsSlot(s, x.state)
  BY <1>1, <1>2, AdvancesPhase DEF EndsSlot, ArcOf
<1> HIDE DEF x
<1>5. Leaves(x)
  BY <1>2, <1>3, <1>4, Left DEF Moved
<1> QED BY <1>5

\* What leaves engine state, the slot and the units' places alone stays at rest.
LEMMA RestKeeps ==
    ASSUME NEW s, Settled(s), NEW t \in GameStates, t.engine = s.engine,
           OnSlot(t.turn, s.turn.schedule_index) <=> OnSlot(s.turn, s.turn.schedule_index),
           t.turn.schedule_index = s.turn.schedule_index,
           t.turn.current_faction = s.turn.current_faction,
           t.turn.current_phase = s.turn.current_phase,
           \A u \in Units : Present(s, u) =>
              Present(t, u) /\ t.units[u].position = s.units[u].position
    PROVE  Settled(t)
<1>1. CASE s.engine.movement_arc = None
  BY <1>1 DEF Settled, QuietAt
<1>2. CASE s.engine.movement_arc # None
  <2>0. PICK flow : flow = s.engine.movement_arc
    OBVIOUS
  <2>1. flow \in MovementArcs /\ flow.unit_id \in Units
    BY <1>2, <2>0, SettledAt DEF MovementArcs
  <2>2. OpenAt(s, flow)
    BY <1>2, <2>0, SettledAt
  <2>3. RestFits(t, flow)
    BY <2>1, <2>2 DEF OpenAt, RestFits
  <2>4. ContinueAt(s, flow) => ContinueAt(t, flow)
    BY DEF ContinueAt
  <2>5. WindowAt(s, flow) => WindowAt(t, flow)
    BY DEF WindowAt
  <2>6. OpenAt(t, flow)
    BY <2>2, <2>3, <2>4, <2>5 DEF OpenAt
  <2> QED BY <1>2, <2>0, <2>6 DEF Settled
<1> QED BY <1>1, <1>2

\* Adding, deactivating and patching units, and spending actions, move no unit.
LEMMA PlainApplies ==
    ASSUME NEW s \in GameStates, NEW a \in StateActionSet, CanApply(a, s),
           a \in DeleteUnits \cup AddUnits \cup SpendActions \cup PatchAttributes
    PROVE  /\ Apply(a, s).engine = s.engine
           /\ Apply(a, s).turn = IF a \in SpendActions
                                 THEN [s.turn EXCEPT !.phase_actions_remaining = @ - a.amount]
                                 ELSE s.turn
           /\ \A u \in Units : Present(s, u) => Apply(a, s).units[u].position = s.units[u].position
<1> DEFINE t == Apply(a, s)
<1>1. CASE a \in DeleteUnits
  <2>1. a.kind = "DeleteUnit" /\ a \notin SpendActions
    BY <1>1 DEF DeleteUnits, SpendActions
  <2>2. t = WithActive(s, {a.unit_id}, FALSE)
    BY <2>1 DEF Apply
  <2>3. t.engine = s.engine /\ t.turn = s.turn
    BY <2>2 DEF WithActive, GameStates
  <2>4. \A u \in Units : t.units[u] = IF u \in {a.unit_id} THEN [s.units[u] EXCEPT !.active = FALSE]
                                      ELSE s.units[u]
    BY <2>2 DEF WithActive, GameStates
  <2>5. \A u \in Units : Present(s, u) => s.units[u] \in UnitStates
    BY DEF Present, GameStates
  <2>6. \A u \in Units : Present(s, u) => t.units[u].position = s.units[u].position
    <3> DEFINE no == FALSE
    <3> HIDE DEF no, t
    <3>1. \A r \in UnitStates : [r EXCEPT !.active = no].position = r.position
      BY DEF UnitStates
    <3> QED BY <2>4, <2>5, <3>1 DEF no
  <2> QED BY <2>1, <2>3, <2>6
<1>2. CASE a \in AddUnits
  <2>1. a.kind = "AddUnit" /\ a \notin SpendActions /\ a.unit_id \in Units
    BY <1>2 DEF AddUnits, SpendActions
  <2>2. t = ApplyAddUnit(a, s) /\ ~Present(s, a.unit_id)
    BY <2>1 DEF Apply, CanApply
  <2>3. PICK r : t = WithUnit(s, a.unit_id, r)
    BY <2>2 DEF ApplyAddUnit
  <2> HIDE DEF t
  <2>4. t.engine = s.engine /\ t.turn = s.turn
    BY <2>3 DEF WithUnit, GameStates
  <2>5. \A u \in Units : Present(s, u) => t.units[u].position = s.units[u].position
    BY <2>1, <2>2, <2>3, WithUnitGet
  <2> QED BY <2>1, <2>4, <2>5 DEF t
<1>3. CASE a \in SpendActions
  <2>1. a.kind = "SpendAction"
    BY <1>3 DEF SpendActions
  <2>2. t = [s EXCEPT !.turn.phase_actions_remaining = @ - a.amount]
    BY <2>1 DEF Apply
  <2> DEFINE k == s.turn.phase_actions_remaining - a.amount
  <2> HIDE DEF k, t
  <2>3. t = [s EXCEPT !.turn = [s.turn EXCEPT !.phase_actions_remaining = k]]
    BY <2>2 DEF k, GameStates
  <2>4. /\ t.engine = s.engine /\ t.units = s.units
        /\ t.turn = [s.turn EXCEPT !.phase_actions_remaining = k]
    BY <2>3 DEF GameStates
  <2> QED BY <1>3, <2>4 DEF k, t
<1>4. CASE a \in PatchAttributes
  <2>1. a.kind = "PatchAttributes" /\ a \notin SpendActions /\ a.unit_id \in Units
    BY <1>4 DEF PatchAttributes, SpendActions
  <2>2. t = ApplyPatchAttributes(a, s) /\ Present(s, a.unit_id)
    BY <2>1 DEF Apply, CanApply
  <2>3. PICK x : t = WithUnit(s, a.unit_id, [s.units[a.unit_id] EXCEPT !.attributes = x])
    BY <2>2 DEF ApplyPatchAttributes
  <2> DEFINE r == [s.units[a.unit_id] EXCEPT !.attributes = x]
  <2>4. s.units[a.unit_id] \in UnitStates
    BY <2>1, <2>2 DEF Present, GameStates
  <2>5. r.position = s.units[a.unit_id].position
    BY <2>4 DEF UnitStates
  <2> HIDE DEF t, r
  <2>6. t = WithUnit(s, a.unit_id, r)
    BY <2>3 DEF r
  <2>7. t.engine = s.engine /\ t.turn = s.turn
    BY <2>6 DEF WithUnit, GameStates
  <2>8. \A u \in Units : Present(s, u) => t.units[u].position = s.units[u].position
    BY <2>1, <2>5, <2>6, WithUnitGet
  <2> QED BY <2>1, <2>7, <2>8 DEF t
<1> QED BY <1>1, <1>2, <1>3, <1>4

LEMMA ForgetfulState == \A m : Forgetful(m).state = m.state
<1> SUFFICES ASSUME NEW m PROVE Forgetful(m).state = m.state
  OBVIOUS
<1> DEFINE surplus == m.pointer - MaxUndo
           h == SubSeq(m.history, surplus + 1, Len(m.history))
           k == MaxUndo
<1>1. Forgetful(m) = IF surplus <= 0 THEN m ELSE [m EXCEPT !.history = h, !.pointer = k]
  BY DEF Forgetful
<1> HIDE DEF h, k, surplus
<1> QED BY <1>1

LEMMA PlainSettles ==
    ASSUME NEW s, Settled(s), NEW a \in StateActionSet, CanApply(a, s),
           a \in DeleteUnits \cup AddUnits \cup SpendActions \cup PatchAttributes
    PROVE  Settled(Apply(a, s))
<1> DEFINE t == Apply(a, s)
<1>1. s \in GameStates /\ s.turn \in TurnStates
  BY DEF Settled, GameStates
<1>2. t \in GameStates /\ \A u \in Units : Present(s, u) => Present(t, u)
  BY <1>1, ApplyType
<1>3. /\ t.engine = s.engine
      /\ t.turn = IF a \in SpendActions
                  THEN [s.turn EXCEPT !.phase_actions_remaining = @ - a.amount] ELSE s.turn
      /\ \A u \in Units : Present(s, u) => t.units[u].position = s.units[u].position
  BY <1>1, PlainApplies
<1> HIDE DEF t
<1>4. /\ t.turn.schedule_index = s.turn.schedule_index
      /\ t.turn.current_faction = s.turn.current_faction
      /\ t.turn.current_phase = s.turn.current_phase
  <2> DEFINE k == s.turn.phase_actions_remaining - a.amount
  <2>1. t.turn = [s.turn EXCEPT !.phase_actions_remaining = k] \/ t.turn = s.turn
    BY <1>3
  <2> HIDE DEF k
  <2> QED BY <1>1, <2>1 DEF TurnStates
<1>5. Settled(t)
  BY <1>2, <1>3, <1>4, RestKeeps DEF OnSlot
<1> QED BY <1>5 DEF t

\* an action of the client's,
LEMMA PlainLeaves ==
    ASSUME Settled(mgr.state), NEW f, NEW a \in PlainRequests, RequestPlain(f, a)
    PROVE  \E m : Leaves(m)
<1> DEFINE s == mgr.state
           x == Executed(mgr, a)
<1>1. IF CanApply(a, s) THEN Answers(Runner!Ran(x), x.state)
      ELSE Fails(Runner!Ran(x)) /\ x = Truncated(mgr)
  BY PlainOutcome
<1>2. a \in StateActionSet /\ a \in DeleteUnits \cup AddUnits \cup SpendActions
      /\ s \in GameStates
  BY PlainKinds DEF Settled
<1>3. CASE CanApply(a, s)
  <2>1. x.state = Apply(a, s)
    BY <1>3 DEF Executed
  <2>2. Settled(Apply(a, s))
    BY <1>2, <1>3, PlainSettles
  <2>3. /\ Apply(a, s).engine = s.engine
        /\ Apply(a, s).turn = IF a \in SpendActions
                              THEN [s.turn EXCEPT !.phase_actions_remaining = @ - a.amount]
                              ELSE s.turn
    BY <1>2, <1>3, PlainApplies
  <2> HIDE DEF x
  <2>4. CASE a \in SpendActions
    <3>1. Spends(s, x.state)
      BY <2>1, <2>3, <2>4 DEF Spends, ArcOf
    <3>2. Leaves(x)
      BY <1>1, <1>3, <2>1, <2>2, <3>1, Left DEF Moved
    <3> QED BY <3>2
  <2>5. CASE a \notin SpendActions
    <3>1. Keeps(s, x.state)
      BY <2>1, <2>3, <2>5 DEF Keeps, ArcOf
    <3>2. Leaves(x)
      BY <1>1, <1>3, <2>1, <2>2, <3>1, Left DEF Moved
    <3> QED BY <3>2
  <2> QED BY <2>4, <2>5
<1>4. CASE ~CanApply(a, s)
  <2> DEFINE h == SubSeq(mgr.history, 1, mgr.pointer)
  <2>1. x = [mgr EXCEPT !.history = h]
    BY <1>1, <1>4 DEF Truncated
  <2> HIDE DEF x, h
  <2>2. x.state = s
    BY <2>1
  <2>3. Keeps(s, x.state)
    BY <2>2 DEF Keeps
  <2>4. Leaves(x)
    BY <1>1, <1>4, <2>2, <2>3, Left DEF Moved, x
  <2> QED BY <2>4
<1> QED BY <1>3, <1>4

\* a patch of attributes,
LEMMA PatchLeaves ==
    ASSUME Settled(mgr.state), NEW f, NEW a \in PatchRequests, RequestPatch(f, a)
    PROVE  \E m : Leaves(m)
<1> DEFINE s == mgr.state
           x == Executed(mgr, a)
<1>1. CanApply(a, s) /\ Answers(Runner!Ran(x), x.state)
  BY PatchOutcome
<1>2. a \in StateActionSet /\ a \in PatchAttributes /\ a \notin SpendActions /\ s \in GameStates
  BY PlainKinds DEF Settled, PatchAttributes, SpendActions
<1>3. x.state = Apply(a, s)
  BY <1>1 DEF Executed
<1>4. Settled(Apply(a, s))
  BY <1>1, <1>2, PlainSettles
<1>5. Apply(a, s).engine = s.engine /\ Apply(a, s).turn = s.turn
  BY <1>1, <1>2, PlainApplies
<1> HIDE DEF x
<1>6. Keeps(s, x.state)
  BY <1>3, <1>5 DEF Keeps, ArcOf
<1>7. Leaves(x)
  BY <1>1, <1>3, <1>4, <1>6, Left DEF Moved
<1> QED BY <1>7

\* and a snapshot, if it was taken at rest.
LEMMA LoadLeaves ==
    ASSUME NEW s \in Snapshots, Settled(s), LoadSnapshot(s)
    PROVE  \E m : Leaves(m)
<1> DEFINE m == Manager(s)
<1>1. m.state = s
  BY DEF Manager
<1> HIDE DEF m
<1>2. Leaves(m)
  BY <1>1, Left DEF LoadSnapshot, Moved, m
<1> QED BY <1>2

-----------------------------------------------------------------------------
(* 12. Play without undo and redo always rests in order. *)

Forward == ActionRequest \/ \E s \in Snapshots : LoadSnapshot(s)

ForwardSpec == Init /\ [][Forward]_vars

\* The scenario and the snapshots are at rest, the scenario with no move open.
SettledStarts ==
    /\ \A s \in {Scenario} \cup Snapshots : Settled(s)
    /\ Scenario.engine.movement_arc = None

\* The inductive invariant of play without undo and redo: at rest, and no handler has raised.
Orderly == Settled(mgr.state) /\ failed = FALSE

LEMMA InitOrderly ==
    ASSUME PlainTitle, SettledStarts, Init
    PROVE  Orderly /\ mgr.state.turn = Scenario.turn /\ mgr.state.engine.movement_arc = None
<1> DEFINE m == Manager(Scenario)
           x == InSlot(m)
           n == Scenario.turn.schedule_index
<1>1. m.state = Scenario /\ Settled(Scenario) /\ Scenario \in GameStates
      /\ Scenario.engine.movement_arc = None
  BY DEF SettledStarts, Settled, Manager
<1> HIDE DEF m
<1>2. BeginRoutineSlot(Runner!Ran(m)).m = x
  BY <1>1, BeginsSlot, RunIs
<1>3. /\ x.state \in GameStates
      /\ x.state.engine.cursor = RoutineCursor(Slot(n).routine_arc_id)
      /\ x.state.engine.movement_arc = None
      /\ x.state.turn = Scenario.turn
  BY <1>1, InSlotState
<1> HIDE DEF x
<1>4. n \in Nat
  BY <1>1 DEF GameStates, TurnStates
<1>5. Slot(n).routine_arc_id \in DOMAIN RoutineActions
  BY <1>4, SlotType
<1>6. Settled(x.state)
  BY <1>1, <1>3, <1>5 DEF Settled, QuietAt, RoutineCursors
<1>7. mgr = Forgetful(x) /\ failed = FALSE
  BY <1>2 DEF Init, m
<1> QED BY <1>3, <1>6, <1>7, ForgetfulState DEF Orderly

LEMMA ForwardLeaves ==
    ASSUME PlainTitle, SettledStarts, Orderly, Forward
    PROVE  \E m : Leaves(m)
<1>0. Settled(mgr.state)
  BY DEF Orderly
<1>1. CASE ActionRequest
  <2>1. CASE \E f \in Factions, from, to \in Hexes : ContinueMove(f, from, to)
    BY <1>0, <2>1, ContinueLeaves
  <2>2. CASE \E f \in Factions, u \in {w \in Units : ActiveIn(mgr.state, w)}, to \in Hexes :
                OpenStepwise(f, u, Standing(u), to)
    BY <1>0, <2>2, OpenLeaves
  <2>3. CASE \E f \in Factions, u \in {w \in Units : ActiveIn(mgr.state, w)}, to \in Hexes :
                MoveAtOnce(f, u, Standing(u), to)
    <3>1. PICK f \in Factions, u \in {w \in Units : ActiveIn(mgr.state, w)}, to \in Hexes :
                MoveAtOnce(f, u, Standing(u), to)
      BY <2>3
    <3>2. Standing(u) \in Hexes
      BY <1>0 DEF Settled, Standing, ActiveIn, Present, GameStates, UnitStates
    <3> QED BY <1>0, <3>1, <3>2, AtOnceLeaves
  <2>4. CASE \E f \in Factions : PassMovementInterrupt(f)
    BY <1>0, <2>4, PassLeaves
  <2>5. CASE \E f \in Factions : RequestNextPhase(f)
    BY <1>0, <2>5, NextPhaseLeaves
  <2>6. CASE \E f \in Factions, a \in PlainRequests : RequestPlain(f, a)
    BY <1>0, <2>6, PlainLeaves
  <2>7. CASE \E f \in Factions, a \in PatchRequests : RequestPatch(f, a)
    BY <1>0, <2>7, PatchLeaves
  <2> QED BY <1>1, <2>1, <2>2, <2>3, <2>4, <2>5, <2>6, <2>7 DEF ActionRequest, Moves
<1>2. CASE \E s \in Snapshots : LoadSnapshot(s)
  BY <1>2, LoadLeaves DEF SettledStarts
<1> QED BY <1>1, <1>2 DEF Forward

LEMMA LeavesMoved ==
    ASSUME NEW m, Leaves(m)
    PROVE  Orderly' /\ Moved(mgr.state, mgr'.state)
<1>1. mgr'.state = m.state
  BY ForgetfulState DEF Leaves
<1> QED BY <1>1 DEF Leaves, Orderly

LEMMA ForwardStep ==
    ASSUME PlainTitle, SettledStarts, Orderly, [Forward]_vars
    PROVE  /\ Orderly'
           /\ mgr' = mgr \/ Moved(mgr.state, mgr'.state)
<1>1. CASE Forward
  BY <1>1, ForwardLeaves, LeavesMoved
<1>2. CASE UNCHANGED vars
  BY <1>2 DEF vars, Orderly
<1> QED BY <1>1, <1>2

\* Behind every request the server rests in order and no handler has raised.
THEOREM StaysOrderly == PlainTitle /\ SettledStarts => (ForwardSpec => []Orderly)
<1> SUFFICES ASSUME PlainTitle, SettledStarts PROVE ForwardSpec => []Orderly
  OBVIOUS
<1>1. Init => Orderly
  BY InitOrderly
<1>2. Orderly /\ [Forward]_vars => Orderly'
  BY ForwardStep
<1> QED BY <1>1, <1>2, PTL DEF ForwardSpec

LEMMA SettledMatchesGate ==
    ASSUME PlainTitle, Settled(mgr.state)
    PROVE  CursorMatchesGate
<1> DEFINE s == mgr.state
           cursor == s.engine.cursor
           flow == s.engine.movement_arc
<1>1. CASE flow = None
  <2>1. cursor \in RoutineCursors /\ OnSlot(s.turn, s.turn.schedule_index)
    BY <1>1, SettledQuiet
  <2>2. cursor # None => cursor.segment_id = "routine" /\ cursor.suspended = None
    BY <2>1, CursorFields DEF RoutineCursors
  <2> HIDE DEF cursor
  <2>3. /\ s.turn.current_faction = Slot(s.turn.schedule_index).faction
        /\ s.turn.current_phase = Slot(s.turn.schedule_index).phase
    BY <2>1 DEF OnSlot
  <2> QED BY <1>1, <2>2, <2>3 DEF CursorMatchesGate, cursor
<1>2. CASE flow # None
  <2>0. Settled(s) /\ flow = s.engine.movement_arc
    OBVIOUS
  <2>1. /\ StepCursor("continue") # None /\ WindowCursor("interrupt") # None
        /\ StepCursor("continue").arc_id = "movement"
        /\ StepCursor("continue").segment_id = "continue"
        /\ StepCursor("continue").suspended = None
        /\ WindowCursor("interrupt").arc_id = "movement"
        /\ WindowCursor("interrupt").segment_id = "interrupt"
        /\ WindowCursor("interrupt").suspended = "continue"
        /\ AwaitingContinue # AwaitingInterrupt
    BY CursorFields, CursorsAreNotNone DEF MovementSegments, AwaitingContinue, AwaitingInterrupt
  <2>2. cursor = s.engine.cursor
    OBVIOUS
  <2> HIDE DEF s, flow, cursor
  <2>3. /\ OpenAt(s, flow)
        /\ \/ flow.gate = AwaitingContinue /\ ContinueAt(s, flow)
           \/ flow.gate = AwaitingInterrupt /\ WindowAt(s, flow)
    BY <1>2, <2>0, SettledAt
  <2>4. flow.moving_faction = Slot(s.turn.schedule_index).faction
    BY <2>3 DEF OpenAt
  <2>5. cursor # None /\ cursor.arc_id = "movement"
    BY <2>1, <2>2, <2>3 DEF ContinueAt, WindowAt
  <2>6. flow.gate = AwaitingContinue =>
           /\ cursor.segment_id = "continue" /\ cursor.suspended = None
           /\ flow.saved_turn = None /\ Nobody(flow.interrupt_queue)
           /\ s.turn.current_faction = flow.moving_faction
    BY <2>1, <2>2, <2>3, <2>4 DEF ContinueAt, OnSlot
  <2>7. flow.gate = AwaitingInterrupt =>
           /\ cursor.segment_id = "interrupt" /\ cursor.suspended = "continue"
           /\ flow.saved_turn # None /\ ~Nobody(flow.interrupt_queue)
           /\ s.turn.current_faction = Head(flow.interrupt_queue)
           /\ s.turn.current_phase = MovementInterrupt
    BY <2>1, <2>2, <2>3 DEF WindowAt
  <2> QED BY <1>2, <2>4, <2>5, <2>6, <2>7 DEF CursorMatchesGate, Nobody, s, flow, cursor
<1> QED BY <1>1, <1>2

\* The cursor is the one of the open move's gate, and a routine cursor without a move
\* (authority_arc_runtime.py sync_movement_cursor_from_payload).
THEOREM CursorAlwaysMatches ==
    PlainTitle /\ SettledStarts => (ForwardSpec => []CursorMatchesGate)
<1> SUFFICES ASSUME PlainTitle, SettledStarts PROVE ForwardSpec => []CursorMatchesGate
  OBVIOUS
<1>1. ForwardSpec => []Orderly
  BY StaysOrderly
<1>2. Orderly => CursorMatchesGate
  BY SettledMatchesGate DEF Orderly
<1> QED BY <1>1, <1>2, PTL

\* What is left of an open move's path is paid for by what is left of its budget, so that no
\* move gets stuck on a step its own plan promised (authority_movement.py continue_stepwise_move_unit).
THEOREM RestAlwaysAffordable ==
    PlainTitle /\ SettledStarts => (ForwardSpec => []RestIsAffordable)
<1> SUFFICES ASSUME PlainTitle, SettledStarts PROVE ForwardSpec => []RestIsAffordable
  OBVIOUS
<1>1. ForwardSpec => []Orderly
  BY StaysOrderly
<1>2. Orderly => RestIsAffordable
  <2> SUFFICES ASSUME Orderly, mgr.state.engine.movement_arc # None
               PROVE  RestFits(mgr.state, mgr.state.engine.movement_arc)
    BY DEF RestIsAffordable, RestFits
  <2> QED BY SettledAt DEF Orderly, OpenAt
<1> QED BY <1>1, <1>2, PTL

\* The factions still to be asked in a window are the last ones of the hook's list for the
\* hex the unit stands on (movement_arc_effects.py interrupt_factions_after_step).
THEOREM QueueAlwaysRestOfHook ==
    PlainTitle /\ SettledStarts => (ForwardSpec => []QueueIsRestOfHook)
<1> SUFFICES ASSUME PlainTitle, SettledStarts PROVE ForwardSpec => []QueueIsRestOfHook
  OBVIOUS
<1>1. ForwardSpec => []Orderly
  BY StaysOrderly
<1>2. Orderly => QueueIsRestOfHook
  <2> SUFFICES ASSUME Orderly, mgr.state.engine.movement_arc # None
               PROVE  OpenAt(mgr.state, mgr.state.engine.movement_arc)
    BY DEF QueueIsRestOfHook, OpenAt
  <2>1. Settled(mgr.state)
    BY DEF Orderly
  <2> QED BY ONLY <2>1, mgr.state.engine.movement_arc # None, SettledAt, Zenon
<1> QED BY <1>1, <1>2, PTL

\* No handler raises out of the arc runner.
THEOREM RunnerIsSafe ==
    PlainTitle /\ SettledStarts => (ForwardSpec => []RunnerNeverRaises)
<1> SUFFICES ASSUME PlainTitle, SettledStarts PROVE ForwardSpec => []RunnerNeverRaises
  OBVIOUS
<1>1. ForwardSpec => []Orderly
  BY StaysOrderly
<1>2. Orderly => RunnerNeverRaises
  BY DEF Orderly, RunnerNeverRaises
<1> QED BY <1>1, <1>2, PTL

-----------------------------------------------------------------------------
LEMMA OverwrittenFields ==
    ASSUME NEW flow \in MovementArcs, NEW a, NEW b, NEW c, NEW e, NEW g
    PROVE  [[flow EXCEPT !.interrupt_queue = a, !.gate = b, !.saved_turn = c]
               EXCEPT !.interrupt_queue = e, !.gate = g, !.saved_turn = g]
             = [flow EXCEPT !.interrupt_queue = e, !.gate = g, !.saved_turn = g]
  BY DEF MovementArcs

LEMMA PassKeepsRest ==
    ASSUME NEW flow \in MovementArcs, NEW e
    PROVE  /\ [ArcAfterPass(flow) EXCEPT !.interrupt_queue = e, !.gate = None, !.saved_turn = None]
                = [flow EXCEPT !.interrupt_queue = e, !.gate = None, !.saved_turn = None]
<1> DEFINE q == flow.interrupt_queue
           x == ArcAfterPass(flow)
           r == Tail(q)
           f == <<>>
           g == flow.gate
           t == flow.saved_turn
           w == AwaitingContinue
           n == None
<1>1. x = IF Len(q) = 1 THEN [flow EXCEPT !.interrupt_queue = f, !.gate = AwaitingContinue,
                                          !.saved_turn = None]
          ELSE [flow EXCEPT !.interrupt_queue = r]
  BY DEF ArcAfterPass
<1> HIDE DEF x, r, f
<1>2. [flow EXCEPT !.interrupt_queue = r]
        = [flow EXCEPT !.interrupt_queue = r, !.gate = g, !.saved_turn = t]
  BY DEF MovementArcs
<1> DEFINE kept == [x EXCEPT !.interrupt_queue = e, !.gate = None, !.saved_turn = None]
                     = [flow EXCEPT !.interrupt_queue = e, !.gate = None, !.saved_turn = None]
<1>3. ASSUME NEW a, NEW b, NEW c, x = [flow EXCEPT !.interrupt_queue = a, !.gate = b, !.saved_turn = c]
      PROVE  kept
  BY <1>3, OverwrittenFields
<1> HIDE DEF kept
<1>4. Len(q) = 1 => kept
  <2>1. Len(q) = 1 => x = [flow EXCEPT !.interrupt_queue = f, !.gate = w, !.saved_turn = n]
    BY <1>1 DEF w, n
  <2> HIDE DEF w, n, q
  <2> QED BY <2>1, <1>3
<1>5. Len(q) # 1 => kept
  <2>1. Len(q) # 1 => x = [flow EXCEPT !.interrupt_queue = r, !.gate = g, !.saved_turn = t]
    BY <1>1, <1>2
  <2> HIDE DEF g, t, q
  <2> QED BY <2>1, <1>3
<1>6. kept
  BY ONLY <1>4, <1>5, Zenon
<1> QED BY <1>6 DEF kept, x

\* Windows close one by one, from the head of the queue, with nothing else of the move
\* changed.
InOrder(s, t) ==
    LET flow == s.engine.movement_arc  next == t.engine.movement_arc
    IN  flow # None /\ flow.interrupt_queue # <<>> =>
             \/ t \in Snapshots
             \/ /\ next # None
                /\ [next EXCEPT !.interrupt_queue = <<>>, !.gate = None, !.saved_turn = None]
                     = [flow EXCEPT !.interrupt_queue = <<>>, !.gate = None, !.saved_turn = None]
                /\ next.interrupt_queue \in {flow.interrupt_queue, Tail(flow.interrupt_queue)}

\* Every way on keeps that order.
LEMMA MovedInOrder ==
    ASSUME NEW s, NEW t, Settled(s), t = s \/ Moved(s, t)
    PROVE  InOrder(s, t)
<1> DEFINE flow == s.engine.movement_arc
           next == t.engine.movement_arc
           e == <<>>
<1>1. SUFFICES ASSUME flow # None, flow.interrupt_queue # e, t \notin Snapshots
               PROVE  /\ next # None
                      /\ [next EXCEPT !.interrupt_queue = e, !.gate = None, !.saved_turn = None]
                           = [flow EXCEPT !.interrupt_queue = e, !.gate = None, !.saved_turn = None]
                      /\ next.interrupt_queue \in {flow.interrupt_queue, Tail(flow.interrupt_queue)}
  BY DEF InOrder
<1> HIDE DEF e
<1>2. /\ flow \in MovementArcs
      /\ \/ flow.gate = AwaitingContinue /\ ContinueAt(s, flow)
         \/ flow.gate = AwaitingInterrupt /\ WindowAt(s, flow)
  BY <1>1, SettledAt
<1>3. ~ContinueAt(s, flow)
  BY <1>1 DEF ContinueAt, Nobody, e
<1>4. flow.gate # AwaitingContinue /\ flow.gate = AwaitingInterrupt
  BY <1>2, <1>3 DEF AwaitingContinue, AwaitingInterrupt
<1>5. flow.saved_turn # None /\ ~Nobody(flow.interrupt_queue)
  BY <1>2, <1>3 DEF WindowAt
<1>6. next = flow \/ next = ArcAfterPass(flow)
  BY <1>1, <1>4 DEF Moved, Opens, StepsOn, Hands, Pays, EndsSlot, Spends, Keeps, ArcOf
<1>7. CASE next = flow
  BY <1>1, <1>7
<1>8. CASE next = ArcAfterPass(flow)
  <2>1. s.turn \in TurnStates
    BY SettledTurn
  <2>2. ArcAfterPass(flow) # None /\ ArcAfterPass(flow).interrupt_queue = Tail(flow.interrupt_queue)
    BY <1>2, <1>5, <2>1, PassGates
  <2>3. [ArcAfterPass(flow) EXCEPT !.interrupt_queue = e, !.gate = None, !.saved_turn = None]
          = [flow EXCEPT !.interrupt_queue = e, !.gate = None, !.saved_turn = None]
    BY <1>2, PassKeepsRest
  <2> QED BY <1>8, <2>2, <2>3
<1> QED BY <1>6, <1>7, <1>8

\* While factions are asked, each step leaves the queue as it is or takes its head: nobody
\* is skipped or asked twice, and the move itself does not go on (actions.py
\* ResolvePassMovementInterrupt).
THEOREM WindowsStayInOrder ==
    PlainTitle /\ SettledStarts => (ForwardSpec => WindowsInOrder)
<1> SUFFICES ASSUME PlainTitle, SettledStarts PROVE ForwardSpec => WindowsInOrder
  OBVIOUS
<1>1. ForwardSpec => []Orderly
  BY StaysOrderly
<1>2. Orderly /\ [Forward]_vars =>
        [LET flow == mgr.state.engine.movement_arc  next == mgr'.state.engine.movement_arc
         IN  flow # None /\ flow.interrupt_queue # <<>> =>
             \/ mgr'.state \in Snapshots
             \/ /\ next # None
                /\ [next EXCEPT !.interrupt_queue = <<>>, !.gate = None, !.saved_turn = None]
                     = [flow EXCEPT !.interrupt_queue = <<>>, !.gate = None, !.saved_turn = None]
                /\ next.interrupt_queue \in {flow.interrupt_queue, Tail(flow.interrupt_queue)}
        ]_vars
  <2> SUFFICES ASSUME Orderly, [Forward]_vars PROVE InOrder(mgr.state, mgr'.state)
    BY Zenon DEF InOrder
  <2>1. mgr' = mgr \/ Moved(mgr.state, mgr'.state)
    BY ForwardStep
  <2>2. Settled(mgr.state)
    BY DEF Orderly
  <2>3. mgr'.state = mgr.state \/ Moved(mgr.state, mgr'.state)
    BY <2>1
  <2> QED BY <2>2, <2>3, MovedInOrder, Zenon
<1> QED BY <1>1, <1>2, PTL DEF ForwardSpec, WindowsInOrder

-----------------------------------------------------------------------------
(* 13. The turn order is the abstract one. *)

LEMMA GatesDiffer == AwaitingContinue # AwaitingInterrupt
  BY DEF AwaitingContinue, AwaitingInterrupt

LEMMA SettledArc ==
    ASSUME NEW s, Settled(s), ArcOf(s) # None
    PROVE  /\ ArcOf(s) \in MovementArcs /\ OpenAt(s, ArcOf(s))
           /\ \/ ArcOf(s).gate = AwaitingContinue /\ ContinueAt(s, ArcOf(s))
              \/ ArcOf(s).gate = AwaitingInterrupt /\ WindowAt(s, ArcOf(s))
<1> DEFINE flow == ArcOf(s)
<1>1. flow = s.engine.movement_arc
  BY DEF ArcOf
<1> HIDE DEF flow
<1>2. flow # None
  BY DEF flow
<1>3. /\ flow \in MovementArcs /\ OpenAt(s, flow)
      /\ \/ flow.gate = AwaitingContinue /\ ContinueAt(s, flow)
         \/ flow.gate = AwaitingInterrupt /\ WindowAt(s, flow)
  BY ONLY Settled(s), <1>1, <1>2, SettledAt, Zenon
<1> QED BY <1>3, Zenon DEF flow

LEMMA SettledOwner ==
    ASSUME PlainTitle, NEW s, Settled(s)
    PROVE  SegmentOwner(s) = s.turn.current_faction /\ SegmentOwner(s) \in Factions
<1> DEFINE flow == s.engine.movement_arc
           cursor == s.engine.cursor
<1>1. s.turn.current_faction \in Factions
  BY DEF Settled, GameStates, TurnStates
<1>2. CASE cursor = None
  BY <1>1, <1>2 DEF SegmentOwner
<1>3. CASE cursor # None /\ Runner!Segment(cursor).owner = "CURRENT"
  BY <1>1, <1>3, MovementOwners DEF SegmentOwner
<1>4. CASE flow = None
  <2>1. cursor = None \/ \E arc \in DOMAIN RoutineActions : cursor = RoutineCursor(arc)
    BY <1>4, SettledQuiet DEF RoutineCursors
  <2> QED BY <1>2, <1>3, <2>1, KnownSegmentOwner
<1>5. CASE flow # None
  <2>1. OpenAt(s, flow) /\ flow.gate \in {AwaitingContinue, AwaitingInterrupt}
    BY <1>5, SettledAt
  <2>2. CASE ContinueAt(s, flow)
    <3>1. Runner!Segment(cursor).owner = "moving" /\ cursor # None
      BY <2>2, KnownSegmentOwner, CursorsAreNotNone DEF ContinueAt, MovementSegments
    <3>2. flow.moving_faction = s.turn.current_faction
      BY <2>1, <2>2 DEF OpenAt, ContinueAt, OnSlot
    <3>3. Runner!ResolveOwner("moving", s) = flow.moving_faction
      BY <1>5, MovementOwners
    <3> HIDE DEF flow, cursor
    <3> QED BY <1>1, <3>1, <3>2, <3>3 DEF SegmentOwner, cursor
  <2>3. CASE WindowAt(s, flow)
    BY <1>2, <1>3, <2>3, KnownSegmentOwner DEF WindowAt
  <2> QED BY <2>1, <2>2, <2>3 DEF OpenAt
<1> QED BY <1>4, <1>5

LEMMA OrderSlot ==
    ASSUME NEW n \in Nat, n < Len(Schedule)
    PROVE  Slot(n) = Schedule[n + 1] /\ NextIndex(n) = (n + 1) % Len(Schedule)
<1>1. Len(Schedule) \in Nat \ {0}
  BY ServerAssumption
<1> DEFINE k == Len(Schedule)
<1> HIDE DEF k
<1>2. n % k = n
  BY <1>1 DEF k
<1> QED BY <1>2 DEF Slot, NextIndex, k

\* The slot and its actions as the turn order sees them: those a window interrupts.
SlotIndex(s) == HomeTurn(s).schedule_index
ActionsLeft(s) == HomeTurn(s).phase_actions_remaining

LEMMA OrderIs ==
    /\ Order!turn = <<SlotIndex(mgr.state), ActionsLeft(mgr.state),
                      ArcOf(mgr.state) # None, SegmentOwner(mgr.state)>>
    /\ \A n : Order!HolderOf(n) = Schedule[n + 1].faction
    /\ \A n : Order!Following(n) = (n + 1) % Len(Schedule)
  BY DEF Order!turn, Order!HolderOf, Order!Following, SlotIndex, ActionsLeft, ArcOf

\* The faction whose slot it is has the word, unless a window is open.
\* Without a window the faction of the slot has the word, and its turn is the state's.
LEMMA Home ==
    ASSUME PlainTitle, NEW s, Settled(s)
    PROVE  /\ SlotIndex(s) = s.turn.schedule_index
           /\ s.turn.schedule_index \in Nat /\ s.turn.schedule_index < Len(Schedule)
           /\ s.turn.phase_actions_remaining \in Int
           /\ (ArcOf(s) = None \/ ArcOf(s).gate = AwaitingContinue) =>
                  /\ HomeTurn(s) = s.turn
                  /\ SegmentOwner(s) = Schedule[s.turn.schedule_index + 1].faction
<1>1. /\ s.turn \in TurnStates
      /\ s.turn.schedule_index \in Nat /\ s.turn.schedule_index < Len(Schedule)
      /\ s.turn.phase_actions_remaining \in Int
  BY DEF Settled, GameStates, TurnStates
<1>2. Slot(s.turn.schedule_index) = Schedule[s.turn.schedule_index + 1]
  BY <1>1, OrderSlot
<1>3. SegmentOwner(s) = s.turn.current_faction
  BY SettledOwner
<1>4. CASE ArcOf(s) = None
  <2>1. HomeTurn(s) = s.turn
    BY <1>4 DEF HomeTurn, ArcOf
  <2>2. OnSlot(s.turn, s.turn.schedule_index)
    BY <1>4 DEF ArcOf, Settled, QuietAt
  <2> QED BY <1>1, <1>2, <1>3, <2>1, <2>2 DEF SlotIndex, OnSlot
<1>5. CASE ArcOf(s) # None /\ ArcOf(s).gate = AwaitingContinue
  <2>1. ContinueAt(s, ArcOf(s))
    BY <1>5, SettledArc, GatesDiffer
  <2>2. HomeTurn(s) = s.turn
    BY <2>1 DEF HomeTurn, ArcOf, ContinueAt
  <2> QED BY <1>1, <1>2, <1>3, <2>1, <2>2 DEF SlotIndex, OnSlot, ContinueAt
<1>6. CASE ArcOf(s) # None /\ ArcOf(s).gate # AwaitingContinue
  <2>2. WindowAt(s, ArcOf(s))
    BY <1>6, SettledArc
  <2>3. SlotIndex(s) = s.turn.schedule_index
    BY <1>6, <2>2 DEF SlotIndex, HomeTurn, ArcOf, WindowAt
  <2> QED BY <1>1, <1>6, <2>3
<1> QED BY <1>4, <1>5, <1>6

\* What a client spends it has.
SpendsForward == \A a \in PlainRequests \cap SpendActions : a.amount \in Nat

\* No snapshot was taken in the middle of a move.
RestingStarts ==
    /\ SettledStarts
    /\ \A s \in Snapshots : s.engine.movement_arc = None

-----------------------------------------------------------------------------
\* One step of the schedule, between two states of the game.
Turned(s, t) ==
    LET slot == SlotIndex(s)  left == ActionsLeft(s)  actor == SegmentOwner(s)
        moving == ArcOf(s) # None
        Started(n) == /\ SlotIndex(t) = n /\ ActionsLeft(t) = Schedule[n + 1].max_actions
                      /\ ArcOf(t) = None /\ SegmentOwner(t) = Schedule[n + 1].faction
        holds == actor = Schedule[slot + 1].faction
        next == (slot + 1) % Len(Schedule)
    IN  \/ /\ ~moving /\ holds /\ ArcOf(t) # None /\ SegmentOwner(t) \in Factions
           /\ SlotIndex(t) = slot /\ ActionsLeft(t) = left
        \/ /\ moving /\ ArcOf(t) # None /\ SegmentOwner(t) \in Factions
           /\ SlotIndex(t) = slot /\ ActionsLeft(t) = left
        \/ /\ holds /\ left > 1 /\ ActionsLeft(t) = left - 1 /\ ArcOf(t) = None
           /\ SlotIndex(t) = slot /\ SegmentOwner(t) = actor
        \/ /\ holds /\ ~(left > 1) /\ Started(next)
        \/ /\ holds /\ ActionsLeft(t) \in Int /\ ActionsLeft(t) < left
           /\ SlotIndex(t) = slot /\ ArcOf(t) = ArcOf(s) /\ SegmentOwner(t) = actor
        \/ ~moving /\ holds /\ Started(next)
        \/ /\ t \in Snapshots /\ ArcOf(t) = None
           /\ SegmentOwner(t) = Schedule[SlotIndex(t) + 1].faction
           /\ SlotIndex(t) = t.turn.schedule_index /\ ActionsLeft(t) = t.turn.phase_actions_remaining
        \/ /\ SlotIndex(t) = slot /\ ActionsLeft(t) = left /\ ArcOf(t) = ArcOf(s)
           /\ SegmentOwner(t) = actor

LEMMA PaysTurns ==
    ASSUME PlainTitle, NEW s, NEW t, Settled(s), Settled(t), Pays(s, t)
    PROVE  Turned(s, t)
<1> DEFINE i == s.turn.schedule_index
           left == s.turn.phase_actions_remaining
           n == NextIndex(i)
<1>1. /\ ArcOf(s) = None \/ ArcOf(s).gate = AwaitingContinue
      /\ ArcOf(t) = None
  BY DEF Pays
<1>2. /\ HomeTurn(s) = s.turn /\ SegmentOwner(s) = Schedule[i + 1].faction
      /\ SlotIndex(s) = i /\ ActionsLeft(s) = left
      /\ i \in Nat /\ i < Len(Schedule)
  BY <1>1, Home DEF SlotIndex, ActionsLeft
<1>3. /\ HomeTurn(t) = t.turn /\ SegmentOwner(t) = Schedule[t.turn.schedule_index + 1].faction
      /\ SlotIndex(t) = t.turn.schedule_index /\ ActionsLeft(t) = t.turn.phase_actions_remaining
  BY <1>1, Home DEF SlotIndex, ActionsLeft
<1>4. n = (i + 1) % Len(Schedule) /\ n \in Nat /\ n < Len(Schedule)
  BY <1>2, OrderSlot, SlotType
<1>5. Slot(n) = Schedule[n + 1]
  BY <1>4, OrderSlot
<1>6. CASE left > 1
  <2>1. t.turn = [s.turn EXCEPT !.phase_actions_remaining = left - 1]
    BY <1>6 DEF Pays
  <2>2. s.turn \in TurnStates
    BY DEF Settled, GameStates
  <2>3. t.turn.schedule_index = i /\ t.turn.phase_actions_remaining = left - 1
    BY <2>1, <2>2 DEF TurnStates
  <2> HIDE DEF i, left, n
  <2>4. SegmentOwner(t) = SegmentOwner(s)
    BY <1>2, <1>3, <2>3
  <2> QED BY <1>1, <1>2, <1>3, <1>6, <2>3, <2>4 DEF Turned
<1>7. CASE ~(left > 1)
  <2>1. /\ t.turn.schedule_index = n
        /\ t.turn.phase_actions_remaining = Slot(n).max_actions
    BY <1>7 DEF Pays
  <2> HIDE DEF i, left, n
  <2> QED BY <1>1, <1>2, <1>3, <1>4, <1>5, <1>7, <2>1 DEF Turned
<1> QED BY <1>6, <1>7

LEMMA EndsTurns ==
    ASSUME PlainTitle, NEW s, NEW t, Settled(s), Settled(t), EndsSlot(s, t)
    PROVE  Turned(s, t)
<1> DEFINE i == s.turn.schedule_index
           n == NextIndex(i)
<1>1. ArcOf(s) = None /\ ArcOf(t) = None /\ t.turn = NextTurn(s.turn)
  BY DEF EndsSlot
<1>2. /\ HomeTurn(s) = s.turn /\ SegmentOwner(s) = Schedule[i + 1].faction
      /\ SlotIndex(s) = i
      /\ i \in Nat /\ i < Len(Schedule)
  BY <1>1, Home DEF SlotIndex
<1>3. /\ HomeTurn(t) = t.turn /\ SegmentOwner(t) = Schedule[t.turn.schedule_index + 1].faction
      /\ SlotIndex(t) = t.turn.schedule_index /\ ActionsLeft(t) = t.turn.phase_actions_remaining
  BY <1>1, Home DEF SlotIndex, ActionsLeft
<1>4. n = (i + 1) % Len(Schedule) /\ n \in Nat /\ n < Len(Schedule)
  BY <1>2, OrderSlot, SlotType
<1>5. Slot(n) = Schedule[n + 1]
  BY <1>4, OrderSlot
<1>6. s.turn \in TurnStates
  BY DEF Settled, GameStates
<1>7. t.turn.schedule_index = n /\ t.turn.phase_actions_remaining = Slot(n).max_actions
  BY <1>1, <1>6, NextTurnSettles
<1> HIDE DEF i, n
<1> QED BY <1>1, <1>2, <1>3, <1>4, <1>5, <1>7 DEF Turned

\* Opening, walking and handing on leave slot and actions alone.
LEMMA WindowTurns ==
    ASSUME PlainTitle, NEW s, NEW t, Settled(s), Settled(t),
           Opens(s, t) \/ StepsOn(s, t) \/ Hands(s, t)
    PROVE  Turned(s, t)
<1>1. SegmentOwner(t) \in Factions
  BY SettledOwner
<1>2. ArcOf(s) = None \/ ArcOf(s).gate = AwaitingContinue =>
         HomeTurn(s) = s.turn /\ SegmentOwner(s) = Schedule[s.turn.schedule_index + 1].faction
  BY Home
<1>3. CASE Opens(s, t)
  BY <1>1, <1>2, <1>3 DEF Opens, Turned, SlotIndex, ActionsLeft
<1>4. CASE StepsOn(s, t)
  BY <1>1, <1>2, <1>4 DEF StepsOn, Turned, SlotIndex, ActionsLeft
<1>5. CASE Hands(s, t)
  <2>1. ArcOf(s) # None /\ ArcOf(s).gate = AwaitingInterrupt
    BY <1>5 DEF Hands
  <2>2. ArcOf(s) \in MovementArcs /\ s.turn \in TurnStates
    BY <2>1, SettledArc, SettledTurn
  <2>3. WindowAt(s, ArcOf(s))
    BY <2>1, SettledArc, GatesDiffer
  <2>4. ArcAfterPass(ArcOf(s)) # None
    BY <2>2, <2>3, PassGates DEF WindowAt
  <2> QED BY <1>1, <1>5, <2>1, <2>4 DEF Hands, Turned, SlotIndex, ActionsLeft
<1> QED BY <1>3, <1>4, <1>5

LEMMA SameOwner ==
    ASSUME PlainTitle, NEW s, NEW t, Settled(s), Settled(t),
           t.turn.current_faction = s.turn.current_faction
    PROVE  SegmentOwner(t) = SegmentOwner(s)
  BY SettledOwner

LEMMA KeepsTurns ==
    ASSUME PlainTitle, NEW s, NEW t, Settled(s), Settled(t), Keeps(s, t)
    PROVE  Turned(s, t)
<1>1. HomeTurn(t) = HomeTurn(s) /\ ArcOf(t) = ArcOf(s)
  BY DEF Keeps, HomeTurn, ArcOf
<1>2. SegmentOwner(t) = SegmentOwner(s)
  BY SameOwner DEF Keeps
<1> QED BY <1>1, <1>2 DEF Turned, SlotIndex, ActionsLeft

LEMMA SpendsTurns ==
    ASSUME PlainTitle, SpendsForward, NEW s, NEW t, Settled(s), Settled(t), Spends(s, t)
    PROVE  Turned(s, t)
<1>1. PICK a \in PlainRequests \cap SpendActions :
            t.turn = [s.turn EXCEPT !.phase_actions_remaining = @ - a.amount]
  BY DEF Spends
<1>2. ArcOf(t) = ArcOf(s) /\ s.turn \in TurnStates /\ a.amount \in Nat
  BY DEF Spends, SpendsForward, Settled, GameStates
<1>3. /\ t.turn.schedule_index = s.turn.schedule_index
      /\ t.turn.current_faction = s.turn.current_faction
      /\ t.turn.phase_actions_remaining = s.turn.phase_actions_remaining - a.amount
  BY <1>1, <1>2 DEF TurnStates
<1>4. SegmentOwner(t) = SegmentOwner(s)
  BY <1>3, SameOwner
<1>5. CASE ArcOf(s) = None \/ ArcOf(s).gate = AwaitingContinue
  <2>1. /\ HomeTurn(s) = s.turn /\ SegmentOwner(s) = Schedule[SlotIndex(s) + 1].faction
        /\ s.turn.phase_actions_remaining \in Int
    BY <1>5, Home
  <2>2. HomeTurn(t) = t.turn
    BY <1>2, <1>5, Home
  <2>3. /\ SlotIndex(t) = SlotIndex(s) /\ ActionsLeft(t) = ActionsLeft(s) - a.amount
        /\ ActionsLeft(s) \in Int
    BY <1>3, <2>1, <2>2 DEF SlotIndex, ActionsLeft
  <2> DEFINE d == a.amount
  <2> HIDE DEF d
  <2>4. d \in Nat /\ ActionsLeft(t) = ActionsLeft(s) - d
    BY <1>2, <2>3 DEF d
  <2>5. ActionsLeft(t) \in Int /\ (ActionsLeft(t) < ActionsLeft(s) \/ ActionsLeft(t) = ActionsLeft(s))
    BY <2>3, <2>4
  <2> QED BY <1>2, <1>4, <2>1, <2>3, <2>5 DEF Turned
<1>6. CASE ArcOf(s) # None /\ ArcOf(s).gate # AwaitingContinue
  <2>2. WindowAt(s, ArcOf(s))
    BY <1>6, SettledArc
  <2>3. HomeTurn(t) = HomeTurn(s)
    BY <1>2, <1>6, <2>2 DEF HomeTurn, ArcOf, WindowAt
  <2> QED BY <1>2, <1>4, <2>3 DEF Turned, SlotIndex, ActionsLeft
<1> QED BY <1>5, <1>6

LEMMA SnapshotTurns ==
    ASSUME PlainTitle, RestingStarts, NEW s, NEW t, Settled(t), t \in Snapshots
    PROVE  Turned(s, t)
<1>1. ArcOf(t) = None
  BY DEF RestingStarts, ArcOf
<1>2. HomeTurn(t) = t.turn /\ SegmentOwner(t) = Schedule[SlotIndex(t) + 1].faction
      /\ SlotIndex(t) = t.turn.schedule_index
  BY <1>1, Home
<1>3. ActionsLeft(t) = t.turn.phase_actions_remaining
  BY <1>2 DEF ActionsLeft
<1> QED BY <1>1, <1>2, <1>3 DEF Turned

\* Each of the ways of Moved is a step of the turn order.
LEMMA MovedTurns ==
    ASSUME PlainTitle, RestingStarts, SpendsForward, NEW s, NEW t, Settled(s), Settled(t), Moved(s, t)
    PROVE  Turned(s, t)
  BY PaysTurns, EndsTurns, WindowTurns, KeepsTurns, SpendsTurns, SnapshotTurns DEF Moved

LEMMA OrderAfter ==
    Order!turn' = <<SlotIndex(mgr'.state), ActionsLeft(mgr'.state),
                      ArcOf(mgr'.state) # None, SegmentOwner(mgr'.state)>>
<1>1. HomeTurn(mgr.state)' = HomeTurn(mgr'.state)
  BY DEF HomeTurn
<1>2. SegmentOwner(mgr.state)' = SegmentOwner(mgr'.state)
  BY DEF SegmentOwner
<1> QED BY <1>1, <1>2 DEF Order!turn, SlotIndex, ActionsLeft, ArcOf

\* And such a step is one of the abstract specification.
LEMMA TurnedSimulation ==
    ASSUME Turned(mgr.state, mgr'.state)
    PROVE  [Order!Next]_(Order!turn)
<1> DEFINE s == mgr.state
           t == mgr'.state
           slot == SlotIndex(s)
           left == ActionsLeft(s)
           actor == SegmentOwner(s)
           slot2 == SlotIndex(t)
           left2 == ActionsLeft(t)
           actor2 == SegmentOwner(t)
           free == ArcOf(s) = None
           free2 == ArcOf(t) = None
           next == (slot + 1) % Len(Schedule)
           holds == actor = Schedule[slot + 1].faction
           Started(n) == /\ slot2 = n /\ left2 = Schedule[n + 1].max_actions
                         /\ free2 /\ actor2 = Schedule[n + 1].faction
<1>1. /\ HomeTurn(mgr.state)' = HomeTurn(t)
      /\ SegmentOwner(mgr.state)' = SegmentOwner(t)
      /\ mgr.state' = t
  BY DEF HomeTurn, SegmentOwner
<1>2. Order!BeginMove <=> /\ free /\ holds /\ ~free2 /\ actor2 \in Factions
                          /\ slot2 = slot /\ left2 = left
  BY <1>1 DEF Order!BeginMove, Order!HolderOf, SlotIndex, ActionsLeft, ArcOf
<1>3. Order!PassTheWord <=> /\ ~free /\ ~free2 /\ actor2 \in Factions
                            /\ slot2 = slot /\ left2 = left
  BY <1>1 DEF Order!PassTheWord, SlotIndex, ActionsLeft, ArcOf
<1>4. \A n : Order!StartSlot(n) <=> Started(n)
  BY <1>1 DEF Order!StartSlot, Order!HolderOf, SlotIndex, ActionsLeft, ArcOf
<1>5. Order!PayForMove <=> /\ holds
                           /\ IF left > 1
                              THEN left2 = left - 1 /\ free2 /\ slot2 = slot /\ actor2 = actor
                              ELSE Order!StartSlot(next)
  BY <1>1 DEF Order!PayForMove, Order!HolderOf, Order!Following, SlotIndex, ActionsLeft, ArcOf
<1>6. Order!EndSlot <=> free /\ holds /\ Order!StartSlot(next)
  BY <1>1 DEF Order!EndSlot, Order!HolderOf, Order!Following, SlotIndex, ArcOf
<1>7. Order!Spend <=> /\ holds /\ left2 \in Int /\ left2 < left
                      /\ slot2 = slot /\ (free2 <=> free) /\ actor2 = actor
  BY <1>1 DEF Order!Spend, Order!HolderOf, SlotIndex, ActionsLeft, ArcOf
<1>8. Order!turn' = Order!turn <=> /\ slot2 = slot /\ left2 = left
                                   /\ (free2 <=> free) /\ actor2 = actor
  BY <1>1 DEF Order!turn, SlotIndex, ActionsLeft, ArcOf
<1>9. \A x \in Snapshots :
          /\ slot2 = x.turn.schedule_index /\ left2 = x.turn.phase_actions_remaining
          /\ free2 /\ actor2 = Schedule[x.turn.schedule_index + 1].faction
          => Order!Restart
  <2> TAKE x \in Snapshots
  <2> DEFINE start == <<x.turn.schedule_index, x.turn.phase_actions_remaining>>
  <2>1. start \in {<<y.turn.schedule_index, y.turn.phase_actions_remaining>> :
                        y \in {Scenario} \cup Snapshots}
    OBVIOUS
  <2>2. start[1] = x.turn.schedule_index /\ start[2] = x.turn.phase_actions_remaining
    OBVIOUS
  <2> HIDE DEF start
  <2>3. slot2 = start[1] /\ left2 = start[2] /\ free2 /\ actor2 = Schedule[start[1] + 1].faction
        => Order!Restart
    BY <1>1, <2>1 DEF Order!Restart, Order!HolderOf, SlotIndex, ActionsLeft, ArcOf
  <2> QED BY <2>2, <2>3
<1>10. \/ free /\ holds /\ ~free2 /\ actor2 \in Factions /\ slot2 = slot /\ left2 = left
       \/ ~free /\ ~free2 /\ actor2 \in Factions /\ slot2 = slot /\ left2 = left
       \/ holds /\ left > 1 /\ left2 = left - 1 /\ free2 /\ slot2 = slot /\ actor2 = actor
       \/ holds /\ ~(left > 1) /\ Started(next)
       \/ /\ holds /\ left2 \in Int /\ left2 < left
          /\ slot2 = slot /\ (free2 <=> free) /\ actor2 = actor
       \/ free /\ holds /\ Started(next)
       \/ /\ t \in Snapshots /\ free2 /\ actor2 = Schedule[slot2 + 1].faction
          /\ slot2 = t.turn.schedule_index /\ left2 = t.turn.phase_actions_remaining
       \/ slot2 = slot /\ left2 = left /\ (free2 <=> free) /\ actor2 = actor
  BY DEF Turned
<1> HIDE DEF s, t, slot, left, actor, slot2, left2, actor2, free, free2, next, holds, Started
<1> QED BY <1>2, <1>3, <1>4, <1>5, <1>6, <1>7, <1>8, <1>9, <1>10 DEF Order!Next

LEMMA StartsInOrder ==
    ASSUME PlainTitle, RestingStarts, Init
    PROVE  Order!Init
<1> DEFINE s == mgr.state
           start == <<Scenario.turn.schedule_index, Scenario.turn.phase_actions_remaining>>
<1>1. Settled(s) /\ s.turn = Scenario.turn /\ ArcOf(s) = None
  BY InitOrderly DEF RestingStarts, Orderly, ArcOf
<1>2. /\ SegmentOwner(s) = Schedule[s.turn.schedule_index + 1].faction
      /\ HomeTurn(s) = s.turn
  BY <1>1, Home
<1>3. start \in {<<x.turn.schedule_index, x.turn.phase_actions_remaining>> :
                      x \in {Scenario} \cup Snapshots}
  OBVIOUS
<1>4. start[1] = Scenario.turn.schedule_index /\ start[2] = Scenario.turn.phase_actions_remaining
  OBVIOUS
<1> HIDE DEF start
<1>5. Order!Start(start[1], start[2])
  BY <1>1, <1>2, <1>4 DEF Order!Start, Order!HolderOf, ArcOf
<1> QED BY <1>3, <1>5 DEF Order!Init

\* Play without undo and redo implements TurnOrder: slots come in the schedule's order, each
\* with its actions, only the slot's faction opens, pays and ends, and windows in between
\* cost nothing (game_server.py, turn handlers).
THEOREM TurnsInOrder ==
    PlainTitle /\ RestingStarts /\ SpendsForward => (ForwardSpec => ImplementsTurnOrder)
<1> SUFFICES ASSUME PlainTitle, RestingStarts, SpendsForward
             PROVE  ForwardSpec => ImplementsTurnOrder
  OBVIOUS
<1>1. Init => Order!Init
  BY StartsInOrder
<1>2. Orderly /\ [Forward]_vars => [Order!Next]_(Order!turn)
  <2> SUFFICES ASSUME Orderly, [Forward]_vars PROVE [Order!Next]_(Order!turn)
    OBVIOUS
  <2>1. /\ Settled(mgr.state) /\ Settled(mgr'.state)
        /\ mgr' = mgr \/ Moved(mgr.state, mgr'.state)
    BY ForwardStep DEF RestingStarts, Orderly
  <2>2. CASE Moved(mgr.state, mgr'.state)
    BY <2>1, <2>2, MovedTurns, TurnedSimulation
  <2>3. CASE mgr' = mgr
    <3>1. mgr'.state = mgr.state
      BY <2>3
    <3>2. Turned(mgr.state, mgr'.state)
      BY <3>1 DEF Turned
    <3> QED BY <3>2, TurnedSimulation
  <2> QED BY <2>1, <2>2, <2>3
<1>3. ForwardSpec => []Orderly
  BY StaysOrderly DEF RestingStarts
<1> QED BY <1>1, <1>2, <1>3, PTL DEF ForwardSpec, ImplementsTurnOrder, Order!Spec
=============================================================================
