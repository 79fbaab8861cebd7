--------------------------- MODULE MovementServer ---------------------------
(***************************************************************************)
(* The authoritative server of a title that moves units                    *)
(* (server/game_server.py, server/arcs/authority_movement.py and           *)
(* authority_arc_runtime.py): requests of the players' clients, each       *)
(* handled to its end before the next.  (The handlers are coroutines, but  *)
(* everything they await completes without suspending.)                    *)
(*                                                                         *)
(* A request that its checks refuse answers with an error and changes      *)
(* nothing, so it is no action here, except the refused stepwise open,     *)
(* which has executed actions by then.                                     *)
(*                                                                         *)
(* `published` is the state in the last broadcast, what every client       *)
(* shows; `failed` says that the last request died of an exception of the  *)
(* arc runner.                                                             *)
(***************************************************************************)
EXTENDS MovementArc

CONSTANTS
    Schedule,       \* slots of the rota: routine_arc_id, faction, phase, max_actions
    Scenario,       \* the state the server is started with
    Snapshots,      \* the states clients may load
    PlainRequests,  \* DeleteUnit, AddUnit and SpendAction that clients may send
    PatchRequests,  \* ApplyUnitAttributesPatch that clients may send
    MaxUndo,        \* bound: the history forgets what is further back than this
    MaxTicks,       \* bound on the phases played since the last load
    MaxDebt,        \* bound on actions spent below zero
    Presented,      \* segments whose ui_mode the title's presentation knows
    AfterPhase(_)   \* hook after_phase_transition: actions on the state of the new phase

ASSUME ServerAssumption ==
    /\ Schedule \in Seq([routine_arc_id: DOMAIN RoutineActions, faction: Factions,
                         phase: Phases, max_actions: Nat])
    /\ Schedule # <<>>
    /\ Scenario \in GameStates /\ Snapshots \subseteq GameStates
    /\ PlainRequests \subseteq DeleteUnits \cup AddUnits \cup SpendActions
    /\ PatchRequests \subseteq PatchAttributes
    /\ MaxUndo \in Nat /\ MaxTicks \in Nat /\ MaxDebt \in Nat
    /\ Presented \subseteq Segments

VARIABLES mgr, published, failed

vars == <<mgr, published, failed>>

-----------------------------------------------------------------------------
(* The turn's owner and the routine cursor. *)

\* resolve_active_segment_owner and _actor_may_act
SegmentOwner(s) ==
    LET owner == IF s.engine.cursor = None THEN None
                 ELSE Runner!ResolveOwner(Runner!Segment(s.engine.cursor).owner, s)
    IN  IF owner = None THEN s.turn.current_faction ELSE owner

ActorMayAct(f, s) == f = SegmentOwner(s)

Slot(n) == Schedule[(n % Len(Schedule)) + 1]
NextIndex(n) == ((n % Len(Schedule)) + 1) % Len(Schedule)

BeginRoutineSlot(r) == Runner!BeginArc(r, Slot(r.m.state.turn.schedule_index).routine_arc_id)

RestoreRoutineCursor(r) ==
    IF r.raised \/ r.m.state.engine.cursor # None THEN r ELSE BeginRoutineSlot(r)

\* active_overlay_arc_cursor
OverlayIsActive(s) == s.engine.cursor # None /\ s.engine.cursor.arc_id \in DOMAIN OverlayArcs

SetCursor(r, cursor) == Runner!Run(r, <<Runner!SetArcCursor(cursor)>>)

\* Slip: the window's cursor is set without the frame to resume.
SyncWithoutFrame(r) ==
    LET flow == r.m.state.engine.movement_arc
    IN  IF r.raised THEN r
        ELSE IF flow = None THEN RestoreRoutineCursor(SetCursor(r, None))
        ELSE SetCursor(r, Runner!CursorAt("movement", IF flow.gate = AwaitingInterrupt
                                                      THEN "interrupt" ELSE "continue"))

\* sync_movement_cursor_from_payload
SyncMovementCursor(r) ==
    LET flow == r.m.state.engine.movement_arc
    IN  IF r.raised THEN r
        ELSE IF flow = None THEN RestoreRoutineCursor(SetCursor(r, None))
        ELSE SetCursor(r, IF flow.gate = AwaitingInterrupt
                          THEN [Runner!CursorAt("movement", "interrupt")
                                    EXCEPT !.suspended = "continue"]
                          ELSE Runner!CursorAt("movement", "continue"))

-----------------------------------------------------------------------------
(* Phases. *)

\* segment_blocks_routine_phase_advance, negated; it asks for the current faction.
SegmentAllowsNextPhase(s) ==
    s.engine.cursor # None =>
        LET segment == Runner!Segment(s.engine.cursor)
        IN  /\ Runner!ResolveOwner(segment.owner, s) = s.turn.current_faction
            /\ "NextPhase" \in segment.allowed_actions

NextPhase(s) ==
    LET n == NextIndex(s.turn.schedule_index)
    IN  [kind |-> "NextPhase", new_faction |-> Slot(n).faction, new_phase |-> Slot(n).phase,
         max_actions |-> Slot(n).max_actions, new_schedule_index |-> n]

\* NextPhase and _after_next_phase_applied, the title's transition hook last.
AdvancePhase(r) ==
    LET placed == BeginRoutineSlot(Runner!Run(r, <<NextPhase(r.m.state), WriteArc(None)>>))
    IN  Runner!Run(placed, AfterPhase(placed.m.state))

\* _spend_action_after_normal_move_unit with the engine's auto-advance policy.
AdvanceIfSpent(r) ==
    IF r.raised \/ r.m.state.turn.phase_actions_remaining > 0 THEN r ELSE AdvancePhase(r)

SpendAfterMove(r) ==
    AdvanceIfSpent(Runner!Run(r, <<[kind |-> "SpendAction", amount |-> 1]>>))

-----------------------------------------------------------------------------
(* What a handler leaves behind. *)

Forgetful(m) ==
    LET surplus == m.pointer - MaxUndo
    IN  IF surplus <= 0 THEN m
        ELSE [m EXCEPT !.history = SubSeq(@, surplus + 1, Len(@)), !.pointer = MaxUndo]

\* Slip: the broadcast carries the state the handler read at its beginning.
AnswersFromOldState(r, shown) ==
    /\ mgr' = Forgetful(r.m)
    /\ published' = mgr.state
    /\ failed' = FALSE

(***************************************************************************)
(* _broadcast_state_update projects the active segment for every client    *)
(* before it sends anything; a title whose hook enrich_current_segment     *)
(* does not know the segment's ui_mode makes it raise, and nobody is sent  *)
(* the state.  Without that hook every segment is presented.               *)
(***************************************************************************)
CanBeShown(s) == s.engine.cursor # None => s.engine.cursor.segment_id \in Presented

\* The handler ends in r after broadcasting the state `shown`.
Answers(r, shown) ==
    /\ mgr' = Forgetful(r.m)
    /\ published' = IF CanBeShown(shown) THEN shown ELSE published
    /\ failed' = FALSE

\* The request failed without a broadcast; what was executed stays.
Fails(r) ==
    /\ mgr' = Forgetful(r.m)
    /\ UNCHANGED published
    /\ failed' = r.raised

AnswersAnyway(r) == Answers(r, r.m.state)
AnswersOrFails(r) == IF r.raised THEN Fails(r) ELSE AnswersAnyway(r)

InBounds ==
    /\ mgr.state.turn.global_tick < MaxTicks
    /\ mgr.state.turn.phase_actions_remaining > -MaxDebt

Init ==
    /\ mgr = Forgetful(BeginRoutineSlot(Runner!Ran(Manager(Scenario))).m)
    /\ published = mgr.state
    /\ failed = FALSE

-----------------------------------------------------------------------------
(* MoveUnit requests. *)

\* The runner did not reject the event.
IsTaken(event) == event.ok \/ event.run.raised

MoveParams(u, from, to) == [unit_id |-> u, from_hex |-> from, to_hex |-> to]

(***************************************************************************)
(* continue_stepwise_move_unit.  The broadcast of drive_movement_arc_event *)
(* comes before the action of a completed move is spent and the phase may  *)
(* advance; nothing is broadcast after that.  The request names a unit,    *)
(* but only the payload's unit counts.                                     *)
(***************************************************************************)
ContinueEvent(f, from, to) ==
    Runner!SubmitEvent(mgr, "movement", "MoveUnit", f,
                       MoveParams(mgr.state.engine.movement_arc.unit_id, from, to))

ContinueIsAccepted(f, from, to) ==
    LET s    == mgr.state
        flow == s.engine.movement_arc
    IN  /\ flow # None
        /\ InBounds
        /\ ActorMayAct(f, s)
        /\ ~flow.retreat_fulfillment
        /\ flow.gate = AwaitingContinue
        /\ flow.moving_faction = f
        /\ FitsNextStep(s, flow, MoveParams(flow.unit_id, from, to))
        /\ StepCosts[from][to] <= flow.budget_remaining
        /\ IsTaken(ContinueEvent(f, from, to))

AnswersBeforeSpending(r) ==
    IF r.raised \/ r.m.state.engine.movement_arc # None THEN AnswersOrFails(r)
    ELSE Answers(SpendAfterMove(r), r.m.state)

ContinueMove(f, from, to) ==
    /\ ContinueIsAccepted(f, from, to)
    /\ AnswersBeforeSpending(SyncMovementCursor(ContinueEvent(f, from, to).run))

\* handle_authority_move_unit_normal, up to the choice of how the move is made.
NewMove(f, u, from, to) ==
    /\ InBounds
    /\ ActorMayAct(f, mgr.state)
    /\ mgr.state.engine.movement_arc = None
    /\ ~OverlayIsActive(mgr.state)
    /\ RetreatRemaining(mgr.state, u) = 0
    /\ \A w \in MustRetreat(mgr.state) : mgr.state.units[w].faction # f
    /\ ValidMoveRequest(mgr.state, f, u, from, to)

MovesStepwise(s, u, to) == u \in Stepwise /\ Len(ShortestPath(s, u, to, Budgets[u])) > 2

(***************************************************************************)
(* drive_movement_arc_stepwise_open: the cursor is set to stepwise_open    *)
(* first.  A refusal puts the routine cursor back, without a broadcast.    *)
(***************************************************************************)
AnswersOpening(event) ==
    IF IsTaken(event) THEN AnswersOrFails(SyncMovementCursor(event.run))
    ELSE Fails(RestoreRoutineCursor(SetCursor(event.run, None)))

OpenStepwise(f, u, from, to) ==
    LET placed == SetCursor(Runner!Ran(mgr), Runner!CursorAt("movement", "stepwise_open"))
    IN  /\ NewMove(f, u, from, to)
        /\ MovesStepwise(mgr.state, u, to)
        /\ AnswersOpening(Runner!SubmitEvent(placed.m, "movement", "MoveUnit", f,
                                             MoveParams(u, from, to)))

\* The handler logs an exception while it spends the action, and goes on.
MoveAtOnce(f, u, from, to) ==
    /\ NewMove(f, u, from, to)
    /\ ~MovesStepwise(mgr.state, u, to)
    /\ AnswersAnyway(SpendAfterMove(Runner!Run(Runner!Ran(mgr), <<MoveUnit(u, from, to)>>)))

-----------------------------------------------------------------------------
(* The other requests. *)

PassEvent(f) == Runner!SubmitEvent(mgr, "movement", "PassMovementInterrupt", f, None)

PassIsAccepted(f) ==
    /\ ActorMayAct(f, mgr.state)
    /\ mgr.state.turn.current_phase = MovementInterrupt
    /\ IsTaken(PassEvent(f))

PassMovementInterrupt(f) ==
    /\ PassIsAccepted(f)
    /\ AnswersOrFails(SyncMovementCursor(PassEvent(f).run))

\* The server works out the next slot; a client cannot choose it.
RequestNextPhase(f) ==
    /\ InBounds
    /\ ActorMayAct(f, mgr.state)
    /\ mgr.state.engine.movement_arc = None
    /\ SegmentAllowsNextPhase(mgr.state)
    /\ AnswersOrFails(AdvancePhase(Runner!Ran(mgr)))

\* _create_action: nothing but whose turn it is was checked.
RequestPlain(f, a) ==
    LET r == Runner!Run(Runner!Ran(mgr), <<a>>)
    IN  /\ InBounds
        /\ ActorMayAct(f, mgr.state)
        /\ IF CanApply(a, mgr.state) THEN Answers(r, r.m.state)
           ELSE Fails([r EXCEPT !.raised = FALSE])

RequestPatch(f, a) ==
    LET r == Runner!Run(Runner!Ran(mgr), <<a>>)
    IN  /\ ActorMayAct(f, mgr.state)
        /\ ActiveIn(mgr.state, a.unit_id)
        /\ mgr.state.units[a.unit_id].faction = f
        /\ Answers(r, r.m.state)

\* Slip: an undo without a broadcast.
RequestUndoSilently == CanUndo(mgr) /\ Fails(Runner!Ran(Undone(mgr)))

\* Undo, redo and snapshots are open to every player at any time.
RequestUndo ==
    /\ CanUndo(mgr)
    /\ IF UndoRaisesAtOnce(mgr) \/ UndoRaisesHalfway(mgr)
       THEN Fails(Runner!Ran(Undone(mgr)))
       ELSE Answers(Runner!Ran(Undone(mgr)), Undone(mgr).state)

RequestRedo ==
    /\ CanRedo(mgr)
    /\ IF RedoRaises(mgr) THEN Fails(Runner!Ran(mgr))
       ELSE Answers(Runner!Ran(Redone(mgr)), Redone(mgr).state)

\* The loaded state is taken as it is, its cursor and payload too.
LoadSnapshot(s) == Answers(Runner!Ran(Manager(s)), s)

\* The hex a unit stands on: a request that names another one is refused.
Standing(u) == mgr.state.units[u].position

Moves ==
    \/ \E f \in Factions, from, to \in Hexes : ContinueMove(f, from, to)
    \/ \E f \in Factions, u \in {w \in Units : ActiveIn(mgr.state, w)}, to \in Hexes :
          \/ OpenStepwise(f, u, Standing(u), to)
          \/ MoveAtOnce(f, u, Standing(u), to)

\* What _handle_action_request accepts.
ActionRequest ==
    \/ Moves
    \/ \E f \in Factions : PassMovementInterrupt(f) \/ RequestNextPhase(f)
    \/ \E f \in Factions, a \in PlainRequests : RequestPlain(f, a)
    \/ \E f \in Factions, a \in PatchRequests : RequestPatch(f, a)

Next ==
    \/ ActionRequest
    \/ RequestUndo
    \/ RequestRedo
    \/ \E s \in Snapshots : LoadSnapshot(s)

Spec == Init /\ [][Next]_vars

-----------------------------------------------------------------------------
(* What holds of it. *)

\* The committed and the published state are game states.
TypeOK ==
    /\ mgr.state \in GameStates
    /\ published \in GameStates
    /\ failed \in BOOLEAN

\* The turn that counts for the schedule: the one a window will give back.
HomeTurn(s) ==
    IF s.engine.movement_arc # None /\ s.engine.movement_arc.saved_turn # None
    THEN s.engine.movement_arc.saved_turn ELSE s.turn

(***************************************************************************)
(* The three things that say where a stepwise move stands (the cursor, the *)
(* payload with its gate, and whose turn it is) agree after every request: *)
(* no payload, no movement cursor, and the faction of the slot is current; *)
(* while the mover is awaited it is current; in a window the head of the   *)
(* queue is, the turn it interrupts is saved, and the cursor can resume.   *)
(* Nothing but sync_movement_cursor_from_payload keeps them together.      *)
(***************************************************************************)
CursorMatchesGate ==
    LET s == mgr.state  cursor == s.engine.cursor  flow == s.engine.movement_arc
    IN  IF flow = None
        THEN /\ cursor # None => cursor.segment_id = "routine" /\ cursor.suspended = None
             /\ s.turn.current_faction = Slot(s.turn.schedule_index).faction
             /\ s.turn.current_phase = Slot(s.turn.schedule_index).phase
        ELSE /\ cursor # None /\ cursor.arc_id = "movement"
             /\ flow.moving_faction = Slot(s.turn.schedule_index).faction
             /\ flow.gate = AwaitingContinue =>
                    /\ cursor.segment_id = "continue" /\ cursor.suspended = None
                    /\ flow.saved_turn = None /\ flow.interrupt_queue = <<>>
                    /\ s.turn.current_faction = flow.moving_faction
             /\ flow.gate = AwaitingInterrupt =>
                    /\ cursor.segment_id = "interrupt" /\ cursor.suspended = "continue"
                    /\ flow.saved_turn # None /\ flow.interrupt_queue # <<>>
                    /\ s.turn.current_faction = Head(flow.interrupt_queue)
                    /\ s.turn.current_phase = MovementInterrupt

(***************************************************************************)
(* The unit of an open move stands where the payload says, and the budget  *)
(* that is left pays for the rest of the committed path: the two are       *)
(* written by different actions (MoveUnit and the arc step) and the budget *)
(* is reduced step by step (movement_arc_effects.py:318-345, 469-495).     *)
(***************************************************************************)
RestIsAffordable ==
    LET s == mgr.state  flow == s.engine.movement_arc
    IN  flow # None =>
            /\ flow.step_index \in 1..(Len(flow.path) - 2)
            /\ Present(s, flow.unit_id)
            /\ s.units[flow.unit_id].position = flow.path[flow.step_index + 1]
            /\ PathCost(SubSeq(flow.path, flow.step_index + 1, Len(flow.path)))
                    <= flow.budget_remaining

(***************************************************************************)
(* Every faction that the title lets interrupt gets its window, in the     *)
(* order the hook gave, and passes it itself: the queue is always what is  *)
(* left of the hook's answer for the hex just reached, it shrinks only at  *)
(* the front, and the mover takes no step before it is empty.              *)
(***************************************************************************)
QueueIsRestOfHook ==
    LET flow == mgr.state.engine.movement_arc
    IN  flow # None =>
          IsSuffix(flow.interrupt_queue,
                   InterruptsAt[flow.path[flow.step_index + 1]][flow.moving_faction])

WindowsInOrder ==
    [][LET flow == mgr.state.engine.movement_arc  next == mgr'.state.engine.movement_arc
       IN  flow # None /\ flow.interrupt_queue # <<>> =>
             \/ mgr'.state \in Snapshots
             \/ /\ next # None
                /\ [next EXCEPT !.interrupt_queue = <<>>, !.gate = None, !.saved_turn = None]
                     = [flow EXCEPT !.interrupt_queue = <<>>, !.gate = None, !.saved_turn = None]
                /\ next.interrupt_queue \in {flow.interrupt_queue, Tail(flow.interrupt_queue)}
      ]_vars

(***************************************************************************)
(* No request dies in the arc runner: no automatic segment is left without *)
(* a transition that fires, no event finds the cursor on one, nothing is   *)
(* resumed that was not suspended, no action of an effect fails half way.  *)
(***************************************************************************)
RunnerNeverRaises == ~failed

\* What clients show of the units is what the server has, after every request.
UnitsArePublished == published.units = mgr.state.units

\* The same of the whole state, turn included.
StateIsPublished == published = mgr.state

(***************************************************************************)
(* No undo that the server accepts dies in a revert, although a request    *)
(* leaves several entries and undo takes them back one (or a coupled pair) *)
(* at a time, in states no handler was written for.                        *)
(***************************************************************************)
UndoNeverFails == CanUndo(mgr) => ~UndoRaisesAtOnce(mgr) /\ ~UndoRaisesHalfway(mgr)

(***************************************************************************)
(* Seen from the schedule, windows and steps do not exist: the server      *)
(* implements module TurnOrder, where a move costs its faction exactly one *)
(* action whichever way it was made, and slots follow one another.         *)
(***************************************************************************)
Order == INSTANCE TurnOrder WITH
    Slots <- Schedule, Players <- Factions,
    Starts <- {<<s.turn.schedule_index, s.turn.phase_actions_remaining>> :
                   s \in {Scenario} \cup Snapshots},
    slot <- HomeTurn(mgr.state).schedule_index,
    left <- HomeTurn(mgr.state).phase_actions_remaining,
    moving <- mgr.state.engine.movement_arc # None,
    actor <- SegmentOwner(mgr.state)

ImplementsTurnOrder == Order!Spec

(***************************************************************************)
(* A move that is under way can be finished: as long as the players answer *)
(* (the responders pass and the mover sends its next step), it ends.  The  *)
(* mover could not end its phase otherwise.                                *)
(***************************************************************************)
MoveUnderWay == mgr.state.engine.movement_arc # None

SomeContinue == \E f \in Factions, from, to \in Hexes : ContinueMove(f, from, to)
SomePass == \E f \in Factions : PassMovementInterrupt(f)
ContinueIsEnabled == \E f \in Factions, from, to \in Hexes : ContinueIsAccepted(f, from, to)
PassIsEnabled == \E f \in Factions : PassIsAccepted(f)

\* Weak fairness of both, with what enables them spelled out.
PlayersAnswer ==
    /\ []<>~ContinueIsEnabled \/ []<><<SomeContinue>>_vars
    /\ []<>~PassIsEnabled \/ []<><<SomePass>>_vars

FairSpec == Spec /\ PlayersAnswer

MovesEnd == MoveUnderWay ~> ~MoveUnderWay

(***************************************************************************)
(* What shortest_move_path promises and the moves of one step check again: *)
(* the next hex of a committed path is one the unit may be moved to.       *)
(***************************************************************************)
NextStepIsLegal ==
    LET s == mgr.state  flow == s.engine.movement_arc
    IN  flow # None =>
          IsValidMove(s, flow.unit_id, flow.path[flow.step_index + 2], flow.budget_remaining)
=============================================================================
