---------------------------- MODULE ClientDrafts ----------------------------
(***************************************************************************)
(* A player's client beside the server of module CombatServer: what the    *)
(* player drafts in the browser before anything is requested               *)
(* (game/arcs/client_combat.py, client_retreat_path.py,                    *)
(* client_place_marker.py, client_map_selection.py,                        *)
(* client_interaction_panels.py, client_panel_actions.py, the drags of     *)
(* game/game.py and the mouse handlers of game/events/mouse.py).           *)
(*                                                                         *)
(* The client of faction Me and the server exchange messages over two FIFO *)
(* channels.  The client draws what it was last sent; each change of a     *)
(* draft asks the server for a preview, and the answer is kept only if     *)
(* nothing was asked since.  The request id that decides this is modelled  *)
(* by a flag of the message: asking anew makes older questions of the      *)
(* same family, and their answers, stale.                                  *)
(*                                                                         *)
(* A handler is an operator from the client's record to the record after   *)
(* it, with the messages it sends in the field `out`.                      *)
(***************************************************************************)
EXTENDS CombatServer, Previews

CONSTANTS
    Me,             \* the faction of the client
    Openings,       \* the states and marker positions the game may be in at first
    Clicked,        \* bound: the hexes the user clicks and drops pieces on
    MaxPending,     \* bound: the user waits while so many messages are on their way
    MaxPath,        \* bound: hexes of a path that the user draws
    Patient         \* bound: the user waits while a retreat is being walked

ASSUME DraftsAssumption ==
    /\ Me \in Factions /\ Clicked \subseteq Hexes /\ MaxPending \in Nat \ {0} /\ MaxPath \in Nat
    /\ Patient \in BOOLEAN
    /\ Markers \cap Units = {}

VARIABLES
    markers,        \* the server's markers: hex of each that is on the map
    client,         \* the client
    up, down        \* messages from and to the client

draftVars == <<mgr, published, failed, markers, client, up, down>>
serverVars == <<mgr, published, failed, markers>>

-----------------------------------------------------------------------------
(* Messages. *)

Ask(kind, draft) == [type |-> "ask", kind |-> kind, draft |-> draft, fresh |-> TRUE]
DragAsk(item) == [type |-> "drag_ask", item |-> item, fresh |-> TRUE]
Request(action_type, params) == [type |-> "request", action_type |-> action_type, params |-> params]
Update(state, at) == [type |-> "state", state |-> state, markers |-> at]

\* What a message makes stale.
Family(msg) ==
    CASE msg.type = "ask" -> {"ask", "preview"}
      [] msg.type = "drag_ask" -> {"drag_ask", "drag"}
      [] OTHER -> {}

Outdated(channel, types) ==
    [n \in DOMAIN channel |->
        IF channel[n].type \in types THEN [channel[n] EXCEPT !.fresh = FALSE] ELSE channel[n]]

Say(c, msg) == [c EXCEPT !.out = Append(Outdated(@, Family(msg)), msg)]

-----------------------------------------------------------------------------
(* What the client reads off what it was sent. *)

NoPlan == [target |-> None, attackers |-> {}]
NoPath == [unit |-> None, hexes |-> <<>>, committed |-> None, index |-> 0]
NoPlace == [marker |-> None, to |-> None]

MyTurn(c) == c.view.turn.current_faction = Me
AttackAllowed(c) == SegmentAllows(c.view, Me, "Attack")

\* retreat_obligation_hexes_remaining, of the obligations sent to this player.
Owes(c, u) == u \in Retreaters(c.view) /\ c.view.units[u].faction = Me

\* The title's suggested focus: the only unit that owes a retreat.  A state update deselects
\* first (_clear_drag_and_highlights) and then selects this unit or none, so the retreat
\* preview, which is synchronised after that, never meets another selection.
Focus(c) ==
    LET owing == {u \in Units : Owes(c, u)}
    IN  IF Cardinality(owing) = 1 THEN CHOOSE u \in owing : TRUE ELSE None

RetreatPathActive(c) == c.path.unit # None /\ Owes(c, c.path.unit)
PlaceMarkerActive(c) == c.place.marker # None

\* _attack_target_hex_has_enemy, of the faction whose turn it is.
TargetHasEnemy(c) == EnemiesOn(c.view, c.view.turn.current_faction, {c.plan.target}) # {}

-----------------------------------------------------------------------------
(* Attack plans. *)

AskPlan(c) == Say(c, Ask("attack_plan", c.plan))

\* set_attack_plan_target_hex: refused while the last preview names other targets.
SetAttackPlanTarget(c, h) ==
    IF c.preview.targets # {} /\ h \notin c.preview.targets /\ c.preview.kind # "retreat_path"
    THEN c
    ELSE AskPlan([c EXCEPT !.plan = [target |-> h, attackers |-> {}]])

CancelAttackPlan(c) == AskPlan([c EXCEPT !.preview = NoPreview, !.plan = NoPlan])

\* Slip: the preview is asked for before the plan is changed.
ToggleAttackerLate(c, u) ==
    LET chosen == c.plan.attackers
        after == IF u \in chosen THEN chosen \ {u}
                 ELSE IF u \in c.preview.eligible THEN chosen \cup {u} ELSE chosen
    IN  [AskPlan(c) EXCEPT !.plan.attackers = after]

ToggleAttacker(c, u) ==
    LET chosen == c.plan.attackers
        after == IF u \in chosen THEN chosen \ {u}
                 ELSE IF u \in c.preview.eligible THEN chosen \cup {u} ELSE chosen
    IN  AskPlan([c EXCEPT !.plan.attackers = after])

\* _sync_attack_plan_after_state_update
SyncAttackPlan(c) ==
    CASE ~AttackAllowed(c) -> IF c.plan = NoPlan THEN c ELSE CancelAttackPlan(c)
      [] AttackAllowed(c) /\ c.plan = NoPlan -> AskPlan(c)
      [] OTHER -> IF ~MyTurn(c) \/ (c.plan.target # None /\ ~TargetHasEnemy(c))
                  THEN CancelAttackPlan(c) ELSE c

-----------------------------------------------------------------------------
(* Retreat paths. *)

AskPath(c) == Say(c, Ask("retreat_path", [unit |-> c.path.unit, hexes |-> c.path.hexes]))

CancelRetreatPath(c) == [c EXCEPT !.path = NoPath, !.preview = NoPreview]

BeginRetreatPath(c, u) ==
    AskPath([c EXCEPT !.path = [NoPath EXCEPT !.unit = u, !.hexes = <<c.view.units[u].position>>],
                      !.drag = None])

\* append_retreat_path_hex; the hexes to choose from are those of the last preview.
AppendRetreatPathHex(c, h) ==
    IF /\ RetreatPathActive(c)
       /\ c.preview.kind = "retreat_path" /\ h \in c.preview.targets
       /\ Last(c.path.hexes) # h
    THEN AskPath([c EXCEPT !.path.hexes = Append(@, h)])
    ELSE c

UndoRetreatPathHex(c) ==
    IF RetreatPathActive(c) /\ Len(c.path.hexes) > 1
    THEN AskPath([c EXCEPT !.path.hexes = Front(@)])
    ELSE c

\* confirm_retreat_path: the path of the preview, not the draft's, is sent and walked.
ConfirmRetreatPath(c) ==
    LET walk == c.preview.commit.path
        sent == Say(c, Request("MoveUnit", c.preview.commit))
    IN  IF Len(walk) <= 2 THEN CancelRetreatPath(sent)
        ELSE [sent EXCEPT !.path.committed = walk, !.path.index = 1, !.path.hexes = walk,
                          !.preview = NoPreview]

\* _sync_retreat_path_after_state_update
SyncRetreatPath(c) ==
    LET u == Focus(c)
    IN  CASE c.path.unit # None /\ Len(c.path.hexes) >= 2 -> c
          [] RetreatPathActive(c) /\ Len(c.path.hexes) < 2 -> AskPath(c)
          [] OTHER -> IF u = None THEN c
                      ELSE IF c.path.unit # u /\ Len(c.path.hexes) <= 1
                           THEN BeginRetreatPath(c, u) ELSE c

\* Slip: the first step is taken for sent already, and the second is sent first.
ContinueRetreatPathAhead(c) ==
    LET walk == c.path.committed
        n == c.path.index + 1
    IN  CASE walk = None -> c
          [] walk # None /\ n >= Len(walk) - 1 -> CancelRetreatPath(c)
          [] OTHER -> IF c.path.unit = None THEN [c EXCEPT !.path.committed = None]
                      ELSE IF ~Owes(c, c.path.unit) THEN CancelRetreatPath(c)
                      ELSE IF c.view.units[c.path.unit].position # walk[n + 1] THEN c
                      ELSE Say([c EXCEPT !.path.index = n + 1],
                               Request("Step", [from |-> walk[n + 1], to |-> walk[n + 2]]))

(***************************************************************************)
(* _maybe_continue_retreat_path: sends the next step when the unit is seen *)
(* to have taken the last one.  The index counts hexes from 0, as in the   *)
(* code.                                                                   *)
(***************************************************************************)
MaybeContinueRetreatPath(c) ==
    LET walk == c.path.committed
        n == c.path.index
    IN  CASE walk = None -> c
          [] walk # None /\ n >= Len(walk) - 1 -> CancelRetreatPath(c)
          [] OTHER -> IF c.path.unit = None THEN [c EXCEPT !.path.committed = None]
                      ELSE IF ~Owes(c, c.path.unit) THEN CancelRetreatPath(c)
                      ELSE IF c.view.units[c.path.unit].position # walk[n + 1] THEN c
                      ELSE Say([c EXCEPT !.path.index = n + 1],
                               Request("Step", [from |-> walk[n + 1], to |-> walk[n + 2]]))

-----------------------------------------------------------------------------
(* Markers that are moved by Shift-click and a click on their new hex. *)

AskPlace(c) == Say(c, Ask("place_marker", c.place))

CancelPlaceMarker(c) == [c EXCEPT !.place = NoPlace, !.preview = NoPreview]

BeginPlaceMarker(c, m) ==
    AskPlace([c EXCEPT !.place = [marker |-> m, to |-> c.markers[m]], !.drag = None])

SetPlaceMarkerHex(c, h) == AskPlace([c EXCEPT !.place.to = h])

ConfirmPlaceMarker(c) == CancelPlaceMarker(Say(c, Request("MoveMarker", c.preview.commit)))

-----------------------------------------------------------------------------
(* Drags. *)

Position(c, item) == IF item \in Markers THEN c.markers[item] ELSE c.view.units[item].position

\* start_drag_preview and its marker twin: no hex is allowed before the answer.
StartDrag(c, item) ==
    Say([c EXCEPT !.drag = [item |-> item, from |-> Position(c, item), allowed |-> {}]],
        DragAsk(item))

\* end_drag_preview and execute_action
EndDrag(c, to) ==
    LET drag == c.drag
        params == IF drag.item \in Markers
                  THEN [marker |-> drag.item, from |-> drag.from, to |-> to]
                  ELSE [unit |-> drag.item, from |-> drag.from, to |-> to]
        request == Request(IF drag.item \in Markers THEN "MoveMarker" ELSE "DragUnit", params)
        dropped == [c EXCEPT !.drag = None]
    IN  IF to \in drag.allowed /\ to # drag.from /\ MyTurn(c) THEN Say(dropped, request)
        ELSE dropped

-----------------------------------------------------------------------------
(* The dock's buttons: those of the segment and those of the preview. *)

\* Commits the preview, whatever draft it was asked for.
Confirm(c) ==
    CASE c.preview.kind = "attack_plan" ->
            CancelAttackPlan(Say(c, Request("Attack", c.preview.commit)))
      [] c.preview.kind = "retreat_path" -> ConfirmRetreatPath(c)
      [] c.preview.kind = "place_marker" -> ConfirmPlaceMarker(c)

HasCancel(c) ==
    c.preview.kind \in {"retreat_path", "place_marker"}
        \/ (c.preview.kind = "attack_plan" /\ c.preview.holds = TRUE)

Cancel(c) ==
    CASE c.preview.kind = "attack_plan" -> CancelAttackPlan(c)
      [] c.preview.kind = "retreat_path" -> CancelRetreatPath(c)
      [] c.preview.kind = "place_marker" -> CancelPlaceMarker(c)

\* _segment_interaction_mode
Mode(c) ==
    CASE AttackAllowed(c) -> "attack_plan"
      [] InGate(c.view, Retreats) -> "retreat_path"
      [] OTHER -> IF PlaceMarkerActive(c) THEN "place_marker" ELSE c.preview.kind

\* is_draft_active_for_mode
DraftActive(c, mode) ==
    CASE mode = "attack_plan" -> AttackAllowed(c) /\ c.plan # NoPlan
      [] mode = "retreat_path" -> RetreatPathActive(c)
      [] mode = "place_marker" -> PlaceMarkerActive(c)
      [] OTHER -> FALSE

\* _should_disable_end_phase_during_draft: the preview decides if it says anything.
EndPhaseIsDisabled(c) ==
    IF c.preview.holds # None THEN c.preview.holds ELSE DraftActive(c, Mode(c))

-----------------------------------------------------------------------------
(* The mouse. *)

\* mouseup on the background
ClickHex(c, h) ==
    CASE PlaceMarkerActive(c) -> SetPlaceMarkerHex(c, h)
      [] ~PlaceMarkerActive(c) /\ RetreatPathActive(c) -> AppendRetreatPathHex(c, h)
      [] OTHER -> IF AttackAllowed(c) /\ MyTurn(c) THEN SetAttackPlanTarget(c, h) ELSE c

\* _unit_mousedown
PressUnit(c, u) ==
    LET planning == AttackAllowed(c) /\ MyTurn(c)
        foe == c.view.units[u].faction # c.view.turn.current_faction
    IN  CASE Owes(c, u) -> BeginRetreatPath(c, u)
          [] ~Owes(c, u) /\ planning /\ foe ->
                SetAttackPlanTarget(c, c.view.units[u].position)
          [] ~Owes(c, u) /\ planning /\ ~foe /\ c.plan.target # None -> ToggleAttacker(c, u)
          [] OTHER -> IF MyTurn(c) /\ ~foe THEN StartDrag(c, u) ELSE c

\* _marker_mousedown
PressMarker(c, m, shift) ==
    IF ~MyTurn(c) THEN c ELSE IF shift THEN BeginPlaceMarker(c, m) ELSE StartDrag(c, m)

-----------------------------------------------------------------------------
(* What the server sends. *)

\* _handle_state_update
OnUpdate(c, msg) ==
    LET seen == [c EXCEPT !.view = msg.state, !.markers = msg.markers, !.drag = None]
    IN  MaybeContinueRetreatPath(SyncRetreatPath(SyncAttackPlan(seen)))

\* _handle_map_selection_preview
OnPreview(c, msg) == IF msg.fresh THEN [c EXCEPT !.preview = msg.preview] ELSE c

\* Slip: whatever answer comes is taken for the one about this drag.
OnAnyDrag(c, msg) == IF c.drag # None THEN [c EXCEPT !.drag.allowed = msg.hexes] ELSE c

\* _handle_unit_preview, _handle_marker_preview
OnDrag(c, msg) ==
    IF msg.fresh /\ c.drag # None /\ c.drag.item = msg.item
    THEN [c EXCEPT !.drag.allowed = msg.hexes] ELSE c

Handled(msg) ==
    CASE msg.type = "state" -> OnUpdate(client, msg)
      [] msg.type = "preview" -> OnPreview(client, msg)
      [] msg.type = "drag" -> OnDrag(client, msg)

-----------------------------------------------------------------------------
(* The client's steps. *)

\* The client goes on as c, after which `rest` is still on its way to it.
Becomes(c, rest) ==
    LET asked == UNION {Family(c.out[n]) : n \in DOMAIN c.out}
    IN  /\ client' = [c EXCEPT !.out = <<>>]
        /\ up' = Outdated(up, asked) \o c.out
        /\ down' = Outdated(rest, asked)
        /\ UNCHANGED serverVars

Receive ==
    /\ down # <<>>
    /\ Becomes(Handled(Head(down)), Tail(down))

\* A retreat path was confirmed and is sent step by step.
Walking == client.path.committed # None

\* The user acts; what changes nothing is no step.
Does(c) ==
    /\ Len(up) + Len(down) < MaxPending
    /\ Len(c.path.hexes) <= MaxPath
    /\ Patient => ~Walking
    /\ c # client
    /\ Becomes(c, down)

NoDrag == client.drag = None

Clicks == NoDrag /\ \E h \in Clicked : Does(ClickHex(client, h))

Presses ==
    NoDrag /\ \E u \in {w \in Units : ActiveIn(client.view, w)} : Does(PressUnit(client, u))

PressesMarker ==
    NoDrag /\ \E m \in DOMAIN client.markers, shift \in BOOLEAN :
                 Does(PressMarker(client, m, shift))

Drops == ~NoDrag /\ \E to \in Clicked : Does(EndDrag(client, to))

Confirms == NoDrag /\ client.preview.commit # None /\ Does(Confirm(client))

Cancels == NoDrag /\ HasCancel(client) /\ Does(Cancel(client))

TakesBack == NoDrag /\ client.preview.kind = "retreat_path" /\ Does(UndoRetreatPathHex(client))

\* The dock offers what the segment allows.
EndsPhase ==
    /\ NoDrag
    /\ SegmentAllows(client.view, Me, "NextPhase")
    /\ ~EndPhaseIsDisabled(client)
    /\ Does(Say(client, Request("NextPhase", None)))

AnswersGate ==
    NoDrag /\ \E action_type \in {"CombatDisruptInsteadOfRetreat", "CombatAdvance",
                                  "CombatDeclineAdvance"} :
                 /\ SegmentAllows(client.view, Me, action_type)
                 /\ Does(Say(client, Request(action_type, None)))

UserActs ==
    \/ Clicks \/ Presses \/ PressesMarker \/ Drops
    \/ Confirms \/ Cancels \/ TakesBack \/ EndsPhase \/ AnswersGate

-----------------------------------------------------------------------------
(* The server's steps. *)

PreviewFor(msg) ==
    CASE msg.kind = "attack_plan" -> AttackPlanPreview(mgr.state, Me, msg.draft)
      [] msg.kind = "retreat_path" -> RetreatPathPreview(mgr.state, Me, msg.draft)
      [] msg.kind = "place_marker" -> PlaceMarkerPreview(mgr.state, markers, msg.draft)

\* _handle_map_selection_preview_request
AnswersAsk ==
    /\ up # <<>> /\ Head(up).type = "ask"
    /\ up' = Tail(up)
    /\ down' = Append(down, [type |-> "preview", preview |-> PreviewFor(Head(up)),
                             fresh |-> Head(up).fresh])
    /\ UNCHANGED <<serverVars, client>>

\* _handle_unit_preview_request, _handle_marker_preview_request: a unit that is gone gets
\* no answer.
AnswersDragAsk ==
    /\ up # <<>> /\ Head(up).type = "drag_ask"
    /\ up' = Tail(up)
    /\ LET item == Head(up).item
       IN  IF item \in Markers \/ ActiveIn(mgr.state, item)
           THEN down' = Append(down, [type |-> "drag", item |-> item, fresh |-> Head(up).fresh,
                                      hexes |-> DragHexes(mgr.state, Me, item)])
           ELSE UNCHANGED down
    /\ UNCHANGED <<serverVars, client>>

\* What a handler broadcasts at its end reaches the client, like everybody.
Broadcasts(before) ==
    down' = down \o before \o IF CanBeShown(mgr'.state) THEN <<Update(published', markers')>>
                              ELSE <<>>

Asked(action_type) ==
    /\ up # <<>> /\ Head(up).type = "request" /\ Head(up).action_type = action_type
    /\ up' = Tail(up)

Params == Head(up).params

\* No attack gets this far to be refused by the rules: see OfferedIsAccepted.
ServesAttack ==
    /\ Asked("Attack")
    /\ \E dice \in Dice : Attack(Me, Params, dice)
    /\ UNCHANGED <<markers, client>>
    /\ Broadcasts(<<>>)

ServesRetreat ==
    /\ Asked("MoveUnit")
    /\ OpenRetreat(Me, Params.unit, Params.path)
    /\ UNCHANGED <<markers, client>>
    /\ Broadcasts(<<>>)

\* drive_movement_arc_event broadcasts the end of a walk before the combat arc goes on.
ServesStep ==
    LET walked == SyncMovementCursor(ContinueEvent(Me, Params.from, Params.to).run).m.state
    IN  /\ Asked("Step")
        /\ ContinueRetreat(Me, Params.from, Params.to)
        /\ UNCHANGED <<markers, client>>
        /\ Broadcasts(IF walked.engine.movement_arc = None THEN <<Update(walked, markers)>>
                      ELSE <<>>)

ServesDrag ==
    /\ Asked("DragUnit")
    /\ MoveAtOnce(Me, Params.unit, Params.from, Params.to)
    /\ UNCHANGED <<markers, client>>
    /\ Broadcasts(<<>>)

\* _apply_move_marker, in front of it whose turn it is
MayMoveMarker(params) ==
    /\ ActorMayAct(Me, mgr.state)
    /\ params.marker \in DOMAIN markers /\ params.from = markers[params.marker]
    /\ params.to \in MarkerHexes(mgr.state)

MovesMarker ==
    /\ Asked("MoveMarker")
    /\ MayMoveMarker(Params)
    /\ markers' = [markers EXCEPT ![Params.marker] = Params.to]
    /\ UNCHANGED <<mgr, failed, client>>
    /\ published' = IF CanBeShown(mgr.state) THEN mgr.state ELSE published
    /\ Broadcasts(<<>>)

ServesNextPhase ==
    /\ Asked("NextPhase")
    /\ RequestNextPhase(Me)
    /\ UNCHANGED <<markers, client>>
    /\ Broadcasts(<<>>)

ServesGate ==
    /\ \/ Asked("CombatDisruptInsteadOfRetreat") /\ CombatDisruptInsteadOfRetreat(Me)
       \/ Asked("CombatAdvance") /\ CombatAdvance(Me)
       \/ Asked("CombatDeclineAdvance") /\ CombatDeclineAdvance(Me)
    /\ UNCHANGED <<markers, client>>
    /\ Broadcasts(<<>>)

\* What the handlers check before they change anything.
WouldServe(request) ==
    LET p == request.params
    IN  CASE request.action_type = "Attack" -> AttackIsTried(Me, p)
          [] request.action_type = "MoveUnit" -> OpenRetreatIsAccepted(Me, p.unit, p.path)
          [] request.action_type = "Step" -> ContinueRetreatIsAccepted(Me, p.from, p.to)
          [] request.action_type = "DragUnit" -> NewMove(Me, p.unit, p.from, p.to)
          [] request.action_type = "MoveMarker" -> MayMoveMarker(p)
          [] request.action_type = "NextPhase" ->
                /\ InBounds /\ ActorMayAct(Me, mgr.state)
                /\ mgr.state.engine.movement_arc = None
                /\ SegmentAllowsNextPhase(mgr.state)
          [] OTHER -> /\ OverlayIsActive(mgr.state)
                      /\ IsTaken(OverlayEvent(Me, request.action_type, None))

\* An error is answered; it changes no draft, only messages on the screen.
RefusesRequest ==
    /\ up # <<>> /\ Head(up).type = "request"
    /\ ~WouldServe(Head(up))
    /\ up' = Tail(up)
    /\ UNCHANGED <<serverVars, client, down>>

Serves ==
    \/ AnswersAsk \/ AnswersDragAsk
    \/ ServesAttack \/ ServesRetreat \/ ServesStep \/ ServesDrag
    \/ MovesMarker \/ ServesNextPhase \/ ServesGate \/ RefusesRequest

\* The other players' clients (bound: what they request in this module).
OthersAct ==
    /\ \E f \in Factions \ {Me} :
          \/ RequestNextPhase(f)
          \/ \E a \in Assaults, dice \in Dice : Attack(f, a, dice)
          \/ CombatDisruptInsteadOfRetreat(f)
          \/ CombatDeclineAdvance(f)
          \/ \E u \in Units, to \in Hexes : RetreatAtOnce(f, u, to)
    /\ UNCHANGED <<markers, client, up>>
    /\ Broadcasts(<<>>)

-----------------------------------------------------------------------------

NewClient(state, at) ==
    [view |-> state, markers |-> at, preview |-> NoPreview, plan |-> NoPlan, path |-> NoPath,
     place |-> NoPlace, drag |-> None, out |-> <<>>]

\* The client has just joined and handled the state it was sent.
DraftsInit ==
    \E o \in Openings :
        LET opened == Forgetful(BeginRoutineSlot(Runner!Ran(Manager(o.state))).m)
            joined == OnUpdate(NewClient(opened.state, o.markers),
                               Update(opened.state, o.markers))
        IN  /\ mgr = opened
            /\ published = opened.state
            /\ failed = FALSE
            /\ markers = o.markers
            /\ client = [joined EXCEPT !.out = <<>>]
            /\ up = joined.out
            /\ down = <<>>

DraftsNext == Receive \/ UserActs \/ Serves \/ OthersAct

DraftsSpec == DraftsInit /\ [][DraftsNext]_draftVars

-----------------------------------------------------------------------------
(* What holds of it. *)

Within(channel, types) ==
    \E n \in DOMAIN channel :
        channel[n].type \in types /\ channel[n].fresh

\* The client has seen the server's state, and nothing it requested is under way.
HasSeenAll ==
    /\ \A n \in DOMAIN up : up[n].type # "request"
    /\ \A n \in DOMAIN down : down[n].type # "state"

(***************************************************************************)
(* When the client has seen the state and no answer is due, the preview of *)
(* an attack plan that it shows is the server's answer to the plan as it   *)
(* stands now, although plans outlive updates, updates come between a      *)
(* question and its answer, and other drafts ask in between                *)
(* (client_combat.py:71, client_map_selection.py:70).                      *)
(***************************************************************************)
PlanPreviewIsCurrent ==
    /\ HasSeenAll
    /\ ~Within(up, {"ask"}) /\ ~Within(down, {"preview"})
    /\ AttackAllowed(client) /\ client.preview.kind = "attack_plan"
    => client.preview = AttackPlanPreview(mgr.state, Me, client.plan)

(***************************************************************************)
(* What the client lets the player do the server does: when the client has *)
(* seen the state, an attack with an enabled Confirm is not refused, and   *)
(* neither is a unit or marker dropped where the drag allows it, although  *)
(* late answers still come in and the gates of a preview and those of the  *)
(* request are written twice ("mirrors the gates in                        *)
(* GameServer._validate_move_unit_request", server/preview.py).  And an    *)
(* attack that arrives while attacks may be made is one that the rules     *)
(* allow, however late it was confirmed.                                   *)
(***************************************************************************)
OfferedIsAccepted ==
    /\ HasSeenAll /\ InBounds /\ ActorMayAct(Me, mgr.state) =>
        /\ client.preview.kind = "attack_plan" /\ client.preview.commit # None =>
              /\ AttackIsTried(Me, client.preview.commit)
              /\ ValidParties(mgr.state, Me, client.preview.commit)
        /\ client.drag # None =>
              \A to \in client.drag.allowed \ {client.drag.from} :
                  IF client.drag.item \in Markers
                  THEN MayMoveMarker([marker |-> client.drag.item, from |-> client.drag.from,
                                      to |-> to])
                  ELSE NewMove(Me, client.drag.item, client.drag.from, to)
    /\ up # <<>> /\ Head(up).type = "request" /\ Head(up).action_type = "Attack" =>
        (AttackIsTried(Me, Params) => ValidParties(mgr.state, Me, Params))

(***************************************************************************)
(* A retreat path that was confirmed is walked to its end, so that the     *)
(* unit owes no retreat any more: the client sends one step for every      *)
(* update that shows the last one done, as long as messages are delivered  *)
(* and the user does not interfere.                                        *)
(***************************************************************************)
MessagesArrive ==
    /\ []<>(up = <<>>) \/ []<><<Serves>>_draftVars
    /\ []<>(down = <<>>) \/ []<><<Receive>>_draftVars

FairDrafts == DraftsSpec /\ MessagesArrive

RetreatsAreWalked ==
    \A u \in Units : (Walking /\ client.path.unit = u) ~> (u \notin Retreaters(mgr.state))
=============================================================================
