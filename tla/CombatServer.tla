---------------------------- MODULE CombatServer ----------------------------
(***************************************************************************)
(* The server of a title that fights: module MovementServer with the       *)
(* requests of the combat arc (server/arcs/authority_attack.py,            *)
(* authority_arc_runtime.py, authority_movement.py and the dispatch in     *)
(* GameServer._handle_action_request).                                     *)
(*                                                                         *)
(* An engagement starts with an Attack request.  It passes through the     *)
(* gates of module CombatArc; a retreat of more than one hex leaves them   *)
(* for the movement arc, step by step, and comes back afterwards.          *)
(***************************************************************************)
EXTENDS MovementServer, CombatArc

CONSTANTS
    Assaults,       \* the attacks that clients may request
    Dice            \* what can be rolled for one: row of the table, morale check

ASSUME EngagementAssumption ==
    /\ Assaults \subseteq [attackers: Seq(Units) \ {<<>>}, defenders: Seq(Units) \ {<<>>},
                           primary_attacker: Units, primary_defender: Units]
    /\ Dice \subseteq [roll: Nat, passed: BOOLEAN]

OverlayEvent(f, action_type, params) ==
    Runner!SubmitEvent(mgr, "combat", action_type, f, params)

\* drive_overlay_arc_event; a rejection answers with an error and changes nothing.
OverlayRequest(f, action_type, params) ==
    LET event == OverlayEvent(f, action_type, params)
    IN  /\ OverlayIsActive(mgr.state)
        /\ IsTaken(event)
        /\ AnswersOrFails(RestoreRoutineCursor(event.run))

-----------------------------------------------------------------------------
(* Attacks. *)

\* _execute_arc_attack, before it changes anything.
AttackIsTried(f, a) ==
    /\ InBounds
    /\ ActorMayAct(f, mgr.state)
    /\ WellFormedAttack(mgr.state, f, a)
    /\ ~SegmentDenies(mgr.state, f, "Attack")

AttackEvent(f, a) ==
    Runner!SubmitEvent(SetCursor(Runner!Ran(mgr), Runner!CursorAt("combat", "attack")).m,
                       "combat", "Attack", f, a)

\* The prior cursor is put back, or the routine one.
PutBack(m, prior) ==
    IF prior # None THEN SetCursor(Runner!Ran(m), prior)
    ELSE RestoreRoutineCursor(Runner!Ran(m))

\* The rules refuse the attack after the cursor was moved; no die is rolled.
AttackIsRefused(f, a) ==
    /\ AttackIsTried(f, a)
    /\ ~ValidParties(mgr.state, f, a)
    /\ AttackEvent(f, a).run.raised

\* Slip: the cursor of the failed attack stays.
RefuseAttackInPlace(f, a) ==
    AttackIsRefused(f, a) /\ Fails(Runner!Ran(AttackEvent(f, a).run.m))

RefuseAttack(f, a) ==
    /\ AttackIsRefused(f, a)
    /\ Fails(PutBack(AttackEvent(f, a).run.m, mgr.state.engine.cursor))

\* auto_advance_phase_after_attack
AllHaveAttacked(s) ==
    {u \in Units : ActiveIn(s, u) /\ s.units[u].faction = s.turn.current_faction}
        \subseteq Range(AttacksThisPhase(s))

AdvanceIfAllAttacked(r) ==
    IF /\ SegmentAllowsNextPhase(r.m.state)
       /\ SegmentAllows(r.m.state, r.m.state.turn.current_faction, "Attack")
       /\ AllHaveAttacked(r.m.state)
    THEN AdvancePhase(r) ELSE r

Attack(f, a, dice) ==
    LET event == AttackEvent(f, Merge(a, dice))
    IN  /\ AttackIsTried(f, a)
        /\ ValidParties(mgr.state, f, a)
        /\ Rolled(mgr.state, Merge(a, dice))
        /\ event.ok /\ ~event.run.raised
        /\ AnswersOrFails(AdvanceIfAllAttacked(RestoreRoutineCursor(event.run)))

-----------------------------------------------------------------------------
(* Retreats. *)

RetreatUnderWay ==
    mgr.state.engine.movement_arc # None /\ mgr.state.engine.movement_arc.retreat_fulfillment

OwnRetreater(f, u) ==
    /\ HexesRemaining(mgr.state, u) > 0
    /\ Present(mgr.state, u)
    /\ mgr.state.units[u].faction = f

\* A retreat in one request: the unit is dragged to where it must go.
MayRetreatAtOnce(f, u, to) ==
    LET s == mgr.state
    IN  /\ OwnRetreater(f, u)
        /\ ~RetreatUnderWay
        /\ LET stack == RetreatStack(s, f, u, Standing(u))
           IN  StackMayRetreat(s, f, stack, Standing(u), to, [w \in stack |-> HexesRemaining(s, w)])

RetreatAtOnce(f, u, to) ==
    /\ MayRetreatAtOnce(f, u, to)
    /\ OverlayRequest(f, "MoveUnit", MoveParams(u, Standing(u), to))

(***************************************************************************)
(* _complete_retreat_fulfillment_step and                                  *)
(* resume_combat_arc_after_retreat_fulfillment: the movement arc has moved *)
(* the unit and put the routine cursor back; the title settles the         *)
(* obligations and the combat arc goes on from its segment "resolve".      *)
(***************************************************************************)
CompleteRetreat(r, f, u, from, to) ==
    LET settled == Runner!Run(r, RetreatStepActions(r.m.state, f, u, from, to))
        resumed == SetCursor(settled, Runner!CursorAt("combat", "resolve"))
    IN  RestoreRoutineCursor(Runner!AutoAdvance(resumed))

\* The handler after a step of a retreat that goes from the first to the last hex of path.
AnswersRetreatStep(r, f, u, path) ==
    IF r.raised \/ r.m.state.engine.movement_arc # None THEN AnswersOrFails(r)
    ELSE AnswersOrFails(CompleteRetreat(r, f, u, path[1], Last(path)))

\* handle_authority_retreat_path_move_unit and drive_movement_arc_retreat_open
RetreatOpenEvent(f, u, path) ==
    Runner!SubmitEvent(SetCursor(Runner!Ran(mgr), Runner!CursorAt("movement", "retreat_open")).m,
                       "movement", "MoveUnit", f,
                       [unit_id |-> u, from_hex |-> path[1], to_hex |-> path[2], path |-> path])

OpenRetreatIsAccepted(f, u, path) ==
    /\ OwnRetreater(f, u)
    /\ ~RetreatUnderWay
    /\ path \in Seq(Hexes)
    /\ ValidRetreatPath(mgr.state, f, u, path, HexesRemaining(mgr.state, u))
    /\ IsTaken(RetreatOpenEvent(f, u, path))

OpenRetreat(f, u, path) ==
    /\ OpenRetreatIsAccepted(f, u, path)
    /\ AnswersRetreatStep(SyncMovementCursor(RetreatOpenEvent(f, u, path).run), f, u, path)

ContinueRetreatIsAccepted(f, from, to) ==
    LET s == mgr.state
        flow == s.engine.movement_arc
    IN  /\ RetreatUnderWay
        /\ OwnRetreater(f, flow.unit_id)
        /\ flow.gate = AwaitingContinue
        /\ flow.moving_faction = f
        /\ FitsNextStep(s, flow, MoveParams(flow.unit_id, from, to))
        /\ StepCosts[from][to] <= flow.budget_remaining
        /\ IsTaken(ContinueEvent(f, from, to))

ContinueRetreat(f, from, to) ==
    LET flow == mgr.state.engine.movement_arc
    IN  /\ ContinueRetreatIsAccepted(f, from, to)
        /\ AnswersRetreatStep(SyncMovementCursor(ContinueEvent(f, from, to).run),
                              f, flow.unit_id, flow.path)

CombatDisruptInsteadOfRetreat(f) == OverlayRequest(f, "CombatDisruptInsteadOfRetreat", None)

-----------------------------------------------------------------------------
(* Advances. *)

CombatAdvance(f) == OverlayRequest(f, "CombatAdvance", None)
CombatDeclineAdvance(f) == OverlayRequest(f, "CombatDeclineAdvance", None)

\* A unit of the offer is dragged to the vacated hex; the whole offer moves.
AdvanceByMove(f, u, to) ==
    /\ ActiveIn(mgr.state, u)
    /\ HexesRemaining(mgr.state, u) = 0
    /\ OverlayRequest(f, "MoveUnit", MoveParams(u, Standing(u), to))

-----------------------------------------------------------------------------

\* The paths that the clients of this title draw and commit.
DrawnPaths(s, u) == CompletePaths(s, u, HexesRemaining(s, u))

Engaging ==
    \E f \in Factions, a \in Assaults :
        RefuseAttack(f, a) \/ \E dice \in Dice : Attack(f, a, dice)

Retreating ==
    \E f \in Factions, u \in Units :
        \/ \E to \in Hexes : RetreatAtOnce(f, u, to)
        \/ /\ OwnRetreater(f, u) /\ ~RetreatUnderWay
           /\ \E path \in DrawnPaths(mgr.state, u) : OpenRetreat(f, u, path)

Continuing == \E f \in Factions, from, to \in Hexes : ContinueRetreat(f, from, to)

Disrupting == \E f \in Factions : CombatDisruptInsteadOfRetreat(f)
Declining == \E f \in Factions : CombatDeclineAdvance(f)
Advancing ==
    \E f \in Factions :
        \/ CombatAdvance(f)
        \/ \E u \in Units, to \in Hexes : AdvanceByMove(f, u, to)

CombatNext == Next \/ Engaging \/ Retreating \/ Continuing \/ Disrupting \/ Declining \/ Advancing

CombatSpec == Init /\ [][CombatNext]_vars

-----------------------------------------------------------------------------
(* What holds of it. *)

Retreats == {"retreat_gate", "retreat_or_disrupt_gate"}

InGate(s, gates) == OverlayIsActive(s) /\ s.engine.cursor.segment_id \in gates

(***************************************************************************)
(* The cursor, the title's bucket and the movement payload say the same of *)
(* an engagement: a retreat gate is open or a stepwise retreat is under    *)
(* way exactly while somebody owes a retreat, and all of them are of one   *)
(* faction, the one the gate waits for; the advance gate is open exactly   *)
(* while an advance is offered, to the faction whose turn it is, into a    *)
(* hex nobody holds.  They are written by different actions, on two arcs   *)
(* (authority_arc_runtime.py:187, combat/graph.py).                        *)
(***************************************************************************)
GateMatchesBucket ==
    LET s == mgr.state
    IN  /\ OverlayIsActive(s) => InGate(s, Retreats \cup {"advance_gate"})
        /\ InGate(s, Retreats) \/ RetreatUnderWay <=> RetreatsPending(s)
        /\ RetreatsPending(s) => Retreaters(s) # {}
        /\ \A u, w \in Retreaters(s) : s.units[u].faction = s.units[w].faction
        /\ InGate(s, {"retreat_or_disrupt_gate"}) => DisruptInsteadOffered(s)
        /\ InGate(s, {"advance_gate"}) <=> AdvanceOffer(s) # None
        /\ AdvanceOffer(s) # None =>
              /\ AdvanceOffer(s).faction = s.turn.current_faction
              /\ ActiveAt(s, AdvanceOffer(s).to_hex) = {}

(***************************************************************************)
(* Nobody gets out of a retreat: an obligation ends only when the unit is  *)
(* as many hexes from where it stood as it owed, whether it was dragged    *)
(* there, walked there step by step or went with its stack, or when it     *)
(* was disrupted where it stood (movement_arc_effects.py, actions.py).     *)
(***************************************************************************)
RetreatStart(u) ==
    IF RetreatUnderWay /\ mgr.state.engine.movement_arc.unit_id = u
    THEN mgr.state.engine.movement_arc.path[1] ELSE Standing(u)

RetreatsCoverTheirDistance ==
    [][\A u \in Retreaters(mgr.state) :
         LET after == mgr'.state.units[u]
         IN  \/ mgr'.state \in Snapshots
             \/ HexesRemaining(mgr'.state, u) = HexesRemaining(mgr.state, u)
             \/ Apart[RetreatStart(u)][after.position] = HexesRemaining(mgr.state, u)
             \/ after.position = RetreatStart(u) /\ "disrupted" \in DOMAIN after.attributes
      ]_vars

(***************************************************************************)
(* The server implements module Engagement: no attack and no end of phase  *)
(* before the last one is settled, and no unit attacks twice in a phase.   *)
(***************************************************************************)
StageOf(s) ==
    CASE InGate(s, {"advance_gate"}) -> "advance"
      [] InGate(s, Retreats) -> "retreat"
      [] s.engine.movement_arc # None -> "retreat"
      [] OTHER -> "routine"

Owing(s) == {u \in DOMAIN Obligations(s) : Obligations(s)[u] > 0}

Engaged == INSTANCE Engagement WITH
    Fighters <- Units,
    Starts <- {<<StageOf(s), Owing(s), Range(AttacksThisPhase(s))>> : s \in {Scenario} \cup Snapshots},
    stage <- StageOf(mgr.state), owing <- Owing(mgr.state),
    fought <- Range(AttacksThisPhase(mgr.state))

ImplementsEngagement == Engaged!Spec

(***************************************************************************)
(* An engagement comes to an end as long as the players do what they are   *)
(* asked: retreat, go on with a retreat, disrupt, or answer the offer.  A  *)
(* step from an open engagement is one of these (or loads a saved game);   *)
(* fairness is weak, with what enables the answers spelled out.            *)
(***************************************************************************)
EngagementOpen == OverlayIsActive(mgr.state) \/ RetreatUnderWay

AnswerIsEnabled ==
    \/ \E f \in Factions :
          /\ OverlayIsActive(mgr.state)
          /\ \/ \E action_type \in {"CombatDisruptInsteadOfRetreat", "CombatDeclineAdvance"} :
                   IsTaken(OverlayEvent(f, action_type, None))
             \/ \E u \in Units, to \in Hexes :
                   /\ MayRetreatAtOnce(f, u, to)
                   /\ IsTaken(OverlayEvent(f, "MoveUnit", MoveParams(u, Standing(u), to)))
    \/ \E f \in Factions, from, to \in Hexes : ContinueRetreatIsAccepted(f, from, to)

PlayersAnswerGates == []<>~AnswerIsEnabled \/ []<><<EngagementOpen>>_vars

FairCombat == CombatSpec /\ PlayersAnswerGates

EngagementsEnd == EngagementOpen ~> ~EngagementOpen

(***************************************************************************)
(* After every request the clients show what the server has, save while a  *)
(* retreat is walked: a refused attack, the automatic end of a phase and   *)
(* the return from the movement arc have several points to broadcast from. *)
(***************************************************************************)
StateIsPublishedAtRest == ~RetreatUnderWay => published = mgr.state

-----------------------------------------------------------------------------
(* What the repository says. *)

\* "stacked beyond limit is always illegal" (game_server.py): no retreat overfills a hex.
StacksAreWithinLimit ==
    MaxStack # None => \A h \in Hexes : Cardinality(ActiveAt(mgr.state, h)) <= MaxStack
=============================================================================
