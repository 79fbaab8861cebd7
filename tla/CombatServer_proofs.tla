------------------------ MODULE CombatServer_proofs ------------------------
(***************************************************************************)
(* What always holds of the game server in a title that fights, whatever   *)
(* the board, the units, the attacks and the dice.                         *)
(*                                                                         *)
(* AtRest is inductive for play without undo and redo: behind every        *)
(* request the server is at one of four rests (the routine, a retreat      *)
(* gate, a retreat being walked, the offer of an advance), the title's     *)
(* bucket says the same as the cursor, and the clients have been told.     *)
(* Sections 12 to 15 continue those of CombatArc_proofs, request by        *)
(* request; section 16 draws the conclusions, section 17 the refinement of *)
(* module Engagement.                                                      *)
(***************************************************************************)
EXTENDS CombatArc_proofs

-----------------------------------------------------------------------------
(* 12. The requests of module MovementServer. *)

\* What changes neither who is where nor who owes what leaves the engagement where it is.
LEMMA StaysInPeace ==
    ASSUME NEW s, AtPeace(s), NEW t, WellFormed(t), t.engine = s.engine, t.session = s.session,
           t.turn.current_faction = s.turn.current_faction, SameFolk(s, t),
           \A u \in Units : Present(s, u) => t.units[u].position = s.units[u].position
    PROVE  AtPeace(t) /\ Calm(s, t)
<1>1. Ordered(s)
  BY DEF AtPeace
<1>2. /\ Obligations(t) = Obligations(s) /\ AdvanceOffer(t) = AdvanceOffer(s)
      /\ AttacksThisPhase(t) = AttacksThisPhase(s) /\ LastCombat(t) = LastCombat(s)
      /\ DisruptInsteadOffered(t) = DisruptInsteadOffered(s)
  BY SameBucket
<1>3. OwesLess(s, t)
  BY <1>2 DEF OwesLess
<1>4. Ordered(t)
  BY <1>1, <1>2, <1>3, FolkInOrder
<1>5. AtRoutine(s) => AtRoutine(t)
  BY <1>2 DEF AtRoutine
<1>6. AtRetreat(s) => AtRetreat(t)
  BY <1>2 DEF AtRetreat
<1>7. AtAdvance(s) => AtAdvance(t)
  <2>1. \A h : ActiveAt(t, h) = ActiveAt(s, h)
    <3>1. \A u \in Units : ActiveIn(t, u) <=> ActiveIn(s, u)
      BY FolkActive
    <3> QED BY <3>1 DEF ActiveAt, ActiveIn
  <2>2. OfferStands(s) => OfferStands(t)
    BY <1>2, <2>1 DEF OfferStands
  <2> QED BY <1>2, <2>2 DEF AtAdvance
<1>8. Walking(s) => Walking(t)
  <2>1. SUFFICES ASSUME Walking(s) PROVE Walking(t)
    OBVIOUS
  <2> DEFINE flow == s.engine.movement_arc
  <2>2. flow.unit_id \in Units /\ Present(s, flow.unit_id)
    <3>1. flow.unit_id \in DOMAIN Obligations(s)
      BY <2>1 DEF Walking, RetreatWalks
    <3> QED BY <1>1, <3>1 DEF Ordered, Owed, ActiveIn
  <2>3. t.units[flow.unit_id].position = s.units[flow.unit_id].position
    BY <2>2
  <2>4. RetreatWalks(t)
    BY <1>2, <2>1, <2>3 DEF Walking, RetreatWalks
  <2> QED BY <1>2, <2>1, <2>4 DEF Walking
<1> QED BY <1>2, <1>4, <1>5, <1>6, <1>7, <1>8 DEF AtPeace, Calm, InRetreat

\* A handler that broadcasts the state it leaves behind.
LEMMA AnswersInPeace ==
    ASSUME CombatTitle, NEW x, IsManager(x), AtPeace(x.state), FightStep(mgr.state, x.state),
           Answers(Runner!Ran(x), x.state)
    PROVE  Rests(x)
<1>1. mgr' = Forgetful(x)
  BY RunIs DEF Answers
<1>2. CASE Walking(x.state)
  BY <1>1, <1>2 DEF Rests
<1>3. CASE ~Walking(x.state)
  <2>1. AtEase(x.state)
    BY <1>3 DEF AtPeace, AtEase
  <2>2. CanBeShown(x.state)
    BY <2>1, EaseIsShown
  <2>3. published' = x.state
    BY <2>2 DEF Answers
  <2> QED BY <1>1, <2>3 DEF Rests
<1> QED BY <1>2, <1>3

LEMMA SpendingRun ==
    ASSUME NEW m, WellFormed(m.state), NEW a \in SpendActions
    PROVE  LET x == Executed(m, a)
           IN  /\ CanApply(a, m.state)
               /\ ExecutedAll(m, <<a>>) = Runner!Ran(x) /\ IsManager(x)
               /\ WellFormed(x.state)
               /\ x.state.units = m.state.units /\ x.state.engine = m.state.engine
               /\ x.state.session = m.state.session
               /\ x.state.turn.current_faction = m.state.turn.current_faction
<1> DEFINE s == m.state
           x == Executed(m, a)
           turn == [s.turn EXCEPT !.phase_actions_remaining = @ - a.amount]
<1>1. a.kind = "SpendAction" /\ a.amount \in Int
  BY DEF SpendActions
<1>2. CanApply(a, s)
  BY <1>1 DEF CanApply
<1>3. Apply(a, s) = [s EXCEPT !.turn = turn]
  <2>1. Apply(a, s) = [s EXCEPT !.turn.phase_actions_remaining = @ - a.amount]
    BY <1>1 DEF Apply
  <2> QED BY <2>1
<1>4. turn \in TurnStates /\ turn.current_faction = s.turn.current_faction
  <2>1. s.turn \in TurnStates
    BY DEF WellFormed
  <2> QED BY <1>1, <2>1 DEF TurnStates
<1>5. IsManager(x) /\ x.state = Apply(a, s)
  BY <1>2, ExecutedIs
<1>6. ExecutedAll(m, <<a>>) = Runner!Ran(x)
  BY <1>2, RunOfOne
<1> HIDE DEF turn, x
<1>7. LET t == [s EXCEPT !.turn = turn]
      IN  /\ WellFormed(t) /\ t.units = s.units /\ t.engine = s.engine
          /\ t.session = s.session /\ t.turn = turn
  BY <1>4, TurnWritten
<1>8. /\ WellFormed(x.state) /\ x.state.units = s.units /\ x.state.engine = s.engine
      /\ x.state.session = s.session /\ x.state.turn = turn
  BY <1>3, <1>5, <1>7
<1> QED BY <1>2, <1>4, <1>5, <1>6, <1>8 DEF x

LEMMA SpendAnswers ==
    ASSUME CombatTitle, IsManager(mgr), AtPeace(mgr.state),
           NEW f, NEW a \in PlainRequests, RequestPlain(f, a)
    PROVE  \E x : Rests(x)
<1> DEFINE s == mgr.state
           x == Executed(mgr, a)
<1>1. a \in SpendActions
  BY DEF CombatTitle
<1>2. WellFormed(s)
  BY DEF AtPeace, Ordered
<1>3. /\ CanApply(a, s)
      /\ ExecutedAll(mgr, <<a>>) = Runner!Ran(x) /\ IsManager(x)
      /\ WellFormed(x.state)
      /\ x.state.units = s.units /\ x.state.engine = s.engine
      /\ x.state.session = s.session
      /\ x.state.turn.current_faction = s.turn.current_faction
  BY <1>1, <1>2, SpendingRun
<1> HIDE DEF x
<1>4. SameFolk(s, x.state)
  BY <1>3 DEF SameFolk, Present
<1>5. AtPeace(x.state) /\ Calm(s, x.state)
  BY <1>3, <1>4, StaysInPeace
<1>6. Answers(Runner!Ran(x), x.state)
  <2>1. Runner!Run(Runner!Ran(mgr), <<a>>) = Runner!Ran(x)
    BY <1>3, RunIs
  <2>2. Runner!Ran(x).m = x
    BY RunIs
  <2> QED BY <1>3, <2>1, <2>2 DEF RequestPlain
<1> QED BY <1>3, <1>5, <1>6, AnswersInPeace DEF FightStep

LEMMA PatchAnswers ==
    ASSUME CombatTitle, IsManager(mgr), AtPeace(mgr.state),
           NEW f, NEW a \in PatchRequests, RequestPatch(f, a)
    PROVE  \E x : Rests(x)
<1> DEFINE s == mgr.state
           u == a.unit_id
           x == Executed(mgr, a)
           unit == [s.units[u] EXCEPT
                      !.attributes = Merge(Without(@, a.patch.remove_keys), a.patch.values)]
<1>1. a.kind = "PatchAttributes" /\ u \in Units
  BY ServerAssumption DEF PatchAttributes
<1>2. WellFormed(s)
  BY DEF AtPeace, Ordered
<1>3. ActiveIn(s, u) /\ Present(s, u) /\ DOMAIN s.units[u] = UnitFields
  BY <1>1, <1>2 DEF RequestPatch, WellFormed, ActiveIn
<1>4. CanApply(a, s) /\ Apply(a, s) = WithUnit(s, u, unit)
  BY <1>1, <1>3 DEF CanApply, Apply, ApplyPatchAttributes
<1>5. /\ DOMAIN unit = UnitFields /\ unit.position = s.units[u].position
      /\ unit.faction = s.units[u].faction /\ unit.active = s.units[u].active
  BY <1>3 DEF UnitFields
<1>6. IsManager(x) /\ x.state = Apply(a, s)
  BY <1>4, ExecutedIs
<1>7. ExecutedAll(mgr, <<a>>) = Runner!Ran(x)
  BY <1>4, RunOfOne
<1> HIDE DEF x, unit
<1>8. LET t == WithUnit(s, u, unit)
      IN  /\ WellFormed(t) /\ t.turn = s.turn /\ t.engine = s.engine /\ t.session = s.session
          /\ t.units[u] = unit
          /\ \A w \in Units \ {u} : t.units[w] = s.units[w]
  BY <1>1, <1>2, <1>5, UnitWritten
<1>9. /\ WellFormed(x.state) /\ x.state.turn = s.turn /\ x.state.engine = s.engine
      /\ x.state.session = s.session /\ x.state.units[u] = unit
      /\ \A w \in Units \ {u} : x.state.units[w] = s.units[w]
  BY <1>4, <1>6, <1>8
<1>10. unit # None
  BY <1>5 DEF CombatTitle
<1>11. /\ SameFolk(s, x.state)
       /\ \A w \in Units : Present(s, w) => x.state.units[w].position = s.units[w].position
  <2>1. ASSUME NEW w \in Units
        PROVE  /\ Present(x.state, w) <=> Present(s, w)
               /\ Present(s, w) => /\ x.state.units[w].faction = s.units[w].faction
                                   /\ x.state.units[w].active = s.units[w].active
                                   /\ x.state.units[w].position = s.units[w].position
    <3>1. CASE w = u
      BY <1>3, <1>5, <1>9, <1>10, <3>1 DEF Present
    <3>2. CASE w # u
      BY <1>9, <3>2 DEF Present
    <3> QED BY <3>1, <3>2
  <2> QED BY <2>1 DEF SameFolk
<1>12. AtPeace(x.state) /\ Calm(s, x.state)
  BY <1>9, <1>11, StaysInPeace
<1>13. Answers(Runner!Ran(x), x.state)
  <2>1. Runner!Run(Runner!Ran(mgr), <<a>>) = Runner!Ran(x)
    BY <1>7, RunIs
  <2>2. Runner!Ran(x).m = x
    BY RunIs
  <2> QED BY <2>1, <2>2 DEF RequestPatch
<1> QED BY <1>6, <1>12, <1>13, AnswersInPeace DEF FightStep

\* The end of a phase, in the routine.
LEMMA PhaseAnswers ==
    ASSUME CombatTitle, IsManager(mgr), AtPeace(mgr.state), NEW f, RequestNextPhase(f)
    PROVE  \E x : Rests(x)
<1> DEFINE s == mgr.state
           x == Advanced(mgr)
<1>1. /\ s.engine.movement_arc = None /\ SegmentAllowsNextPhase(s)
      /\ AnswersOrFails(AdvancePhase(Runner!Ran(mgr)))
  BY DEF RequestNextPhase
<1>2. AtRoutine(s)
  <2>1. SUFFICES ASSUME NEW seg \in Gates, s.engine.cursor = CombatCursor(seg) PROVE FALSE
    <3>1. ~Walking(s)
      <4>1. None \notin MovementArcs
        BY NoneAssumption
      <4> QED BY <1>1, <4>1 DEF Walking, RetreatWalks
    <3>2. CASE AtRetreat(s)
      BY <2>1, <3>2 DEF AtRetreat, Gates
    <3>3. CASE AtAdvance(s)
      BY <2>1, <3>3 DEF AtAdvance, Gates
    <3> QED BY <3>1, <3>2, <3>3 DEF AtPeace
  <2> DEFINE c == CombatCursor(seg)
  <2>2. c # None
    BY CursorsExist DEF Gates, Retreats, CombatSegments
  <2>3. "NextPhase" \notin Runner!Segment(c).allowed_actions
    BY GateActions DEF Gates, Retreats
  <2> HIDE DEF c
  <2>4. s.engine.cursor = c
    BY <2>1 DEF c
  <2> QED BY <1>1, <2>2, <2>3, <2>4 DEF SegmentAllowsNextPhase
<1>3. WellFormed(s)
  BY DEF AtPeace, Ordered
<1>4. /\ AdvancePhase(Runner!Ran(mgr)) = Runner!Ran(x) /\ IsManager(x)
      /\ Ordered(x.state) /\ Quiet(x.state) /\ AtRoutine(x.state)
  BY <1>3, PhaseAdvances
<1> HIDE DEF x
<1>5. AtEase(x.state) /\ FightStep(mgr.state, x.state)
  BY <1>2, <1>4 DEF AtEase, FightStep, PhaseTurns
<1>6. AnswersOrFails(Runner!Ran(x))
  BY <1>1, <1>4
<1> QED BY <1>4, <1>5, <1>6, AnswersAtEase

\* One action is spent, and the phase ends with the last.
LEMMA SpentAfterMove ==
    ASSUME CombatTitle, NEW m, WellFormed(m.state)
    PROVE  \E x : /\ SpendAfterMove(Runner!Ran(m)) = Runner!Ran(x) /\ IsManager(x)
                  /\ WellFormed(x.state) /\ x.state.units = m.state.units
                  /\ \/ /\ x.state.engine = m.state.engine /\ x.state.session = m.state.session
                        /\ x.state.turn.current_faction = m.state.turn.current_faction
                     \/ Ordered(x.state) /\ Quiet(x.state) /\ AtRoutine(x.state)
<1> DEFINE a == Spending(1)
           y == Executed(m, a)
<1>1. a \in SpendActions
  BY DEF Spending, SpendActions
<1>2. SpendAfterMove(Runner!Ran(m)) = AdvanceIfSpent(Runner!Run(Runner!Ran(m), <<a>>))
  BY DEF SpendAfterMove, Spending
<1> HIDE DEF a
<1>3. /\ ExecutedAll(m, <<a>>) = Runner!Ran(y) /\ IsManager(y)
      /\ WellFormed(y.state)
      /\ y.state.units = m.state.units /\ y.state.engine = m.state.engine
      /\ y.state.session = m.state.session
      /\ y.state.turn.current_faction = m.state.turn.current_faction
  BY <1>1, SpendingRun
<1> HIDE DEF y
<1>4. SpendAfterMove(Runner!Ran(m)) = AdvanceIfSpent(Runner!Ran(y))
  BY <1>2, <1>3, RunIs
<1>5. /\ Runner!Ran(y).raised = FALSE /\ Runner!Ran(y).m = y
  BY RunIs
<1>6. CASE y.state.turn.phase_actions_remaining > 0
  <2>1. SpendAfterMove(Runner!Ran(m)) = Runner!Ran(y)
    BY <1>4, <1>5, <1>6 DEF AdvanceIfSpent
  <2> QED BY <1>3, <2>1
<1>7. CASE ~(y.state.turn.phase_actions_remaining > 0)
  <2> DEFINE x == Advanced(y)
  <2>1. SpendAfterMove(Runner!Ran(m)) = AdvancePhase(Runner!Ran(y))
    BY <1>4, <1>5, <1>7 DEF AdvanceIfSpent
  <2>2. /\ AdvancePhase(Runner!Ran(y)) = Runner!Ran(x) /\ IsManager(x)
        /\ x.state.units = y.state.units
        /\ Ordered(x.state) /\ Quiet(x.state) /\ AtRoutine(x.state)
    BY <1>3, PhaseAdvances
  <2> HIDE DEF x
  <2>3. WellFormed(x.state)
    BY <2>2 DEF Ordered
  <2> QED BY <1>3, <2>1, <2>2, <2>3
<1> QED BY <1>6, <1>7

\* A unit is moved in one go.
LEMMA MoveAnswers ==
    ASSUME CombatTitle, IsManager(mgr), AtPeace(mgr.state),
           NEW f, NEW u \in Units, NEW to, MoveAtOnce(f, u, Standing(u), to)
    PROVE  \E x : Rests(x)
<1> DEFINE s == mgr.state
           from == s.units[u].position
           a == MoveOf(u, from, to)
           y == Executed(mgr, a)
<1>1. /\ s.engine.movement_arc = None /\ ~OverlayIsActive(s) /\ Present(s, u)
      /\ AnswersAnyway(SpendAfterMove(Runner!Run(Runner!Ran(mgr), <<a>>)))
  BY DEF MoveAtOnce, NewMove, ValidMoveRequest, ActiveIn, Standing, MoveUnit, MoveOf
<1>2. AtRoutine(s)
  <2>1. ~Walking(s)
    <3>1. None \notin MovementArcs
      BY NoneAssumption
    <3> QED BY <1>1, <3>1 DEF Walking, RetreatWalks
  <2> QED BY <1>1, <2>1, OverlayAtGates DEF AtPeace
<1>3. Ordered(s) /\ WellFormed(s)
  BY DEF AtPeace, Ordered
<1>4. /\ CanApply(a, s) /\ IsManager(y) /\ WellFormed(y.state) /\ Drawn(s, y.state, {u}, to)
  BY <1>1, <1>3, UnitMoves
<1>5. Runner!Run(Runner!Ran(mgr), <<a>>) = Runner!Ran(y)
  <2>1. ExecutedAll(mgr, <<a>>) = Runner!Ran(y)
    BY <1>4, RunOfOne
  <2> QED BY <2>1, RunIs
<1> HIDE DEF y, a
<1>6. SameFolk(s, y.state)
  BY <1>1, <1>4, DrawnFolk
<1>7. /\ y.state.session = s.session /\ y.state.turn = s.turn /\ y.state.engine = s.engine
  BY <1>4 DEF Drawn
<1>8. PICK x : /\ SpendAfterMove(Runner!Ran(y)) = Runner!Ran(x) /\ IsManager(x)
               /\ WellFormed(x.state) /\ x.state.units = y.state.units
               /\ \/ /\ x.state.engine = y.state.engine /\ x.state.session = y.state.session
                     /\ x.state.turn.current_faction = y.state.turn.current_faction
                  \/ Ordered(x.state) /\ Quiet(x.state) /\ AtRoutine(x.state)
  BY <1>4, SpentAfterMove
<1>9. Answers(Runner!Ran(x), x.state)
  BY <1>1, <1>5, <1>8, AnswersRan
<1>10. CASE Ordered(x.state) /\ Quiet(x.state) /\ AtRoutine(x.state)
  <2>1. AtPeace(x.state) /\ FightStep(mgr.state, x.state)
    BY <1>2, <1>10 DEF AtPeace, FightStep, PhaseTurns
  <2> QED BY <1>8, <1>9, <2>1, AnswersInPeace
<1>11. CASE /\ x.state.engine = y.state.engine /\ x.state.session = y.state.session
            /\ x.state.turn.current_faction = y.state.turn.current_faction
  <2>1. x.state.engine = s.engine /\ x.state.session = s.session
        /\ x.state.turn.current_faction = s.turn.current_faction
    BY <1>7, <1>11
  <2>2. /\ Obligations(x.state) = Obligations(s) /\ AdvanceOffer(x.state) = AdvanceOffer(s)
        /\ AttacksThisPhase(x.state) = AttacksThisPhase(s)
        /\ LastCombat(x.state) = LastCombat(s)
    BY <2>1, SameBucket
  <2>3. SameFolk(s, x.state)
    BY <1>6, <1>8 DEF SameFolk, Present
  <2>4. OwesLess(s, x.state)
    BY <2>2 DEF OwesLess
  <2>5. Ordered(x.state)
    BY <1>3, <1>8, <2>1, <2>2, <2>3, <2>4, FolkInOrder
  <2>6. AtRoutine(x.state)
    BY <1>2, <2>1, <2>2 DEF AtRoutine
  <2>7. AtPeace(x.state) /\ FightStep(mgr.state, x.state)
    BY <1>2, <2>2, <2>5, <2>6 DEF AtPeace, FightStep, Calm
  <2> QED BY <1>8, <1>9, <2>7, AnswersInPeace
<1> QED BY <1>8, <1>10, <1>11

\* A title without windows and stepwise moves gets no request of theirs.
LEMMA NoStepwiseRequests ==
    ASSUME CombatTitle, AtPeace(mgr.state), NEW f
    PROVE  /\ \A from, to : ~ContinueMove(f, from, to)
           /\ \A u, from, to : ~OpenStepwise(f, u, from, to)
           /\ ~PassMovementInterrupt(f)
<1> DEFINE s == mgr.state
<1>1. ASSUME NEW from, NEW to, ContinueMove(f, from, to) PROVE FALSE
  <2>1. s.engine.movement_arc # None /\ ~s.engine.movement_arc.retreat_fulfillment
    BY <1>1 DEF ContinueMove, ContinueIsAccepted
  <2>2. Walking(s)
    BY <2>1 DEF AtPeace, AtRoutine, AtRetreat, AtAdvance
  <2> QED BY <2>1, <2>2 DEF Walking, RetreatWalks
<1>2. ASSUME NEW u, NEW from, NEW to, OpenStepwise(f, u, from, to) PROVE FALSE
  <2>1. u \in Stepwise
    BY <1>2 DEF OpenStepwise, MovesStepwise
  <2> QED BY <2>1 DEF CombatTitle
<1>3. ASSUME PassMovementInterrupt(f) PROVE FALSE
  <2> DEFINE arc == "movement"
             t == "PassMovementInterrupt"
             c == s.engine.cursor
  <2>1. IsTaken(Runner!SubmitEvent(mgr, arc, t, f, None))
    BY <1>3 DEF PassMovementInterrupt, PassIsAccepted, PassEvent
  <2>2. ~IsTaken(Runner!Rejected(mgr))
    BY RunIs DEF IsTaken, Runner!Rejected
  <2>3. c # None /\ c.arc_id = arc
    <3> HIDE DEF arc, t
    <3>1. c = None \/ c.arc_id # arc =>
             Runner!SubmitEvent(mgr, arc, t, f, None) = Runner!Rejected(mgr)
      BY DEF Runner!SubmitEvent
    <3> QED BY <2>1, <2>2, <3>1
  <2>4. Walking(s)
    BY <2>3, RestCursorsAre DEF AtPeace
  <2>5. c = StepCursor("continue")
    BY <2>4 DEF Walking
  <2>6. t \notin Runner!Segment(c).allowed_actions
    BY <2>5, GateActions
  <2>7. Runner!Segment(c).owner # "NO_OWNER"
    <3>1. c.arc_id = "movement" /\ c.segment_id = "continue"
      BY <2>5 DEF StepCursor
    <3> QED BY <3>1, ContinueSegment, OwnedFields
  <2> HIDE DEF arc, t, c
  <2>8. mgr.state.engine.cursor = c
    BY DEF c
  <2> QED BY <2>1, <2>3, <2>6, <2>7, <2>8, TakenIsAllowed
<1> QED BY <1>1, <1>2, <1>3

LEMMA RequestsRest ==
    ASSUME CombatTitle, IsManager(mgr), AtPeace(mgr.state), ActionRequest
    PROVE  \E x : Rests(x)
<1>1. CASE Moves
  <2>1. PICK f \in Factions, u \in {w \in Units : ActiveIn(mgr.state, w)}, to \in Hexes :
           OpenStepwise(f, u, Standing(u), to) \/ MoveAtOnce(f, u, Standing(u), to)
    BY <1>1, NoStepwiseRequests DEF Moves
  <2>2. u \in Units /\ MoveAtOnce(f, u, Standing(u), to)
    BY <2>1, NoStepwiseRequests
  <2> QED BY <2>2, MoveAnswers
<1>2. CASE \E f \in Factions : PassMovementInterrupt(f) \/ RequestNextPhase(f)
  BY <1>2, NoStepwiseRequests, PhaseAnswers
<1>3. CASE \E f \in Factions, a \in PlainRequests : RequestPlain(f, a)
  BY <1>3, SpendAnswers
<1>4. CASE \E f \in Factions, a \in PatchRequests : RequestPatch(f, a)
  BY <1>4, PatchAnswers
<1> QED BY <1>1, <1>2, <1>3, <1>4 DEF ActionRequest

LEMMA LoadRests ==
    ASSUME CombatTitle, NEW s \in Snapshots, LoadSnapshot(s)
    PROVE  \E x : Rests(x)
<1> DEFINE x == Manager(s)
<1>1. IsManager(x) /\ x.state = s
  BY DEF Manager, IsManager
<1>2. Answers(Runner!Ran(x), x.state)
  BY <1>1 DEF LoadSnapshot
<1> HIDE DEF x
<1>3. AtPeace(x.state) /\ FightStep(mgr.state, x.state)
  BY <1>1 DEF CombatTitle, FightStep
<1> QED BY <1>1, <1>2, <1>3, AnswersInPeace

LEMMA ForgetfulManager ==
    ASSUME NEW m, IsManager(m)
    PROVE  IsManager(Forgetful(m))
<1>1. CASE m.pointer - MaxUndo <= 0
  BY <1>1 DEF Forgetful
<1>2. CASE ~(m.pointer - MaxUndo <= 0)
  BY <1>2 DEF Forgetful, IsManager
<1> QED BY <1>1, <1>2

LEMMA InitAtRoutine ==
    ASSUME CombatTitle, Init
    PROVE  /\ IsManager(mgr) /\ Ordered(mgr.state) /\ AtRoutine(mgr.state)
           /\ published = mgr.state
           /\ SameBut(Scenario, mgr.state)
<1> DEFINE m == Manager(Scenario)
           x == InSlot(m)
<1>1. IsManager(m) /\ m.state = Scenario
  BY DEF Manager, IsManager
<1>2. /\ Ordered(Scenario) /\ Scenario.engine.movement_arc = None
      /\ DOMAIN Obligations(Scenario) = {} /\ AdvanceOffer(Scenario) = None
  BY DEF CombatTitle
<1>3. mgr = Forgetful(BeginRoutineSlot(Runner!Ran(m)).m) /\ published = mgr.state
  BY DEF Init
<1> HIDE DEF m
<1>4. /\ BeginRoutineSlot(Runner!Ran(m)) = Runner!Ran(x)
      /\ IsManager(x)
      /\ WellFormed(x.state) /\ SameBut(m.state, x.state)
      /\ x.state.engine.movement_arc = m.state.engine.movement_arc
      /\ \E arc \in DOMAIN RoutineActions : x.state.engine.cursor = RoutineCursor(arc)
  BY <1>1, <1>2, SlotBegins DEF Ordered
<1> HIDE DEF x
<1>5. mgr = Forgetful(x) /\ mgr.state = x.state
  BY <1>3, <1>4, RunIs, ForgetfulState
<1>6. Ordered(x.state)
  BY <1>1, <1>2, <1>4, KeepsOrder
<1>7. DOMAIN Obligations(x.state) = {} /\ AdvanceOffer(x.state) = None
  BY <1>1, <1>2, <1>4, SameBucket DEF SameBut
<1>8. AtRoutine(x.state)
  BY <1>1, <1>2, <1>4, <1>7 DEF AtRoutine
<1> QED BY <1>1, <1>3, <1>4, <1>5, <1>6, <1>8, ForgetfulManager

-----------------------------------------------------------------------------
(* 13. The attack. *)

\* The segment at the cursor lets a faction attack in the routine only.
LEMMA AttackAtRoutine ==
    ASSUME CombatTitle, NEW s, AtPeace(s), NEW f, ~SegmentDenies(s, f, "Attack")
    PROVE  AtRoutine(s)
<1> DEFINE c == s.engine.cursor
<1>1. c # None
  BY RestCursorsAre DEF AtPeace
<1>2. "Attack" \in Runner!Segment(c).allowed_actions
  BY <1>1 DEF SegmentDenies, SegmentAllows
<1>3. \A seg \in Gates : c # CombatCursor(seg)
  BY <1>2, GateActions DEF Gates, Retreats
<1>4. c # StepCursor("continue")
  BY <1>2, GateActions
<1> QED BY <1>3, <1>4 DEF AtPeace, AtRetreat, AtAdvance, Walking, Gates

AttackCursor == CombatCursor("attack")

\* The manager in which an attack is submitted.
Engages == Placed(mgr, AttackCursor)

LEMMA AttackPlaced ==
    ASSUME CombatTitle, WellFormed(mgr.state)
    PROVE  /\ \A f, a : AttackEvent(f, a) = Runner!SubmitEvent(Engages, "combat", "Attack", f, a)
           /\ IsManager(Engages)
           /\ WellFormed(Engages.state) /\ SameBut(mgr.state, Engages.state)
           /\ Engages.state.engine.cursor = AttackCursor
           /\ Engages.state.engine.movement_arc = mgr.state.engine.movement_arc
           /\ AttackCursor # None /\ AttackCursor.arc_id = "combat"
           /\ Runner!Segment(AttackCursor).owner = "CURRENT"
<1>1. SetCursor(Runner!Ran(mgr), Runner!CursorAt("combat", "attack")) = Runner!Ran(Engages)
  BY SetsCursor, CombatCursorAt DEF Engages, AttackCursor
<1>2. ASSUME NEW f, NEW a
      PROVE  AttackEvent(f, a) = Runner!SubmitEvent(Engages, "combat", "Attack", f, a)
  <2>1. SetCursor(Runner!Ran(mgr), Runner!CursorAt("combat", "attack")).m = Engages
    BY <1>1, RunIs
  <2> QED BY <2>1 DEF AttackEvent
<1>3. /\ IsManager(Engages)
      /\ WellFormed(Engages.state) /\ SameBut(mgr.state, Engages.state)
      /\ Engages.state.engine.cursor = AttackCursor
      /\ Engages.state.engine.movement_arc = mgr.state.engine.movement_arc
  BY PlacedState DEF Engages
<1>4. AttackCursor # None
  BY CursorsExist DEF AttackCursor, CombatSegments
<1>5. AttackCursor.arc_id = "combat"
  BY CombatCursorFields DEF AttackCursor
<1>6. Runner!Segment(AttackCursor).owner = "CURRENT"
  BY CombatOwners DEF AttackCursor
<1> QED BY <1>2, <1>3, <1>4, <1>5, <1>6

\* What becomes of an attack that is taken.
LEMMA AttackTaken ==
    ASSUME CombatTitle, WellFormed(mgr.state), NEW f, NEW a, IsTaken(AttackEvent(f, a))
    PROVE  /\ f = mgr.state.turn.current_faction
           /\ ~ValidAttack(Engages.state, f, a) => AttackEvent(f, a).run = Runner!Raised(Engages)
           /\ ValidAttack(Engages.state, f, a) =>
                 AttackEvent(f, a).run = Runner!AutoAdvance(Runner!MoveCursor(
                     ExecutedAll(Engages, AttackActions(Engages.state, a)), AttackCursor,
                     Goto("classify")))
<1> DEFINE m == Engages
           c == AttackCursor
           tr == AttackOn
           arc == "combat"
           ctx == ContextOf(m, f, a)
           event == AttackEvent(f, a)
<1>1. /\ event = Runner!SubmitEvent(m, arc, "Attack", f, a)
      /\ SameBut(mgr.state, m.state)
      /\ m.state.engine.cursor = c /\ c # None /\ c.arc_id = arc
      /\ Runner!Segment(c).owner = "CURRENT"
  BY AttackPlaced
<1>2. tr.trigger = "Attack" /\ tr.effect = "attack_arc_effect" /\ tr.target = Goto("classify")
  BY AnswerFields
<1>3. OnlyBy(c, tr)
  BY GateOnly DEF AttackCursor
<1>4. Runner!Segment(c).owner # "NO_OWNER"
  BY <1>1
<1> HIDE DEF m, c, tr, arc, event, ctx
<1>5. event = Runner!SubmitEvent(m, arc, tr.trigger, f, a) /\ IsTaken(event)
  BY <1>1, <1>2 DEF event
<1>6. Meets(m, c, arc, tr, f, a)
  BY <1>1, <1>3, <1>4, <1>5 DEF Meets
<1>7. Applies(m, c, arc, tr, f, a)
  BY <1>6, EventApplies
<1>8. f = mgr.state.turn.current_faction
  BY <1>1, <1>7, GateOwners DEF Applies, SameBut
<1>9. event.run = Runner!AutoAdvance(Runner!ApplyTransition(m, c, tr, ctx))
  BY <1>5, <1>7 DEF Applies, ctx
<1>10. ctx.state = m.state /\ ctx.owner = f /\ ctx.params = a
  BY ContextIs DEF ctx
<1>11. /\ OverlayRaises("attack_arc_effect", ctx) = ~ValidAttack(m.state, f, a)
       /\ EffectActions("attack_arc_effect", ctx) = AttackActions(m.state, a)
  BY <1>10, CombatEffectsAre, CombatRaisesAre
<1>12. ASSUME ~ValidAttack(m.state, f, a) PROVE event.run = Runner!Raised(m)
  <2>1. Runner!ApplyTransition(m, c, tr, ctx) = Runner!Raised(m)
    BY <1>2, <1>11, <1>12 DEF Runner!ApplyTransition
  <2>2. Runner!Ended(Runner!Raised(m))
    BY RunIs DEF Runner!Ended
  <2>3. Runner!AutoAdvance(Runner!Raised(m)) = Runner!Raised(m)
    BY <2>2, AutoAdvanceOnce
  <2> QED BY <1>9, <2>1, <2>3
<1>13. ASSUME ValidAttack(m.state, f, a)
       PROVE  event.run = Runner!AutoAdvance(Runner!MoveCursor(
                  ExecutedAll(m, AttackActions(m.state, a)), c, Goto("classify")))
  BY <1>2, <1>9, <1>11, <1>13, AppliesTransition
<1> QED BY <1>8, <1>12, <1>13 DEF m, c, event

\* The parties of an attack are judged by the units and the bucket alone.
LEMMA PartiesStay ==
    ASSUME NEW s, NEW t, SameBut(s, t), NEW f, NEW a, ValidParties(t, f, a)
    PROVE  ValidParties(s, f, a)
<1>1. t.units = s.units /\ t.session = s.session
  BY DEF SameBut
<1>2. AttacksThisPhase(t) = AttacksThisPhase(s)
  BY <1>1, SameBucket
<1>3. \A u : ActiveIn(t, u) = ActiveIn(s, u)
  BY <1>1, SameUnits
<1>4. WellFormedAttack(t, f, a) => WellFormedAttack(s, f, a)
  BY <1>1, <1>3 DEF WellFormedAttack
<1>5. AttackHexes(t, a.defenders) = AttackHexes(s, a.defenders)
  BY <1>1 DEF AttackHexes
<1>6. \A hexes : EnemiesOn(t, f, hexes) = EnemiesOn(s, f, hexes)
  BY <1>1, <1>3 DEF EnemiesOn
<1>7. \A u, hexes : CanHit(t, u, hexes) = CanHit(s, u, hexes)
  BY <1>1 DEF CanHit
<1> QED BY <1>2, <1>4, <1>5, <1>6, <1>7 DEF ValidParties

\* An attack that the rules refuse leaves the state as it was.
LEMMA RefuseRests ==
    ASSUME CombatTitle, IsManager(mgr), AtPeace(mgr.state),
           Walking(mgr.state) \/ published = mgr.state,
           NEW f, NEW a, RefuseAttack(f, a)
    PROVE  \E x : Rests(x)
<1> DEFINE s == mgr.state
           prior == s.engine.cursor
           x == Placed(Engages, prior)
<1>1. /\ ~SegmentDenies(s, f, "Attack") /\ ~ValidParties(s, f, a)
      /\ AttackEvent(f, a).run.raised
      /\ Fails(PutBack(AttackEvent(f, a).run.m, prior))
  BY DEF RefuseAttack, AttackIsRefused, AttackIsTried
<1>2. AtRoutine(s) /\ WellFormed(s)
  BY <1>1, AttackAtRoutine DEF AtPeace, Ordered
<1>3. IsTaken(AttackEvent(f, a))
  BY <1>1 DEF IsTaken
<1>4. ~ValidAttack(Engages.state, f, a)
  <2>1. SameBut(s, Engages.state)
    BY <1>2, AttackPlaced
  <2> QED BY <1>1, <2>1, PartiesStay DEF ValidAttack
<1>5. AttackEvent(f, a).run.m = Engages
  BY <1>2, <1>3, <1>4, AttackTaken, RunIs
<1>6. prior # None
  BY <1>2, RestCursorsAre
<1>7. PutBack(Engages, prior) = Runner!Ran(x)
  BY <1>6, SetsCursor DEF PutBack
<1>8. /\ IsManager(x) /\ WellFormed(x.state) /\ SameBut(Engages.state, x.state)
      /\ x.state.engine.cursor = prior
      /\ x.state.engine.movement_arc = Engages.state.engine.movement_arc
  BY <1>2, AttackPlaced, PlacedState
<1>9. /\ SameBut(s, Engages.state)
      /\ Engages.state.engine.movement_arc = s.engine.movement_arc
  BY <1>2, AttackPlaced
<1>10. x.state = s
  <2>1. /\ Engages.state = [s EXCEPT !.engine.cursor = AttackCursor]
        /\ x.state = [Engages.state EXCEPT !.engine.cursor = prior]
    BY Places DEF Engages
  <2> DEFINE c == AttackCursor
             e == s.engine
  <2>2. /\ s = [units |-> s.units, turn |-> s.turn, engine |-> e, session |-> s.session,
                rng_log |-> s.rng_log]
        /\ e = [cursor |-> e.cursor, movement_arc |-> e.movement_arc]
    BY <1>2 DEF WellFormed
  <2> HIDE DEF c, x, e
  <2>3. [s EXCEPT !.engine.cursor = c] = [s EXCEPT !.engine = [e EXCEPT !.cursor = c]]
    BY DEF e
  <2>4. Engages.state = [s EXCEPT !.engine = [e EXCEPT !.cursor = c]]
    BY <2>1, <2>3 DEF c
  <2>5. Engages.state.engine = [e EXCEPT !.cursor = c]
    BY <2>2, <2>4
  <2>6. x.state = [Engages.state EXCEPT !.engine = [Engages.state.engine EXCEPT !.cursor = prior]]
    BY <2>1
  <2>7. [Engages.state.engine EXCEPT !.cursor = prior] = e
    <3>1. [[e EXCEPT !.cursor = c] EXCEPT !.cursor = e.cursor] = e
      BY <2>2
    <3> QED BY <2>5, <3>1 DEF e
  <2> HIDE DEF prior
  <2>8. x.state = [[s EXCEPT !.engine = [e EXCEPT !.cursor = c]] EXCEPT !.engine = e]
    BY <2>4, <2>6, <2>7
  <2> QED BY <2>2, <2>8 DEF e
<1> HIDE DEF x
<1>11. mgr' = Forgetful(x) /\ published' = published
  BY <1>1, <1>5, <1>7, RunIs DEF Fails
<1>12. published = s
  <2>1. ~Walking(s)
    <3>1. None \notin MovementArcs
      BY NoneAssumption
    <3> QED BY <1>2, <3>1 DEF Walking, RetreatWalks, AtRoutine
  <2> QED BY <2>1
<1>13. AtPeace(x.state) /\ FightStep(mgr.state, x.state)
  BY <1>2, <1>10 DEF FightStep, Calm
<1> QED BY <1>8, <1>10, <1>11, <1>12, <1>13 DEF Rests

LEMMA RunOfThree ==
    ASSUME NEW m, NEW a, NEW b, NEW c,
           CanApply(a, m.state), CanApply(b, Executed(m, a).state),
           CanApply(c, Executed(Executed(m, a), b).state)
    PROVE  ExecutedAll(m, <<a, b, c>>) = Runner!Ran(Executed(Executed(Executed(m, a), b), c))
<1>1. ASSUME NEW list, DOMAIN list = 1..3, list[1] = a, list[2] = b, list[3] = c
      PROVE  ExecutedAll(m, list) = Runner!Ran(Executed(Executed(Executed(m, a), b), c))
  <2> DEFINE n == 3
  <2>1. n \in Nat /\ DOMAIN list = 1..n
    BY <1>1
  <2> HIDE DEF n
  <2>2. PICK g : /\ g[0] = Runner!Ran(m)
                 /\ \A k \in 0..(n - 1) : g[k + 1] = ExecStep(None, g[k], list[k + 1])
                 /\ ExecutedAll(m, list) = g[n]
    BY <2>1, ExecutedAllUnrolled
  <2>3. g[1] = ExecStep(None, g[0], a) /\ g[2] = ExecStep(None, g[1], b)
        /\ g[3] = ExecStep(None, g[2], c)
    <3>1. 0 \in 0..(n - 1) /\ 1 \in 0..(n - 1) /\ 2 \in 0..(n - 1)
      BY DEF n
    <3>2. g[0 + 1] = ExecStep(None, g[0], list[0 + 1])
          /\ g[1 + 1] = ExecStep(None, g[1], list[1 + 1])
          /\ g[2 + 1] = ExecStep(None, g[2], list[2 + 1])
      BY <2>2, <3>1
    <3>3. 0 + 1 = 1 /\ 1 + 1 = 2 /\ 2 + 1 = 3
      OBVIOUS
    <3> QED BY <1>1, <3>2, <3>3
  <2>4. g[1] = Runner!Ran(Executed(m, a))
    BY <2>2, <2>3, ExecStepIs, RunIs
  <2>5. g[2] = Runner!Ran(Executed(Executed(m, a), b))
    BY <2>3, <2>4, ExecStepIs, RunIs
  <2>6. g[3] = Runner!Ran(Executed(Executed(Executed(m, a), b), c))
    BY <2>3, <2>5, ExecStepIs, RunIs
  <2> QED BY <2>2, <2>6 DEF n
<1> DEFINE l == <<a, b, c>>
<1>2. DOMAIN l = 1..3 /\ l[1] = a /\ l[2] = b /\ l[3] = c
  OBVIOUS
<1> HIDE DEF l
<1>3. ExecutedAll(m, l) = Runner!Ran(Executed(Executed(Executed(m, a), b), c))
  BY <1>1, <1>2
<1> QED BY <1>3 DEF l

\* The units are on the board as before, on the same side and where they were; some may
\* be active no longer.
SamePlaces(s, t) ==
    \A u \in Units : /\ Present(t, u) <=> Present(s, u)
                     /\ Present(s, u) => /\ t.units[u].faction = s.units[u].faction
                                         /\ t.units[u].position = s.units[u].position

\* The attack itself does nothing to the units.
LEMMA AttackStrikes ==
    ASSUME NEW s, WellFormed(s), NEW a, NEW f,
           a.attackers \in Seq(Units) \ {<<>>}, a.defenders \in Seq(Units) \ {<<>>},
           WellFormedAttack(s, f, a)
    PROVE  LET p == AttackAction(s, a)
               t == Apply(p, s)
           IN  /\ CanApply(p, s)
               /\ WellFormed(t) /\ SameBoard(s, t) /\ t.session = s.session
<1> DEFINE p == AttackAction(s, a)
           t == Apply(p, s)
           outcome == EngineOutcome(s, a)
<1>1. /\ p.kind = "Attack" /\ p.attacker_ids = Range(a.attackers)
      /\ p.attacker_id = a.attackers[1] /\ p.defender_ids = Range(a.defenders)
      /\ p.outcome = outcome
  BY DEF AttackAction
<1>2. outcome # "defender_destroyed"
  BY DEF EngineOutcome
<1>3. Destroyed(p) = {}
  BY <1>1, <1>2 DEF Destroyed
<1>4. a.attackers[1] \in Range(a.attackers)
  <2>1. 1 \in DOMAIN a.attackers
    BY EmptySeq
  <2> QED BY <2>1 DEF Range
<1> HIDE DEF p, outcome
<1>5. CanAttack(p, s)
  <2>1. \A u \in Range(a.attackers) : ActiveIn(s, u) /\ s.units[u].faction = f
    BY DEF WellFormedAttack
  <2>2. \A u \in Range(a.defenders) : ActiveIn(s, u) /\ s.units[u].faction # f
    BY DEF WellFormedAttack
  <2> QED BY <1>1, <1>4, <2>1, <2>2 DEF CanAttack
<1>6. CanApply(p, s)
  BY <1>1, <1>5 DEF CanApply
<1> DEFINE log == s.rng_log \o p.rng_entry
<1>7. t = [WithActive(s, {}, FALSE) EXCEPT !.rng_log = log]
  BY <1>1, <1>3 DEF Apply, ApplyAttack
<1> HIDE DEF log, t
<1>8. s.units = [u \in Units |-> s.units[u]]
  BY DEF WellFormed
<1>9. WithActive(s, {}, FALSE) = [s EXCEPT !.units = s.units]
  <2>1. [u \in Units |-> IF u \in {} THEN [s.units[u] EXCEPT !.active = FALSE] ELSE s.units[u]]
          = [u \in Units |-> s.units[u]]
    OBVIOUS
  <2> QED BY <1>8, <2>1 DEF WithActive
<1>10. s = [units |-> s.units, turn |-> s.turn, engine |-> s.engine, session |-> s.session,
            rng_log |-> s.rng_log]
  BY DEF WellFormed
<1>11. t = [units |-> s.units, turn |-> s.turn, engine |-> s.engine, session |-> s.session,
            rng_log |-> log]
  BY <1>7, <1>9, <1>10
<1>12. /\ t.units = s.units /\ t.turn = s.turn /\ t.engine = s.engine
       /\ t.session = s.session /\ t.rng_log = log
  BY <1>11
<1>13. t = [units |-> t.units, turn |-> t.turn, engine |-> t.engine, session |-> t.session,
            rng_log |-> t.rng_log]
  BY <1>11, <1>12
<1>14. \A u : Present(t, u) = Present(s, u)
  BY <1>12 DEF Present
<1>15. WellFormed(t)
  BY <1>12, <1>13, <1>14 DEF WellFormed
<1> QED BY <1>6, <1>12, <1>15 DEF SameBoard, t, p

\* Steps are lost, units are disrupted or removed; nobody moves.
LEMMA EffectsTell ==
    ASSUME CombatTitle, NEW s, WellFormed(s), NEW q, q.kind = "CombatEffects",
           q.deactivate \subseteq Units, DOMAIN q.patches \subseteq Units,
           \A u \in q.deactivate \cup DOMAIN q.patches : Present(s, u)
    PROVE  LET t == Apply(q, s)
           IN  /\ CanApply(q, s)
               /\ WellFormed(t) /\ t.turn = s.turn /\ t.engine = s.engine
               /\ t.session = s.session /\ SamePlaces(s, t)
<1> DEFINE t == Apply(q, s)
           patched(u) == IF u \in DOMAIN q.patches
                         THEN [s.units[u] EXCEPT !.attributes = Merge(@, q.patches[u])]
                         ELSE s.units[u]
           struck == [s EXCEPT !.units = [u \in Units |-> patched(u)]]
           new == [u \in Units |-> IF u \in q.deactivate
                                   THEN [struck.units[u] EXCEPT !.active = FALSE]
                                   ELSE struck.units[u]]
<1>1. CanApply(q, s)
  BY DEF CanApply
<1>2. t = [struck EXCEPT !.units = new]
  BY DEF Apply, ApplyCombatEffects, WithActive
<1>3. s = [units |-> s.units, turn |-> s.turn, engine |-> s.engine, session |-> s.session,
           rng_log |-> s.rng_log]
  BY DEF WellFormed
<1>4. struck.units = [u \in Units |-> patched(u)]
  BY <1>3
<1>5. ASSUME NEW u \in Units
      PROVE  /\ new[u] = IF u \in q.deactivate THEN [patched(u) EXCEPT !.active = FALSE]
                         ELSE patched(u)
  BY <1>4
<1>6. t = [units |-> new, turn |-> s.turn, engine |-> s.engine, session |-> s.session,
           rng_log |-> s.rng_log]
  <2> HIDE DEF new, t
  <2>1. struck = [units |-> struck.units, turn |-> s.turn, engine |-> s.engine,
                  session |-> s.session, rng_log |-> s.rng_log]
    BY <1>3
  <2> HIDE DEF struck
  <2> QED BY <1>2, <2>1
<1>7. new = [u \in Units |-> new[u]]
  OBVIOUS
<1> HIDE DEF new, t, struck
<1>8. /\ t.units = new /\ t.turn = s.turn /\ t.engine = s.engine
      /\ t.session = s.session /\ t.rng_log = s.rng_log
  BY <1>6
<1>9. t = [units |-> t.units, turn |-> t.turn, engine |-> t.engine, session |-> t.session,
           rng_log |-> t.rng_log]
  BY <1>6, <1>8
<1>10. ASSUME NEW u \in Units
       PROVE  /\ Present(t, u) <=> Present(s, u)
              /\ Present(s, u) => /\ DOMAIN t.units[u] = UnitFields
                                  /\ t.units[u].faction = s.units[u].faction
                                  /\ t.units[u].position = s.units[u].position
  <2>1. CASE ~Present(s, u)
    BY <1>5, <1>8, <2>1 DEF Present
  <2>2. CASE Present(s, u)
    <3>1. DOMAIN s.units[u] = UnitFields
      BY <2>2 DEF WellFormed
    <3>2. /\ DOMAIN patched(u) = UnitFields
          /\ patched(u).faction = s.units[u].faction
          /\ patched(u).position = s.units[u].position
      BY <3>1 DEF UnitFields
    <3> HIDE DEF patched
    <3>3. /\ DOMAIN new[u] = UnitFields
          /\ new[u].faction = s.units[u].faction
          /\ new[u].position = s.units[u].position
      BY <1>5, <3>2 DEF UnitFields
    <3>4. DOMAIN None # UnitFields
      BY DEF CombatTitle
    <3>5. Present(t, u)
      BY <1>8, <3>3, <3>4 DEF Present
    <3> QED BY <1>8, <2>2, <3>3, <3>5
  <2> QED BY <2>1, <2>2
<1>11. WellFormed(t)
  BY <1>7, <1>8, <1>9, <1>10 DEF WellFormed
<1> QED BY <1>1, <1>8, <1>10, <1>11 DEF SamePlaces, t

\* Whom a result strikes.
LEMMA StacksAreOnBoard ==
    ASSUME NEW s, NEW u
    PROVE  /\ StackOf(s, u) \subseteq Units
           /\ \A w \in StackOf(s, u) : /\ ActiveIn(s, w) /\ Present(s, w)
                                       /\ s.units[w].faction = s.units[u].faction
BY DEF StackOf, ActiveAt, ActiveIn

LEMMA EffectsOnBoard ==
    ASSUME NEW s, NEW a
    PROVE  LET q == CombatEffectsOf(s, a)
           IN  /\ q.kind = "CombatEffects"
               /\ q.deactivate \subseteq Units /\ DOMAIN q.patches \subseteq Units
               /\ \A u \in q.deactivate \cup DOMAIN q.patches : Present(s, u)
<1> DEFINE L == LoseStep(s, a)
           D == BecomeDisrupted(s, a)
           lost == {u \in L : Attribute(s, u, "steps_lost") > 0}
           weakened == L \ lost
           patches == [u \in weakened \cup D |->
                         IF u \in weakened THEN FirstLoss(s, u) ELSE [disrupted |-> 1]]
           q == CombatEffectsOf(s, a)
<1>1. q = [kind |-> "CombatEffects", deactivate |-> lost, patches |-> patches]
  BY DEF CombatEffectsOf
<1>2. DOMAIN patches = weakened \cup D
  OBVIOUS
<1> DEFINE A == StackOf(s, Anchor(s, a))
           B == StackOf(s, a.primary_attacker) \cup StackOf(s, a.primary_defender)
<1>3. L \in {A, B, {}} /\ D \in {A, {}}
  <2> HIDE DEF A, B
  <2>1. L \in {A, B, {}}
    <3>1. CASE Result(s, a) = "LOSS"
      BY <3>1 DEF LoseStep, A
    <3>2. CASE Result(s, a) = "EXCHANGE"
      BY <3>2 DEF LoseStep, B
    <3>3. CASE Result(s, a) # "LOSS" /\ Result(s, a) # "EXCHANGE"
      BY <3>3 DEF LoseStep
    <3> QED BY <3>1, <3>2, <3>3
  <2>2. D \in {A, {}}
    BY DEF BecomeDisrupted, A
  <2> QED BY <2>1, <2>2
<1>4. A \subseteq Units /\ B \subseteq Units /\ \A u \in A \cup B : Present(s, u)
  BY StacksAreOnBoard
<1> HIDE DEF A, B, L, D, patches
<1>5. lost \subseteq L /\ weakened \subseteq L
  OBVIOUS
<1> HIDE DEF lost, weakened
<1>6. q.kind = "CombatEffects" /\ q.deactivate = lost /\ q.patches = patches
  BY <1>1
<1>7. \A u \in L \cup D : u \in Units /\ Present(s, u)
  BY <1>3, <1>4
<1> QED BY <1>2, <1>5, <1>6, <1>7 DEF q

LEMMA DistanceIs == \A s, a : RetreatDistance(s, a) \in {0, 1, 3}
<1> SUFFICES ASSUME NEW s, NEW a PROVE RetreatDistance(s, a) \in {0, 1, 3}
  OBVIOUS
<1>1. CASE Result(s, a) = "RETREAT"
  BY <1>1 DEF RetreatDistance
<1>2. CASE Result(s, a) = "ROUT"
  BY <1>2 DEF RetreatDistance
<1>3. CASE Result(s, a) # "RETREAT" /\ Result(s, a) # "ROUT"
  BY <1>3 DEF RetreatDistance
<1> QED BY <1>1, <1>2, <1>3

LEMMA EmptyDomain == DOMAIN Empty = {}
BY DEF Empty

\* What the attack on s leaves in the bucket, after its effects led to t.
Tells(s, a, t, values, removed) ==
    /\ BucketAfterAttack(s, t, a) = Patch(values, removed)
    /\ removed \subseteq {"disrupt_instead_offered"}
    /\ DOMAIN values \subseteq {"attacks_this_phase", "retreat_obligations",
                                "last_combat", "disrupt_instead_offered"}
    /\ {"attacks_this_phase", "retreat_obligations", "last_combat"} \subseteq DOMAIN values
    /\ values["attacks_this_phase"] = AttacksThisPhase(t) \o a.attackers
    /\ values["last_combat"] = CombatRecord(s, a)
    /\ LET owed == values["retreat_obligations"]
       IN  /\ DOMAIN owed \subseteq StackOf(t, Anchor(s, a))
           /\ \E k \in {1, 3} : \A u \in DOMAIN owed : owed[u] = k

LEMMA BucketTells ==
    ASSUME NEW s, NEW a, NEW t, DOMAIN Obligations(t) = {}
    PROVE  \E values, removed : Tells(s, a, t, values, removed)
<1> DEFINE new == NewObligations(s, t, a)
           owed == Merge(Obligations(t), new)
           offered == Result(s, a) = "RETREAT" /\ owed # Empty
           fought == AttacksThisPhase(t) \o a.attackers
           record == CombatRecord(s, a)
           base == [attacks_this_phase |-> fought, retreat_obligations |-> owed,
                    last_combat |-> record]
           extra == IF offered THEN [disrupt_instead_offered |-> TRUE] ELSE Empty
           values == Merge(base, extra)
           removed == IF offered THEN {} ELSE {"disrupt_instead_offered"}
           S == StackOf(t, Anchor(s, a))
           d == RetreatDistance(s, a)
<1>1. BucketAfterAttack(s, t, a) = Patch(values, removed)
  BY DEF BucketAfterAttack
<1>2. /\ DOMAIN new \subseteq S
      /\ \E k \in {1, 3} : \A u \in DOMAIN new : new[u] = k
  <2>1. CASE d = 0 \/ ~ActiveIn(t, Anchor(s, a))
    <3>1. new = Empty
      BY <2>1 DEF NewObligations
    <3> HIDE DEF new
    <3> QED BY <3>1, EmptyDomain
  <2>2. CASE ~(d = 0 \/ ~ActiveIn(t, Anchor(s, a)))
    <3>1. new = [u \in S |-> d]
      BY <2>2 DEF NewObligations
    <3>2. d \in {1, 3}
      BY <2>2, DistanceIs
    <3> HIDE DEF new, S, d
    <3> QED BY <3>1, <3>2
  <2> QED BY <2>1, <2>2
<1> HIDE DEF new, S, d
<1>3. DOMAIN owed = DOMAIN new /\ \A u \in DOMAIN new : owed[u] = new[u]
  BY DEF Merge
<1> HIDE DEF owed, fought, record
<1>4. DOMAIN extra \subseteq {"disrupt_instead_offered"}
  <2>1. CASE offered
    <3>1. extra = [disrupt_instead_offered |-> TRUE]
      BY <2>1
    <3> QED BY <3>1
  <2>2. CASE ~offered
    BY <2>2, EmptyDomain
  <2> QED BY <2>1, <2>2
<1>5. removed \subseteq {"disrupt_instead_offered"}
  OBVIOUS
<1> HIDE DEF offered, extra, removed
<1>6. /\ DOMAIN base = {"attacks_this_phase", "retreat_obligations", "last_combat"}
      /\ base["attacks_this_phase"] = fought /\ base["retreat_obligations"] = owed
      /\ base["last_combat"] = record
  OBVIOUS
<1> HIDE DEF base
<1>7. /\ DOMAIN values = DOMAIN base \cup DOMAIN extra
      /\ \A k \in DOMAIN base : k \notin DOMAIN extra => values[k] = base[k]
  BY DEF Merge
<1> HIDE DEF values
<1>8. /\ values["attacks_this_phase"] = fought /\ values["retreat_obligations"] = owed
      /\ values["last_combat"] = record
  BY <1>4, <1>6, <1>7
<1>9. /\ DOMAIN values \subseteq {"attacks_this_phase", "retreat_obligations",
                                  "last_combat", "disrupt_instead_offered"}
      /\ {"attacks_this_phase", "retreat_obligations", "last_combat"} \subseteq DOMAIN values
  BY <1>4, <1>6, <1>7
<1>10. /\ DOMAIN values["retreat_obligations"] \subseteq S
       /\ \E k \in {1, 3} : \A u \in DOMAIN values["retreat_obligations"] :
             values["retreat_obligations"][u] = k
  BY <1>2, <1>3, <1>8
<1>11. Tells(s, a, t, values, removed)
  BY <1>1, <1>5, <1>8, <1>9, <1>10 DEF fought, record, S, Tells
<1> QED BY <1>11

\* The attack is recorded; whoever must retreat for it is of one faction and still there.
LEMMA AttackRun ==
    ASSUME CombatTitle, NEW m, IsManager(m), Ordered(m.state), DOMAIN Obligations(m.state) = {},
           NEW a, a.attackers \in Seq(Units) \ {<<>>}, a.defenders \in Seq(Units) \ {<<>>},
           WellFormedAttack(m.state, m.state.turn.current_faction, a)
    PROVE  \E x : /\ ExecutedAll(m, AttackActions(m.state, a)) = Runner!Ran(x)
                  /\ IsManager(x) /\ Ordered(x.state)
                  /\ x.state.turn = m.state.turn /\ x.state.engine = m.state.engine
                  /\ AdvanceOffer(x.state) = AdvanceOffer(m.state)
                  /\ AttacksThisPhase(x.state) = AttacksThisPhase(m.state) \o a.attackers
<1> DEFINE s == m.state
           f == s.turn.current_faction
           p == AttackAction(s, a)
           q == CombatEffectsOf(s, a)
           struck == Apply(p, s)
           after == Apply(q, struck)
           b == BucketAfterAttack(s, after, a)
           m1 == Executed(m, p)
           m2 == Executed(m1, q)
           x == Executed(m2, b)
<1>1. WellFormed(s) /\ Owed(s) /\ Fought(s)
  BY DEF Ordered
<1>2. /\ CanApply(p, s)
      /\ WellFormed(struck) /\ SameBoard(s, struck) /\ struck.session = s.session
  BY <1>1, AttackStrikes
<1>3. /\ q.kind = "CombatEffects"
      /\ q.deactivate \subseteq Units /\ DOMAIN q.patches \subseteq Units
      /\ \A u \in q.deactivate \cup DOMAIN q.patches : Present(s, u)
  BY EffectsOnBoard
<1>4. AttackActions(s, a) = <<p, q, b>>
  BY DEF AttackActions
<1>5. IsManager(m1) /\ m1.state = struck
  BY <1>2, ExecutedIs
<1> HIDE DEF p, q, struck
<1>6. \A u : Present(struck, u) = Present(s, u)
  BY <1>2, SameUnits DEF SameBoard
<1>7. /\ CanApply(q, struck)
      /\ WellFormed(after) /\ after.turn = struck.turn /\ after.engine = struck.engine
      /\ after.session = struck.session /\ SamePlaces(struck, after)
  <2>1. \A u \in q.deactivate \cup DOMAIN q.patches : Present(struck, u)
    BY <1>3, <1>6
  <2> QED BY <1>2, <1>3, <2>1, EffectsTell
<1>8. IsManager(m2) /\ m2.state = after
  BY <1>5, <1>7, ExecutedIs
<1> HIDE DEF after
<1>9. /\ after.turn = s.turn /\ after.engine = s.engine /\ after.session = s.session
      /\ SamePlaces(s, after)
  <2>1. struck.units = s.units /\ struck.turn = s.turn /\ struck.engine = s.engine
    BY <1>2 DEF SameBoard
  <2> QED BY <1>2, <1>6, <1>7, <2>1 DEF SamePlaces
<1>10. /\ DOMAIN Obligations(after) = {} /\ AdvanceOffer(after) = AdvanceOffer(s)
       /\ AttacksThisPhase(after) = AttacksThisPhase(s)
  <2>1. Obligations(after) = Obligations(s) /\ AdvanceOffer(after) = AdvanceOffer(s)
        /\ AttacksThisPhase(after) = AttacksThisPhase(s)
    BY <1>9, SameBucket
  <2> QED BY <2>1
<1>a. PICK values, removed : Tells(s, a, after, values, removed)
  BY <1>10, BucketTells
<1>11. /\ b = Patch(values, removed)
       /\ removed \subseteq {"disrupt_instead_offered"}
       /\ DOMAIN values \subseteq {"attacks_this_phase", "retreat_obligations",
                                   "last_combat", "disrupt_instead_offered"}
       /\ {"attacks_this_phase", "retreat_obligations", "last_combat"} \subseteq DOMAIN values
       /\ values["attacks_this_phase"] = AttacksThisPhase(after) \o a.attackers
       /\ values["last_combat"] = CombatRecord(s, a)
       /\ LET owed == values["retreat_obligations"]
          IN  /\ DOMAIN owed \subseteq StackOf(after, Anchor(s, a))
              /\ \E k \in {1, 3} : \A u \in DOMAIN owed : owed[u] = k
  BY <1>a DEF Tells
<1> HIDE DEF b
<1>12. CanApply(b, after)
  BY <1>11, PatchIs
<1>13. IsManager(x) /\ x.state = Apply(b, after)
  BY <1>8, <1>12, ExecutedIs
<1>14. ExecutedAll(m, <<p, q, b>>) = Runner!Ran(x)
  BY <1>2, <1>5, <1>7, <1>8, <1>12, RunOfThree
<1> HIDE DEF m1, m2, x
<1>15. /\ WellFormed(x.state) /\ SameBoard(after, x.state)
       /\ \A key, default : InBucket(x.state, key, default) =
             IF key \in removed THEN default
             ELSE IF key \in DOMAIN values THEN values[key]
             ELSE InBucket(after, key, default)
  BY <1>7, <1>11, <1>13, PatchedBucket
<1> DEFINE owed == values["retreat_obligations"]
<1>16. /\ Obligations(x.state) = owed
       /\ AttacksThisPhase(x.state) = AttacksThisPhase(s) \o a.attackers
       /\ LastCombat(x.state) = CombatRecord(s, a)
       /\ AdvanceOffer(x.state) = AdvanceOffer(s)
  <2>1. InBucket(x.state, "retreat_obligations", Empty) = owed
    BY <1>11, <1>15
  <2>2. InBucket(x.state, "attacks_this_phase", <<>>) = values["attacks_this_phase"]
    BY <1>11, <1>15
  <2>3. InBucket(x.state, "last_combat", None) = CombatRecord(s, a)
    BY <1>11, <1>15
  <2>4. InBucket(x.state, "advance", None) = InBucket(after, "advance", None)
    BY <1>11, <1>15
  <2>5. Obligations(x.state) = owed
    BY <2>1 DEF Obligations
  <2>6. AttacksThisPhase(x.state) = values["attacks_this_phase"]
    BY <2>2 DEF AttacksThisPhase
  <2>7. LastCombat(x.state) = CombatRecord(s, a)
    BY <2>3 DEF LastCombat
  <2>8. AdvanceOffer(x.state) = AdvanceOffer(after)
    BY <2>4 DEF AdvanceOffer
  <2> QED BY <1>10, <1>11, <2>5, <2>6, <2>7, <2>8
<1>17. x.state.units = after.units /\ x.state.turn = s.turn /\ x.state.engine = s.engine
  BY <1>9, <1>15 DEF SameBoard
<1>18. Owed(x.state)
  <2>1. \A u \in DOMAIN owed : /\ u \in Units /\ ActiveIn(after, u)
                               /\ after.units[u].faction = after.units[Anchor(s, a)].faction
    BY <1>11, StacksAreOnBoard
  <2>2. PICK k \in {1, 3} : \A u \in DOMAIN owed : owed[u] = k
    BY <1>11
  <2>3. \A u : ActiveIn(x.state, u) = ActiveIn(after, u)
    BY <1>17, SameUnits
  <2> HIDE DEF owed
  <2> QED BY <1>16, <1>17, <2>1, <2>2, <2>3 DEF Owed
<1>19. Fought(x.state)
  <2>1. AttacksThisPhase(x.state) \in Seq(Units)
    BY <1>1, <1>16 DEF Fought
  <2>2. CombatRecord(s, a).attackers = a.attackers
    BY DEF CombatRecord
  <2>3. ASSUME NEW n \in DOMAIN a.attackers
        PROVE  /\ Present(x.state, a.attackers[n])
               /\ x.state.units[a.attackers[n]].faction = f
    <3> DEFINE u == a.attackers[n]
    <3>1. u \in Range(a.attackers) /\ u \in Units
      BY DEF Range
    <3> HIDE DEF u
    <3>2. ActiveIn(s, u) /\ s.units[u].faction = f
      BY <3>1 DEF WellFormedAttack
    <3>3. Present(after, u) /\ after.units[u].faction = f
      BY <1>9, <3>1, <3>2 DEF SamePlaces, ActiveIn
    <3>4. Present(x.state, u) /\ x.state.units[u].faction = f
      BY <1>17, <3>3 DEF Present
    <3> QED BY <3>4 DEF u
  <2> QED BY <1>16, <1>17, <2>1, <2>2, <2>3 DEF Fought
<1>20. Ordered(x.state)
  BY <1>15, <1>18, <1>19 DEF Ordered
<1> QED BY <1>4, <1>13, <1>14, <1>16, <1>17, <1>20

\* The dice add to the request, and change nothing of it.
LEMMA DiceAdd ==
    ASSUME NEW a \in Assaults, NEW dice \in Dice
    PROVE  LET b == Merge(a, dice)
           IN  b.attackers \in Seq(Units) \ {<<>>} /\ b.defenders \in Seq(Units) \ {<<>>}
<1> DEFINE b == Merge(a, dice)
           A == Seq(Units) \ {<<>>}
<1>1. a \in [attackers: A, defenders: A, primary_attacker: Units, primary_defender: Units]
  BY EngagementAssumption
<1>2. dice \in [roll: Nat, passed: BOOLEAN]
  BY EngagementAssumption
<1> HIDE DEF A
<1>3. /\ DOMAIN a = {"attackers", "defenders", "primary_attacker", "primary_defender"}
      /\ a.attackers \in A /\ a.defenders \in A
  BY <1>1
<1>4. DOMAIN dice = {"roll", "passed"}
  BY <1>2
<1>5. b.attackers = a.attackers /\ b.defenders = a.defenders
  BY <1>3, <1>4 DEF Merge
<1> HIDE DEF b
<1>6. b.attackers \in A /\ b.defenders \in A
  BY <1>3, <1>5
<1> QED BY <1>6 DEF A, b

\* How the engagement goes on from the attack.
LEMMA AttackSettles ==
    ASSUME CombatTitle, NEW y, IsManager(y), Ordered(y.state), AdvanceOffer(y.state) = None,
           y.state.engine.movement_arc = None
    PROVE  \E x : /\ RestoreRoutineCursor(Runner!AutoAdvance(
                        Runner!MoveCursor(Runner!Ran(y), AttackCursor, Goto("classify"))))
                        = Runner!Ran(x)
                  /\ IsManager(x) /\ Ordered(x.state) /\ SameFight(y.state, x.state)
                  /\ AtEase(x.state)
<1> DEFINE seg == "classify"
           z == Placed(y, CombatCursor(seg))
<1>1. Runner!MoveCursor(Runner!Ran(y), AttackCursor, Goto("classify")) = Runner!Ran(z)
  BY CombatNextCursors, MovesCursor DEF AttackCursor
<1>2. seg \in SettleSegments
  BY DEF SettleSegments
<1> HIDE DEF seg
<1>3. /\ IsManager(z) /\ WellFormed(z.state) /\ SameBut(y.state, z.state)
      /\ z.state.engine.cursor = CombatCursor(seg)
      /\ z.state.engine.movement_arc = None
  BY PlacedState DEF Ordered
<1> HIDE DEF z
<1>4. Ordered(z.state)
  BY <1>3, KeepsOrder
<1>5. /\ Obligations(z.state) = Obligations(y.state)
      /\ AttacksThisPhase(z.state) = AttacksThisPhase(y.state)
      /\ LastCombat(z.state) = LastCombat(y.state)
      /\ AdvanceOffer(z.state) = None
  BY <1>3, SameBucket DEF SameBut
<1>6. PICK x : /\ RestoreRoutineCursor(Runner!AutoAdvance(Runner!Ran(z))) = Runner!Ran(x)
               /\ IsManager(x) /\ Ordered(x.state) /\ SameFight(z.state, x.state)
               /\ AtEase(x.state)
  BY <1>2, <1>3, <1>4, <1>5, Settles
<1>7. SameFight(y.state, x.state)
  BY <1>3, <1>5, <1>6 DEF SameFight, SameBut
<1> QED BY <1>1, <1>6, <1>7

LEMMA AttackRests ==
    ASSUME CombatTitle, IsManager(mgr), AtPeace(mgr.state),
           NEW f, NEW a \in Assaults, NEW dice \in Dice, Attack(f, a, dice)
    PROVE  \E x : Rests(x)
<1> DEFINE s == mgr.state
           b == Merge(a, dice)
           event == AttackEvent(f, b)
           m == Engages
<1>1. /\ ~SegmentDenies(s, f, "Attack") /\ event.ok /\ ~event.run.raised
      /\ AnswersOrFails(AdvanceIfAllAttacked(RestoreRoutineCursor(event.run)))
  BY DEF Attack, AttackIsTried
<1>2. AtRoutine(s) /\ Ordered(s) /\ WellFormed(s)
  BY <1>1, AttackAtRoutine DEF AtPeace, Ordered
<1>3. b.attackers \in Seq(Units) \ {<<>>} /\ b.defenders \in Seq(Units) \ {<<>>}
  BY DiceAdd
<1> HIDE DEF b
<1>4. IsTaken(event)
  BY <1>1 DEF IsTaken
<1>5. /\ f = s.turn.current_faction
      /\ ~ValidAttack(m.state, f, b) => event.run = Runner!Raised(m)
      /\ ValidAttack(m.state, f, b) =>
            event.run = Runner!AutoAdvance(Runner!MoveCursor(
                ExecutedAll(m, AttackActions(m.state, b)), AttackCursor, Goto("classify")))
  BY <1>2, <1>4, AttackTaken
<1> HIDE DEF event
<1>6. ValidAttack(m.state, f, b)
  BY <1>1, <1>5, RunIs
<1>7. /\ IsManager(m) /\ WellFormed(m.state) /\ SameBut(s, m.state)
      /\ m.state.engine.movement_arc = None
  BY <1>2, AttackPlaced DEF AtRoutine
<1> HIDE DEF m
<1>8. Ordered(m.state) /\ m.state.turn.current_faction = f
  BY <1>2, <1>5, <1>7, KeepsOrder DEF SameBut
<1>9. /\ DOMAIN Obligations(m.state) = {} /\ AdvanceOffer(m.state) = None
      /\ AttacksThisPhase(m.state) = AttacksThisPhase(s)
  BY <1>2, <1>7, SameBucket DEF SameBut, AtRoutine
<1>10. /\ WellFormedAttack(m.state, f, b)
       /\ \A u \in Range(b.attackers) : u \notin Range(AttacksThisPhase(m.state))
  BY <1>6 DEF ValidAttack, ValidParties
<1>11. PICK y : /\ ExecutedAll(m, AttackActions(m.state, b)) = Runner!Ran(y)
                /\ IsManager(y) /\ Ordered(y.state)
                /\ y.state.turn = m.state.turn /\ y.state.engine = m.state.engine
                /\ AdvanceOffer(y.state) = AdvanceOffer(m.state)
                /\ AttacksThisPhase(y.state) = AttacksThisPhase(m.state) \o b.attackers
  BY <1>3, <1>7, <1>8, <1>9, <1>10, AttackRun
<1>12. PICK x : /\ RestoreRoutineCursor(Runner!AutoAdvance(
                        Runner!MoveCursor(Runner!Ran(y), AttackCursor, Goto("classify"))))
                        = Runner!Ran(x)
                /\ IsManager(x) /\ Ordered(x.state) /\ SameFight(y.state, x.state)
                /\ AtEase(x.state)
  BY <1>7, <1>9, <1>11, AttackSettles
<1>13. AnswersOrFails(AdvanceIfAllAttacked(Runner!Ran(x)))
  BY <1>1, <1>5, <1>6, <1>11, <1>12
<1>14. AttacksThisPhase(x.state) = AttacksThisPhase(s) \o b.attackers
  BY <1>9, <1>11, <1>12 DEF SameFight
<1>15. Range(b.attackers) \cap Range(AttacksThisPhase(s)) = {}
  BY <1>9, <1>10
<1>16. CASE AdvanceIfAllAttacked(Runner!Ran(x)) = Runner!Ran(x)
  <2>1. Struck(s, x.state)
    BY <1>2, <1>3, <1>12, <1>14, <1>15 DEF Struck
  <2>2. FightStep(mgr.state, x.state)
    BY <2>1 DEF FightStep
  <2> QED BY <1>12, <1>13, <1>16, <2>2, AnswersAtEase
<1>17. CASE AdvanceIfAllAttacked(Runner!Ran(x)) = AdvancePhase(Runner!Ran(x))
  <2> DEFINE z == Advanced(x)
  <2>1. /\ AdvancePhase(Runner!Ran(x)) = Runner!Ran(z) /\ IsManager(z)
        /\ Ordered(z.state) /\ Quiet(z.state) /\ AtRoutine(z.state)
    BY <1>12, PhaseAdvances DEF Ordered
  <2> HIDE DEF z
  <2>2. AtEase(z.state)
    BY <2>1 DEF AtEase
  <2>3. Struck(s, z.state)
    BY <1>2, <1>3, <1>15, <2>1, <2>2 DEF Struck
  <2>4. FightStep(mgr.state, z.state)
    BY <2>3 DEF FightStep
  <2>5. AnswersOrFails(Runner!Ran(z))
    BY <1>13, <1>17, <2>1
  <2> QED BY <2>1, <2>2, <2>4, <2>5, AnswersAtEase
<1> QED BY <1>16, <1>17 DEF AdvanceIfAllAttacked

-----------------------------------------------------------------------------
(* 14. The retreat that is walked step by step, on the movement arc. *)

LEMMA StepNextCursors ==
    ASSUME NEW seg, NEW x
    PROVE  /\ ~Runner!TargetRaises(StepCursor(seg), Goto(x))
           /\ Runner!NextCursor(StepCursor(seg), Goto(x)) = StepCursor(x)
           /\ ~Runner!TargetRaises(StepCursor(seg), DONE)
           /\ Runner!NextCursor(StepCursor(seg), DONE) = None
<1>1. Goto(x).to = "GOTO" /\ Goto(x).segment = x /\ DONE.to = "DONE"
  BY DEF Goto, DONE
<1> DEFINE go == Goto(x)
           done == DONE
<1>2. go.to = "GOTO" /\ go.segment = x /\ done.to = "DONE"
  BY <1>1
<1> HIDE DEF go, done
<1>3. ~Runner!TargetRaises(StepCursor(seg), go) /\ ~Runner!TargetRaises(StepCursor(seg), done)
  BY <1>2 DEF Runner!TargetRaises
<1>4. Runner!NextCursor(StepCursor(seg), go) = [StepCursor(seg) EXCEPT !.segment_id = x]
  BY <1>2 DEF Runner!NextCursor
<1>5. [StepCursor(seg) EXCEPT !.segment_id = x] = StepCursor(x)
  BY DEF StepCursor
<1>6. Runner!NextCursor(StepCursor(seg), done) = None
  BY <1>2 DEF Runner!NextCursor
<1> QED BY <1>3, <1>4, <1>5, <1>6 DEF go, done

\* The guards at the end of a step.
LEMMA ResolveGuards ==
    ASSUME NEW ctx, NEW flow, flow = ctx.state.engine.movement_arc, flow # None
    PROVE  /\ GuardPasses("path_complete", ctx) <=> PathComplete(flow)
           /\ GuardPasses("step_opened_interrupts", ctx) <=> flow.interrupt_queue # <<>>
           /\ GuardPasses("always", ctx)
<1>1. GuardPasses("path_complete", ctx) <=> PathComplete(flow)
  BY DEF GuardPasses
<1>2. GuardPasses("step_opened_interrupts", ctx) <=> flow.interrupt_queue # <<>>
  BY DEF GuardPasses
<1>3. GuardPasses("always", ctx)
  BY DEF GuardPasses
<1> QED BY <1>1, <1>2, <1>3

FinishOn == On("AUTO", "path_complete", "finish_path", DONE)
WindowOn == On("AUTO", "step_opened_interrupts", "none", Interrupt("interrupt", "continue"))
FurtherOn == On("AUTO", "always", "none", Goto("continue"))

LEMMA ResolveTransitions ==
    LET T == Runner!Segment(StepCursor("step_resolve")).transitions
    IN  DOMAIN T = 1..3 /\ T[1] = FinishOn /\ T[2] = WindowOn /\ T[3] = FurtherOn
<1>1. Runner!Segment(StepCursor("step_resolve")).transitions = <<FinishOn, WindowOn, FurtherOn>>
  BY CursorFields, StepResolveSegment DEF Owned, FinishOn, WindowOn, FurtherOn
<1> QED BY <1>1

LEMMA ResolveFields ==
    /\ FinishOn.trigger = "AUTO" /\ WindowOn.trigger = "AUTO" /\ FurtherOn.trigger = "AUTO"
    /\ FinishOn.guard = "path_complete" /\ FinishOn.effect = "finish_path"
    /\ FinishOn.target = DONE
    /\ WindowOn.guard = "step_opened_interrupts"
    /\ FurtherOn.guard = "always" /\ FurtherOn.effect = "none"
    /\ FurtherOn.target = Goto("continue")
BY OnFields DEF FinishOn, WindowOn, FurtherOn

\* The automatic step after a step that opened no window.
LEMMA ResolveStep ==
    ASSUME CombatTitle, NEW m, m.state.engine.cursor = StepCursor("step_resolve"),
           NEW flow, flow = m.state.engine.movement_arc, flow # None, flow.interrupt_queue = <<>>
    PROVE  Runner!AutoStep(m) =
             Runner!ApplyTransition(m, StepCursor("step_resolve"),
                                    IF PathComplete(flow) THEN FinishOn ELSE FurtherOn,
                                    AutoContext(m.state))
<1> DEFINE c == StepCursor("step_resolve")
           ctx == AutoContext(m.state)
           T == Runner!Segment(c).transitions
           P == Runner!Passing(Runner!Segment(c), ctx, "AUTO")
           tr == IF PathComplete(flow) THEN FinishOn ELSE FurtherOn
           n == 3
           auto == "AUTO"
<1>1. DOMAIN T = 1..3 /\ T[1] = FinishOn /\ T[2] = WindowOn /\ T[3] = FurtherOn
  BY ResolveTransitions
<1>2. flow = ctx.state.engine.movement_arc
  BY DEF AutoContext
<1> HIDE DEF ctx, c, T
<1>3. /\ GuardPasses("path_complete", ctx) <=> PathComplete(flow)
      /\ ~GuardPasses("step_opened_interrupts", ctx)
      /\ GuardPasses("always", ctx)
  BY <1>2, ResolveGuards
<1>4. n \in Nat /\ DOMAIN T = 1..n /\ 1 \in 1..n /\ 3 \in 1..n
      /\ \A i \in 1..n : (i < 3 => i = 1 \/ i = 2) /\ ~(i < 1)
  BY <1>1
<1>5. T[1].trigger = auto /\ T[2].trigger = auto /\ T[3].trigger = auto
  BY <1>1, ResolveFields
<1>6. PathComplete(flow) => GuardPasses(T[1].guard, ctx)
  BY <1>1, <1>3, ResolveFields
<1>7. GuardPasses(T[3].guard, ctx) /\ ~GuardPasses(T[2].guard, ctx)
      /\ (~PathComplete(flow) => ~GuardPasses(T[1].guard, ctx))
  BY <1>1, <1>3, ResolveFields
<1> HIDE DEF n, auto
<1>8. PICK k \in 1..n : /\ T[k] = tr /\ T[k].trigger = auto /\ GuardPasses(T[k].guard, ctx)
                        /\ \A i \in 1..n : i < k => ~GuardPasses(T[i].guard, ctx)
  <2>1. CASE PathComplete(flow)
    <3>1. T[1] = tr
      BY <1>1, <2>1
    <3> QED BY <3>1, <1>4, <1>5, <1>6, <2>1
  <2>2. CASE ~PathComplete(flow)
    <3>1. T[3] = tr
      BY <1>1, <2>2
    <3> QED BY <3>1, <1>4, <1>5, <1>7, <2>2
  <2> QED BY <2>1, <2>2
<1> HIDE DEF tr
<1>9. /\ Runner!Passing(Runner!Segment(c), ctx, auto) # {}
      /\ Runner!FirstApplied(m, c, Runner!Passing(Runner!Segment(c), ctx, auto), ctx)
           = Runner!ApplyTransition(m, c, T[k], ctx)
  BY <1>4, <1>8, TransitionTaken DEF T
<1>10. P # {} /\ Runner!FirstApplied(m, c, P, ctx) = Runner!ApplyTransition(m, c, tr, ctx)
  BY <1>8, <1>9 DEF auto
<1>11. Runner!AutoStep(m) = IF P = {} THEN Runner!Raised(m)
                            ELSE Runner!FirstApplied(m, c, P, ctx)
  BY DEF Runner!AutoStep, ctx, AutoContext, c, P
<1> QED BY <1>10, <1>11 DEF tr, c, ctx

\* What the sync makes of a payload that waits for the next step.
LEMMA SyncsWalk ==
    ASSUME NEW m, NEW flow, flow = m.state.engine.movement_arc, flow # None,
           flow.gate = AwaitingContinue
    PROVE  SyncMovementCursor(Runner!Ran(m)) = Runner!Ran(Placed(m, StepCursor("continue")))
<1>1. flow.gate # AwaitingInterrupt
  BY GatesDiffer
<1>2. SyncMovementCursor(Runner!Ran(m)) = SetCursor(Runner!Ran(m), Runner!CursorAt("movement", "continue"))
  BY <1>1, RunIs DEF SyncMovementCursor
<1> QED BY <1>2, CursorsAt, SetsCursor

LEMMA SyncsRoutine ==
    ASSUME NEW m, m.state.engine.movement_arc = None
    PROVE  SyncMovementCursor(Runner!Ran(m))
             = RestoreRoutineCursor(Runner!Ran(Placed(m, None)))
<1>1. SyncMovementCursor(Runner!Ran(m)) = RestoreRoutineCursor(SetCursor(Runner!Ran(m), None))
  BY RunIs DEF SyncMovementCursor
<1> QED BY <1>1, SetsCursor

\* A step behind which the runner and the sync are through.
Lands(m, flow, x) ==
    /\ IsManager(x) /\ WellFormed(x.state) /\ SameBut(m.state, x.state)
    /\ IF PathComplete(flow)
       THEN /\ x.state.engine.movement_arc = None
            /\ \E arc \in DOMAIN RoutineActions : x.state.engine.cursor = RoutineCursor(arc)
       ELSE x.state.engine.movement_arc = flow /\ x.state.engine.cursor = StepCursor("continue")

LEMMA StepFinishes ==
    ASSUME CombatTitle, NEW z, WellFormed(z.state),
           z.state.engine.cursor = StepCursor("step_resolve"),
           NEW flow, flow = z.state.engine.movement_arc, flow # None, flow.interrupt_queue = <<>>,
           PathComplete(flow)
    PROVE  \E x : /\ SyncMovementCursor(Runner!AutoAdvance(Runner!Ran(z))) = Runner!Ran(x)
                  /\ Lands(z, flow, x)
<1> DEFINE c == StepCursor("step_resolve")
           ctx == AutoContext(z.state)
           v == Finished(z)
           w == Placed(v, None)
           p == Placed(w, None)
           x == InSlot(p)
<1>1. Runner!AutoStep(z) = Runner!ApplyTransition(z, c, FinishOn, ctx)
  BY ResolveStep
<1> HIDE DEF ctx
<1>2. /\ WellFormed(v.state) /\ SameBut(z.state, v.state) /\ v.state.engine.movement_arc = None
  BY FinishedState
<1>3. Runner!ApplyTransition(z, c, FinishOn, ctx) = Runner!Ran(w)
  <2> DEFINE acts == <<WriteArc(None)>>
             tr == FinishOn
  <2>1. tr.effect = "finish_path" /\ tr.target = DONE
    BY ResolveFields
  <2>2. ExecutedAll(z, acts) = Runner!Ran(v)
    BY Finishes
  <2>3. ~OverlayRaises("finish_path", ctx) /\ EffectActions("finish_path", ctx) = acts
    BY CombatRaisesAre, CombatEffectsAre
  <2> HIDE DEF acts, tr, v, c
  <2>4. Runner!ApplyTransition(z, c, tr, ctx) = Runner!MoveCursor(Runner!Ran(v), c, DONE)
    BY <2>1, <2>2, <2>3, AppliesTransition
  <2>5. Runner!MoveCursor(Runner!Ran(v), c, DONE) = Runner!Ran(w)
    BY StepNextCursors, MovesCursor DEF c
  <2> QED BY <2>4, <2>5 DEF tr
<1> HIDE DEF v
<1>4. /\ WellFormed(w.state) /\ SameBut(v.state, w.state)
      /\ w.state.engine.cursor = None /\ w.state.engine.movement_arc = None
  BY <1>2, PlacedState
<1>5. Runner!AutoAdvance(Runner!Ran(z)) = Runner!Ran(w)
  <2>1. z.state.engine.cursor # None
    BY CursorsExist DEF MovementSegments
  <2>2. Runner!Segment(z.state.engine.cursor).owner = "NO_OWNER"
    BY KnownSegmentOwner
  <2>3. w.state.engine.cursor \in CombatRests
    BY <1>4 DEF CombatRests
  <2> HIDE DEF w, c
  <2> QED BY <1>1, <1>3, <2>1, <2>2, <2>3, AutoOnce
<1> HIDE DEF w
<1>6. /\ WellFormed(p.state) /\ SameBut(w.state, p.state)
      /\ p.state.engine.cursor = None /\ p.state.engine.movement_arc = None
  BY <1>4, PlacedState
<1>7. SyncMovementCursor(Runner!Ran(w)) = RestoreRoutineCursor(Runner!Ran(p))
  BY <1>4, SyncsRoutine
<1> HIDE DEF p
<1>8. /\ BeginRoutineSlot(Runner!Ran(p)) = Runner!Ran(x)
      /\ IsManager(x) /\ WellFormed(x.state) /\ SameBut(p.state, x.state)
      /\ x.state.engine.movement_arc = None
      /\ \E arc \in DOMAIN RoutineActions : x.state.engine.cursor = RoutineCursor(arc)
  BY <1>6, SlotBegins
<1> HIDE DEF x
<1>9. SyncMovementCursor(Runner!AutoAdvance(Runner!Ran(z))) = Runner!Ran(x)
  BY <1>5, <1>6, <1>7, <1>8, RoutineRestored
<1>10. SameBut(z.state, x.state)
  BY <1>2, <1>4, <1>6, <1>8 DEF SameBut
<1>11. Lands(z, flow, x)
  BY <1>8, <1>10 DEF Lands
<1> QED BY <1>9, <1>11

LEMMA StepGoesOn ==
    ASSUME CombatTitle, NEW z, WellFormed(z.state),
           z.state.engine.cursor = StepCursor("step_resolve"),
           NEW flow, flow = z.state.engine.movement_arc, flow # None, flow.interrupt_queue = <<>>,
           flow.gate = AwaitingContinue, ~PathComplete(flow)
    PROVE  \E x : /\ SyncMovementCursor(Runner!AutoAdvance(Runner!Ran(z))) = Runner!Ran(x)
                  /\ Lands(z, flow, x)
<1> DEFINE c == StepCursor("step_resolve")
           d == StepCursor("continue")
           ctx == AutoContext(z.state)
           w == Placed(z, d)
           x == Placed(w, d)
<1>1. Runner!AutoStep(z) = Runner!ApplyTransition(z, c, FurtherOn, ctx)
  BY ResolveStep
<1> HIDE DEF ctx
<1>2. Runner!ApplyTransition(z, c, FurtherOn, ctx) = Runner!Ran(w)
  <2> DEFINE tr == FurtherOn
  <2>1. tr.effect = "none" /\ tr.target = Goto("continue")
    BY ResolveFields
  <2>2. ~Runner!TargetRaises(c, tr.target) /\ Runner!NextCursor(c, tr.target) = d
    BY <2>1, StepNextCursors
  <2> HIDE DEF tr, c, d
  <2> QED BY <2>1, <2>2, SettlesQuietly DEF tr
<1>3. /\ WellFormed(w.state) /\ SameBut(z.state, w.state)
      /\ w.state.engine.cursor = d /\ w.state.engine.movement_arc = flow
  BY PlacedState
<1>4. Runner!AutoAdvance(Runner!Ran(z)) = Runner!Ran(w)
  <2>1. z.state.engine.cursor # None
    BY CursorsExist DEF MovementSegments
  <2>2. Runner!Segment(z.state.engine.cursor).owner = "NO_OWNER"
    BY KnownSegmentOwner
  <2>3. w.state.engine.cursor \in CombatRests
    BY <1>3 DEF CombatRests
  <2> HIDE DEF w, c
  <2> QED BY <1>1, <1>2, <2>1, <2>2, <2>3, AutoOnce
<1> HIDE DEF w
<1>5. /\ IsManager(x) /\ WellFormed(x.state) /\ SameBut(w.state, x.state)
      /\ x.state.engine.cursor = d /\ x.state.engine.movement_arc = flow
  BY <1>3, PlacedState
<1>6. SyncMovementCursor(Runner!Ran(w)) = Runner!Ran(x)
  BY <1>3, SyncsWalk
<1> HIDE DEF x
<1>7. SameBut(z.state, x.state)
  BY <1>3, <1>5 DEF SameBut
<1>8. Lands(z, flow, x)
  BY <1>5, <1>7 DEF Lands
<1> QED BY <1>4, <1>6, <1>8

\* A step, once its actions are executed, ends on the next gate or back in the routine.
LEMMA StepLands ==
    ASSUME CombatTitle, NEW m, WellFormed(m.state), NEW seg,
           NEW flow, flow = m.state.engine.movement_arc, flow # None, flow.interrupt_queue = <<>>,
           flow.gate = AwaitingContinue
    PROVE  \E x : /\ SyncMovementCursor(Runner!AutoAdvance(Runner!MoveCursor(
                        Runner!Ran(m), StepCursor(seg), Goto("step_resolve")))) = Runner!Ran(x)
                  /\ Lands(m, flow, x)
<1> DEFINE z == Placed(m, StepCursor("step_resolve"))
<1>1. Runner!MoveCursor(Runner!Ran(m), StepCursor(seg), Goto("step_resolve")) = Runner!Ran(z)
  BY StepNextCursors, MovesCursor
<1>2. /\ WellFormed(z.state) /\ SameBut(m.state, z.state)
      /\ z.state.engine.cursor = StepCursor("step_resolve")
      /\ z.state.engine.movement_arc = flow
  BY PlacedState
<1> HIDE DEF z
<1>3. PICK x : /\ SyncMovementCursor(Runner!AutoAdvance(Runner!Ran(z))) = Runner!Ran(x)
               /\ Lands(z, flow, x)
  BY <1>2, StepFinishes, StepGoesOn
<1>4. Lands(m, flow, x)
  BY <1>2, <1>3 DEF Lands, SameBut
<1> QED BY <1>1, <1>3, <1>4

\* One unit goes to h; turn, bucket and the other units stay as they are.
Hops(s, t, u, h) ==
    /\ t.turn = s.turn /\ t.session = s.session
    /\ \A w \in Units \ {u} : t.units[w] = s.units[w]
    /\ Present(t, u) /\ t.units[u].position = h
    /\ t.units[u].faction = s.units[u].faction /\ t.units[u].active = s.units[u].active

\* A step of a retreat has been made on s: the unit stands on the next hex of its path, and
\* nothing else of the engagement has changed.
Stepping(s, m, flow) ==
    LET u == flow.unit_id
        t == m.state
    IN  /\ WellFormed(t) /\ flow = t.engine.movement_arc
        /\ flow \in MovementArcs /\ flow.retreat_fulfillment
        /\ flow.gate = AwaitingContinue /\ flow.interrupt_queue = <<>>
        /\ u \in DOMAIN Obligations(s)
        /\ Apart[flow.path[1]][Last(flow.path)] = Obligations(s)[u]
        /\ StartIn(s, u) = flow.path[1]
        /\ \A w \in Units \ {u} : StartIn(s, w) = s.units[w].position
        /\ Hops(s, t, u, flow.path[flow.step_index + 1])

LEMMA SteppingFolk ==
    ASSUME NEW s, Ordered(s), NEW m, NEW flow, Stepping(s, m, flow)
    PROVE  /\ SameFolk(s, m.state) /\ Ordered(m.state)
           /\ flow.unit_id \in Units
           /\ \A w \in Units \ {flow.unit_id} : m.state.units[w] = s.units[w]
           /\ m.state.units[flow.unit_id].position = flow.path[flow.step_index + 1]
<1> DEFINE t == m.state
           u == flow.unit_id
           at == flow.path[flow.step_index + 1]
<1>1. /\ WellFormed(t) /\ t.turn = s.turn /\ t.session = s.session
      /\ flow \in MovementArcs /\ u \in DOMAIN Obligations(s) /\ Hops(s, t, u, at)
  BY DEF Stepping, Hops
<1>3. u \in Units /\ ActiveIn(s, u)
  BY <1>1 DEF Ordered, Owed
<1>4. Present(s, u)
  BY <1>3 DEF ActiveIn, Present
<1> HIDE DEF at
<1>5. /\ \A w \in Units \ {u} : t.units[w] = s.units[w]
      /\ Present(t, u) /\ t.units[u].position = at
      /\ t.units[u].faction = s.units[u].faction /\ t.units[u].active = s.units[u].active
  BY <1>1 DEF Hops
<1>6. SameFolk(s, t)
  BY <1>3, <1>4, <1>5 DEF SameFolk, Present
<1>7. /\ Obligations(t) = Obligations(s) /\ AttacksThisPhase(t) = AttacksThisPhase(s)
      /\ LastCombat(t) = LastCombat(s)
  BY <1>1, SameBucket
<1>8. OwesLess(s, t)
  BY <1>7 DEF OwesLess
<1>9. Ordered(t)
  BY <1>1, <1>6, <1>7, <1>8, FolkInOrder
<1> QED BY <1>3, <1>5, <1>6, <1>9 DEF at

\* The walk goes on.
LEMMA WalkGoesOn ==
    ASSUME CombatTitle, AtPeace(mgr.state), InRetreat(mgr.state), NEW m, NEW flow,
           Stepping(mgr.state, m, flow), NEW x, Lands(m, flow, x), ~PathComplete(flow),
           NEW f, AnswersRetreatStep(Runner!Ran(x), f, flow.unit_id, flow.path)
    PROVE  Rests(x)
<1> DEFINE s == mgr.state
           t == m.state
<1>1. Ordered(s) /\ AdvanceOffer(s) = None
  BY DEF AtPeace, InRetreat, AtRetreat, Walking
<1>2. /\ Ordered(t) /\ flow.unit_id \in Units
      /\ t.units[flow.unit_id].position = flow.path[flow.step_index + 1]
  BY <1>1, SteppingFolk
<1>3. /\ t.session = s.session /\ flow \in MovementArcs /\ flow.retreat_fulfillment
      /\ flow.gate = AwaitingContinue /\ flow.interrupt_queue = <<>>
      /\ flow.unit_id \in DOMAIN Obligations(s)
      /\ Apart[flow.path[1]][Last(flow.path)] = Obligations(s)[flow.unit_id]
  BY DEF Stepping, Hops
<1>4. /\ IsManager(x) /\ WellFormed(x.state) /\ SameBut(t, x.state)
      /\ x.state.engine.movement_arc = flow /\ x.state.engine.cursor = StepCursor("continue")
  BY DEF Lands
<1>5. Ordered(x.state)
  BY <1>2, <1>4, KeepsOrder
<1>6. /\ Obligations(x.state) = Obligations(s) /\ AdvanceOffer(x.state) = None
      /\ AttacksThisPhase(x.state) = AttacksThisPhase(s)
  <2>1. x.state.session = s.session
    BY <1>3, <1>4 DEF SameBut
  <2> QED BY <1>1, <2>1, SameBucket
<1>7. x.state.units[flow.unit_id].position = flow.path[flow.step_index + 1]
  BY <1>2, <1>4 DEF SameBut
<1>8. flow.step_index < Len(flow.path) - 1
  <2>1. flow.step_index \in Nat /\ Len(flow.path) \in Nat
    BY <1>3 DEF MovementArcs
  <2> QED BY <2>1 DEF PathComplete
<1>9. RetreatWalks(x.state)
  BY <1>3, <1>4, <1>6, <1>7, <1>8 DEF RetreatWalks
<1>10. Walking(x.state)
  BY <1>4, <1>6, <1>9 DEF Walking
<1>11. AtPeace(x.state)
  BY <1>5, <1>10 DEF AtPeace
<1>12. FightStep(s, x.state)
  BY <1>6, <1>10 DEF FightStep, Calm, InRetreat
<1>13. flow # None
  BY <1>3, NoneAssumption
<1>14. AnswersOrFails(Runner!Ran(x))
  BY <1>4, <1>13, RunIs DEF AnswersRetreatStep
<1>15. Answers(Runner!Ran(x), x.state)
  BY <1>14, AnswersRan
<1>16. mgr' = Forgetful(x)
  BY <1>15, RunIs DEF Answers
<1> QED BY <1>4, <1>10, <1>11, <1>12, <1>16 DEF Rests

\* The title settles what the walk was for.
LEMMA CompletedRetreat ==
    ASSUME CombatTitle, NEW x, IsManager(x), Ordered(x.state),
           x.state.engine.movement_arc = None, AdvanceOffer(x.state) = None,
           NEW u \in DOMAIN Obligations(x.state), NEW f, NEW from, NEW to
    PROVE  LET s == x.state
               stack == RetreatStack(s, f, u, from)
           IN  \E z : /\ CompleteRetreat(Runner!Ran(x), f, u, from, to) = Runner!Ran(z)
                      /\ IsManager(z) /\ Ordered(z.state) /\ AtEase(z.state)
                      /\ DOMAIN Obligations(z.state) = DOMAIN Obligations(s) \ stack
                      /\ OwesLess(s, z.state)
                      /\ AttacksThisPhase(z.state) = AttacksThisPhase(s)
                      /\ \A w \in stack : z.state.units[w].position = to
<1> DEFINE s == x.state
           stack == RetreatStack(s, f, u, from)
           acts == RetreatStepActions(s, f, u, from, to)
           seg == "resolve"
<1>1. PICK y : /\ ExecutedAll(x, acts) = Runner!Ran(y)
               /\ IsManager(y) /\ Ordered(y.state)
               /\ y.state.turn = s.turn /\ y.state.engine = s.engine
               /\ DOMAIN Obligations(y.state) = DOMAIN Obligations(s) \ stack
               /\ OwesLess(s, y.state)
               /\ AttacksThisPhase(y.state) = AttacksThisPhase(s)
               /\ AdvanceOffer(y.state) = AdvanceOffer(s)
               /\ \A w \in stack : y.state.units[w].position = to
  BY RetreatStepRun
<1> DEFINE v == Placed(y, CombatCursor(seg))
<1>2. Runner!CursorAt("combat", seg) = CombatCursor(seg)
  BY CombatCursorAt
<1>3. Runner!Run(Runner!Ran(x), acts) = Runner!Ran(y)
  BY <1>1, RunIs
<1>4. CompleteRetreat(Runner!Ran(x), f, u, from, to)
        = RestoreRoutineCursor(Runner!AutoAdvance(SetCursor(Runner!Ran(y), CombatCursor(seg))))
  <2>1. CompleteRetreat(Runner!Ran(x), f, u, from, to)
          = RestoreRoutineCursor(Runner!AutoAdvance(
                SetCursor(Runner!Run(Runner!Ran(x), acts), Runner!CursorAt("combat", seg))))
    BY RunIs DEF CompleteRetreat
  <2> HIDE DEF acts, seg
  <2> QED BY <1>2, <1>3, <2>1
<1>5. SetCursor(Runner!Ran(y), CombatCursor(seg)) = Runner!Ran(v)
  BY SetsCursor
<1>6. seg \in SettleSegments
  BY DEF SettleSegments
<1> HIDE DEF seg, acts, stack
<1>7. /\ IsManager(v) /\ WellFormed(v.state) /\ SameBut(y.state, v.state)
      /\ v.state.engine.cursor = CombatCursor(seg)
      /\ v.state.engine.movement_arc = None
  BY <1>1, PlacedState DEF Ordered
<1> HIDE DEF v
<1>8. Ordered(v.state)
  BY <1>1, <1>7, KeepsOrder
<1>9. /\ Obligations(v.state) = Obligations(y.state)
      /\ AttacksThisPhase(v.state) = AttacksThisPhase(y.state)
      /\ AdvanceOffer(v.state) = None
  BY <1>1, <1>7, SameBucket DEF SameBut
<1>10. PICK z : /\ RestoreRoutineCursor(Runner!AutoAdvance(Runner!Ran(v))) = Runner!Ran(z)
                /\ IsManager(z) /\ Ordered(z.state) /\ SameFight(v.state, z.state)
                /\ AtEase(z.state)
  BY <1>6, <1>7, <1>8, <1>9, Settles
<1>11. CompleteRetreat(Runner!Ran(x), f, u, from, to) = Runner!Ran(z)
  BY <1>4, <1>5, <1>10
<1>12. /\ Obligations(z.state) = Obligations(y.state)
       /\ AttacksThisPhase(z.state) = AttacksThisPhase(s)
       /\ z.state.units = y.state.units
  BY <1>1, <1>7, <1>9, <1>10 DEF SameFight, SameBut
<1>13. OwesLess(s, z.state)
  BY <1>1, <1>12 DEF OwesLess
<1> QED BY <1>1, <1>10, <1>11, <1>12, <1>13 DEF stack

\* The walk is over: the stack has gone where the unit has.
LEMMA WalkEnds ==
    ASSUME CombatTitle, AtPeace(mgr.state), InRetreat(mgr.state), NEW m, NEW flow,
           Stepping(mgr.state, m, flow), NEW x, Lands(m, flow, x), PathComplete(flow),
           NEW f, AnswersRetreatStep(Runner!Ran(x), f, flow.unit_id, flow.path)
    PROVE  \E z : Rests(z)
<1> DEFINE s == mgr.state
           t == m.state
           u == flow.unit_id
           from == flow.path[1]
           to == Last(flow.path)
           stack == RetreatStack(x.state, f, u, from)
<1>1. Ordered(s) /\ Owed(s) /\ AdvanceOffer(s) = None
  BY DEF AtPeace, InRetreat, AtRetreat, Walking, Ordered
<1>2. /\ SameFolk(s, t) /\ Ordered(t) /\ u \in Units
      /\ \A w \in Units \ {u} : t.units[w] = s.units[w]
  BY <1>1, SteppingFolk
<1>3. /\ t.session = s.session /\ u \in DOMAIN Obligations(s)
      /\ Apart[from][to] = Obligations(s)[u]
      /\ StartIn(s, u) = from
      /\ \A w \in Units \ {u} : StartIn(s, w) = s.units[w].position
  BY DEF Stepping, Hops
<1>4. /\ IsManager(x) /\ WellFormed(x.state) /\ SameBut(t, x.state)
      /\ x.state.engine.movement_arc = None
  BY DEF Lands
<1> HIDE DEF from, to, u
<1>5. Ordered(x.state)
  BY <1>2, <1>4, KeepsOrder
<1>6. /\ Obligations(x.state) = Obligations(s) /\ AdvanceOffer(x.state) = None
      /\ AttacksThisPhase(x.state) = AttacksThisPhase(s)
      /\ x.state.units = t.units
  <2>1. x.state.session = s.session /\ x.state.units = t.units
    BY <1>3, <1>4 DEF SameBut
  <2> QED BY <1>1, <2>1, SameBucket
<1>7. PICK z : /\ CompleteRetreat(Runner!Ran(x), f, u, from, to) = Runner!Ran(z)
               /\ IsManager(z) /\ Ordered(z.state) /\ AtEase(z.state)
               /\ DOMAIN Obligations(z.state) = DOMAIN Obligations(x.state) \ stack
               /\ OwesLess(x.state, z.state)
               /\ AttacksThisPhase(z.state) = AttacksThisPhase(x.state)
               /\ \A w \in stack : z.state.units[w].position = to
  <2>1. u \in DOMAIN Obligations(x.state)
    BY <1>3, <1>6
  <2>2. x.state.engine.movement_arc = None /\ AdvanceOffer(x.state) = None /\ IsManager(x)
    BY <1>4, <1>6
  <2> HIDE DEF s, t
  <2> QED BY ONLY CombatTitle, <1>5, <2>1, <2>2, CompletedRetreat DEF stack
<1>8. AnswersOrFails(Runner!Ran(z))
  <2>1. AnswersOrFails(CompleteRetreat(Runner!Ran(x), f, u, from, to))
    BY <1>4, RunIs DEF AnswersRetreatStep, from, to, u
  <2> QED BY <1>7, <2>1
<1>9. ASSUME NEW w \in DOMAIN Obligations(s) \ DOMAIN Obligations(z.state)
      PROVE  Covered(s, z.state, w)
  <2>1. w \in stack /\ z.state.units[w].position = to
    BY <1>6, <1>7
  <2>2. Obligations(s)[w] = Obligations(s)[u] /\ w \in Units
    BY <1>1, <1>3 DEF Owed
  <2>3. StartIn(s, w) = from
    <3>1. CASE w = u
      BY <1>3, <3>1
    <3>2. CASE w # u
      <4>1. w \in ActiveAt(x.state, from)
        BY <2>1, <3>2 DEF stack, RetreatStack
      <4>2. x.state.units[w].position = from
        BY <4>1 DEF ActiveAt
      <4>3. s.units[w].position = from
        BY <1>2, <1>6, <2>2, <3>2, <4>2
      <4> QED BY <1>3, <2>2, <3>2, <4>3
    <3> QED BY <3>1, <3>2
  <2> QED BY <1>3, <2>1, <2>2, <2>3 DEF Covered
<1>10. u \in stack
  BY DEF stack, RetreatStack
<1>11. DOMAIN Obligations(z.state) # DOMAIN Obligations(s)
  BY <1>3, <1>6, <1>7, <1>10
<1>12. OwesLess(s, z.state)
  BY <1>6, <1>7 DEF OwesLess
<1>13. Yielded(s, z.state)
  BY <1>6, <1>7, <1>9, <1>11, <1>12 DEF Yielded
<1>14. FightStep(mgr.state, z.state)
  BY <1>13 DEF FightStep
<1> QED BY <1>7, <1>8, <1>14, AnswersAtEase

\* What an event of the movement arc leaves, once it has made its step.
LEMMA SteppedRests ==
    ASSUME CombatTitle, AtPeace(mgr.state), InRetreat(mgr.state), NEW m, NEW flow,
           Stepping(mgr.state, m, flow), NEW seg, NEW f,
           AnswersRetreatStep(SyncMovementCursor(Runner!AutoAdvance(Runner!MoveCursor(
               Runner!Ran(m), StepCursor(seg), Goto("step_resolve")))),
               f, flow.unit_id, flow.path)
    PROVE  \E x : Rests(x)
<1>1. /\ WellFormed(m.state) /\ flow = m.state.engine.movement_arc
      /\ flow # None /\ flow.interrupt_queue = <<>> /\ flow.gate = AwaitingContinue
  BY NoneAssumption DEF Stepping
<1>2. PICK x : /\ SyncMovementCursor(Runner!AutoAdvance(Runner!MoveCursor(
                        Runner!Ran(m), StepCursor(seg), Goto("step_resolve")))) = Runner!Ran(x)
               /\ Lands(m, flow, x)
  BY <1>1, StepLands
<1>3. AnswersRetreatStep(Runner!Ran(x), f, flow.unit_id, flow.path)
  BY <1>2
<1> QED BY <1>2, <1>3, WalkGoesOn, WalkEnds

-----------------------------------------------------------------------------
(* 15. The requests of a walk. *)

ContinueOn == On("MoveUnit", "matches_stepwise_step", "apply_step", Goto("step_resolve"))
OpenOn == On("MoveUnit", "matches_retreat_open", "open_retreat_step", Goto("step_resolve"))

LEMMA WalkTransitions ==
    /\ OnlyBy(StepCursor("continue"), ContinueOn)
    /\ OnlyBy(StepCursor("retreat_open"), OpenOn)
    /\ Runner!Segment(StepCursor("continue")).owner = "moving"
    /\ Runner!Segment(StepCursor("retreat_open")).owner = "retreating"
    /\ ContinueOn.trigger = "MoveUnit" /\ ContinueOn.guard = "matches_stepwise_step"
    /\ ContinueOn.effect = "apply_step" /\ ContinueOn.target = Goto("step_resolve")
    /\ OpenOn.trigger = "MoveUnit" /\ OpenOn.guard = "matches_retreat_open"
    /\ OpenOn.effect = "open_retreat_step" /\ OpenOn.target = Goto("step_resolve")
<1>1. Runner!Segment(StepCursor("continue")) = Owned("moving", {"MoveUnit"}, <<ContinueOn>>)
  BY CursorFields, ContinueSegment DEF ContinueOn
<1>2. Runner!Segment(StepCursor("retreat_open")) = Owned("retreating", {"MoveUnit"}, <<OpenOn>>)
  <2> DEFINE c == StepCursor("retreat_open")
  <2>1. c.arc_id = "movement" /\ c.segment_id = "retreat_open"
    BY CursorFields
  <2>2. "retreat_open" \in MovementSegments
    BY DEF MovementSegments
  <2>3. StepwiseArc.segments["retreat_open"] = Owned("retreating", {"MoveUnit"}, <<OpenOn>>)
    BY <2>2 DEF StepwiseArc, OpenOn
  <2> HIDE DEF c
  <2>4. Runner!Segment(c) = StepwiseArc.segments["retreat_open"]
    BY <2>1, <2>2, MovementSegment
  <2> QED BY <2>3, <2>4 DEF c
<1>3. OnlyBy(StepCursor("continue"), ContinueOn)
  <2> DEFINE T == Runner!Segment(StepCursor("continue")).transitions
  <2>1. T = <<ContinueOn>>
    BY <1>1, OwnedFields
  <2>2. DOMAIN T = 1..1 /\ T[1] = ContinueOn
    BY <2>1
  <2> HIDE DEF T
  <2> QED BY <2>2, OnlyOfOne DEF T
<1>4. OnlyBy(StepCursor("retreat_open"), OpenOn)
  <2> DEFINE T == Runner!Segment(StepCursor("retreat_open")).transitions
  <2>1. T = <<OpenOn>>
    BY <1>2, OwnedFields
  <2>2. DOMAIN T = 1..1 /\ T[1] = OpenOn
    BY <2>1
  <2> HIDE DEF T
  <2> QED BY <2>2, OnlyOfOne DEF T
<1>5. /\ Runner!Segment(StepCursor("continue")).owner = "moving"
      /\ Runner!Segment(StepCursor("retreat_open")).owner = "retreating"
  BY <1>1, <1>2, OwnedFields
<1>6. /\ ContinueOn.trigger = "MoveUnit" /\ ContinueOn.guard = "matches_stepwise_step"
      /\ ContinueOn.effect = "apply_step" /\ ContinueOn.target = Goto("step_resolve")
  BY OnFields DEF ContinueOn
<1>7. /\ OpenOn.trigger = "MoveUnit" /\ OpenOn.guard = "matches_retreat_open"
      /\ OpenOn.effect = "open_retreat_step" /\ OpenOn.target = Goto("step_resolve")
  BY OnFields DEF OpenOn
<1> QED BY <1>3, <1>4, <1>5, <1>6, <1>7

\* An action that writes the payload of the movement arc, and nothing else.
Writes(b, flow) ==
    \A t : WellFormed(t) =>
        /\ CanApply(b, t)
        /\ WellFormed(Apply(b, t)) /\ SameBut(t, Apply(b, t))
        /\ Apply(b, t).engine.movement_arc = flow
        /\ Apply(b, t).engine.cursor = t.engine.cursor

\* What the two actions of a step leave, the second of which writes the payload.
StepRun(m, u, from, to, b, flow) ==
    \E y : /\ ExecutedAll(m, <<MoveUnit(u, from, to), b>>) = Runner!Ran(y)
           /\ WellFormed(y.state) /\ y.state.engine.movement_arc = flow
           /\ Hops(m.state, y.state, u, to)

\* The two actions of a step.
LEMMA StepIsRun ==
    ASSUME CombatTitle, NEW m, WellFormed(m.state), NEW u \in Units, Present(m.state, u),
           NEW from, m.state.units[u].position = from, NEW to, NEW b, NEW flow, Writes(b, flow)
    PROVE  StepRun(m, u, from, to, b, flow)
<1> DEFINE s == m.state
           a == MoveUnit(u, from, to)
           x == Executed(m, a)
           y == Executed(x, b)
<1>1. a = MoveOf(u, from, to)
  BY DEF MoveUnit, MoveOf
<1>2. CanApply(a, s) /\ WellFormed(x.state) /\ Drawn(s, x.state, {u}, to)
  BY <1>1, UnitMoves
<1> HIDE DEF a, x
<1>3. /\ CanApply(b, x.state) /\ WellFormed(Apply(b, x.state))
      /\ SameBut(x.state, Apply(b, x.state))
      /\ Apply(b, x.state).engine.movement_arc = flow
  BY <1>2 DEF Writes
<1>4. y.state = Apply(b, x.state)
  BY <1>3, ExecutedIs
<1> HIDE DEF y
<1>5. ExecutedAll(m, <<a, b>>) = Runner!Ran(y)
  BY <1>2, <1>3, RunOfTwo DEF x, y
<1>6. WellFormed(y.state) /\ y.state.engine.movement_arc = flow /\ SameBut(x.state, y.state)
  BY <1>3, <1>4
<1>7. Hops(s, y.state, u, to)
  BY <1>2, <1>6 DEF Hops, Drawn, SameBut, Present
<1> QED BY <1>5, <1>6, <1>7 DEF a, StepRun

\* A step that opens no window leaves the turn alone.
LEMMA QuietStep ==
    ASSUME CombatTitle, NEW flow \in MovementArcs, flow.gate = AwaitingContinue,
           flow.interrupt_queue = <<>>, NEW s
    PROVE  LET g == ArcAfterStep(s, flow)
           IN  /\ TurnAfterStep(s, flow) = s.turn
               /\ g \in MovementArcs /\ g.unit_id = flow.unit_id /\ g.path = flow.path
               /\ g.step_index = flow.step_index
               /\ g.retreat_fulfillment = flow.retreat_fulfillment
               /\ g.gate = AwaitingContinue /\ g.interrupt_queue = <<>>
<1> DEFINE g == ArcAfterStep(s, flow)
           none == <<>>
<1>1. InterruptsAfterStep(flow) = none
  <2>1. CASE PathComplete(flow)
    BY <2>1 DEF InterruptsAfterStep
  <2>2. CASE ~PathComplete(flow)
    <3>1. flow.path[flow.step_index + 1] \in Hexes /\ flow.moving_faction \in Factions
      BY <2>2 DEF PathComplete, MovementArcs
    <3> QED BY <2>2, <3>1 DEF InterruptsAfterStep, CombatTitle
  <2> QED BY <2>1, <2>2
<1>2. none \in Seq(Factions) /\ flow.interrupt_queue = none
  OBVIOUS
<1>3. ArcAfterStep(s, flow) =
        IF PathComplete(flow) THEN [flow EXCEPT !.gate = AwaitingContinue]
        ELSE [flow EXCEPT !.gate = AwaitingContinue, !.interrupt_queue = none,
                          !.saved_turn = None]
  BY <1>1 DEF ArcAfterStep
<1>4. TurnAfterStep(s, flow) = s.turn
  BY <1>1 DEF TurnAfterStep
<1> HIDE DEF none
<1>5. g \in MovementArcs
  BY <1>2, <1>3, Zenon DEF MovementArcs
<1>6. /\ g.unit_id = flow.unit_id /\ g.path = flow.path
      /\ g.step_index = flow.step_index
      /\ g.retreat_fulfillment = flow.retreat_fulfillment
      /\ g.gate = AwaitingContinue /\ g.interrupt_queue = none
  BY <1>2, <1>3 DEF MovementArcs
<1> QED BY <1>4, <1>5, <1>6 DEF none

LEMMA StepWrites ==
    ASSUME CombatTitle, NEW flow \in MovementArcs, flow.gate = AwaitingContinue,
           flow.interrupt_queue = <<>>
    PROVE  \E g : /\ Writes(StepOf(flow), g)
                  /\ g \in MovementArcs /\ g.unit_id = flow.unit_id /\ g.path = flow.path
                  /\ g.step_index = flow.step_index
                  /\ g.retreat_fulfillment = flow.retreat_fulfillment
                  /\ g.gate = AwaitingContinue /\ g.interrupt_queue = <<>>
<1> DEFINE any == [turn |-> None]
           g == ArcAfterStep(any, flow)
           b == StepOf(flow)
<1>1. /\ g \in MovementArcs /\ g.unit_id = flow.unit_id /\ g.path = flow.path
      /\ g.step_index = flow.step_index
      /\ g.retreat_fulfillment = flow.retreat_fulfillment
      /\ g.gate = AwaitingContinue /\ g.interrupt_queue = <<>>
  BY QuietStep
<1>2. b.kind = "ArcStep" /\ b.flow = flow
  BY DEF StepOf
<1>3. \A t : ArcAfterStep(t, flow) = g
  <2>1. InterruptsAfterStep(flow) = <<>>
    <3>1. CASE PathComplete(flow)
      BY <3>1 DEF InterruptsAfterStep
    <3>2. CASE ~PathComplete(flow)
      <4>1. flow.path[flow.step_index + 1] \in Hexes /\ flow.moving_faction \in Factions
        BY <3>2 DEF PathComplete, MovementArcs
      <4> QED BY <3>2, <4>1 DEF InterruptsAfterStep, CombatTitle
    <3> QED BY <3>1, <3>2
  <2> QED BY <2>1 DEF ArcAfterStep
<1> HIDE DEF g, b, any
<1>4. ASSUME NEW t, WellFormed(t)
      PROVE  /\ CanApply(b, t)
             /\ WellFormed(Apply(b, t)) /\ SameBut(t, Apply(b, t))
             /\ Apply(b, t).engine.movement_arc = g
             /\ Apply(b, t).engine.cursor = t.engine.cursor
  <2>1. CanApply(b, t)
    BY <1>2 DEF CanApply
  <2>2. Apply(b, t) = ApplyArcStep(b, t)
    BY <1>2 DEF Apply
  <2>3. TurnAfterStep(t, flow) = t.turn
    BY QuietStep
  <2> DEFINE turn == TurnAfterStep(t, flow)
             arc == ArcAfterStep(t, flow)
             r == [t EXCEPT !.engine.movement_arc = g]
  <2>4. Apply(b, t) = [t EXCEPT !.engine.movement_arc = arc, !.turn = turn]
    BY <1>2, <2>2 DEF ApplyArcStep
  <2>5. arc = g /\ turn = t.turn
    BY <1>3, <2>3
  <2> HIDE DEF arc, turn
  <2>6. [t EXCEPT !.engine.movement_arc = arc, !.turn = turn] = r
    <3>1. t = [units |-> t.units, turn |-> t.turn, engine |-> t.engine, session |-> t.session,
               rng_log |-> t.rng_log]
      BY <1>4 DEF WellFormed
    <3> QED BY ONLY <2>5, <3>1
  <2>7. /\ WellFormed(r) /\ SameBut(t, r) /\ r.engine.movement_arc = g
        /\ r.engine.cursor = t.engine.cursor
    BY <1>4, ArcWritten
  <2> HIDE DEF r
  <2> QED BY <2>1, <2>4, <2>6, <2>7
<1>5. Writes(b, g)
  BY <1>4 DEF Writes
<1> QED BY <1>1, <1>5 DEF b

LEMMA PayloadWrites ==
    ASSUME NEW flow
    PROVE  Writes(WriteArc(flow), flow)
<1> DEFINE b == WriteArc(flow)
<1>1. b.kind = "WriteArc" /\ b.payload = flow
  BY DEF WriteArc
<1> HIDE DEF b
<1>2. ASSUME NEW t, WellFormed(t)
      PROVE  /\ CanApply(b, t)
             /\ WellFormed(Apply(b, t)) /\ SameBut(t, Apply(b, t))
             /\ Apply(b, t).engine.movement_arc = flow
             /\ Apply(b, t).engine.cursor = t.engine.cursor
  <2>1. CanApply(b, t)
    BY <1>1 DEF CanApply
  <2>2. Apply(b, t) = [t EXCEPT !.engine.movement_arc = flow]
    BY <1>1 DEF Apply
  <2> QED BY <1>2, <2>1, <2>2, ArcWritten
<1> QED BY <1>2 DEF Writes, b

\* An event of the movement arc that its segment takes.
LEMMA WalkEventApplies ==
    ASSUME CombatTitle, NEW m, NEW seg, m.state.engine.cursor = StepCursor(seg),
           StepCursor(seg) # None, NEW tr, OnlyBy(StepCursor(seg), tr),
           Runner!Segment(StepCursor(seg)).owner # "NO_OWNER", NEW f, NEW params,
           IsTaken(Runner!SubmitEvent(m, "movement", tr.trigger, f, params)),
           ~OverlayRaises(tr.effect, ContextOf(m, f, params))
    PROVE  Runner!SubmitEvent(m, "movement", tr.trigger, f, params).run
             = Runner!AutoAdvance(Runner!MoveCursor(
                   ExecutedAll(m, EffectActions(tr.effect, ContextOf(m, f, params))),
                   StepCursor(seg), tr.target))
<1> DEFINE arc == "movement"
           c == StepCursor(seg)
           ctx == ContextOf(m, f, params)
<1>1. c.arc_id = arc
  BY CursorFields
<1> HIDE DEF arc, c
<1>2. Meets(m, c, arc, tr, f, params)
  BY <1>1 DEF Meets, arc, c
<1>3. Runner!SubmitEvent(m, arc, tr.trigger, f, params).run
         = Runner!AutoAdvance(Runner!ApplyTransition(m, c, tr, ctx))
  BY <1>2, EventApplies DEF Applies
<1>4. Runner!ApplyTransition(m, c, tr, ctx)
        = Runner!MoveCursor(ExecutedAll(m, EffectActions(tr.effect, ctx)), c, tr.target)
  BY AppliesTransition
<1> QED BY <1>3, <1>4 DEF arc, c

\* Where a retreat is walked, it is the one of the payload.
LEMMA UnderWayIsWalking ==
    ASSUME CombatTitle, NEW s, AtPeace(s)
    PROVE  s.engine.movement_arc # None <=> Walking(s)
<1>1. Walking(s) => s.engine.movement_arc # None
  BY NoneAssumption DEF Walking, RetreatWalks
<1>2. ~Walking(s) => s.engine.movement_arc = None
  BY DEF AtPeace, AtRoutine, AtRetreat, AtAdvance
<1> QED BY <1>1, <1>2

\* The next step of a walk.
LEMMA ContinueRests ==
    ASSUME CombatTitle, IsManager(mgr), AtPeace(mgr.state),
           NEW f \in Factions, NEW from \in Hexes, NEW to \in Hexes, ContinueRetreat(f, from, to)
    PROVE  \E x : Rests(x)
<1> DEFINE s == mgr.state
           flow == s.engine.movement_arc
           u == flow.unit_id
           params == MoveParams(u, from, to)
           event == ContinueEvent(f, from, to)
           ctx == ContextOf(mgr, f, params)
           next == NextFlow(flow, from, to)
           c == StepCursor("continue")
<1>1. /\ RetreatUnderWay /\ FitsNextStep(s, flow, params)
      /\ StepCosts[from][to] <= flow.budget_remaining
      /\ IsTaken(event)
      /\ AnswersRetreatStep(SyncMovementCursor(event.run), f, u, flow.path)
  BY DEF ContinueRetreat, ContinueRetreatIsAccepted
<1>2. Walking(s)
  BY <1>1, UnderWayIsWalking DEF RetreatUnderWay
<1>3. /\ s.engine.cursor = c /\ flow \in MovementArcs /\ flow.retreat_fulfillment
      /\ flow.gate = AwaitingContinue /\ flow.interrupt_queue = <<>>
      /\ u \in DOMAIN Obligations(s)
      /\ Apart[flow.path[1]][Last(flow.path)] = Obligations(s)[u]
  BY <1>2 DEF Walking, RetreatWalks
<1>4. /\ from = flow.path[flow.step_index + 1] /\ to = flow.path[flow.step_index + 2]
      /\ Present(s, u) /\ s.units[u].position = from
  <2>1. params.from_hex = from /\ params.to_hex = to
    BY DEF MoveParams
  <2> HIDE DEF params, flow
  <2> QED BY <1>1, <2>1 DEF FitsNextStep
<1>5. WellFormed(s) /\ flow # None /\ u \in Units
  BY <1>3, NoneAssumption DEF AtPeace, Ordered, MovementArcs
<1>6. /\ next \in MovementArcs /\ next.unit_id = u /\ next.path = flow.path
      /\ next.step_index = flow.step_index + 1
      /\ next.retreat_fulfillment
      /\ next.gate = AwaitingContinue /\ next.interrupt_queue = <<>>
  <2>1. next.gate = flow.gate /\ next.interrupt_queue = flow.interrupt_queue
    BY <1>3 DEF NextFlow, MovementArcs
  <2> QED BY <1>3, <2>1, NextFlowType
<1>7. ApplyStep(ctx) = <<MoveUnit(u, from, to), StepOf(next)>>
  <2> DEFINE left == flow.budget_remaining - StepCosts[from][to]
  <2>1. StepCosts[from][to] \in Int /\ flow.budget_remaining \in Int
    BY <1>3, GraphAssumption DEF MovementArcs
  <2>2. ~(left < 0)
    BY <1>1, <2>1
  <2>3. ctx.state = s /\ ctx.params = params
    BY ContextIs
  <2>4. params.from_hex = from /\ params.to_hex = to
    BY DEF MoveParams
  <2>5. next = [flow EXCEPT !.budget_remaining = left, !.step_index = @ + 1]
    BY DEF NextFlow
  <2> HIDE DEF ctx, params, left, next
  <2> QED BY <2>2, <2>3, <2>4, <2>5 DEF ApplyStep, StepOf, left
<1>8. event.run = Runner!AutoAdvance(Runner!MoveCursor(
                      ExecutedAll(mgr, ApplyStep(ctx)), c, Goto("step_resolve")))
  <2> DEFINE seg == "continue"
             tr == ContinueOn
  <2>1. /\ OnlyBy(StepCursor(seg), tr) /\ Runner!Segment(StepCursor(seg)).owner # "NO_OWNER"
        /\ tr.trigger = "MoveUnit" /\ tr.effect = "apply_step" /\ tr.target = Goto("step_resolve")
    BY WalkTransitions
  <2>2. StepCursor(seg) # None /\ mgr.state.engine.cursor = StepCursor(seg)
    BY <1>3, CursorsExist DEF MovementSegments
  <2>3. ~OverlayRaises("apply_step", ctx) /\ EffectActions("apply_step", ctx) = ApplyStep(ctx)
    BY CombatRaisesAre, CombatEffectsAre
  <2>4. event = Runner!SubmitEvent(mgr, "movement", "MoveUnit", f, params)
    BY DEF ContinueEvent
  <2> HIDE DEF seg, tr, event, params
  <2>5. event.run = Runner!AutoAdvance(Runner!MoveCursor(
                      ExecutedAll(mgr, EffectActions(tr.effect, ctx)), StepCursor(seg), tr.target))
    BY <1>1, <2>1, <2>2, <2>3, <2>4, WalkEventApplies
  <2> QED BY <2>1, <2>3, <2>5 DEF seg
<1> HIDE DEF ctx, event, next
<1>9. PICK g : /\ Writes(StepOf(next), g)
               /\ g \in MovementArcs /\ g.unit_id = next.unit_id /\ g.path = next.path
               /\ g.step_index = next.step_index
               /\ g.retreat_fulfillment = next.retreat_fulfillment
               /\ g.gate = AwaitingContinue /\ g.interrupt_queue = <<>>
  BY <1>6, StepWrites
<1>10. PICK y : /\ ExecutedAll(mgr, <<MoveUnit(u, from, to), StepOf(next)>>) = Runner!Ran(y)
                /\ WellFormed(y.state) /\ y.state.engine.movement_arc = g
                /\ Hops(s, y.state, u, to)
  <2> DEFINE b == StepOf(next)
  <2> HIDE DEF b, u, flow
  <2>1. /\ WellFormed(mgr.state) /\ u \in Units /\ Present(mgr.state, u)
        /\ mgr.state.units[u].position = from
    BY <1>4, <1>5
  <2>2. Writes(b, g)
    BY <1>9 DEF b
  <2>3. StepRun(mgr, u, from, to, b, g)
    BY <2>1, <2>2, StepIsRun
  <2> QED BY <2>3 DEF b, StepRun
<1>11. g.path[g.step_index + 1] = to
  <2>1. flow.step_index \in Nat
    BY <1>3 DEF MovementArcs
  <2>2. (flow.step_index + 1) + 1 = flow.step_index + 2
    BY <2>1
  <2> QED BY <1>4, <1>6, <1>9, <2>2
<1>12. /\ StartIn(s, u) = flow.path[1]
       /\ \A w \in Units \ {u} : StartIn(s, w) = s.units[w].position
  BY <1>3, <1>5 DEF StartIn
<1>13. Stepping(s, y, g)
  BY <1>3, <1>6, <1>9, <1>10, <1>11, <1>12 DEF Stepping
<1>14. event.run = Runner!AutoAdvance(Runner!MoveCursor(Runner!Ran(y), c, Goto("step_resolve")))
  BY <1>7, <1>8, <1>10
<1>15. InRetreat(s)
  BY <1>2 DEF InRetreat
<1> HIDE DEF u
<1>16. AnswersRetreatStep(SyncMovementCursor(Runner!AutoAdvance(Runner!MoveCursor(
           Runner!Ran(y), c, Goto("step_resolve")))), f, g.unit_id, g.path)
  BY <1>1, <1>6, <1>9, <1>14
<1> DEFINE seg == "continue"
<1>17. c = StepCursor(seg)
  OBVIOUS
<1> HIDE DEF seg, c
<1> QED BY <1>13, <1>15, <1>16, <1>17, SteppedRests

\* A retreat to be walked is opened from its gate only.
LEMMA OpensAtGate ==
    ASSUME CombatTitle, AtPeace(mgr.state), NEW f, NEW u, OwnRetreater(f, u), ~RetreatUnderWay
    PROVE  /\ AtRetreat(mgr.state) /\ WellFormed(mgr.state)
           /\ u \in DOMAIN Obligations(mgr.state) /\ u \in Units
           /\ Obligations(mgr.state)[u] \in Nat
           /\ HexesRemaining(mgr.state, u) = Obligations(mgr.state)[u]
           /\ Present(mgr.state, u)
<1> DEFINE s == mgr.state
<1>1. u \in DOMAIN Obligations(s) /\ HexesRemaining(s, u) = Obligations(s)[u]
  BY DEF OwnRetreater, HexesRemaining
<1>2. ~Walking(s)
  BY NoneAssumption DEF Walking, RetreatWalks, RetreatUnderWay
<1>3. AtRetreat(s)
  BY <1>1, <1>2 DEF AtPeace, AtRoutine, AtAdvance
<1>4. Present(s, u)
  BY DEF OwnRetreater
<1> QED BY <1>1, <1>3, <1>4 DEF AtPeace, Ordered, Owed

LEMMA FlowExcept ==
    ASSUME NEW a, NEW b, NEW c, NEW d, NEW e, NEW f, NEW g, NEW h, NEW i, NEW j
    PROVE  [[unit_id |-> a, path |-> b, step_index |-> c, moving_faction |-> d,
             budget_remaining |-> e, retreat_fulfillment |-> f, gate |-> g,
             interrupt_queue |-> h, saved_turn |-> i] EXCEPT !.retreat_fulfillment = j]
           = [unit_id |-> a, path |-> b, step_index |-> c, moving_faction |-> d,
              budget_remaining |-> e, retreat_fulfillment |-> j, gate |-> g,
              interrupt_queue |-> h, saved_turn |-> i]
OBVIOUS

\* The payload of a retreat that is being opened.
RetreatFlow(u, path, f, left) == [FlowOf(u, path, f, left) EXCEPT !.retreat_fulfillment = TRUE]

LEMMA RetreatFlowIs ==
    ASSUME NEW u \in Units, NEW path \in Seq(Hexes), NEW f \in Factions, NEW left \in Nat
    PROVE  LET flow == RetreatFlow(u, path, f, left)
           IN  /\ flow \in MovementArcs /\ flow.unit_id = u /\ flow.path = path
               /\ flow.step_index = 1 /\ flow.retreat_fulfillment
               /\ flow.gate = AwaitingContinue /\ flow.interrupt_queue = <<>>
<1> DEFINE none == <<>>
<1>1. none \in Seq(Factions)
  OBVIOUS
<1> HIDE DEF none
<1> DEFINE yes == TRUE
           one == 1
           flow == [unit_id |-> u, path |-> path, step_index |-> one, moving_faction |-> f,
                    budget_remaining |-> left, retreat_fulfillment |-> yes,
                    gate |-> AwaitingContinue, interrupt_queue |-> none, saved_turn |-> None]
<1> HIDE DEF yes, one
<1>2. RetreatFlow(u, path, f, left) = flow
  <2> DEFINE no == FALSE
             base == [unit_id |-> u, path |-> path, step_index |-> one, moving_faction |-> f,
                      budget_remaining |-> left, retreat_fulfillment |-> no,
                      gate |-> AwaitingContinue, interrupt_queue |-> none, saved_turn |-> None]
  <2>1. FlowOf(u, path, f, left) = base
    BY DEF FlowOf, none, one, no
  <2> HIDE DEF no
  <2>2. [base EXCEPT !.retreat_fulfillment = yes] = flow
    BY FlowExcept
  <2> HIDE DEF base, flow
  <2> QED BY <2>1, <2>2 DEF RetreatFlow, yes
<1>3. yes \in BOOLEAN /\ yes /\ one \in Nat /\ one = 1
  BY DEF yes, one
<1>4. flow \in MovementArcs
  BY <1>1, <1>3 DEF MovementArcs
<1> QED BY <1>2, <1>3, <1>4 DEF none

LEMMA RetreatOpens ==
    ASSUME CombatTitle, NEW m, NEW f, NEW u, NEW path,
           NEW params, params = [unit_id |-> u, from_hex |-> path[1], to_hex |-> path[2],
                                 path |-> path]
    PROVE  OpenRetreatStep(ContextOf(m, f, params))
             = <<MoveUnit(u, path[1], path[2]),
                 WriteArc(RetreatFlow(u, path, f, HexesRemaining(m.state, u)))>>
<1> DEFINE ctx == ContextOf(m, f, params)
<1>1. ctx.state = m.state /\ ctx.owner = f /\ ctx.params = params
  BY ContextIs
<1>2. params.unit_id = u /\ params.path = path
  OBVIOUS
<1>3. RetreatRemaining(m.state, u) = HexesRemaining(m.state, u)
  BY DEF CombatTitle
<1> DEFINE Opening(w, p, o, left) ==
             <<MoveUnit(w, p[1], p[2]), WriteArc(RetreatFlow(w, p, o, left))>>
<1>4. OpenRetreatStep(ctx)
        = Opening(ctx.params.unit_id, ctx.params.path, ctx.owner,
                  RetreatRemaining(ctx.state, ctx.params.unit_id))
  BY DEF OpenRetreatStep, RetreatFlow
<1> HIDE DEF ctx, Opening
<1>5. OpenRetreatStep(ctx) = Opening(u, path, f, HexesRemaining(m.state, u))
  BY ONLY <1>1, <1>2, <1>3, <1>4
<1> QED BY <1>5 DEF Opening, ctx

\* The first step of a walk.
LEMMA OpenRests ==
    ASSUME CombatTitle, IsManager(mgr), AtPeace(mgr.state),
           NEW f \in Factions, NEW u, NEW path, OpenRetreat(f, u, path)
    PROVE  \E x : Rests(x)
<1> DEFINE s == mgr.state
           params == [unit_id |-> u, from_hex |-> path[1], to_hex |-> path[2], path |-> path]
           c == StepCursor("retreat_open")
           m == Placed(mgr, c)
           event == RetreatOpenEvent(f, u, path)
           owed == HexesRemaining(s, u)
           flow == RetreatFlow(u, path, f, owed)
           ctx == ContextOf(m, f, params)
<1>1. /\ OwnRetreater(f, u) /\ ~RetreatUnderWay /\ path \in Seq(Hexes)
      /\ ValidRetreatPath(s, f, u, path, owed)
      /\ IsTaken(event)
      /\ AnswersRetreatStep(SyncMovementCursor(event.run), f, u, path)
  BY DEF OpenRetreat, OpenRetreatIsAccepted
<1>2. /\ AtRetreat(s) /\ WellFormed(s) /\ Present(s, u) /\ u \in Units
      /\ u \in DOMAIN Obligations(s) /\ owed = Obligations(s)[u] /\ owed \in Nat
  BY <1>1, OpensAtGate
<1>3. /\ s.units[u].position = path[1]
      /\ Apart[path[1]][Last(path)] = owed
  BY <1>1 DEF ValidRetreatPath, ValidRetreat, MayRetreatTo
<1>4. /\ WellFormed(m.state) /\ SameBut(s, m.state) /\ m.state.engine.cursor = c
  BY <1>2, PlacedState
<1>5. /\ flow \in MovementArcs /\ flow.unit_id = u /\ flow.path = path
      /\ flow.step_index = 1 /\ flow.retreat_fulfillment
      /\ flow.gate = AwaitingContinue /\ flow.interrupt_queue = <<>>
  BY <1>1, <1>2, RetreatFlowIs
<1>6. event = Runner!SubmitEvent(m, "movement", "MoveUnit", f, params)
  <2>1. SetCursor(Runner!Ran(mgr), c) = Runner!Ran(m)
    BY SetsCursor
  <2>2. Runner!CursorAt("movement", "retreat_open") = c
    BY CursorsAt
  <2>3. Runner!Ran(m).m = m
    BY RunIs
  <2> HIDE DEF c, m
  <2> QED BY <2>1, <2>2, <2>3 DEF RetreatOpenEvent
<1> HIDE DEF m, flow, owed
<1>7. OpenRetreatStep(ctx) = <<MoveUnit(u, path[1], path[2]), WriteArc(flow)>>
  <2>1. HexesRemaining(m.state, u) = owed
    BY <1>4, SameBucket DEF SameBut, owed
  <2>2. params = [unit_id |-> u, from_hex |-> path[1], to_hex |-> path[2], path |-> path]
    OBVIOUS
  <2> HIDE DEF params
  <2> QED BY <2>1, <2>2, RetreatOpens DEF flow
<1>8. event.run = Runner!AutoAdvance(Runner!MoveCursor(
                      ExecutedAll(m, OpenRetreatStep(ctx)), c, Goto("step_resolve")))
  <2> DEFINE seg == "retreat_open"
             tr == OpenOn
  <2>1. /\ OnlyBy(StepCursor(seg), tr) /\ Runner!Segment(StepCursor(seg)).owner # "NO_OWNER"
        /\ tr.trigger = "MoveUnit" /\ tr.effect = "open_retreat_step"
        /\ tr.target = Goto("step_resolve")
    BY WalkTransitions
  <2>2. StepCursor(seg) # None /\ m.state.engine.cursor = StepCursor(seg)
    BY <1>4, CursorsExist DEF MovementSegments
  <2>3. /\ ~OverlayRaises("open_retreat_step", ctx)
        /\ EffectActions("open_retreat_step", ctx) = OpenRetreatStep(ctx)
    BY CombatRaisesAre, CombatEffectsAre
  <2> HIDE DEF seg, tr, event, params
  <2>4. event.run = Runner!AutoAdvance(Runner!MoveCursor(
                      ExecutedAll(m, EffectActions(tr.effect, ctx)), StepCursor(seg), tr.target))
    <3>1. IsTaken(Runner!SubmitEvent(m, "movement", tr.trigger, f, params))
      BY <1>1, <1>6, <2>1
    <3>2. ~OverlayRaises(tr.effect, ContextOf(m, f, params))
      BY <2>1, <2>3
    <3>3. Runner!SubmitEvent(m, "movement", tr.trigger, f, params).run
             = Runner!AutoAdvance(Runner!MoveCursor(
                   ExecutedAll(m, EffectActions(tr.effect, ContextOf(m, f, params))),
                   StepCursor(seg), tr.target))
      BY ONLY CombatTitle, <2>1, <2>2, <3>1, <3>2, WalkEventApplies
    <3> QED BY <1>6, <2>1, <3>3
  <2> QED BY <2>1, <2>3, <2>4 DEF seg
<1> HIDE DEF ctx, event, s
<1>9. PICK y : /\ ExecutedAll(m, <<MoveUnit(u, path[1], path[2]), WriteArc(flow)>>)
                     = Runner!Ran(y)
               /\ WellFormed(y.state) /\ y.state.engine.movement_arc = flow
               /\ Hops(m.state, y.state, u, path[2])
  <2> DEFINE b == WriteArc(flow)
             from == path[1]
             to == path[2]
  <2>1. /\ WellFormed(m.state) /\ u \in Units /\ Present(m.state, u)
        /\ m.state.units[u].position = from
    BY <1>2, <1>3, <1>4 DEF SameBut, Present
  <2>2. Writes(b, flow)
    BY PayloadWrites
  <2> HIDE DEF b, from, to
  <2>3. StepRun(m, u, from, to, b, flow)
    BY <2>1, <2>2, StepIsRun
  <2> QED BY <2>3 DEF StepRun, b, from, to
<1>10. Hops(s, y.state, u, path[2])
  BY <1>4, <1>9 DEF Hops, SameBut
<1>11. /\ StartIn(s, u) = path[1]
       /\ \A w \in Units \ {u} : StartIn(s, w) = s.units[w].position
  BY <1>2, <1>3 DEF StartIn, AtRetreat
<1>12. flow.path[flow.step_index + 1] = path[2]
  <2>1. 1 + 1 = 2
    OBVIOUS
  <2> QED BY <1>5, <2>1
<1>13. Stepping(s, y, flow)
  BY <1>2, <1>3, <1>5, <1>9, <1>10, <1>11, <1>12 DEF Stepping
<1>14. event.run = Runner!AutoAdvance(Runner!MoveCursor(Runner!Ran(y), c, Goto("step_resolve")))
  BY <1>7, <1>8, <1>9
<1>15. InRetreat(s)
  BY <1>2 DEF InRetreat
<1>16. AnswersRetreatStep(SyncMovementCursor(Runner!AutoAdvance(Runner!MoveCursor(
           Runner!Ran(y), c, Goto("step_resolve")))), f, flow.unit_id, flow.path)
  BY <1>1, <1>5, <1>14
<1> DEFINE seg == "retreat_open"
<1>17. c = StepCursor(seg)
  OBVIOUS
<1> HIDE DEF seg, c
<1> QED BY <1>13, <1>15, <1>16, <1>17, SteppedRests DEF s

-----------------------------------------------------------------------------
(* 16. Play of a title that fights, without undo and redo, always comes to rest. *)

CombatForward ==
    \/ ActionRequest
    \/ \E s \in Snapshots : LoadSnapshot(s)
    \/ Engaging \/ Retreating \/ Continuing \/ Disrupting \/ Declining \/ Advancing

CombatForwardSpec == Init /\ [][CombatForward]_vars

\* The inductive invariant: the server is at one of its rests, and the clients see it, unless
\* a retreat is being walked.
AtRest ==
    /\ IsManager(mgr) /\ AtPeace(mgr.state)
    /\ Walking(mgr.state) \/ published = mgr.state

LEMMA InitAtRest ==
    ASSUME CombatTitle, Init
    PROVE  AtRest
  BY InitAtRoutine DEF AtRest, AtPeace

LEMMA EngagingRests ==
    ASSUME CombatTitle, AtRest, Engaging
    PROVE  \E x : Rests(x)
<1>1. IsManager(mgr) /\ AtPeace(mgr.state) /\ (Walking(mgr.state) \/ published = mgr.state)
  BY DEF AtRest
<1>2. PICK f \in Factions, a \in Assaults :
            RefuseAttack(f, a) \/ \E dice \in Dice : Attack(f, a, dice)
  BY DEF Engaging
<1>3. CASE RefuseAttack(f, a)
  BY ONLY CombatTitle, <1>1, <1>3, RefuseRests
<1>4. CASE \E dice \in Dice : Attack(f, a, dice)
  <2>1. PICK dice \in Dice : Attack(f, a, dice)
    BY <1>4
  <2>2. a \in Assaults /\ dice \in Dice
    OBVIOUS
  <2> QED BY ONLY CombatTitle, <1>1, <2>1, <2>2, AttackRests
<1> QED BY <1>2, <1>3, <1>4

LEMMA RetreatingRests ==
    ASSUME CombatTitle, AtRest, Retreating
    PROVE  \E x : Rests(x)
<1>1. IsManager(mgr) /\ AtPeace(mgr.state)
  BY DEF AtRest
<1>2. PICK f \in Factions, u \in Units :
        \/ \E to \in Hexes : RetreatAtOnce(f, u, to)
        \/ \E path \in DrawnPaths(mgr.state, u) : OpenRetreat(f, u, path)
  BY DEF Retreating
<1>3. CASE \E to \in Hexes : RetreatAtOnce(f, u, to)
  <2>1. PICK to \in Hexes : RetreatAtOnce(f, u, to)
    BY <1>3
  <2>2. u \in Units
    OBVIOUS
  <2> QED BY ONLY CombatTitle, <1>1, <2>1, <2>2, AtOnceRests
<1>4. CASE \E path \in DrawnPaths(mgr.state, u) : OpenRetreat(f, u, path)
  <2>1. PICK path \in DrawnPaths(mgr.state, u) : OpenRetreat(f, u, path)
    BY <1>4
  <2>2. f \in Factions
    OBVIOUS
  <2> QED BY ONLY CombatTitle, <1>1, <2>1, <2>2, OpenRests
<1> QED BY <1>2, <1>3, <1>4

LEMMA GateAnswersRest ==
    ASSUME CombatTitle, AtRest, Continuing \/ Disrupting \/ Declining \/ Advancing
    PROVE  \E x : Rests(x)
<1>1. IsManager(mgr) /\ AtPeace(mgr.state)
  BY DEF AtRest
<1>2. CASE Continuing
  <2>1. PICK f \in Factions, from \in Hexes, to \in Hexes : ContinueRetreat(f, from, to)
    BY <1>2 DEF Continuing
  <2>2. f \in Factions /\ from \in Hexes /\ to \in Hexes
    OBVIOUS
  <2> QED BY ONLY CombatTitle, <1>1, <2>1, <2>2, ContinueRests
<1>3. CASE Disrupting
  <2>1. PICK f \in Factions : CombatDisruptInsteadOfRetreat(f)
    BY <1>3 DEF Disrupting
  <2> QED BY ONLY CombatTitle, <1>1, <2>1, DisruptRests
<1>4. CASE Declining
  <2>1. PICK f \in Factions : CombatDeclineAdvance(f)
    BY <1>4 DEF Declining
  <2> QED BY ONLY CombatTitle, <1>1, <2>1, DeclineRests
<1>5. CASE Advancing
  <2>1. PICK f \in Factions :
          \/ CombatAdvance(f)
          \/ \E u \in Units, to \in Hexes : AdvanceByMove(f, u, to)
    BY <1>5 DEF Advancing
  <2>2. CASE CombatAdvance(f)
    BY ONLY CombatTitle, <1>1, <2>2, AdvanceRests
  <2>3. CASE \E u \in Units, to \in Hexes : AdvanceByMove(f, u, to)
    <3>1. PICK u \in Units, to \in Hexes : AdvanceByMove(f, u, to)
      BY <2>3
    <3>2. u \in Units
      OBVIOUS
    <3> QED BY ONLY CombatTitle, <1>1, <3>1, <3>2, DragRests
  <2> QED BY <2>1, <2>2, <2>3
<1> QED BY <1>2, <1>3, <1>4, <1>5

LEMMA ForwardRests ==
    ASSUME CombatTitle, AtRest, CombatForward
    PROVE  \E x : Rests(x)
<1>1. IsManager(mgr) /\ AtPeace(mgr.state)
  BY DEF AtRest
<1>2. CASE ActionRequest
  BY ONLY CombatTitle, <1>1, <1>2, RequestsRest
<1>3. CASE \E s \in Snapshots : LoadSnapshot(s)
  <2>1. PICK s \in Snapshots : LoadSnapshot(s)
    BY <1>3
  <2>2. s \in Snapshots
    OBVIOUS
  <2> QED BY ONLY CombatTitle, <2>1, <2>2, LoadRests
<1>4. CASE Engaging
  BY <1>4, EngagingRests
<1>5. CASE Retreating
  BY <1>5, RetreatingRests
<1>6. CASE Continuing \/ Disrupting \/ Declining \/ Advancing
  BY <1>6, GateAnswersRest
<1> QED BY <1>2, <1>3, <1>4, <1>5, <1>6 DEF CombatForward

LEMMA RestsAtRest ==
    ASSUME NEW x, Rests(x)
    PROVE  AtRest' /\ FightStep(mgr.state, mgr'.state)
<1>1. mgr' = Forgetful(x) /\ mgr'.state = x.state
  BY ForgetfulState DEF Rests
<1>2. IsManager(mgr')
  BY <1>1, ForgetfulManager DEF Rests
<1>3. AtPeace(mgr'.state) /\ (Walking(mgr'.state) \/ published' = mgr'.state)
  BY <1>1 DEF Rests
<1>4. FightStep(mgr.state, mgr'.state)
  BY <1>1 DEF Rests
<1> QED BY <1>2, <1>3, <1>4 DEF AtRest

LEMMA CombatStep ==
    ASSUME CombatTitle, AtRest, [CombatForward]_vars
    PROVE  /\ AtRest'
           /\ mgr' = mgr \/ FightStep(mgr.state, mgr'.state)
<1>1. CASE CombatForward
  BY <1>1, ForwardRests, RestsAtRest
<1>2. CASE UNCHANGED vars
  BY <1>2 DEF vars, AtRest
<1> QED BY <1>1, <1>2

\* Behind every request of a title that fights the server is at one of its rests: the routine,
\* a retreat gate, a retreat being walked or the offer of an advance (authority_arc_runtime.py).
THEOREM CombatStaysAtRest == CombatTitle => (CombatForwardSpec => []AtRest)
<1> SUFFICES ASSUME CombatTitle PROVE CombatForwardSpec => []AtRest
  OBVIOUS
<1>1. Init => AtRest
  BY InitAtRest
<1>2. AtRest /\ [CombatForward]_vars => AtRest'
  BY CombatStep
<1> QED BY <1>1, <1>2, PTL DEF CombatForwardSpec

\* What a rest says of the gates.
LEMMA GatesAtRest ==
    ASSUME CombatTitle, NEW s
    PROVE  /\ AtRoutine(s) \/ Walking(s) => \A gates : ~InGate(s, gates)
           /\ AtRetreat(s) => /\ InGate(s, Retreats) /\ ~InGate(s, {"advance_gate"})
                              /\ InGate(s, Retreats \cup {"advance_gate"})
                              /\ InGate(s, {"retreat_or_disrupt_gate"}) => DisruptInsteadOffered(s)
           /\ AtAdvance(s) => /\ ~InGate(s, Retreats) /\ InGate(s, {"advance_gate"})
                              /\ InGate(s, Retreats \cup {"advance_gate"})
                              /\ ~InGate(s, {"retreat_or_disrupt_gate"})
<1>1. AtRoutine(s) \/ Walking(s) => \A gates : ~InGate(s, gates)
  BY OverlayAtGates DEF InGate
<1>2. ASSUME AtRetreat(s)
      PROVE  /\ InGate(s, Retreats) /\ ~InGate(s, {"advance_gate"})
             /\ InGate(s, Retreats \cup {"advance_gate"})
             /\ InGate(s, {"retreat_or_disrupt_gate"}) => DisruptInsteadOffered(s)
  <2>1. OverlayIsActive(s)
    BY <1>2, OverlayAtGates
  <2>2. PICK seg \in Retreats : s.engine.cursor = CombatCursor(seg)
    BY <1>2 DEF AtRetreat
  <2>3. s.engine.cursor.segment_id = seg
    BY <2>2, CombatCursorFields
  <2>4. seg # "advance_gate"
    BY DEF Retreats
  <2>5. seg = "retreat_or_disrupt_gate" => DisruptInsteadOffered(s)
    BY <1>2, <2>2 DEF AtRetreat
  <2> QED BY <2>1, <2>3, <2>4, <2>5 DEF InGate
<1>3. ASSUME AtAdvance(s)
      PROVE  /\ ~InGate(s, Retreats) /\ InGate(s, {"advance_gate"})
             /\ InGate(s, Retreats \cup {"advance_gate"})
             /\ ~InGate(s, {"retreat_or_disrupt_gate"})
  <2>1. OverlayIsActive(s)
    BY <1>3, OverlayAtGates
  <2>2. s.engine.cursor.segment_id = "advance_gate"
    BY <1>3, CombatCursorFields DEF AtAdvance
  <2> QED BY <2>1, <2>2 DEF InGate, Retreats
<1> QED BY <1>1, <1>2, <1>3

LEMMA RestMatchesBucket ==
    ASSUME CombatTitle, AtRest
    PROVE  GateMatchesBucket
<1> DEFINE s == mgr.state
<1>1. AtPeace(s) /\ Owed(s)
  BY DEF AtRest, AtPeace, Ordered
<1>2. /\ RetreatsPending(s) <=> DOMAIN Obligations(s) # {}
      /\ Retreaters(s) = DOMAIN Obligations(s)
  BY <1>1, PendingIsOwed
<1>3. \A u, w \in Retreaters(s) : s.units[u].faction = s.units[w].faction
  BY <1>1, <1>2 DEF Owed
<1>4. RetreatUnderWay <=> Walking(s)
  BY <1>1, UnderWayIsWalking DEF RetreatUnderWay, Walking, RetreatWalks
<1>5. /\ OverlayIsActive(s) => InGate(s, Retreats \cup {"advance_gate"})
      /\ (InGate(s, Retreats) \/ Walking(s)) <=> DOMAIN Obligations(s) # {}
      /\ InGate(s, {"retreat_or_disrupt_gate"}) => DisruptInsteadOffered(s)
      /\ InGate(s, {"advance_gate"}) <=> AdvanceOffer(s) # None
      /\ AdvanceOffer(s) # None => OfferStands(s)
  <2>1. CASE AtRoutine(s)
    <3>1. ~Walking(s)
      BY <2>1 DEF AtRoutine, Walking, RetreatWalks
    <3> QED BY <2>1, <3>1, GatesAtRest, OverlayAtGates DEF AtRoutine
  <2>2. CASE AtRetreat(s)
    BY <2>2, GatesAtRest DEF AtRetreat
  <2>3. CASE AtAdvance(s)
    <3>1. ~Walking(s)
      BY <2>3 DEF AtAdvance, Walking, RetreatWalks
    <3> QED BY <2>3, <3>1, GatesAtRest DEF AtAdvance, OfferStands
  <2>4. CASE Walking(s)
    BY <2>4, GatesAtRest, OverlayAtGates DEF Walking, RetreatWalks
  <2> QED BY <1>1, <2>1, <2>2, <2>3, <2>4 DEF AtPeace
<1> HIDE DEF s
<1> QED BY <1>2, <1>3, <1>4, <1>5 DEF GateMatchesBucket, OfferStands, s

LEMMA RestIsPublished ==
    ASSUME CombatTitle, AtRest
    PROVE  StateIsPublishedAtRest
<1>1. Walking(mgr.state) => RetreatUnderWay
  BY NoneAssumption DEF Walking, RetreatWalks, RetreatUnderWay
<1> QED BY <1>1 DEF AtRest, StateIsPublishedAtRest

\* In play without undo and redo, the combat cursor, the title's bucket and the payload of a
\* walked retreat always say the same of the engagement (authority_arc_runtime.py:187).
THEOREM GateAlwaysMatchesBucket == CombatTitle => (CombatForwardSpec => []GateMatchesBucket)
<1> SUFFICES ASSUME CombatTitle PROVE CombatForwardSpec => []GateMatchesBucket
  OBVIOUS
<1>1. CombatForwardSpec => []AtRest
  BY CombatStaysAtRest
<1>2. AtRest => GateMatchesBucket
  BY RestMatchesBucket
<1> QED BY <1>1, <1>2, PTL

\* In play without undo and redo, every handler that leaves no retreat under way has told the
\* clients the state it leaves, refused attacks and ended phases included (game_server.py).
THEOREM RestAlwaysPublished == CombatTitle => (CombatForwardSpec => []StateIsPublishedAtRest)
<1> SUFFICES ASSUME CombatTitle PROVE CombatForwardSpec => []StateIsPublishedAtRest
  OBVIOUS
<1>1. CombatForwardSpec => []AtRest
  BY CombatStaysAtRest
<1>2. AtRest => StateIsPublishedAtRest
  BY RestIsPublished
<1> QED BY <1>1, <1>2, PTL

\* Each of the ways of FightStep lets nobody out of a retreat.
LEMMA FightCovers ==
    ASSUME CombatTitle, NEW s, NEW t, AtPeace(s), FightStep(s, t), t \notin Snapshots,
           NEW u \in DOMAIN Obligations(s)
    PROVE  Obligations(t) = Obligations(s) \/ Covered(s, t, u)
             \/ (u \in DOMAIN Obligations(t) /\ Obligations(t)[u] = Obligations(s)[u])
<1>1. ~AtRoutine(s) /\ ~AtAdvance(s)
  BY DEF AtRoutine, AtAdvance
<1> QED BY <1>1 DEF FightStep, Calm, PhaseTurns, Struck, Yielded, Answered, OwesLess

\* What an obligation may become in one step.
Relieved(s, t, u) ==
    \/ t \in Snapshots
    \/ HexesRemaining(t, u) = HexesRemaining(s, u)
    \/ Apart[StartIn(s, u)][t.units[u].position] = HexesRemaining(s, u)
    \/ t.units[u].position = StartIn(s, u) /\ "disrupted" \in DOMAIN t.units[u].attributes

LEMMA FightRelieves ==
    ASSUME CombatTitle, NEW s, NEW t, AtPeace(s), t = s \/ FightStep(s, t)
    PROVE  \A u \in Retreaters(s) : Relieved(s, t, u)
<1> SUFFICES ASSUME NEW u \in Retreaters(s), t # s, t \notin Snapshots PROVE Relieved(s, t, u)
  BY DEF Relieved
<1>1. u \in DOMAIN Obligations(s)
  BY DEF Retreaters
<1>2. HexesRemaining(s, u) = Obligations(s)[u]
  BY <1>1 DEF HexesRemaining
<1>3. CASE Obligations(t) = Obligations(s)
  BY <1>3 DEF HexesRemaining, Relieved
<1>4. CASE Covered(s, t, u)
  BY <1>2, <1>4 DEF Covered, Relieved
<1>5. CASE u \in DOMAIN Obligations(t) /\ Obligations(t)[u] = Obligations(s)[u]
  BY <1>2, <1>5 DEF HexesRemaining, Relieved
<1> QED BY <1>1, <1>3, <1>4, <1>5, FightCovers

\* In play without undo and redo nobody gets out of a retreat: an obligation ends when the unit
\* is as far from where it stood as it owed, or was disrupted there (movement_arc_effects.py).
THEOREM RetreatsAlwaysCover == CombatTitle => (CombatForwardSpec => RetreatsCoverTheirDistance)
<1> SUFFICES ASSUME CombatTitle PROVE CombatForwardSpec => RetreatsCoverTheirDistance
  OBVIOUS
<1>1. CombatForwardSpec => []AtRest
  BY CombatStaysAtRest
<1>2. AtRest /\ [CombatForward]_vars =>
        [\A u \in Retreaters(mgr.state) :
           LET after == mgr'.state.units[u]
           IN  \/ mgr'.state \in Snapshots
               \/ HexesRemaining(mgr'.state, u) = HexesRemaining(mgr.state, u)
               \/ Apart[RetreatStart(u)][after.position] = HexesRemaining(mgr.state, u)
               \/ after.position = RetreatStart(u) /\ "disrupted" \in DOMAIN after.attributes
        ]_vars
  <2> SUFFICES ASSUME AtRest, [CombatForward]_vars, NEW u \in Retreaters(mgr.state)
               PROVE  LET after == mgr'.state.units[u]
                      IN  \/ mgr'.state \in Snapshots
                          \/ HexesRemaining(mgr'.state, u) = HexesRemaining(mgr.state, u)
                          \/ Apart[RetreatStart(u)][after.position] = HexesRemaining(mgr.state, u)
                          \/ /\ after.position = RetreatStart(u)
                             /\ "disrupted" \in DOMAIN after.attributes
    OBVIOUS
  <2>1. mgr' = mgr \/ FightStep(mgr.state, mgr'.state)
    BY CombatStep
  <2>2. mgr'.state = mgr.state \/ FightStep(mgr.state, mgr'.state)
    BY <2>1
  <2>3. Relieved(mgr.state, mgr'.state, u)
    BY <2>2, FightRelieves DEF AtRest
  <2>4. RetreatStart(u) = StartIn(mgr.state, u)
    BY DEF RetreatStart, StartIn, RetreatUnderWay, Standing
  <2> QED BY <2>3, <2>4 DEF Relieved
<1> QED BY <1>1, <1>2, PTL DEF CombatForwardSpec, RetreatsCoverTheirDistance

-----------------------------------------------------------------------------
(* 17. The engagement is the abstract one. *)

LEMMA OwingIsOwed ==
    ASSUME NEW s, Owed(s)
    PROVE  Owing(s) = DOMAIN Obligations(s) /\ Owing(s) \subseteq Units
<1>1. \A u \in DOMAIN Obligations(s) : u \in Units /\ Obligations(s)[u] \in Nat \ {0}
  BY DEF Owed
<1>2. \A u \in DOMAIN Obligations(s) : Obligations(s)[u] > 0
  BY <1>1
<1>3. \A u : u \in Owing(s) <=> u \in DOMAIN Obligations(s)
  BY <1>2 DEF Owing
<1> QED BY <1>1, <1>3

LEMMA Stages ==
    ASSUME CombatTitle, NEW s
    PROVE  /\ AtRoutine(s) => StageOf(s) = "routine"
           /\ InRetreat(s) => StageOf(s) = "retreat"
           /\ AtAdvance(s) => StageOf(s) = "advance"
<1>1. AtRoutine(s) => StageOf(s) = "routine"
  BY GatesAtRest DEF StageOf, AtRoutine
<1>2. AtRetreat(s) => StageOf(s) = "retreat"
  BY GatesAtRest DEF StageOf
<1>3. Walking(s) => StageOf(s) = "retreat"
  BY GatesAtRest, NoneAssumption DEF StageOf, Walking, RetreatWalks
<1>4. AtAdvance(s) => StageOf(s) = "advance"
  BY GatesAtRest DEF StageOf, AtAdvance
<1> QED BY <1>1, <1>2, <1>3, <1>4 DEF InRetreat

Fighting(s) == Range(AttacksThisPhase(s))

LEMMA RangeOfConcat ==
    ASSUME NEW A, NEW p \in Seq(A), NEW q \in Seq(A)
    PROVE  Range(p \o q) = Range(p) \cup Range(q)
<1>1. \A x : x \in Range(p \o q) => x \in Range(p) \cup Range(q)
  BY DEF Range
<1>2. \A x : x \in Range(p) => x \in Range(p \o q)
  <2> SUFFICES ASSUME NEW i \in DOMAIN p PROVE p[i] \in Range(p \o q)
    BY DEF Range
  <2>1. i \in 1..Len(p \o q) /\ (p \o q)[i] = p[i]
    OBVIOUS
  <2> QED BY <2>1 DEF Range
<1>3. \A x : x \in Range(q) => x \in Range(p \o q)
  <2> SUFFICES ASSUME NEW i \in DOMAIN q PROVE q[i] \in Range(p \o q)
    BY DEF Range
  <2>1. i + Len(p) \in 1..Len(p \o q) /\ (p \o q)[i + Len(p)] = q[i]
    OBVIOUS
  <2> QED BY <2>1 DEF Range
<1> QED BY <1>1, <1>2, <1>3

\* A step of module Engagement, told of the two states.
Foretold(s, t) ==
    LET stage == StageOf(s)   stage2 == StageOf(t)
        owing == Owing(s)     owing2 == Owing(t)
        fought == Fighting(s) fought2 == Fighting(t)
        After == IF owing2 = {} THEN {"routine", "advance"} ELSE {"retreat"}
    IN  \/ stage2 = stage /\ owing2 = owing /\ fought2 = fought
        \/ /\ stage = "routine" /\ owing2 \in SUBSET Units /\ stage2 \in After
           /\ \/ \E folk \in (SUBSET (Units \ fought)) \ {{}} : fought2 = fought \cup folk
              \/ stage2 = "routine" /\ fought2 = {}
        \/ /\ stage = "retreat" /\ owing2 \in (SUBSET owing) \ {owing} /\ stage2 \in After
           /\ fought2 = fought
        \/ /\ stage = "advance" /\ stage2 = "routine"
           /\ owing2 = owing /\ fought2 = fought
        \/ /\ stage = "routine" /\ fought2 = {} /\ stage2 = stage /\ owing2 = owing
        \/ t \in Snapshots

LEMMA FightIsForetold ==
    ASSUME CombatTitle, NEW s, NEW t, AtPeace(s), AtPeace(t), t = s \/ FightStep(s, t)
    PROVE  Foretold(s, t)
<1>1. /\ Owing(s) = DOMAIN Obligations(s) /\ Owing(t) = DOMAIN Obligations(t)
      /\ Owing(t) \subseteq Units
  BY OwingIsOwed DEF AtPeace, Ordered
<1>2. AtEase(t) => StageOf(t) \in IF Owing(t) = {} THEN {"routine", "advance"} ELSE {"retreat"}
  <2>1. AtRoutine(t) => StageOf(t) = "routine" /\ Owing(t) = {}
    BY <1>1, Stages DEF AtRoutine
  <2>2. AtAdvance(t) => StageOf(t) = "advance" /\ Owing(t) = {}
    BY <1>1, Stages DEF AtAdvance
  <2>3. AtRetreat(t) => StageOf(t) = "retreat" /\ Owing(t) # {}
    BY <1>1, Stages DEF AtRetreat, InRetreat
  <2> QED BY <2>1, <2>2, <2>3 DEF AtEase
<1>3. CASE t = s
  BY <1>3 DEF Foretold
<1>4. CASE Calm(s, t)
  <2>1. StageOf(t) = StageOf(s)
    BY <1>4, Stages DEF Calm
  <2>2. Owing(t) = Owing(s) /\ Fighting(t) = Fighting(s)
    BY <1>1, <1>4 DEF Calm, Fighting
  <2> QED BY <2>1, <2>2 DEF Foretold
<1>5. CASE PhaseTurns(s, t)
  <2>1. StageOf(s) = "routine" /\ StageOf(t) = "routine"
    BY <1>5, Stages DEF PhaseTurns
  <2>2. Owing(s) = {} /\ Owing(t) = {}
    BY <1>1, <1>5 DEF PhaseTurns, AtRoutine
  <2>3. Fighting(t) = {}
    BY <1>5 DEF PhaseTurns, Quiet, Fighting, Range
  <2> QED BY <2>1, <2>2, <2>3 DEF Foretold
<1>6. CASE Struck(s, t)
  <2>1. StageOf(s) = "routine" /\ AtEase(t)
    BY <1>6, Stages DEF Struck
  <2>2. PICK fresh \in Seq(Units) \ {<<>>} :
          /\ Range(fresh) \cap Range(AttacksThisPhase(s)) = {}
          /\ \/ AttacksThisPhase(t) = AttacksThisPhase(s) \o fresh
             \/ AtRoutine(t) /\ Quiet(t)
    BY <1>6 DEF Struck
  <2>3. CASE AtRoutine(t) /\ Quiet(t)
    <3>1. StageOf(t) = "routine"
      BY <2>3, Stages
    <3>2. Fighting(t) = {}
      BY <2>3 DEF Quiet, Fighting, Range
    <3> QED BY <1>1, <1>2, <2>1, <3>1, <3>2 DEF Foretold
  <2>4. CASE AttacksThisPhase(t) = AttacksThisPhase(s) \o fresh
    <3>1. AttacksThisPhase(s) \in Seq(Units)
      BY DEF AtPeace, Ordered, Fought
    <3>2. Fighting(t) = Fighting(s) \cup Range(fresh)
      BY <2>4, <3>1, RangeOfConcat DEF Fighting
    <3>3. Range(fresh) \subseteq Units
      BY DEF Range
    <3>4. Range(fresh) # {}
      <4>1. 1 \in DOMAIN fresh
        BY <2>2
      <4> QED BY <4>1 DEF Range
    <3>5. Range(fresh) \in (SUBSET (Units \ Fighting(s))) \ {{}}
      BY <2>2, <3>3, <3>4 DEF Fighting
    <3> QED BY <1>1, <1>2, <2>1, <3>2, <3>5 DEF Foretold
  <2> QED BY <2>2, <2>3, <2>4
<1>7. CASE Yielded(s, t)
  <2>1. StageOf(s) = "retreat" /\ AtEase(t)
    BY <1>7, Stages DEF Yielded
  <2>2. Owing(t) \in (SUBSET Owing(s)) \ {Owing(s)}
    BY <1>1, <1>7 DEF Yielded, OwesLess
  <2>3. Fighting(t) = Fighting(s)
    BY <1>7 DEF Yielded, Fighting
  <2> QED BY <1>2, <2>1, <2>2, <2>3 DEF Foretold
<1>8. CASE Answered(s, t)
  <2>1. StageOf(s) = "advance" /\ StageOf(t) = "routine"
    BY <1>8, Stages DEF Answered
  <2>2. Owing(s) = {} /\ Owing(t) = {}
    BY <1>1, <1>8 DEF Answered, AtRoutine, AtAdvance
  <2>3. Fighting(t) = Fighting(s)
    BY <1>8 DEF Answered, Fighting
  <2> QED BY <2>1, <2>2, <2>3 DEF Foretold
<1>9. CASE t \in Snapshots
  BY <1>9 DEF Foretold
<1> QED BY <1>3, <1>4, <1>5, <1>6, <1>7, <1>8, <1>9 DEF FightStep

LEMMA EngagedAfter ==
    /\ StageOf(mgr.state)' = StageOf(mgr'.state)
    /\ Owing(mgr.state)' = Owing(mgr'.state)
    /\ Range(AttacksThisPhase(mgr.state))' = Fighting(mgr'.state)
<1>1. StageOf(mgr.state)' = StageOf(mgr'.state)
  BY DEF StageOf
<1>2. Owing(mgr.state)' = Owing(mgr'.state)
  BY DEF Owing
<1>3. Range(AttacksThisPhase(mgr.state))' = Fighting(mgr'.state)
  BY DEF Fighting
<1> QED BY <1>1, <1>2, <1>3

\* Where a title that fights may begin, and begin again.
Beginnings ==
    {<<StageOf(s), Owing(s), Range(AttacksThisPhase(s))>> : s \in {Scenario} \cup Snapshots}

LEMMA ForetoldSimulation ==
    ASSUME Foretold(mgr.state, mgr'.state)
    PROVE  [Engaged!Next]_(Engaged!vars)
<1> DEFINE s == mgr.state
           t == mgr'.state
           stage == StageOf(s)
           owing == Owing(s)
           fought == Fighting(s)
           stage2 == StageOf(t)
           owing2 == Owing(t)
           fought2 == Fighting(t)
           After == IF owing2 = {} THEN {"routine", "advance"} ELSE {"retreat"}
<1>1. /\ StageOf(mgr.state)' = stage2 /\ Owing(mgr.state)' = owing2
      /\ Range(AttacksThisPhase(mgr.state))' = fought2
      /\ Range(AttacksThisPhase(mgr.state)) = fought
  BY EngagedAfter DEF Fighting
<1>2. Engaged!Strike <=>
        /\ stage = "routine" /\ owing2 \in SUBSET Units /\ stage2 \in After
        /\ \/ \E folk \in (SUBSET (Units \ fought)) \ {{}} : fought2 = fought \cup folk
           \/ stage2 = "routine" /\ fought2 = {}
  BY <1>1 DEF Engaged!Strike
<1>3. Engaged!Yield <=>
        /\ stage = "retreat" /\ owing2 \in (SUBSET owing) \ {owing} /\ stage2 \in After
        /\ fought2 = fought
  BY <1>1 DEF Engaged!Yield
<1>4. Engaged!Answer <=>
        stage = "advance" /\ stage2 = "routine" /\ owing2 = owing /\ fought2 = fought
  BY <1>1 DEF Engaged!Answer
<1>5. Engaged!NextPhase <=>
        stage = "routine" /\ fought2 = {} /\ stage2 = stage /\ owing2 = owing
  BY <1>1 DEF Engaged!NextPhase
<1>6. t \in Snapshots => Engaged!Load
  <2>1. t \in Snapshots => <<stage2, owing2, fought2>> \in Beginnings
    BY DEF Beginnings, Fighting
  <2>2. Engaged!Load <=> <<stage2, owing2, fought2>> \in Beginnings
    BY <1>1 DEF Engaged!Load, Beginnings
  <2> QED BY <2>1, <2>2
<1>7. Engaged!vars' = Engaged!vars <=> stage2 = stage /\ owing2 = owing /\ fought2 = fought
  BY <1>1 DEF Engaged!vars
<1>8. \/ stage2 = stage /\ owing2 = owing /\ fought2 = fought
      \/ /\ stage = "routine" /\ owing2 \in SUBSET Units /\ stage2 \in After
         /\ \/ \E folk \in (SUBSET (Units \ fought)) \ {{}} : fought2 = fought \cup folk
            \/ stage2 = "routine" /\ fought2 = {}
      \/ /\ stage = "retreat" /\ owing2 \in (SUBSET owing) \ {owing} /\ stage2 \in After
         /\ fought2 = fought
      \/ stage = "advance" /\ stage2 = "routine" /\ owing2 = owing /\ fought2 = fought
      \/ stage = "routine" /\ fought2 = {} /\ stage2 = stage /\ owing2 = owing
      \/ t \in Snapshots
  BY DEF Foretold
<1> HIDE DEF s, t, stage, owing, fought, stage2, owing2, fought2, After
<1> QED BY <1>2, <1>3, <1>4, <1>5, <1>6, <1>7, <1>8 DEF Engaged!Next

LEMMA BeginsEngaged ==
    ASSUME CombatTitle, ~OverlayIsActive(Scenario), Init
    PROVE  Engaged!Init
<1> DEFINE s == mgr.state
<1>1. AtRoutine(s) /\ SameBut(Scenario, s)
  BY InitAtRoutine
<1>2. StageOf(s) = "routine"
  BY <1>1, Stages
<1>3. StageOf(Scenario) = "routine"
  <2>1. Scenario.engine.movement_arc = None
    BY DEF CombatTitle
  <2>2. \A gates : ~InGate(Scenario, gates)
    BY DEF InGate
  <2> QED BY <2>1, <2>2 DEF StageOf
<1>4. Owing(s) = Owing(Scenario) /\ AttacksThisPhase(s) = AttacksThisPhase(Scenario)
  BY <1>1, SameBucket DEF SameBut, Owing
<1>5. <<StageOf(Scenario), Owing(Scenario), Range(AttacksThisPhase(Scenario))>> \in Beginnings
  BY DEF Beginnings
<1> QED BY <1>2, <1>3, <1>4, <1>5 DEF Engaged!Init, Beginnings

\* Play without undo and redo of a title that fights, begun outside an engagement, implements
\* Engagement: every attack is settled before the next or the end of the phase, and no unit
\* attacks twice in a phase (combat/graph.py, authority_attack.py).
THEOREM EngagementsInOrder ==
    CombatTitle /\ ~OverlayIsActive(Scenario) => (CombatForwardSpec => ImplementsEngagement)
<1> SUFFICES ASSUME CombatTitle, ~OverlayIsActive(Scenario)
             PROVE  CombatForwardSpec => ImplementsEngagement
  OBVIOUS
<1>1. Init => Engaged!Init
  BY BeginsEngaged
<1>2. AtRest /\ [CombatForward]_vars => [Engaged!Next]_(Engaged!vars)
  <2> SUFFICES ASSUME AtRest, [CombatForward]_vars PROVE [Engaged!Next]_(Engaged!vars)
    OBVIOUS
  <2>1. AtRest' /\ (mgr' = mgr \/ FightStep(mgr.state, mgr'.state))
    BY CombatStep
  <2>2. AtPeace(mgr.state) /\ AtPeace(mgr'.state)
    BY <2>1 DEF AtRest
  <2>3. mgr'.state = mgr.state \/ FightStep(mgr.state, mgr'.state)
    BY <2>1
  <2> QED BY <2>2, <2>3, FightIsForetold, ForetoldSimulation
<1>3. CombatForwardSpec => []AtRest
  BY CombatStaysAtRest
<1> QED BY <1>1, <1>2, <1>3, PTL DEF CombatForwardSpec, ImplementsEngagement, Engaged!Spec
=============================================================================
