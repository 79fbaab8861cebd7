-------------------------- MODULE CombatArc_proofs --------------------------
(***************************************************************************)
(* What the combat arc, the title's bucket and runs of actions do in a     *)
(* title that fights, whatever the board, the units, the attacks and the   *)
(* dice, and where an answer at one of its gates leaves the engagement.    *)
(*                                                                         *)
(* The title (CombatTitle) and the states its requests leave (AtPeace) are *)
(* described in section 1, what a request may do to an engagement          *)
(* (FightStep) in section 9. Sections 1 to 8 compute; sections 10 and 11   *)
(* show for the answers at the gates that the handler leaves such a state  *)
(* and takes the engagement one step further. The other requests follow in *)
(* module CombatServer_proofs.                                             *)
(***************************************************************************)
EXTENDS CombatServer, MovementServer_proofs, FiniteSetTheorems, SequenceTheorems

-----------------------------------------------------------------------------
(* 1. The title, and what its states look like between two requests. *)

CombatCursor(seg) == [arc_id |-> "combat", segment_id |-> seg, suspended |-> None]

UnitFields == {"faction", "position", "active", "stack_index", "attributes"}
OfferFields == {"faction", "to_hex", "units"}

WellFormed(s) ==
    /\ s = [units |-> s.units, turn |-> s.turn, engine |-> s.engine, session |-> s.session,
            rng_log |-> s.rng_log]
    /\ s.turn \in TurnStates
    /\ s.engine = [cursor |-> s.engine.cursor, movement_arc |-> s.engine.movement_arc]
    /\ s.units = [u \in Units |-> s.units[u]]
    /\ \A u \in Units : Present(s, u) => DOMAIN s.units[u] = UnitFields

\* Who must retreat is on the board, and they are of one faction and go equally far.
Owed(s) ==
    /\ \A u \in DOMAIN Obligations(s) :
          u \in Units /\ ActiveIn(s, u) /\ Obligations(s)[u] \in Nat \ {0}
    /\ \A u, w \in DOMAIN Obligations(s) :
          /\ s.units[u].faction = s.units[w].faction
          /\ Obligations(s)[u] = Obligations(s)[w]

\* Those who fought the last combat are still there, and it is still their turn.
Fought(s) ==
    /\ AttacksThisPhase(s) \in Seq(Units)
    /\ LastCombat(s) # None =>
          /\ LastCombat(s).attackers \in Seq(Units)
          /\ \A n \in DOMAIN LastCombat(s).attackers :
                LET u == LastCombat(s).attackers[n]
                IN  Present(s, u) /\ s.units[u].faction = s.turn.current_faction

AtRoutine(s) ==
    /\ \E arc \in DOMAIN RoutineActions : s.engine.cursor = RoutineCursor(arc)
    /\ s.engine.movement_arc = None
    /\ DOMAIN Obligations(s) = {}
    /\ AdvanceOffer(s) = None

AtRetreat(s) ==
    /\ \E seg \in Retreats : s.engine.cursor = CombatCursor(seg)
    /\ s.engine.cursor = CombatCursor("retreat_or_disrupt_gate") => DisruptInsteadOffered(s)
    /\ s.engine.movement_arc = None
    /\ DOMAIN Obligations(s) # {}
    /\ AdvanceOffer(s) = None

OfferStands(s) ==
    LET offer == AdvanceOffer(s)
    IN  /\ offer # None
        /\ offer.faction = s.turn.current_faction
        /\ offer.units \subseteq Units
        /\ ActiveAt(s, offer.to_hex) = {}

AtAdvance(s) ==
    /\ s.engine.cursor = CombatCursor("advance_gate")
    /\ s.engine.movement_arc = None
    /\ DOMAIN Obligations(s) = {}
    /\ OfferStands(s)

\* The unit stands where its path says, and the path leads as far as it owes.
RetreatWalks(s) ==
    LET flow == s.engine.movement_arc
    IN  /\ flow \in MovementArcs
        /\ flow.retreat_fulfillment
        /\ flow.gate = AwaitingContinue
        /\ flow.interrupt_queue = <<>>
        /\ flow.step_index < Len(flow.path) - 1
        /\ flow.unit_id \in DOMAIN Obligations(s)
        /\ s.units[flow.unit_id].position = flow.path[flow.step_index + 1]
        /\ Apart[flow.path[1]][Last(flow.path)] = Obligations(s)[flow.unit_id]

Walking(s) ==
    /\ s.engine.cursor = StepCursor("continue")
    /\ RetreatWalks(s)
    /\ AdvanceOffer(s) = None

Ordered(s) == WellFormed(s) /\ Owed(s) /\ Fought(s)

AtPeace(s) == Ordered(s) /\ (AtRoutine(s) \/ AtRetreat(s) \/ AtAdvance(s) \/ Walking(s))

\* The title hexdemo as it is registered with the server: the arc and the hooks of module
\* CombatArc, no window and no stepwise move; its names are declared and its gates presented.
\* A client may send no request that takes a unit away, and a saved game is one in which the
\* server has come to rest.
CombatTitle ==
    /\ OverlayArcs = CombatArcs
    /\ \A key, s : OverlayOwner(key, s) = CombatOwner(key, s)
    /\ \A guard, ctx : OverlayPasses(guard, ctx) = CombatPasses(guard, ctx)
    /\ \A effect, ctx : OverlayEffects(effect, ctx) = CombatEffect(effect, ctx)
    /\ \A effect, ctx : OverlayRaises(effect, ctx) = CombatRaises(effect, ctx)
    /\ \A s, u : RetreatRemaining(s, u) = HexesRemaining(s, u)
    /\ \A s : AfterPhase(s) = ClearCombatState(s)
    /\ Stepwise = {}
    /\ \A h \in Hexes, f \in Factions : InterruptsAt[h][f] = <<>>
    /\ KnownSegments \subseteq Presented
    /\ {"routine"} \cup MovementSegments \cup CombatSegments \subseteq Segments
    /\ {"movement", "combat"} \cup DOMAIN RoutineActions \subseteq ArcIds
    /\ "combat" \notin DOMAIN RoutineActions
    /\ PlainRequests \subseteq SpendActions
    /\ DOMAIN None \notin {UnitFields, OfferFields}
    /\ Ordered(Scenario) /\ Scenario.engine.movement_arc = None
    /\ DOMAIN Obligations(Scenario) = {} /\ AdvanceOffer(Scenario) = None
    /\ \A s \in Snapshots : AtPeace(s)

IsManager(m) == m = [state |-> m.state, history |-> m.history, pointer |-> m.pointer]

-----------------------------------------------------------------------------
(* 2. The writes of the cursor, the end of a retreat's walk and the change of phase. *)

LEMMA CombatCursorFields ==
    \A seg : LET c == CombatCursor(seg)
             IN  c.arc_id = "combat" /\ c.segment_id = seg /\ c.suspended = None
  BY DEF CombatCursor

LEMMA CombatCursorAt == \A seg : Runner!CursorAt("combat", seg) = CombatCursor(seg)
  BY DEF Runner!CursorAt, CombatCursor

LEMMA CursorsExist ==
    ASSUME CombatTitle
    PROVE  /\ \A seg \in CombatSegments : CombatCursor(seg) # None
           /\ \A seg \in MovementSegments : StepCursor(seg) # None
           /\ \A arc \in DOMAIN RoutineActions : RoutineCursor(arc) # None
<1>1. /\ "routine" \in Segments /\ "movement" \in ArcIds /\ "combat" \in ArcIds
      /\ DOMAIN RoutineActions \subseteq ArcIds
      /\ MovementSegments \subseteq Segments /\ CombatSegments \subseteq Segments
  BY DEF CombatTitle
<1>2. /\ \A seg \in CombatSegments : CombatCursor(seg) \in Cursors
      /\ \A seg \in MovementSegments : StepCursor(seg) \in Cursors
      /\ \A arc \in DOMAIN RoutineActions : RoutineCursor(arc) \in Cursors
  BY <1>1 DEF CombatCursor, StepCursor, RoutineCursor, Cursors
<1> QED BY <1>2, NoneAssumption

\* The parts of a state that a write to its engine entry leaves alone.
SameBut(s, t) ==
    t.units = s.units /\ t.turn = s.turn /\ t.session = s.session

LEMMA SameBucket ==
    ASSUME NEW s, NEW t, t.session = s.session
    PROVE  /\ Obligations(t) = Obligations(s) /\ AdvanceOffer(t) = AdvanceOffer(s)
           /\ AttacksThisPhase(t) = AttacksThisPhase(s) /\ LastCombat(t) = LastCombat(s)
           /\ DisruptInsteadOffered(t) = DisruptInsteadOffered(s)
           /\ \A u : HexesRemaining(t, u) = HexesRemaining(s, u)
<1>1. \A key, default : InBucket(t, key, default) = InBucket(s, key, default)
  BY DEF InBucket
<1>2. Obligations(t) = Obligations(s)
  BY <1>1 DEF Obligations
<1> QED BY <1>1, <1>2 DEF AdvanceOffer, AttacksThisPhase, LastCombat,
                          DisruptInsteadOffered, HexesRemaining

LEMMA SameUnits ==
    ASSUME NEW s, NEW t, t.units = s.units
    PROVE  /\ \A u : Present(t, u) = Present(s, u)
           /\ \A u : ActiveIn(t, u) = ActiveIn(s, u)
           /\ \A h : ActiveAt(t, h) = ActiveAt(s, h)
           /\ \A u : StackOf(t, u) = StackOf(s, u)
<1>1. \A u : Present(t, u) = Present(s, u)
  BY DEF Present
<1>2. \A u : ActiveIn(t, u) = ActiveIn(s, u)
  BY <1>1 DEF ActiveIn
<1>3. \A h : ActiveAt(t, h) = ActiveAt(s, h)
  BY <1>2 DEF ActiveAt
<1> QED BY <1>1, <1>2, <1>3 DEF StackOf

LEMMA KeepsOrder ==
    ASSUME NEW s, Ordered(s), NEW t, WellFormed(t), SameBut(s, t)
    PROVE  Ordered(t)
<1>1. /\ Obligations(t) = Obligations(s) /\ AttacksThisPhase(t) = AttacksThisPhase(s)
      /\ LastCombat(t) = LastCombat(s)
  BY SameBucket DEF SameBut
<1>2. \A u : Present(t, u) = Present(s, u) /\ ActiveIn(t, u) = ActiveIn(s, u)
  BY SameUnits DEF SameBut
<1>3. t.units = s.units /\ t.turn = s.turn
  BY DEF SameBut
<1>4. Owed(t)
  BY <1>1, <1>2, <1>3 DEF Ordered, Owed
<1>5. Fought(t)
  BY <1>1, <1>2, <1>3 DEF Ordered, Fought
<1> QED BY <1>4, <1>5 DEF Ordered

LEMMA CursorWritten ==
    ASSUME NEW s, WellFormed(s), NEW c
    PROVE  LET t == [s EXCEPT !.engine.cursor = c]
           IN  /\ WellFormed(t) /\ SameBut(s, t)
               /\ t.engine.cursor = c /\ t.engine.movement_arc = s.engine.movement_arc
<1> DEFINE t == [s EXCEPT !.engine.cursor = c]
<1>1. s = [units |-> s.units, turn |-> s.turn, engine |-> s.engine, session |-> s.session,
           rng_log |-> s.rng_log]
  BY DEF WellFormed
<1>2. s.engine = [cursor |-> s.engine.cursor, movement_arc |-> s.engine.movement_arc]
  BY DEF WellFormed
<1>3. /\ t = [units |-> t.units, turn |-> t.turn, engine |-> t.engine, session |-> t.session,
              rng_log |-> t.rng_log]
      /\ t.units = s.units /\ t.turn = s.turn /\ t.session = s.session
      /\ t.engine = [s.engine EXCEPT !.cursor = c]
  BY <1>1
<1>4. /\ t.engine = [cursor |-> t.engine.cursor, movement_arc |-> t.engine.movement_arc]
      /\ t.engine.cursor = c /\ t.engine.movement_arc = s.engine.movement_arc
  BY <1>2, <1>3
<1> HIDE DEF t
<1>5. WellFormed(t)
  BY <1>3, <1>4 DEF WellFormed, Present
<1> QED BY <1>3, <1>4, <1>5 DEF SameBut, t

LEMMA ArcWritten ==
    ASSUME NEW s, WellFormed(s), NEW c
    PROVE  LET t == [s EXCEPT !.engine.movement_arc = c]
           IN  /\ WellFormed(t) /\ SameBut(s, t)
               /\ t.engine.movement_arc = c /\ t.engine.cursor = s.engine.cursor
<1> DEFINE t == [s EXCEPT !.engine.movement_arc = c]
<1>1. s = [units |-> s.units, turn |-> s.turn, engine |-> s.engine, session |-> s.session,
           rng_log |-> s.rng_log]
  BY DEF WellFormed
<1>2. s.engine = [cursor |-> s.engine.cursor, movement_arc |-> s.engine.movement_arc]
  BY DEF WellFormed
<1>3. /\ t = [units |-> t.units, turn |-> t.turn, engine |-> t.engine, session |-> t.session,
              rng_log |-> t.rng_log]
      /\ t.units = s.units /\ t.turn = s.turn /\ t.session = s.session
      /\ t.engine = [s.engine EXCEPT !.movement_arc = c]
  BY <1>1
<1>4. /\ t.engine = [cursor |-> t.engine.cursor, movement_arc |-> t.engine.movement_arc]
      /\ t.engine.movement_arc = c /\ t.engine.cursor = s.engine.cursor
  BY <1>2, <1>3
<1> HIDE DEF t
<1>5. WellFormed(t)
  BY <1>3, <1>4 DEF WellFormed, Present
<1> QED BY <1>3, <1>4, <1>5 DEF SameBut, t

LEMMA ExecutedIs ==
    ASSUME NEW m, NEW a, CanApply(a, m.state)
    PROVE  IsManager(Executed(m, a)) /\ Executed(m, a).state = Apply(a, m.state)
  BY DEF Executed, IsManager

LEMMA PlacedState ==
    ASSUME NEW m, WellFormed(m.state), NEW c
    PROVE  LET t == Placed(m, c).state
           IN  /\ IsManager(Placed(m, c))
               /\ WellFormed(t) /\ SameBut(m.state, t)
               /\ t.engine.cursor = c /\ t.engine.movement_arc = m.state.engine.movement_arc
<1>1. Placed(m, c).state = [m.state EXCEPT !.engine.cursor = c]
  BY Places
<1>2. IsManager(Placed(m, c))
  <2>1. CanApply(Runner!SetArcCursor(c), m.state)
    BY DEF CanApply, Runner!SetArcCursor
  <2> QED BY <2>1, ExecutedIs DEF Placed
<1> DEFINE t == [m.state EXCEPT !.engine.cursor = c]
<1>3. /\ WellFormed(t) /\ SameBut(m.state, t)
      /\ t.engine.cursor = c /\ t.engine.movement_arc = m.state.engine.movement_arc
  BY CursorWritten
<1> HIDE DEF t
<1>4. Placed(m, c).state = t
  BY <1>1 DEF t
<1> QED BY <1>2, <1>3, <1>4

LEMMA FinishedState ==
    ASSUME NEW m, WellFormed(m.state)
    PROVE  LET t == Finished(m).state
           IN  /\ IsManager(Finished(m))
               /\ WellFormed(t) /\ SameBut(m.state, t)
               /\ t.engine.cursor = m.state.engine.cursor /\ t.engine.movement_arc = None
<1>1. Finished(m).state = [m.state EXCEPT !.engine.movement_arc = None]
  BY Finishes
<1>2. IsManager(Finished(m))
  <2>1. CanApply(WriteArc(None), m.state)
    BY DEF CanApply, WriteArc
  <2> QED BY <2>1, ExecutedIs DEF Finished
<1> DEFINE t == [m.state EXCEPT !.engine.movement_arc = None]
<1>3. /\ WellFormed(t) /\ SameBut(m.state, t)
      /\ t.engine.movement_arc = None /\ t.engine.cursor = m.state.engine.cursor
  BY ArcWritten
<1> HIDE DEF t
<1>4. Finished(m).state = t
  BY <1>1 DEF t
<1> QED BY <1>2, <1>3, <1>4

\* The slot of the schedule has a routine arc, and the cursor rests on it.
LEMMA SlotBegins ==
    ASSUME CombatTitle, NEW m, WellFormed(m.state)
    PROVE  LET t == InSlot(m).state
           IN  /\ BeginRoutineSlot(Runner!Ran(m)) = Runner!Ran(InSlot(m))
               /\ IsManager(InSlot(m))
               /\ WellFormed(t) /\ SameBut(m.state, t)
               /\ t.engine.movement_arc = m.state.engine.movement_arc
               /\ \E arc \in DOMAIN RoutineActions : t.engine.cursor = RoutineCursor(arc)
<1> DEFINE arc == Slot(m.state.turn.schedule_index).routine_arc_id
           x == Placed(m, RoutineCursor(arc))
<1>1. arc \in DOMAIN RoutineActions
  <2>1. m.state.turn.schedule_index \in Nat
    BY DEF WellFormed, TurnStates
  <2> QED BY <2>1, SlotType
<1> HIDE DEF arc
<1>2. Runner!CursorAt(arc, DeclaredArcs[arc].entry) = RoutineCursor(arc)
  BY <1>1, RoutineArcs, CursorsAt
<1>3. Runner!Run(Runner!Ran(m), <<Runner!SetArcCursor(RoutineCursor(arc))>>) = Runner!Ran(x)
  BY SetsCursor DEF SetCursor
<1>4. /\ IsManager(x) /\ WellFormed(x.state) /\ SameBut(m.state, x.state)
      /\ x.state.engine.movement_arc = m.state.engine.movement_arc
      /\ x.state.engine.cursor = RoutineCursor(arc)
  BY PlacedState
<1>5. x.state.engine.cursor \in RestCursors
  BY <1>1, <1>4 DEF RestCursors
<1>6. Runner!AutoAdvance(Runner!Ran(x)) = Runner!Ran(x)
  BY <1>5, AutoAtRest
<1>7. Runner!BeginArc(Runner!Ran(m), arc)
        = Runner!AutoAdvance(Runner!Run(Runner!Ran(m), <<Runner!SetArcCursor(RoutineCursor(arc))>>))
  BY <1>2 DEF Runner!BeginArc
<1>8. Runner!BeginArc(Runner!Ran(m), arc) = Runner!Ran(x)
  BY <1>3, <1>6, <1>7
<1>9. BeginRoutineSlot(Runner!Ran(m)) = Runner!BeginArc(Runner!Ran(m), arc)
  BY RunIs DEF BeginRoutineSlot, arc
<1>10. x = InSlot(m)
  BY DEF InSlot, arc
<1> QED BY <1>1, <1>4, <1>8, <1>9, <1>10

\* The routine cursor is put back where there is none, and nowhere else.
LEMMA RoutineRestored ==
    ASSUME NEW m
    PROVE  /\ RestoreRoutineCursor(Runner!Raised(m)) = Runner!Raised(m)
           /\ m.state.engine.cursor # None =>
                 RestoreRoutineCursor(Runner!Ran(m)) = Runner!Ran(m)
           /\ m.state.engine.cursor = None =>
                 RestoreRoutineCursor(Runner!Ran(m)) = BeginRoutineSlot(Runner!Ran(m))
  BY RunIs DEF RestoreRoutineCursor

-----------------------------------------------------------------------------
(* 3. The session bucket, and the change of phase, which empties it. *)

\* The parts of a state that a write to its bucket leaves alone.
SameBoard(s, t) ==
    t.units = s.units /\ t.turn = s.turn /\ t.engine = s.engine

LEMMA PatchIs ==
    \A values, removed :
        LET a == Patch(values, removed)
        IN  /\ a.kind = "BucketPatch" /\ a.patch.values = values /\ a.patch.remove_keys = removed
            /\ \A s : CanApply(a, s) /\ Apply(a, s) = ApplyBucketPatch(a, s)
  BY DEF Patch, CanApply, Apply

LEMMA BucketWritten ==
    ASSUME NEW s, WellFormed(s), NEW b
    PROVE  LET t == [s EXCEPT !.session = b]
           IN  WellFormed(t) /\ SameBoard(s, t) /\ t.session = b
<1> DEFINE t == [s EXCEPT !.session = b]
<1>1. s = [units |-> s.units, turn |-> s.turn, engine |-> s.engine, session |-> s.session,
           rng_log |-> s.rng_log]
  BY DEF WellFormed
<1>2. /\ t = [units |-> t.units, turn |-> t.turn, engine |-> t.engine, session |-> t.session,
              rng_log |-> t.rng_log]
      /\ t.units = s.units /\ t.turn = s.turn /\ t.engine = s.engine /\ t.session = b
  BY <1>1
<1> HIDE DEF t
<1>3. WellFormed(t)
  BY <1>2 DEF WellFormed, Present
<1> QED BY <1>2, <1>3 DEF SameBoard, t

\* What a patch of the bucket leaves under a key.
LEMMA PatchedBucket ==
    ASSUME NEW s, WellFormed(s), NEW values, NEW removed
    PROVE  LET t == Apply(Patch(values, removed), s)
           IN  /\ WellFormed(t) /\ SameBoard(s, t)
               /\ DOMAIN t.session = (DOMAIN s.session \cup DOMAIN values) \ removed
               /\ \A key, default : InBucket(t, key, default) =
                     IF key \in removed THEN default
                     ELSE IF key \in DOMAIN values THEN values[key]
                     ELSE InBucket(s, key, default)
<1> DEFINE b == Without(Merge(s.session, values), removed)
           t == [s EXCEPT !.session = b]
<1>1. Apply(Patch(values, removed), s) = t
  BY PatchIs DEF ApplyBucketPatch, WellFormed
<1>2. WellFormed(t) /\ SameBoard(s, t) /\ t.session = b
  BY BucketWritten
<1>3. DOMAIN b = (DOMAIN s.session \cup DOMAIN values) \ removed
  BY DEF Merge, Without
<1>4. \A key \in DOMAIN b : b[key] = IF key \in DOMAIN values THEN values[key] ELSE s.session[key]
  BY DEF Merge, Without
<1> HIDE DEF t, b
<1>5. \A key, default : InBucket(t, key, default) =
         IF key \in removed THEN default
         ELSE IF key \in DOMAIN values THEN values[key]
         ELSE InBucket(s, key, default)
  BY <1>2, <1>3, <1>4 DEF InBucket
<1> QED BY <1>1, <1>2, <1>3, <1>5

LEMMA PatchExecuted ==
    ASSUME NEW m, NEW values, NEW removed
    PROVE  LET x == Executed(m, Patch(values, removed))
           IN  /\ ExecutedAll(m, <<Patch(values, removed)>>) = Runner!Ran(x)
               /\ IsManager(x) /\ x.state = Apply(Patch(values, removed), m.state)
<1> DEFINE a == Patch(values, removed)
<1>1. CanApply(a, m.state)
  BY PatchIs
<1> HIDE DEF a
<1>2. ExecutedAll(m, <<a>>) = Runner!Ran(Executed(m, a))
  BY <1>1, RunOfOne
<1> QED BY <1>1, <1>2, ExecutedIs DEF a

\* The manager after the keys have been dropped.
Dropped(m, keys) == ExecutedAll(m, ClearBucket(m.state, keys)).m

LEMMA BucketCleared ==
    ASSUME NEW m, IsManager(m), WellFormed(m.state), NEW keys
    PROVE  LET t == Dropped(m, keys).state
           IN  /\ ExecutedAll(m, ClearBucket(m.state, keys)) = Runner!Ran(Dropped(m, keys))
               /\ IsManager(Dropped(m, keys))
               /\ WellFormed(t) /\ SameBoard(m.state, t)
               /\ \A key, default : InBucket(t, key, default) =
                     IF key \in keys THEN default ELSE InBucket(m.state, key, default)
<1> DEFINE x == Dropped(m, keys)
           s == m.state
           acts == ClearBucket(s, keys)
<1>1. CASE DOMAIN s.session \cap keys = {}
  <2>1. acts = <<>>
    BY <1>1 DEF ClearBucket
  <2>2. ExecutedAll(m, acts) = Runner!Ran(m)
    BY <2>1, RunOfNone
  <2> HIDE DEF acts
  <2>3. x = m
    BY <2>2, RunIs DEF Dropped, acts
  <2>4. \A key, default : InBucket(s, key, default) =
           IF key \in keys THEN default ELSE InBucket(s, key, default)
    BY <1>1 DEF InBucket
  <2> HIDE DEF x
  <2> QED BY <2>2, <2>3, <2>4 DEF SameBoard, x, acts
<1>2. CASE DOMAIN s.session \cap keys # {}
  <2> DEFINE a == Patch(Empty, keys)
             y == Executed(m, a)
  <2>1. acts = <<a>>
    BY <1>2 DEF ClearBucket
  <2>2. ExecutedAll(m, <<a>>) = Runner!Ran(y) /\ IsManager(y) /\ y.state = Apply(a, s)
    BY PatchExecuted
  <2>3. /\ WellFormed(Apply(a, s)) /\ SameBoard(s, Apply(a, s))
        /\ \A key, default : InBucket(Apply(a, s), key, default) =
              IF key \in keys THEN default
              ELSE IF key \in DOMAIN Empty THEN Empty[key]
              ELSE InBucket(s, key, default)
    BY PatchedBucket
  <2>4. DOMAIN Empty = {}
    BY DEF Empty
  <2> HIDE DEF a, acts
  <2>5. ExecutedAll(m, acts) = Runner!Ran(y)
    BY <2>1, <2>2
  <2> HIDE DEF y
  <2>6. x = y
    BY <2>5, RunIs DEF Dropped, acts
  <2> HIDE DEF x
  <2> QED BY <2>2, <2>3, <2>4, <2>5, <2>6 DEF x, acts
<1> QED BY <1>1, <1>2

\* What the combat keeps of a phase, seen through the bucket.
LEMMA BucketFields ==
    ASSUME NEW s
    PROVE  /\ AttacksThisPhase(s) = InBucket(s, "attacks_this_phase", <<>>)
           /\ LastCombat(s) = InBucket(s, "last_combat", None)
           /\ Obligations(s) = InBucket(s, "retreat_obligations", Empty)
           /\ AdvanceOffer(s) = InBucket(s, "advance", None)
           /\ DisruptInsteadOffered(s) = InBucket(s, "disrupt_instead_offered", FALSE)
  BY DEF AttacksThisPhase, LastCombat, Obligations, AdvanceOffer, DisruptInsteadOffered

\* Nobody has fought, and nobody owes anything.
Quiet(s) ==
    /\ AttacksThisPhase(s) = <<>> /\ LastCombat(s) = None
    /\ DOMAIN Obligations(s) = {} /\ AdvanceOffer(s) = None

LEMMA QuietIsInOrder ==
    ASSUME NEW s, WellFormed(s), Quiet(s)
    PROVE  Ordered(s)
<1>1. AttacksThisPhase(s) \in Seq(Units)
  BY DEF Quiet
<1>2. Fought(s)
  BY <1>1 DEF Fought, Quiet
<1>3. Owed(s)
  BY DEF Owed, Quiet
<1> QED BY <1>2, <1>3 DEF Ordered

LEMMA TurnWritten ==
    ASSUME NEW s, WellFormed(s), NEW turn \in TurnStates
    PROVE  LET t == [s EXCEPT !.turn = turn]
           IN  /\ WellFormed(t) /\ t.units = s.units /\ t.engine = s.engine
               /\ t.session = s.session /\ t.turn = turn
<1> DEFINE t == [s EXCEPT !.turn = turn]
<1>1. s = [units |-> s.units, turn |-> s.turn, engine |-> s.engine, session |-> s.session,
           rng_log |-> s.rng_log]
  BY DEF WellFormed
<1>2. /\ t = [units |-> t.units, turn |-> t.turn, engine |-> t.engine, session |-> t.session,
              rng_log |-> t.rng_log]
      /\ t.units = s.units /\ t.turn = turn /\ t.engine = s.engine /\ t.session = s.session
  BY <1>1
<1> HIDE DEF t
<1>3. WellFormed(t)
  BY <1>2 DEF WellFormed, Present
<1> QED BY <1>2, <1>3 DEF t

LEMMA PhaseEndedFight ==
    ASSUME NEW m, WellFormed(m.state)
    PROVE  LET t == PhaseEnded(m).state
           IN  /\ ExecutedAll(m, <<NextPhase(m.state), WriteArc(None)>>)
                     = Runner!Ran(PhaseEnded(m))
               /\ IsManager(PhaseEnded(m))
               /\ WellFormed(t) /\ t.units = m.state.units /\ t.engine.movement_arc = None
<1> DEFINE s == m.state
           a == NextPhase(s)
           b == WriteArc(None)
           y == Executed(m, a)
           n == NextIndex(s.turn.schedule_index)
           turn == NextTurn(s.turn)
<1>1. CanApply(a, s) /\ Apply(a, s) = ApplyNextPhase(a, s) /\ \A t : CanApply(b, t)
  BY DEF NextPhase, WriteArc, CanApply, Apply
<1>2. y.state = ApplyNextPhase(a, s)
  BY <1>1 DEF Executed
<1>3. s.turn \in TurnStates
  BY DEF WellFormed
<1>4. turn \in TurnStates
  <2>1. n \in Nat /\ Slot(n).faction \in Factions /\ Slot(n).phase \in Phases
        /\ Slot(n).max_actions \in Nat
    BY <1>3, SlotType DEF TurnStates
  <2>2. s.turn.global_tick \in Nat
    BY <1>3 DEF TurnStates
  <2>3. turn = [current_faction |-> Slot(n).faction, current_phase |-> Slot(n).phase,
                phase_actions_remaining |-> Slot(n).max_actions, schedule_index |-> n,
                global_tick |-> s.turn.global_tick + 1]
    BY DEF NextTurn
  <2> HIDE DEF n, turn
  <2> QED BY <2>1, <2>2, <2>3 DEF TurnStates
<1>5. y.state = [s EXCEPT !.turn = turn]
  BY <1>2 DEF ApplyNextPhase, NextPhase, NextTurn, WellFormed
<1> DEFINE t == [s EXCEPT !.turn = turn]
<1>6. WellFormed(t) /\ t.units = s.units
  BY <1>4, TurnWritten
<1> HIDE DEF t, turn
<1>7. y.state = t
  BY <1>5 DEF t
<1> HIDE DEF y, a, b
<1>8. ExecutedAll(m, <<a, b>>) = Runner!Ran(Executed(Executed(m, a), b))
  BY <1>1, RunOfTwo DEF y
<1>9. PhaseEnded(m) = Finished(y)
  BY DEF PhaseEnded, Finished, y, a
<1>10. /\ IsManager(Finished(y)) /\ WellFormed(Finished(y).state)
       /\ SameBut(y.state, Finished(y).state)
       /\ Finished(y).state.engine.movement_arc = None
  BY <1>6, <1>7, FinishedState
<1> QED BY <1>6, <1>7, <1>8, <1>9, <1>10 DEF a, b, PhaseEnded, SameBut

\* The end of a phase does not raise; the next slot begins with an empty bucket.
LEMMA PhaseAdvances ==
    ASSUME CombatTitle, NEW m, WellFormed(m.state)
    PROVE  LET t == Advanced(m).state
           IN  /\ AdvancePhase(Runner!Ran(m)) = Runner!Ran(Advanced(m))
               /\ IsManager(Advanced(m))
               /\ t.units = m.state.units
               /\ Ordered(t) /\ Quiet(t) /\ AtRoutine(t)
<1> DEFINE e == PhaseEnded(m)
           x == InSlot(e)
           y == Dropped(x, PhaseScopedCombatKeys)
           acts == <<NextPhase(m.state), WriteArc(None)>>
<1>1. /\ ExecutedAll(m, acts) = Runner!Ran(e)
      /\ IsManager(e) /\ WellFormed(e.state) /\ e.state.units = m.state.units
      /\ e.state.engine.movement_arc = None
  BY PhaseEndedFight
<1> HIDE DEF e
<1>2. /\ BeginRoutineSlot(Runner!Ran(e)) = Runner!Ran(x)
      /\ IsManager(x) /\ WellFormed(x.state) /\ SameBut(e.state, x.state)
      /\ x.state.engine.movement_arc = None
      /\ \E arc \in DOMAIN RoutineActions : x.state.engine.cursor = RoutineCursor(arc)
  BY <1>1, SlotBegins
<1>3. AfterPhase(x.state) = ClearBucket(x.state, PhaseScopedCombatKeys)
  BY DEF CombatTitle, ClearCombatState
<1> HIDE DEF x, acts
<1>4. /\ ExecutedAll(x, ClearBucket(x.state, PhaseScopedCombatKeys)) = Runner!Ran(y)
      /\ IsManager(y) /\ WellFormed(y.state) /\ SameBoard(x.state, y.state)
      /\ \A key, default : InBucket(y.state, key, default) =
            IF key \in PhaseScopedCombatKeys THEN default ELSE InBucket(x.state, key, default)
  BY <1>2, BucketCleared
<1> HIDE DEF y
<1>5. Runner!Run(Runner!Ran(m), acts) = Runner!Ran(e)
  BY <1>1, RunIs
<1>6. AdvancePhase(Runner!Ran(m)) = Runner!Run(Runner!Ran(x), AfterPhase(x.state))
  BY <1>2, <1>5, RunIs DEF AdvancePhase, acts
<1>7. AdvancePhase(Runner!Ran(m)) = Runner!Ran(y)
  BY <1>3, <1>4, <1>6, RunIs
<1>8. Advanced(m) = y
  <2>1. Advanced(m) = ExecutedAll(x, AfterPhase(x.state)).m
    BY DEF Advanced, x, e
  <2> QED BY <1>3, <1>4, <2>1, RunIs
<1>9. Quiet(y.state)
  <2>1. DOMAIN Empty = {}
    BY DEF Empty
  <2>2. {"attacks_this_phase", "last_combat", "retreat_obligations", "advance"}
          \subseteq PhaseScopedCombatKeys
    BY DEF PhaseScopedCombatKeys
  <2> QED BY <1>4, <2>1, <2>2, BucketFields DEF Quiet
<1>10. Ordered(y.state)
  BY <1>4, <1>9, QuietIsInOrder
<1>11. AtRoutine(y.state)
  BY <1>2, <1>4, <1>9 DEF AtRoutine, SameBoard, Quiet
<1> QED BY <1>1, <1>2, <1>4, <1>7, <1>8, <1>9, <1>10, <1>11 DEF SameBoard, SameBut

-----------------------------------------------------------------------------
(* 4. The segments of the combat arc, its guards and its effects. *)

LEMMA CombatSegment ==
    ASSUME CombatTitle, NEW seg \in CombatSegments
    PROVE  Runner!Segment(CombatCursor(seg)) = CombatGraph.segments[seg]
<1>1. OverlayArcs = CombatArcs /\ "combat" \notin DOMAIN RoutineActions
  BY DEF CombatTitle
<1>2. DeclaredArcs["combat"] = CombatGraph
  <2>1. DOMAIN CombatArcs = {"combat"} /\ CombatArcs["combat"] = CombatGraph
    BY DEF CombatArcs
  <2> HIDE DEF CombatGraph
  <2> QED BY <1>1, <2>1 DEF DeclaredArcs
<1> QED BY <1>2, CombatCursorFields DEF Runner!Segment

LEMMA AttackSegment ==
    CombatGraph.segments["attack"] =
        Owned("CURRENT", {"Attack"},
              <<On("Attack", "always", "attack_arc_effect", Goto("classify"))>>)
  BY DEF CombatGraph, CombatSegments

LEMMA ClassifySegment ==
    CombatGraph.segments["classify"] =
        Owned("NO_OWNER", {},
              <<On("AUTO", "disrupt_offered", "none", Goto("retreat_or_disrupt_gate"))>> \o Settle)
  BY DEF CombatGraph, CombatSegments

LEMMA RetreatGateSegment ==
    CombatGraph.segments["retreat_gate"] =
        Owned("retreating_in_combat", {"MoveUnit"}, <<RetreatMove(Goto("resolve"))>>)
  BY DEF CombatGraph, CombatSegments

LEMMA DisruptGateSegment ==
    CombatGraph.segments["retreat_or_disrupt_gate"] =
        Owned("retreating_in_combat", {"MoveUnit", "CombatDisruptInsteadOfRetreat"},
              <<RetreatMove(Goto("resolve")),
                On("CombatDisruptInsteadOfRetreat", "always", "disrupt_instead",
                   Goto("resolve"))>>)
  BY DEF CombatGraph, CombatSegments

LEMMA ResolveSegment ==
    CombatGraph.segments["resolve"] = Owned("NO_OWNER", {}, Settle)
  BY DEF CombatGraph, CombatSegments

LEMMA AdvanceGateSegment ==
    CombatGraph.segments["advance_gate"] =
        Owned("CURRENT", {"CombatAdvance", "MoveUnit", "CombatDeclineAdvance"},
              <<On("CombatAdvance", "always", "resolve_advance", DONE),
                On("MoveUnit", "is_combat_advance_move", "resolve_advance", DONE),
                On("CombatDeclineAdvance", "always", "clear_advance_gate", DONE)>>)
  BY DEF CombatGraph, CombatSegments

LEMMA OnFields ==
    \A trigger, guard, effect, target :
        LET t == On(trigger, guard, effect, target)
        IN  t.trigger = trigger /\ t.guard = guard /\ t.effect = effect /\ t.target = target
  BY DEF On

LEMMA OwnedFields ==
    \A owner, actions, transitions :
        LET seg == Owned(owner, actions, transitions)
        IN  /\ seg.owner = owner /\ seg.allowed_actions = actions
            /\ seg.transitions = transitions
  BY DEF Owned

LEMMA CombatOwners ==
    ASSUME CombatTitle
    PROVE  /\ \A seg \in {"attack", "advance_gate"} :
                 Runner!Segment(CombatCursor(seg)).owner = "CURRENT"
           /\ \A seg \in Retreats :
                 Runner!Segment(CombatCursor(seg)).owner = "retreating_in_combat"
           /\ \A seg \in {"classify", "resolve"} :
                 Runner!Segment(CombatCursor(seg)).owner = "NO_OWNER"
<1>1. /\ CombatGraph.segments["attack"].owner = "CURRENT"
      /\ CombatGraph.segments["advance_gate"].owner = "CURRENT"
  BY AttackSegment, AdvanceGateSegment, OwnedFields
<1>2. /\ CombatGraph.segments["retreat_gate"].owner = "retreating_in_combat"
      /\ CombatGraph.segments["retreat_or_disrupt_gate"].owner = "retreating_in_combat"
  BY RetreatGateSegment, DisruptGateSegment, OwnedFields
<1>3. /\ CombatGraph.segments["classify"].owner = "NO_OWNER"
      /\ CombatGraph.segments["resolve"].owner = "NO_OWNER"
  BY ClassifySegment, ResolveSegment, OwnedFields
<1>4. \A seg \in CombatSegments : Runner!Segment(CombatCursor(seg)) = CombatGraph.segments[seg]
  BY CombatSegment
<1>5. {"attack", "advance_gate", "classify", "resolve"} \cup Retreats \subseteq CombatSegments
  BY DEF CombatSegments, Retreats
<1> HIDE DEF CombatGraph
<1> QED BY <1>1, <1>2, <1>3, <1>4, <1>5 DEF Retreats

LEMMA CombatGuards ==
    ASSUME CombatTitle, NEW ctx
    PROVE  /\ GuardPasses("always", ctx)
           /\ GuardPasses("disrupt_offered", ctx) =
                 (DisruptInsteadOffered(ctx.state) /\ RetreatsPending(ctx.state))
           /\ GuardPasses("has_pending_retreat", ctx) = RetreatsPending(ctx.state)
           /\ GuardPasses("advance_available", ctx) = AdvanceIsOpen(ctx.state)
           /\ GuardPasses("is_retreat_fulfillment", ctx) =
                 (HexesRemaining(ctx.state, ctx.params.unit_id) > 0)
           /\ GuardPasses("is_combat_advance_move", ctx) =
                 IsAdvanceMove(ctx.state, ctx.owner, ctx.params.unit_id, ctx.params.to_hex)
<1>0. \A guard, c : OverlayPasses(guard, c) = CombatPasses(guard, c)
  BY DEF CombatTitle
<1>1. GuardPasses("always", ctx)
  BY DEF GuardPasses
<1>2. \A guard \in {"disrupt_offered", "has_pending_retreat", "advance_available",
                    "is_retreat_fulfillment", "is_combat_advance_move"} :
         GuardPasses(guard, ctx) = CombatPasses(guard, ctx)
  BY <1>0 DEF GuardPasses
<1>3. CombatPasses("disrupt_offered", ctx) =
         (DisruptInsteadOffered(ctx.state) /\ RetreatsPending(ctx.state))
  BY DEF CombatPasses
<1>4. CombatPasses("has_pending_retreat", ctx) = RetreatsPending(ctx.state)
  BY DEF CombatPasses
<1>5. CombatPasses("advance_available", ctx) = AdvanceIsOpen(ctx.state)
  BY DEF CombatPasses
<1>6. CombatPasses("is_retreat_fulfillment", ctx) =
         (HexesRemaining(ctx.state, ctx.params.unit_id) > 0)
  BY DEF CombatPasses
<1>7. CombatPasses("is_combat_advance_move", ctx) =
         IsAdvanceMove(ctx.state, ctx.owner, ctx.params.unit_id, ctx.params.to_hex)
  BY DEF CombatPasses
<1> QED BY <1>1, <1>2, <1>3, <1>4, <1>5, <1>6, <1>7

LEMMA CombatEffectsAre ==
    ASSUME CombatTitle, NEW ctx
    PROVE  /\ EffectActions("none", ctx) = <<>>
           /\ EffectActions("finish_path", ctx) = <<WriteArc(None)>>
           /\ EffectActions("apply_step", ctx) = ApplyStep(ctx)
           /\ EffectActions("open_retreat_step", ctx) = OpenRetreatStep(ctx)
           /\ EffectActions("attack_arc_effect", ctx) = AttackActions(ctx.state, ctx.params)
           /\ EffectActions("apply_retreat_step", ctx) =
                 RetreatStepActions(ctx.state, ctx.owner, ctx.params.unit_id,
                                    ctx.params.from_hex, ctx.params.to_hex)
           /\ EffectActions("disrupt_instead", ctx) = DisruptActions(ctx.state, ctx.owner)
           /\ EffectActions("open_advance", ctx) = OpenAdvanceActions(ctx.state)
           /\ EffectActions("resolve_advance", ctx) = ResolveAdvanceActions(ctx.state, ctx.owner)
           /\ EffectActions("clear_advance_gate", ctx) = ClearBucket(ctx.state, {"advance"})
<1>0. \A effect, c : OverlayEffects(effect, c) = CombatEffect(effect, c)
  BY DEF CombatTitle
<1>1. /\ EffectActions("none", ctx) = <<>>
      /\ EffectActions("finish_path", ctx) = <<WriteArc(None)>>
      /\ EffectActions("apply_step", ctx) = ApplyStep(ctx)
      /\ EffectActions("open_retreat_step", ctx) = OpenRetreatStep(ctx)
  BY DEF EffectActions
<1>2. \A effect \in {"attack_arc_effect", "apply_retreat_step", "disrupt_instead",
                     "open_advance", "resolve_advance", "clear_advance_gate"} :
         EffectActions(effect, ctx) = CombatEffect(effect, ctx)
  BY <1>0 DEF EffectActions
<1>3. CombatEffect("attack_arc_effect", ctx) = AttackActions(ctx.state, ctx.params)
  BY DEF CombatEffect
<1>4. CombatEffect("apply_retreat_step", ctx) =
         RetreatStepActions(ctx.state, ctx.owner, ctx.params.unit_id,
                            ctx.params.from_hex, ctx.params.to_hex)
  BY DEF CombatEffect
<1>5. CombatEffect("disrupt_instead", ctx) = DisruptActions(ctx.state, ctx.owner)
  BY DEF CombatEffect
<1>6. CombatEffect("open_advance", ctx) = OpenAdvanceActions(ctx.state)
  BY DEF CombatEffect
<1>7. CombatEffect("resolve_advance", ctx) = ResolveAdvanceActions(ctx.state, ctx.owner)
  BY DEF CombatEffect
<1>8. CombatEffect("clear_advance_gate", ctx) = ClearBucket(ctx.state, {"advance"})
  BY DEF CombatEffect
<1> QED BY <1>1, <1>2, <1>3, <1>4, <1>5, <1>6, <1>7, <1>8

LEMMA CombatRaisesAre ==
    ASSUME CombatTitle, NEW ctx
    PROVE  /\ \A effect \in {"none", "finish_path", "apply_step", "open_retreat_step",
                             "apply_retreat_step", "open_advance", "clear_advance_gate"} :
                 ~OverlayRaises(effect, ctx)
           /\ OverlayRaises("attack_arc_effect", ctx) =
                 ~ValidAttack(ctx.state, ctx.owner, ctx.params)
           /\ OverlayRaises("disrupt_instead", ctx) =
                 ~\E u \in Retreaters(ctx.state) : ctx.state.units[u].faction = ctx.owner
           /\ OverlayRaises("resolve_advance", ctx) = ~AdvanceFor(ctx.state, ctx.owner)
<1>0. \A effect, c : OverlayRaises(effect, c) = CombatRaises(effect, c)
  BY DEF CombatTitle
<1>1. \A effect \in {"none", "finish_path", "apply_step", "open_retreat_step",
                     "apply_retreat_step", "open_advance", "clear_advance_gate"} :
         ~CombatRaises(effect, ctx)
  BY DEF CombatRaises
<1>2. CombatRaises("attack_arc_effect", ctx) = ~ValidAttack(ctx.state, ctx.owner, ctx.params)
  BY DEF CombatRaises
<1>3. CombatRaises("disrupt_instead", ctx) =
         ~\E u \in Retreaters(ctx.state) : ctx.state.units[u].faction = ctx.owner
  BY DEF CombatRaises
<1>4. CombatRaises("resolve_advance", ctx) = ~AdvanceFor(ctx.state, ctx.owner)
  BY DEF CombatRaises
<1> QED BY <1>0, <1>1, <1>2, <1>3, <1>4

\* The first transition with the trigger whose guard passes is the one that is applied.
LEMMA TransitionTaken ==
    ASSUME NEW m, NEW c, NEW ctx, NEW trigger, NEW n \in Nat,
           DOMAIN Runner!Segment(c).transitions = 1..n, NEW k \in 1..n,
           Runner!Segment(c).transitions[k].trigger = trigger,
           GuardPasses(Runner!Segment(c).transitions[k].guard, ctx),
           \A i \in 1..n : i < k =>
              \/ Runner!Segment(c).transitions[i].trigger # trigger
              \/ ~GuardPasses(Runner!Segment(c).transitions[i].guard, ctx)
    PROVE  LET passing == Runner!Passing(Runner!Segment(c), ctx, trigger)
           IN  /\ passing # {}
               /\ Runner!FirstApplied(m, c, passing, ctx) =
                    Runner!ApplyTransition(m, c, Runner!Segment(c).transitions[k], ctx)
<1> DEFINE seg == Runner!Segment(c)
           P == Runner!Passing(seg, ctx, trigger)
<1> HIDE DEF seg
<1>1. P = {i \in 1..n : /\ seg.transitions[i].trigger = trigger
                        /\ GuardPasses(seg.transitions[i].guard, ctx)}
  BY DEF Runner!Passing, seg
<1>2. k \in P
  BY <1>1 DEF seg
<1>3. \A i \in P : k <= i
  BY <1>1 DEF seg
<1>4. P \in SUBSET Nat
  BY <1>1
<1> HIDE DEF P
<1>5. Runner!Min(P) = k
  BY <1>2, <1>3, <1>4, FirstOf, RunnerMin
<1> QED BY <1>2, <1>5 DEF P, seg, Runner!FirstApplied

LEMMA CombatNextCursors ==
    ASSUME CombatTitle, NEW seg, NEW x
    PROVE  /\ ~Runner!TargetRaises(CombatCursor(seg), Goto(x))
           /\ Runner!NextCursor(CombatCursor(seg), Goto(x)) = CombatCursor(x)
           /\ ~Runner!TargetRaises(CombatCursor(seg), DONE)
           /\ Runner!NextCursor(CombatCursor(seg), DONE) = None
<1>1. Goto(x).to = "GOTO" /\ Goto(x).segment = x /\ DONE.to = "DONE"
  BY DEF Goto, DONE
<1>2. Runner!NextCursor(CombatCursor(seg), Goto(x)) = [CombatCursor(seg) EXCEPT !.segment_id = x]
  BY <1>1 DEF Runner!NextCursor
<1>3. [CombatCursor(seg) EXCEPT !.segment_id = x] = CombatCursor(x)
  BY DEF CombatCursor
<1>4. Runner!NextCursor(CombatCursor(seg), DONE) = None
  BY <1>1 DEF Runner!NextCursor
<1>5. /\ ~Runner!TargetRaises(CombatCursor(seg), Goto(x))
      /\ ~Runner!TargetRaises(CombatCursor(seg), DONE)
  BY <1>1 DEF Runner!TargetRaises
<1> QED BY <1>2, <1>3, <1>4, <1>5

\* The cursors on which nothing is automatic.
CombatRests ==
    {None} \cup {RoutineCursor(arc) : arc \in DOMAIN RoutineActions}
      \cup {CombatCursor(seg) : seg \in Retreats \cup {"attack", "advance_gate"}}
      \cup {StepCursor("continue"), StepCursor("retreat_open")}

LEMMA CombatRestsRest ==
    ASSUME CombatTitle, NEW m, m.state.engine.cursor \in CombatRests
    PROVE  /\ Runner!Resting(m)
           /\ Runner!AutoAdvance(Runner!Ran(m)) = Runner!Ran(m)
<1>1. \A seg \in Retreats \cup {"attack", "advance_gate"} :
         ~Runner!IsAutomatic(Runner!Segment(CombatCursor(seg)))
  BY CombatOwners DEF Runner!IsAutomatic
<1>2. ~Runner!IsAutomatic(Runner!Segment(StepCursor("continue")))
      /\ \A arc \in DOMAIN RoutineActions : ~Runner!IsAutomatic(Runner!Segment(RoutineCursor(arc)))
  BY KnownSegmentOwner DEF Runner!IsAutomatic
<1>3. ~Runner!IsAutomatic(Runner!Segment(StepCursor("retreat_open")))
  <2>1. Runner!Segment(StepCursor("retreat_open")) = StepwiseArc.segments["retreat_open"]
    BY MovementSegment, CursorFields DEF MovementSegments
  <2>2. StepwiseArc.segments["retreat_open"].owner = "retreating"
    BY DEF StepwiseArc, MovementSegments, Owned
  <2> HIDE DEF StepwiseArc
  <2> QED BY <2>1, <2>2 DEF Runner!IsAutomatic
<1>4. Runner!Resting(m)
  BY <1>1, <1>2, <1>3 DEF CombatRests, Runner!Resting
<1>5. Runner!Ended(Runner!Ran(m))
  BY <1>4, RunIs DEF Runner!Ended
<1> QED BY <1>4, <1>5, AutoAdvanceOnce

\* One automatic step to such a cursor, or one that raises, is all there is.
LEMMA AutoOnce ==
    ASSUME CombatTitle, NEW m, m.state.engine.cursor # None,
           Runner!Segment(m.state.engine.cursor).owner = "NO_OWNER",
           NEW n, Runner!AutoStep(m) = Runner!Ran(n), n.state.engine.cursor \in CombatRests
    PROVE  Runner!AutoAdvance(Runner!Ran(m)) = Runner!Ran(n)
<1>1. ~Runner!Ended(Runner!Ran(m))
  BY RunIs DEF Runner!Ended, Runner!Resting, Runner!IsAutomatic
<1>2. Runner!Ended(Runner!Ran(n))
  BY CombatRestsRest, RunIs DEF Runner!Ended
<1> QED BY <1>1, <1>2, AutoAdvanceOnce, RunIs

-----------------------------------------------------------------------------
(* 5. How an engagement goes on from its automatic segments. *)

SettleSegments == {"classify", "resolve"}

AutoContext(s) == [state |-> s, owner |-> None, params |-> None]

DisruptNext == On("AUTO", "disrupt_offered", "none", Goto("retreat_or_disrupt_gate"))
RetreatNext == On("AUTO", "has_pending_retreat", "none", Goto("retreat_gate"))
AdvanceNext == On("AUTO", "advance_available", "open_advance", Goto("advance_gate"))
EndNext == On("AUTO", "always", "none", DONE)

LEMMA SettleTransitions ==
    ASSUME CombatTitle
    PROVE  /\ LET T == Runner!Segment(CombatCursor("classify")).transitions
              IN  /\ DOMAIN T = 1..4 /\ T[1] = DisruptNext /\ T[2] = RetreatNext
                  /\ T[3] = AdvanceNext /\ T[4] = EndNext
           /\ LET T == Runner!Segment(CombatCursor("resolve")).transitions
              IN  /\ DOMAIN T = 1..3 /\ T[1] = RetreatNext
                  /\ T[2] = AdvanceNext /\ T[3] = EndNext
<1> DEFINE S == <<RetreatNext, AdvanceNext, EndNext>>
           L == <<DisruptNext>> \o S
<1>1. Settle = S
  BY DEF Settle, RetreatNext, AdvanceNext, EndNext
<1>2. {"classify", "resolve"} \subseteq CombatSegments
  BY DEF CombatSegments
<1>3. /\ Runner!Segment(CombatCursor("classify")).transitions = L
      /\ Runner!Segment(CombatCursor("resolve")).transitions = S
  <2> DEFINE d == <<On("AUTO", "disrupt_offered", "none", Goto("retreat_or_disrupt_gate"))>>
             e == d \o Settle
  <2>1. L = e
    BY <1>1 DEF DisruptNext
  <2>2. /\ CombatGraph.segments["classify"] = Owned("NO_OWNER", {}, e)
        /\ CombatGraph.segments["resolve"] = Owned("NO_OWNER", {}, Settle)
    BY ClassifySegment, ResolveSegment
  <2> HIDE DEF CombatGraph, L, S, e
  <2>3. /\ Runner!Segment(CombatCursor("classify")) = Owned("NO_OWNER", {}, e)
        /\ Runner!Segment(CombatCursor("resolve")) = Owned("NO_OWNER", {}, Settle)
    BY <1>2, <2>2, CombatSegment
  <2> QED BY <1>1, <2>1, <2>3, OwnedFields
<1> HIDE DEF DisruptNext, RetreatNext, AdvanceNext, EndNext
<1>4. DOMAIN L = 1..4 /\ L[1] = DisruptNext /\ L[2] = RetreatNext /\ L[3] = AdvanceNext
      /\ L[4] = EndNext
  OBVIOUS
<1>5. DOMAIN S = 1..3 /\ S[1] = RetreatNext /\ S[2] = AdvanceNext /\ S[3] = EndNext
  OBVIOUS
<1> QED BY <1>3, <1>4, <1>5

LEMMA SettleFields ==
    /\ \A t \in {DisruptNext, RetreatNext, AdvanceNext, EndNext} : t.trigger = "AUTO"
    /\ DisruptNext.guard = "disrupt_offered" /\ DisruptNext.effect = "none"
    /\ DisruptNext.target = Goto("retreat_or_disrupt_gate")
    /\ RetreatNext.guard = "has_pending_retreat" /\ RetreatNext.effect = "none"
    /\ RetreatNext.target = Goto("retreat_gate")
    /\ AdvanceNext.guard = "advance_available" /\ AdvanceNext.effect = "open_advance"
    /\ AdvanceNext.target = Goto("advance_gate")
    /\ EndNext.guard = "always" /\ EndNext.effect = "none" /\ EndNext.target = DONE
  BY OnFields DEF DisruptNext, RetreatNext, AdvanceNext, EndNext

\* The transition that the state asks for.
SettlesBy(s, seg) ==
    IF seg = "classify" /\ DisruptInsteadOffered(s) /\ RetreatsPending(s) THEN DisruptNext
    ELSE IF RetreatsPending(s) THEN RetreatNext
    ELSE IF AdvanceIsOpen(s) THEN AdvanceNext
    ELSE EndNext

LEMMA SettleStep ==
    ASSUME CombatTitle, NEW m, NEW seg \in SettleSegments,
           m.state.engine.cursor = CombatCursor(seg)
    PROVE  Runner!AutoStep(m) =
             Runner!ApplyTransition(m, CombatCursor(seg), SettlesBy(m.state, seg),
                                    AutoContext(m.state))
<1> DEFINE s == m.state
           c == CombatCursor(seg)
           ctx == AutoContext(s)
           T == Runner!Segment(c).transitions
           t == SettlesBy(s, seg)
           P == Runner!Passing(Runner!Segment(c), ctx, "AUTO")
<1>1. ctx.state = s
  BY DEF AutoContext
<1>2. /\ GuardPasses(DisruptNext.guard, ctx) = (DisruptInsteadOffered(s) /\ RetreatsPending(s))
      /\ GuardPasses(RetreatNext.guard, ctx) = RetreatsPending(s)
      /\ GuardPasses(AdvanceNext.guard, ctx) = AdvanceIsOpen(s)
      /\ GuardPasses(EndNext.guard, ctx)
  BY <1>1, CombatGuards, SettleFields
<1>3. Runner!AutoStep(m) = IF P = {} THEN Runner!Raised(m) ELSE Runner!FirstApplied(m, c, P, ctx)
  BY DEF Runner!AutoStep, AutoContext
<1> SUFFICES P # {} /\ Runner!FirstApplied(m, c, P, ctx) = Runner!ApplyTransition(m, c, t, ctx)
  BY <1>3
<1>4. ASSUME NEW n \in Nat, NEW k \in 1..n, DOMAIN T = 1..n, T[k] = t,
             GuardPasses(t.guard, ctx), \A i \in 1..n : i < k => ~GuardPasses(T[i].guard, ctx)
      PROVE  P # {} /\ Runner!FirstApplied(m, c, P, ctx) = Runner!ApplyTransition(m, c, t, ctx)
  <2>1. t.trigger = "AUTO"
    BY SettleFields DEF SettlesBy
  <2> HIDE DEF t, c, ctx, SettlesBy
  <2>2. Runner!Segment(c).transitions[k].trigger = "AUTO"
        /\ GuardPasses(Runner!Segment(c).transitions[k].guard, ctx)
    BY <1>4, <2>1
  <2>3. \A i \in 1..n : i < k =>
           \/ Runner!Segment(c).transitions[i].trigger # "AUTO"
           \/ ~GuardPasses(Runner!Segment(c).transitions[i].guard, ctx)
    BY <1>4
  <2>4. DOMAIN Runner!Segment(c).transitions = 1..n
    BY <1>4
  <2>5. /\ P # {}
        /\ Runner!FirstApplied(m, c, P, ctx) =
             Runner!ApplyTransition(m, c, Runner!Segment(c).transitions[k], ctx)
    BY <2>2, <2>3, <2>4, TransitionTaken
  <2> QED BY <1>4, <2>5
<1>5. CASE seg = "classify"
  <2>1. /\ DOMAIN T = 1..4 /\ T[1] = DisruptNext /\ T[2] = RetreatNext
        /\ T[3] = AdvanceNext /\ T[4] = EndNext
    BY <1>5, SettleTransitions
  <2> HIDE DEF T
  <2>2. /\ 1 \in 1..4 /\ 2 \in 1..4 /\ 3 \in 1..4 /\ 4 \in 1..4 /\ 4 \in Nat
        /\ \A i \in 1..4 : i < 2 => i = 1
        /\ \A i \in 1..4 : i < 3 => i = 1 \/ i = 2
        /\ \A i \in 1..4 : i < 4 => i = 1 \/ i = 2 \/ i = 3
        /\ \A i \in 1..4 : ~(i < 1)
    OBVIOUS
  <2>3. \E k \in 1..4 : /\ T[k] = t /\ GuardPasses(t.guard, ctx)
                        /\ \A i \in 1..4 : i < k => ~GuardPasses(T[i].guard, ctx)
    <3> HIDE DEF ctx
    <3>1. CASE DisruptInsteadOffered(s) /\ RetreatsPending(s)
      <4>1. t = DisruptNext BY <1>5, <3>1 DEF SettlesBy
      <4> QED BY <1>2, <2>1, <2>2, <3>1, <4>1
    <3>2. CASE ~(DisruptInsteadOffered(s) /\ RetreatsPending(s)) /\ RetreatsPending(s)
      <4>1. t = RetreatNext BY <1>5, <3>2 DEF SettlesBy
      <4> HIDE DEF t
      <4> QED BY <1>2, <2>1, <2>2, <3>2, <4>1
    <3>3. CASE ~RetreatsPending(s) /\ AdvanceIsOpen(s)
      <4>1. t = AdvanceNext BY <1>5, <3>3 DEF SettlesBy
      <4> HIDE DEF t
      <4> QED BY <1>2, <2>1, <2>2, <3>3, <4>1
    <3>4. CASE ~RetreatsPending(s) /\ ~AdvanceIsOpen(s)
      <4>1. t = EndNext BY <1>5, <3>4 DEF SettlesBy
      <4> HIDE DEF t
      <4> QED BY <1>2, <2>1, <2>2, <3>4, <4>1
    <3> QED BY <3>1, <3>2, <3>3, <3>4
  <2> HIDE DEF t, ctx, P
  <2> QED BY <1>4, <2>1, <2>2, <2>3
<1>6. CASE seg = "resolve"
  <2>1. DOMAIN T = 1..3 /\ T[1] = RetreatNext /\ T[2] = AdvanceNext /\ T[3] = EndNext
    BY <1>6, SettleTransitions
  <2> HIDE DEF T
  <2>2. /\ 1 \in 1..3 /\ 2 \in 1..3 /\ 3 \in 1..3 /\ 3 \in Nat
        /\ \A i \in 1..3 : i < 2 => i = 1
        /\ \A i \in 1..3 : i < 3 => i = 1 \/ i = 2
        /\ \A i \in 1..3 : ~(i < 1)
    OBVIOUS
  <2>3. \E k \in 1..3 : /\ T[k] = t /\ GuardPasses(t.guard, ctx)
                        /\ \A i \in 1..3 : i < k => ~GuardPasses(T[i].guard, ctx)
    <3> HIDE DEF ctx
    <3>2. CASE RetreatsPending(s)
      <4>1. t = RetreatNext BY <1>6, <3>2 DEF SettlesBy
      <4> HIDE DEF t
      <4> QED BY <1>2, <2>1, <2>2, <3>2, <4>1
    <3>3. CASE ~RetreatsPending(s) /\ AdvanceIsOpen(s)
      <4>1. t = AdvanceNext BY <1>6, <3>3 DEF SettlesBy
      <4> HIDE DEF t
      <4> QED BY <1>2, <2>1, <2>2, <3>3, <4>1
    <3>4. CASE ~RetreatsPending(s) /\ ~AdvanceIsOpen(s)
      <4>1. t = EndNext BY <1>6, <3>4 DEF SettlesBy
      <4> HIDE DEF t
      <4> QED BY <1>2, <2>1, <2>2, <3>4, <4>1
    <3> QED BY <3>2, <3>3, <3>4
  <2> HIDE DEF t, ctx, P
  <2> QED BY <1>4, <2>1, <2>2, <2>3
<1> QED BY <1>5, <1>6 DEF SettleSegments

LEMMA AppliesTransition ==
    ASSUME NEW m, NEW c, NEW t, NEW ctx, ~OverlayRaises(t.effect, ctx)
    PROVE  Runner!ApplyTransition(m, c, t, ctx) =
             Runner!MoveCursor(ExecutedAll(m, EffectActions(t.effect, ctx)), c, t.target)
  BY RunIs DEF Runner!ApplyTransition

\* A gate that the state asks for, and the end of the engagement.
LEMMA SettlesQuietly ==
    ASSUME CombatTitle, NEW m, NEW c, NEW t, NEW ctx, t.effect = "none",
           ~Runner!TargetRaises(c, t.target)
    PROVE  Runner!ApplyTransition(m, c, t, ctx) =
             Runner!Ran(Placed(m, Runner!NextCursor(c, t.target)))
<1>1. ~OverlayRaises("none", ctx)
  BY CombatRaisesAre
<1>2. EffectActions("none", ctx) = <<>>
  BY CombatEffectsAre
<1>3. ExecutedAll(m, <<>>) = Runner!Ran(m)
  BY RunOfNone
<1>4. Runner!MoveCursor(Runner!Ran(m), c, t.target)
        = Runner!Ran(Placed(m, Runner!NextCursor(c, t.target)))
  BY MovesCursor
<1>5. Runner!ApplyTransition(m, c, t, ctx) = Runner!MoveCursor(ExecutedAll(m, <<>>), c, t.target)
  BY <1>1, <1>2, AppliesTransition
<1> QED BY <1>3, <1>4, <1>5

LEMMA PendingIsOwed ==
    ASSUME NEW s, Owed(s)
    PROVE  /\ RetreatsPending(s) <=> DOMAIN Obligations(s) # {}
           /\ Retreaters(s) = DOMAIN Obligations(s)
           /\ \A u : HexesRemaining(s, u) > 0 <=> u \in DOMAIN Obligations(s)
  BY DEF Owed, RetreatsPending, Retreaters, HexesRemaining

\* The offer goes to the faction whose turn it is, into a hex that nobody holds.
LEMMA OfferOpens ==
    ASSUME CombatTitle, NEW m, Ordered(m.state), AdvanceIsOpen(m.state)
    PROVE  \E x : /\ ExecutedAll(m, OpenAdvanceActions(m.state)) = Runner!Ran(x)
                  /\ IsManager(x) /\ WellFormed(x.state) /\ SameBoard(m.state, x.state)
                  /\ \A key, default : key # "advance" =>
                        InBucket(x.state, key, default) = InBucket(m.state, key, default)
                  /\ OfferStands(x.state)
<1> DEFINE s == m.state
           last == LastCombat(s)
           A == AdvanceAnchors(s, last)
           k == Min(A)
           anchor == last.attackers[k]
           offer == [faction |-> s.units[anchor].faction, to_hex |-> last.defender_hex,
                     units |-> StackOf(s, anchor)]
           values == [advance |-> offer]
           x == Executed(m, Patch(values, {}))
<1>1. /\ last # None /\ A # {} /\ ActiveAt(s, last.defender_hex) = {}
  BY DEF AdvanceIsOpen
<1>2. /\ last.attackers \in Seq(Units)
      /\ \A n \in DOMAIN last.attackers :
            LET u == last.attackers[n]
            IN  Present(s, u) /\ s.units[u].faction = s.turn.current_faction
  BY <1>1 DEF Ordered, Fought
<1>3. A \subseteq DOMAIN last.attackers
  BY DEF AdvanceAnchors
<1> HIDE DEF A
<1>4. A \in SUBSET Nat
  BY <1>2, <1>3
<1>5. PICK n \in A : \A i \in A : n <= i
  BY <1>1, <1>4, Acts!LeastNumber
<1>6. k \in A
  BY <1>4, <1>5, FirstOf
<1> HIDE DEF k
<1>7. s.units[anchor].faction = s.turn.current_faction
  BY <1>2, <1>3, <1>6
<1>8. StackOf(s, anchor) \subseteq Units
  BY DEF StackOf, ActiveAt
<1>9. offer # None
  BY DEF CombatTitle, OfferFields
<1>10. /\ offer.faction = s.turn.current_faction /\ offer.to_hex = last.defender_hex
       /\ offer.units \subseteq Units
  BY <1>7, <1>8
<1>11. OpenAdvanceActions(s) = <<Patch(values, {})>>
  BY DEF OpenAdvanceActions, k, A
<1> HIDE DEF last, anchor, offer
<1>12. DOMAIN values = {"advance"} /\ values["advance"] = offer
  OBVIOUS
<1> HIDE DEF values
<1>13. /\ ExecutedAll(m, <<Patch(values, {})>>) = Runner!Ran(x)
       /\ IsManager(x) /\ x.state = Apply(Patch(values, {}), s)
  BY PatchExecuted
<1> HIDE DEF x
<1>14. /\ WellFormed(x.state) /\ SameBoard(s, x.state)
       /\ \A key, default : InBucket(x.state, key, default) =
             IF key \in {} THEN default
             ELSE IF key \in DOMAIN values THEN values[key]
             ELSE InBucket(s, key, default)
  BY <1>13, PatchedBucket DEF Ordered
<1>15. /\ AdvanceOffer(x.state) = offer
       /\ \A key, default : key # "advance" =>
             InBucket(x.state, key, default) = InBucket(s, key, default)
  BY <1>12, <1>14, BucketFields
<1>16. ActiveAt(x.state, offer.to_hex) = {}
  BY <1>1, <1>10, <1>14, SameUnits DEF SameBoard
<1>17. OfferStands(x.state)
  BY <1>9, <1>10, <1>14, <1>15, <1>16 DEF OfferStands, SameBoard
<1> QED BY <1>11, <1>13, <1>14, <1>15, <1>17

\* The parts of a state that the end of an engagement leaves alone.
SameFight(s, t) ==
    /\ t.units = s.units /\ t.turn = s.turn
    /\ Obligations(t) = Obligations(s) /\ AttacksThisPhase(t) = AttacksThisPhase(s)
    /\ LastCombat(t) = LastCombat(s)

LEMMA SameFightIsInOrder ==
    ASSUME NEW s, Ordered(s), NEW t, WellFormed(t), SameFight(s, t)
    PROVE  Ordered(t)
<1>1. /\ Obligations(t) = Obligations(s) /\ AttacksThisPhase(t) = AttacksThisPhase(s)
      /\ LastCombat(t) = LastCombat(s)
      /\ t.units = s.units /\ t.turn = s.turn
  BY DEF SameFight
<1>2. \A u : Present(t, u) = Present(s, u) /\ ActiveIn(t, u) = ActiveIn(s, u)
  BY <1>1, SameUnits
<1>4. Owed(t)
  BY <1>1, <1>2 DEF Ordered, Owed
<1>5. Fought(t)
  BY <1>1, <1>2 DEF Ordered, Fought
<1> QED BY <1>4, <1>5 DEF Ordered

\* The rest that an engagement comes to: a gate, or the routine.
AtEase(s) == AtRoutine(s) \/ AtRetreat(s) \/ AtAdvance(s)

LEMMA Settles ==
    ASSUME CombatTitle, NEW m, IsManager(m), Ordered(m.state), AdvanceOffer(m.state) = None,
           m.state.engine.movement_arc = None,
           NEW seg \in SettleSegments, m.state.engine.cursor = CombatCursor(seg)
    PROVE  \E x : /\ RestoreRoutineCursor(Runner!AutoAdvance(Runner!Ran(m))) = Runner!Ran(x)
                  /\ IsManager(x) /\ Ordered(x.state) /\ SameFight(m.state, x.state)
                  /\ AtEase(x.state)
<1> DEFINE s == m.state
           c == CombatCursor(seg)
           t == SettlesBy(s, seg)
           ctx == AutoContext(s)
<1>1. Runner!AutoStep(m) = Runner!ApplyTransition(m, c, t, ctx)
  BY SettleStep
<1>2. /\ m.state.engine.cursor # None
      /\ Runner!Segment(m.state.engine.cursor).owner = "NO_OWNER"
  BY CursorsExist, CombatOwners DEF SettleSegments, CombatSegments
<1>3. WellFormed(s) /\ Owed(s)
  BY DEF Ordered
<1>4. RetreatsPending(s) <=> DOMAIN Obligations(s) # {}
  BY <1>3, PendingIsOwed
<1>5. ASSUME NEW x, Runner!AutoStep(m) = Runner!Ran(x), x.state.engine.cursor # None,
             x.state.engine.cursor \in CombatRests
      PROVE  RestoreRoutineCursor(Runner!AutoAdvance(Runner!Ran(m))) = Runner!Ran(x)
  <2>1. Runner!AutoAdvance(Runner!Ran(m)) = Runner!Ran(x)
    BY <1>2, <1>5, AutoOnce
  <2> QED BY <1>5, <2>1, RoutineRestored
<1>6. CASE RetreatsPending(s)
  <2> DEFINE gate == IF seg = "classify" /\ DisruptInsteadOffered(s)
                     THEN "retreat_or_disrupt_gate" ELSE "retreat_gate"
             x == Placed(m, CombatCursor(gate))
  <2>1. t.effect = "none" /\ t.target = Goto(gate)
    BY <1>6, SettleFields DEF SettlesBy
  <2>2. gate \in Retreats /\ gate \in CombatSegments
    BY DEF Retreats, CombatSegments
  <2>3. gate = "retreat_or_disrupt_gate" => DisruptInsteadOffered(s)
    OBVIOUS
  <2> HIDE DEF gate, t, c, ctx
  <2>4. /\ ~Runner!TargetRaises(c, t.target)
        /\ Runner!NextCursor(c, t.target) = CombatCursor(gate)
    BY <2>1, CombatNextCursors DEF c
  <2>5. Runner!AutoStep(m) = Runner!Ran(x)
    BY <1>1, <2>1, <2>4, SettlesQuietly
  <2>6. /\ IsManager(x) /\ WellFormed(x.state) /\ SameBut(s, x.state)
        /\ x.state.engine.cursor = CombatCursor(gate)
        /\ x.state.engine.movement_arc = None
    BY <1>3, PlacedState
  <2> HIDE DEF x
  <2>7. x.state.engine.cursor # None /\ x.state.engine.cursor \in CombatRests
    BY <2>2, <2>6, CursorsExist DEF CombatRests
  <2>8. RestoreRoutineCursor(Runner!AutoAdvance(Runner!Ran(m))) = Runner!Ran(x)
    BY <1>5, <2>5, <2>7
  <2>9. /\ Obligations(x.state) = Obligations(s) /\ AdvanceOffer(x.state) = None
        /\ AttacksThisPhase(x.state) = AttacksThisPhase(s) /\ LastCombat(x.state) = LastCombat(s)
        /\ DisruptInsteadOffered(x.state) = DisruptInsteadOffered(s)
    BY <2>6, SameBucket DEF SameBut
  <2>10. SameFight(s, x.state)
    BY <2>6, <2>9 DEF SameFight, SameBut
  <2>11. Ordered(x.state)
    BY <2>6, <2>10, SameFightIsInOrder
  <2>12. AtRetreat(x.state)
    <3>1. x.state.engine.cursor = CombatCursor("retreat_or_disrupt_gate")
            => DisruptInsteadOffered(x.state)
      BY <2>3, <2>6, <2>9, CombatCursorFields
    <3> QED BY <1>4, <1>6, <2>2, <2>6, <2>9, <3>1 DEF AtRetreat
  <2> QED BY <2>6, <2>8, <2>10, <2>11, <2>12 DEF AtEase
<1>7. CASE ~RetreatsPending(s) /\ AdvanceIsOpen(s)
  <2>1. t.effect = "open_advance" /\ t.target = Goto("advance_gate")
    BY <1>7, SettleFields DEF SettlesBy
  <2>2. PICK y : /\ ExecutedAll(m, OpenAdvanceActions(s)) = Runner!Ran(y)
                 /\ IsManager(y) /\ WellFormed(y.state) /\ SameBoard(s, y.state)
                 /\ \A key, default : key # "advance" =>
                        InBucket(y.state, key, default) = InBucket(s, key, default)
                 /\ OfferStands(y.state)
    BY <1>7, OfferOpens
  <2> DEFINE x == Placed(y, CombatCursor("advance_gate"))
  <2>3. ctx.state = s
    BY DEF AutoContext
  <2> HIDE DEF t, c, ctx
  <2>4. EffectActions("open_advance", ctx) = OpenAdvanceActions(s)
    BY <2>3, CombatEffectsAre
  <2>5. ~OverlayRaises("open_advance", ctx)
    BY CombatRaisesAre
  <2>6. /\ ~Runner!TargetRaises(c, t.target)
        /\ Runner!NextCursor(c, t.target) = CombatCursor("advance_gate")
    BY <2>1, CombatNextCursors DEF c
  <2>7. Runner!ApplyTransition(m, c, t, ctx) = Runner!MoveCursor(Runner!Ran(y), c, t.target)
    BY <2>1, <2>2, <2>4, <2>5, AppliesTransition
  <2>8. Runner!AutoStep(m) = Runner!Ran(x)
    BY <1>1, <2>6, <2>7, MovesCursor
  <2>9. /\ IsManager(x) /\ WellFormed(x.state) /\ SameBut(y.state, x.state)
        /\ x.state.engine.cursor = CombatCursor("advance_gate")
        /\ x.state.engine.movement_arc = y.state.engine.movement_arc
    BY <2>2, PlacedState
  <2> HIDE DEF x
  <2>10. x.state.engine.cursor # None /\ x.state.engine.cursor \in CombatRests
    BY <2>9, CursorsExist DEF CombatRests, CombatSegments
  <2>11. RestoreRoutineCursor(Runner!AutoAdvance(Runner!Ran(m))) = Runner!Ran(x)
    BY <1>5, <2>8, <2>10
  <2>12. /\ Obligations(x.state) = Obligations(y.state)
         /\ AdvanceOffer(x.state) = AdvanceOffer(y.state)
         /\ AttacksThisPhase(x.state) = AttacksThisPhase(y.state)
         /\ LastCombat(x.state) = LastCombat(y.state)
    BY <2>9, SameBucket DEF SameBut
  <2>13. /\ Obligations(y.state) = Obligations(s)
         /\ AttacksThisPhase(y.state) = AttacksThisPhase(s)
         /\ LastCombat(y.state) = LastCombat(s)
    BY <2>2, BucketFields
  <2>14. SameFight(s, x.state)
    BY <2>2, <2>9, <2>12, <2>13 DEF SameFight, SameBut, SameBoard
  <2>15. Ordered(x.state)
    BY <2>9, <2>14, SameFightIsInOrder
  <2>16. OfferStands(x.state)
    BY <2>2, <2>9, <2>12, SameUnits DEF OfferStands, SameBut
  <2>17. AtAdvance(x.state)
    BY <1>4, <1>7, <2>2, <2>9, <2>12, <2>13, <2>16 DEF AtAdvance, SameBoard
  <2> QED BY <2>9, <2>11, <2>14, <2>15, <2>17 DEF AtEase
<1>8. CASE ~RetreatsPending(s) /\ ~AdvanceIsOpen(s)
  <2> DEFINE y == Placed(m, None)
             x == InSlot(y)
  <2>1. t.effect = "none" /\ t.target = DONE
    BY <1>8, SettleFields DEF SettlesBy
  <2> HIDE DEF t, c, ctx
  <2>2. /\ ~Runner!TargetRaises(c, t.target)
        /\ Runner!NextCursor(c, t.target) = None
    BY <2>1, CombatNextCursors DEF c
  <2>3. Runner!AutoStep(m) = Runner!Ran(y)
    BY <1>1, <2>1, <2>2, SettlesQuietly
  <2>4. /\ IsManager(y) /\ WellFormed(y.state) /\ SameBut(s, y.state)
        /\ y.state.engine.cursor = None
        /\ y.state.engine.movement_arc = None
    BY <1>3, PlacedState
  <2> HIDE DEF y
  <2>5. Runner!AutoAdvance(Runner!Ran(m)) = Runner!Ran(y)
    BY <1>2, <2>3, <2>4, AutoOnce DEF CombatRests
  <2>6. /\ BeginRoutineSlot(Runner!Ran(y)) = Runner!Ran(x)
        /\ IsManager(x) /\ WellFormed(x.state) /\ SameBut(y.state, x.state)
        /\ x.state.engine.movement_arc = None
        /\ \E arc \in DOMAIN RoutineActions : x.state.engine.cursor = RoutineCursor(arc)
    BY <2>4, SlotBegins
  <2> HIDE DEF x
  <2>7. RestoreRoutineCursor(Runner!AutoAdvance(Runner!Ran(m))) = Runner!Ran(x)
    BY <2>4, <2>5, <2>6, RoutineRestored
  <2>8. SameBut(s, x.state)
    BY <2>4, <2>6 DEF SameBut
  <2>9. /\ Obligations(x.state) = Obligations(s) /\ AdvanceOffer(x.state) = None
        /\ AttacksThisPhase(x.state) = AttacksThisPhase(s) /\ LastCombat(x.state) = LastCombat(s)
    BY <2>8, SameBucket DEF SameBut
  <2>10. SameFight(s, x.state)
    BY <2>8, <2>9 DEF SameFight, SameBut
  <2>11. Ordered(x.state)
    BY <2>6, <2>10, SameFightIsInOrder
  <2>12. AtRoutine(x.state)
    BY <1>4, <1>8, <2>6, <2>9 DEF AtRoutine
  <2> QED BY <2>6, <2>7, <2>10, <2>11, <2>12 DEF AtEase
<1> QED BY <1>6, <1>7, <1>8

-----------------------------------------------------------------------------
(* 6. Runs of actions: one list behind another, and a set of units that moves. *)

LEMMA SetInSequence ==
    ASSUME NEW S \in SUBSET Units
    PROVE  LET q == SetToSeq(S)  n == Cardinality(S)
           IN  /\ n \in Nat /\ DOMAIN q = 1..n /\ q \in Seq(S) /\ Len(q) = n
               /\ \A i, j \in 1..n : q[i] = q[j] => i = j
               /\ \A u \in S : \E i \in 1..n : q[i] = u
<1> DEFINE n == Cardinality(S)
           q == SetToSeq(S)
<1>1. IsFiniteSet(S)
  BY UnitsAssumption, FS_Subset
<1>2. n \in Nat /\ ExistsBijection(1..n, S)
  BY <1>1, FS_CardinalityType
<1>3. PICK f : f \in Bijection(1..n, S)
  BY <1>2 DEF ExistsBijection
<1>4. f \in [1..n -> S] /\ IsInjective(f)
  BY <1>3 DEF Bijection, Injection
<1>5. q \in [1..n -> S] /\ IsInjective(q)
  BY <1>4 DEF SetToSeq
<1> HIDE DEF q, n
<1>6. q \in Injection(1..n, S)
  BY <1>5 DEF Injection
<1>7. IsFiniteSet(1..n) /\ Cardinality(1..n) = n
  BY <1>2, FS_Interval
<1>8. q \in Surjection(1..n, S)
  BY <1>1, <1>6, <1>7, FS_Injection DEF n
<1>9. \A u \in S : \E i \in 1..n : q[i] = u
  BY <1>8 DEF Surjection
<1>10. \A i, j \in 1..n : q[i] = q[j] => i = j
  BY <1>5 DEF IsInjective
<1>11. q \in Seq(S) /\ DOMAIN q = 1..n /\ Len(q) = n
  BY <1>2, <1>5
<1> QED BY <1>2, <1>9, <1>10, <1>11 DEF q, n

\* A list of actions is executed as one list behind another.
LEMMA RunOfBoth ==
    ASSUME NEW m, NEW A, NEW a \in Seq(A), NEW b \in Seq(A), NEW x,
           ExecutedAll(m, a) = Runner!Ran(x)
    PROVE  ExecutedAll(m, a \o b) = ExecutedAll(x, b)
<1> DEFINE n == Len(a)
           k == Len(b)
           c == a \o b
<1>1. /\ n \in Nat /\ k \in Nat /\ n + k \in Nat
      /\ DOMAIN a = 1..n /\ DOMAIN b = 1..k /\ DOMAIN c = 1..(n + k)
      /\ \A i \in 1..n : c[i] = a[i]
      /\ \A i \in 1..k : c[n + i] = b[i]
  OBVIOUS
<1> HIDE DEF n, k, c
<1>2. PICK g : /\ g[0] = Runner!Ran(m)
               /\ \A i \in 0..(n - 1) : g[i + 1] = ExecStep(None, g[i], a[i + 1])
               /\ ExecutedAll(m, a) = g[n]
  BY <1>1, ExecutedAllUnrolled
<1>3. PICK h : /\ h[0] = Runner!Ran(x)
               /\ \A i \in 0..(k - 1) : h[i + 1] = ExecStep(None, h[i], b[i + 1])
               /\ ExecutedAll(x, b) = h[k]
  BY <1>1, ExecutedAllUnrolled
<1> DEFINE N == n + k
<1>0. N \in Nat /\ DOMAIN c = 1..N /\ \A i \in 0..(n - 1) : i \in 0..(N - 1)
      /\ \A j \in 0..(k - 1) : n + j \in 0..(N - 1)
  BY <1>1
<1> HIDE DEF N
<1>4. PICK w : /\ w[0] = Runner!Ran(m)
               /\ \A i \in 0..(N - 1) : w[i + 1] = ExecStep(None, w[i], c[i + 1])
               /\ ExecutedAll(m, c) = w[N]
  <2>1. N \in Nat /\ DOMAIN c = 1..N
    BY <1>0
  <2> QED BY ONLY <2>1, ExecutedAllUnrolled
<1> DEFINE F == {i \in 0..n : w[i] = g[i]}
           S == {i \in 0..k : w[n + i] = h[i]}
<1>5. 0..n \subseteq F
  <2>1. 0 \in F
    BY <1>1, <1>2, <1>4
  <2>2. ASSUME NEW i \in 0..(n - 1), i \in F PROVE i + 1 \in F
    <3>1. i + 1 \in 1..n /\ i \in 0..(N - 1) /\ i + 1 \in 0..n
      BY <1>0, <1>1
    <3> QED BY <1>1, <1>2, <1>4, <2>2, <3>1
  <2> HIDE DEF F
  <2> QED BY <1>1, <2>1, <2>2, Acts!BoundedInduction
<1>6. 0..k \subseteq S
  <2>1. 0 \in S
    <3>1. n \in F
      BY <1>1, <1>5
    <3>2. w[n] = g[n]
      BY <3>1
    <3>3. w[n] = h[0]
      BY <1>2, <1>3, <3>2
    <3>4. n + 0 = n /\ 0 \in 0..k
      BY <1>1
    <3> QED BY <3>3, <3>4
  <2>2. ASSUME NEW i \in 0..(k - 1), i \in S PROVE i + 1 \in S
    <3>1. i + 1 \in 1..k /\ n + i \in 0..(N - 1) /\ i + 1 \in 0..k
          /\ n + i + 1 = n + (i + 1)
      BY <1>0, <1>1
    <3>2. w[n + i + 1] = ExecStep(None, w[n + i], c[n + i + 1])
      BY <1>4, <3>1
    <3>3. c[n + (i + 1)] = b[i + 1]
      BY <1>1, <3>1
    <3> QED BY <1>3, <2>2, <3>1, <3>2, <3>3
  <2> HIDE DEF S
  <2> QED BY <1>1, <2>1, <2>2, Acts!BoundedInduction
<1>7. w[N] = h[k]
  BY <1>1, <1>6 DEF N
<1> QED BY <1>3, <1>4, <1>7 DEF c

LEMMA UnitWritten ==
    ASSUME NEW s, WellFormed(s), NEW u \in Units, NEW unit, unit # None => DOMAIN unit = UnitFields
    PROVE  LET t == WithUnit(s, u, unit)
           IN  /\ WellFormed(t) /\ t.turn = s.turn /\ t.engine = s.engine /\ t.session = s.session
               /\ t.units[u] = unit
               /\ \A w \in Units \ {u} : t.units[w] = s.units[w]
<1> DEFINE t == WithUnit(s, u, unit)
           units == [s.units EXCEPT ![u] = unit]
<1>1. s = [units |-> s.units, turn |-> s.turn, engine |-> s.engine, session |-> s.session,
           rng_log |-> s.rng_log]
  BY DEF WellFormed
<1>2. s.units = [w \in Units |-> s.units[w]]
  BY DEF WellFormed
<1>3. t = [s EXCEPT !.units = units]
  BY <1>1 DEF WithUnit
<1>4. /\ units = [w \in Units |-> units[w]]
      /\ units[u] = unit
      /\ \A w \in Units \ {u} : units[w] = s.units[w]
  BY <1>2
<1> HIDE DEF t, units
<1>5. /\ t = [units |-> t.units, turn |-> t.turn, engine |-> t.engine, session |-> t.session,
              rng_log |-> t.rng_log]
      /\ t.units = units /\ t.turn = s.turn /\ t.engine = s.engine /\ t.session = s.session
  BY <1>1, <1>3
<1>6. WellFormed(t)
  <2>1. \A w \in Units : Present(t, w) => DOMAIN t.units[w] = UnitFields
    BY <1>4, <1>5 DEF WellFormed, Present
  <2>2. t.turn \in TurnStates
        /\ t.engine = [cursor |-> t.engine.cursor, movement_arc |-> t.engine.movement_arc]
    BY <1>5 DEF WellFormed
  <2>3. t.units = [w \in Units |-> t.units[w]]
    BY <1>4, <1>5
  <2> QED BY <1>5, <2>1, <2>2, <2>3 DEF WellFormed
<1> QED BY <1>4, <1>5, <1>6 DEF t

\* The units of S, present in s, stand on h in t; nothing else of a unit has changed that
\* anything depends on.
Drawn(s, t, S, h) ==
    /\ t.turn = s.turn /\ t.engine = s.engine /\ t.session = s.session
    /\ \A u \in Units \ S : t.units[u] = s.units[u]
    /\ \A u \in S : /\ Present(t, u) /\ t.units[u].position = h
                    /\ t.units[u].faction = s.units[u].faction
                    /\ t.units[u].active = s.units[u].active
                    /\ t.units[u].attributes = s.units[u].attributes

LEMMA UnitMoves ==
    ASSUME CombatTitle, NEW m, WellFormed(m.state), NEW u \in Units, Present(m.state, u), NEW h
    PROVE  LET a == MoveOf(u, m.state.units[u].position, h)
           IN  /\ CanApply(a, m.state)
               /\ IsManager(Executed(m, a))
               /\ WellFormed(Executed(m, a).state)
               /\ Drawn(m.state, Executed(m, a).state, {u}, h)
<1> DEFINE s == m.state
           a == MoveOf(u, s.units[u].position, h)
           index == NextStackIndex(s, h, {u})
           unit == [s.units[u] EXCEPT !.position = h, !.stack_index = index]
           t == WithUnit(s, u, unit)
<1>1. a.kind = "MoveUnit" /\ a.unit_id = u /\ a.from_hex = s.units[u].position /\ a.to_hex = h
  BY DEF MoveOf
<1> HIDE DEF a
<1>2. CanApply(a, s)
  BY <1>1 DEF CanApply
<1>3. Apply(a, s) = t
  BY <1>1 DEF Apply, ApplyMoveUnit
<1>4. DOMAIN s.units[u] = UnitFields
  BY DEF WellFormed
<1> HIDE DEF index
<1>5. /\ DOMAIN unit = UnitFields /\ unit.position = h
      /\ unit.faction = s.units[u].faction /\ unit.active = s.units[u].active
      /\ unit.attributes = s.units[u].attributes
  BY <1>4 DEF UnitFields
<1> HIDE DEF unit
<1>6. unit # None
  BY <1>5 DEF CombatTitle
<1>7. /\ WellFormed(t) /\ t.turn = s.turn /\ t.engine = s.engine /\ t.session = s.session
      /\ t.units[u] = unit
      /\ \A w \in Units \ {u} : t.units[w] = s.units[w]
  BY <1>5, UnitWritten
<1> HIDE DEF t
<1>8. Drawn(s, t, {u}, h)
  BY <1>5, <1>6, <1>7 DEF Drawn, Present
<1> QED BY <1>2, <1>3, <1>7, <1>8, ExecutedIs DEF a

LEMMA MovesRun ==
    ASSUME CombatTitle, NEW m, IsManager(m), WellFormed(m.state),
           NEW S \in SUBSET Units, \A u \in S : Present(m.state, u), NEW h
    PROVE  LET acts == MovesTo(m.state, SetToSeq(S), h)
           IN  /\ \E A : acts \in Seq(A)
               /\ \E x : /\ ExecutedAll(m, acts) = Runner!Ran(x)
                         /\ IsManager(x) /\ WellFormed(x.state) /\ Drawn(m.state, x.state, S, h)
<1> DEFINE s == m.state
           q == SetToSeq(S)
           n == Cardinality(S)
           acts == MovesTo(s, q, h)
<1>1. /\ n \in Nat /\ DOMAIN q = 1..n /\ \A i \in 1..n : q[i] \in S
      /\ \A i, j \in 1..n : q[i] = q[j] => i = j
      /\ \A u \in S : \E i \in 1..n : q[i] = u
  BY SetInSequence
<1> HIDE DEF q, n
<1>2. /\ acts = [i \in 1..n |-> MoveOf(q[i], s.units[q[i]].position, h)]
      /\ DOMAIN acts = 1..n
      /\ \A i \in 1..n : acts[i] = MoveOf(q[i], s.units[q[i]].position, h)
  BY <1>1 DEF MovesTo
<1> HIDE DEF acts
<1>3. \E A : acts \in Seq(A)
  <2> DEFINE A == {MoveOf(q[i], s.units[q[i]].position, h) : i \in 1..n}
  <2>1. \A i \in 1..n : acts[i] \in A
    BY <1>2
  <2> HIDE DEF A
  <2>2. acts = [i \in 1..n |-> acts[i]]
    BY <1>2
  <2>3. acts \in [1..n -> A]
    BY <2>1, <2>2
  <2>4. acts \in Seq(A)
    BY <1>1, <2>3
  <2> QED BY <2>4
<1>4. PICK g : /\ g[0] = Runner!Ran(m)
               /\ \A k \in 0..(n - 1) : g[k + 1] = ExecStep(None, g[k], acts[k + 1])
               /\ ExecutedAll(m, acts) = g[n]
  BY <1>1, <1>2, ExecutedAllUnrolled
<1> DEFINE First(k) == {q[i] : i \in 1..k}
           Good(k, y) == /\ g[k] = Runner!Ran(y) /\ IsManager(y) /\ WellFormed(y.state)
                         /\ Drawn(s, y.state, First(k), h)
           P == {k \in 0..n : \E y : Good(k, y)}
<1>5. 0 \in P
  <2>1. First(0) = {}
    OBVIOUS
  <2>2. Drawn(s, s, First(0), h)
    BY <2>1 DEF Drawn
  <2>3. Good(0, m)
    BY <1>4, <2>2
  <2> HIDE DEF Good
  <2>4. 0 \in 0..n
    BY <1>1
  <2> QED BY <2>3, <2>4
<1>6. ASSUME NEW k \in 0..(n - 1), k \in P PROVE k + 1 \in P
  <2>1. k + 1 \in 1..n /\ k + 1 \in 0..n /\ k \in Nat /\ \A i \in 1..k : i \in 1..n /\ i # k + 1
        /\ 1..(k + 1) = (1..k) \cup {k + 1}
    BY <1>1
  <2>2. PICK y : Good(k, y)
    BY <1>6
  <2> DEFINE u == q[k + 1]
             a == MoveOf(u, s.units[u].position, h)
             z == Executed(y, a)
  <2>3. u \in S /\ u \in Units /\ u \notin First(k) /\ First(k + 1) = First(k) \cup {u}
        /\ First(k) \subseteq S
    BY <1>1, <2>1
  <2>4. acts[k + 1] = a
    BY <1>2, <2>1
  <2> HIDE DEF First, u
  <2>5. y.state.units[u] = s.units[u] /\ Present(s, u)
    BY <2>2, <2>3 DEF Drawn
  <2>6. Present(y.state, u)
    BY <2>5 DEF Present
  <2>7. /\ CanApply(a, y.state) /\ IsManager(z) /\ WellFormed(z.state)
        /\ Drawn(y.state, z.state, {u}, h)
    <3> DEFINE b == MoveOf(u, y.state.units[u].position, h)
    <3>1. a = b
      BY <2>5
    <3>2. /\ CanApply(b, y.state) /\ IsManager(Executed(y, b)) /\ WellFormed(Executed(y, b).state)
          /\ Drawn(y.state, Executed(y, b).state, {u}, h)
      BY <2>2, <2>3, <2>6, UnitMoves
    <3> HIDE DEF a, b
    <3> QED BY <3>1, <3>2
  <2> HIDE DEF a, z
  <2>8. g[k + 1] = Runner!Ran(z)
    BY <1>4, <2>2, <2>4, <2>7, ExecStepIs, RunIs DEF z
  <2>9. Drawn(s, z.state, First(k + 1), h)
    <3> DEFINE T == First(k)
    <3>1. /\ Drawn(s, y.state, T, h) /\ Drawn(y.state, z.state, {u}, h)
          /\ u \notin T /\ First(k + 1) = T \cup {u} /\ T \subseteq Units
      BY <2>2, <2>3, <2>7
    <3> HIDE DEF T
    <3>2. /\ z.state.turn = s.turn /\ z.state.engine = s.engine /\ z.state.session = s.session
      BY <3>1 DEF Drawn
    <3>3. \A w \in Units \ (T \cup {u}) : z.state.units[w] = s.units[w]
      BY <3>1 DEF Drawn
    <3>4. \A w \in T : z.state.units[w] = y.state.units[w]
      BY <3>1 DEF Drawn
    <3>5. \A w \in T : /\ Present(z.state, w) /\ z.state.units[w].position = h
                       /\ z.state.units[w].faction = s.units[w].faction
                       /\ z.state.units[w].active = s.units[w].active
                       /\ z.state.units[w].attributes = s.units[w].attributes
      BY <3>1, <3>4 DEF Drawn, Present
    <3>6. /\ Present(z.state, u) /\ z.state.units[u].position = h
          /\ z.state.units[u].faction = s.units[u].faction
          /\ z.state.units[u].active = s.units[u].active
          /\ z.state.units[u].attributes = s.units[u].attributes
      BY <2>5, <3>1 DEF Drawn
    <3>7. Drawn(s, z.state, T \cup {u}, h)
      BY <3>2, <3>3, <3>5, <3>6 DEF Drawn
    <3> QED BY <3>1, <3>7
  <2>10. Good(k + 1, z)
    BY <2>7, <2>8, <2>9
  <2> HIDE DEF Good
  <2> QED BY <2>1, <2>10
<1> HIDE DEF P
<1>7. 0..n \subseteq P
  BY <1>1, <1>5, <1>6, Acts!BoundedInduction
<1>8. PICK y : Good(n, y)
  <2> HIDE DEF Good
  <2>1. n \in P
    BY <1>1, <1>7
  <2> QED BY <2>1 DEF P
<1>9. First(n) = S
  BY <1>1
<1>10. ExecutedAll(m, acts) = Runner!Ran(y) /\ IsManager(y) /\ WellFormed(y.state)
       /\ Drawn(s, y.state, S, h)
  BY <1>4, <1>8, <1>9
<1> QED BY <1>3, <1>10 DEF acts, q

IsList(acts) == \E A : acts \in Seq(A)

LEMMA RunsInTurn ==
    ASSUME NEW m, NEW a, IsList(a), NEW b, IsList(b), NEW x, ExecutedAll(m, a) = Runner!Ran(x)
    PROVE  ExecutedAll(m, a \o b) = ExecutedAll(x, b)
<1>1. PICK A : a \in Seq(A)
  BY DEF IsList
<1>2. PICK B : b \in Seq(B)
  BY DEF IsList
<1>3. a \in Seq(A \cup B) /\ b \in Seq(A \cup B)
  BY <1>1, <1>2
<1> QED BY <1>3, RunOfBoth

-----------------------------------------------------------------------------
(* 7. What keeps the engagement in order. *)

\* The same units are on the board, as active and on the same side as before.
SameFolk(s, t) ==
    \A u \in Units : /\ Present(t, u) <=> Present(s, u)
                     /\ Present(s, u) => /\ t.units[u].faction = s.units[u].faction
                                         /\ t.units[u].active = s.units[u].active

\* Nobody owes more than before.
OwesLess(s, t) ==
    /\ DOMAIN Obligations(t) \subseteq DOMAIN Obligations(s)
    /\ \A u \in DOMAIN Obligations(t) : Obligations(t)[u] = Obligations(s)[u]

LEMMA FolkActive ==
    ASSUME NEW s, NEW t, SameFolk(s, t), NEW u \in Units
    PROVE  ActiveIn(t, u) <=> ActiveIn(s, u)
  BY DEF SameFolk, ActiveIn

LEMMA FolkInOrder ==
    ASSUME NEW s, Ordered(s), NEW t, WellFormed(t), SameFolk(s, t), OwesLess(s, t),
           t.turn.current_faction = s.turn.current_faction,
           AttacksThisPhase(t) = AttacksThisPhase(s), LastCombat(t) = LastCombat(s)
    PROVE  Ordered(t)
<1>1. Owed(s) /\ Fought(s)
  BY DEF Ordered
<1>2. Owed(t)
  <2>1. ASSUME NEW u \in DOMAIN Obligations(t)
        PROVE  u \in Units /\ ActiveIn(t, u) /\ Obligations(t)[u] \in Nat \ {0}
               /\ t.units[u].faction = s.units[u].faction
    BY <1>1, FolkActive DEF Owed, OwesLess, SameFolk, ActiveIn
  <2> QED BY <1>1, <2>1 DEF Owed, OwesLess
<1>3. Fought(t)
  <2>1. AttacksThisPhase(t) \in Seq(Units)
    BY <1>1 DEF Fought
  <2>2. ASSUME LastCombat(t) # None
        PROVE  /\ LastCombat(t).attackers \in Seq(Units)
               /\ \A n \in DOMAIN LastCombat(t).attackers :
                    LET u == LastCombat(t).attackers[n]
                    IN  Present(t, u) /\ t.units[u].faction = t.turn.current_faction
    <3>1. LastCombat(s) # None
      BY <2>2
    <3>2. /\ LastCombat(s).attackers \in Seq(Units)
          /\ \A n \in DOMAIN LastCombat(s).attackers :
                LET u == LastCombat(s).attackers[n]
                IN  Present(s, u) /\ s.units[u].faction = s.turn.current_faction
      BY <1>1, <3>1 DEF Fought
    <3> DEFINE q == LastCombat(s).attackers
    <3>3. q \in Seq(Units)
      BY <3>2
    <3>4. \A n \in DOMAIN q : q[n] \in Units
      <4> HIDE DEF q
      <4> QED BY <3>3
    <3> HIDE DEF q
    <3>5. \A n \in DOMAIN q : Present(t, q[n]) /\ t.units[q[n]].faction = t.turn.current_faction
      BY <3>2, <3>4 DEF SameFolk, q
    <3>6. LastCombat(t).attackers = q
      BY DEF q
    <3> QED BY <3>3, <3>5, <3>6
  <2> QED BY <2>1, <2>2 DEF Fought
<1> QED BY <1>2, <1>3 DEF Ordered

LEMMA DrawnFolk ==
    ASSUME NEW s, NEW t, NEW S \in SUBSET Units, \A u \in S : Present(s, u),
           NEW h, Drawn(s, t, S, h)
    PROVE  SameFolk(s, t)
  BY DEF Drawn, SameFolk, Present

LEMMA FolkIsTransitive ==
    ASSUME NEW s, NEW t, NEW w, SameFolk(s, t), SameFolk(t, w)
    PROVE  SameFolk(s, w)
  BY DEF SameFolk

\* The units are freed of their obligations, and nothing else changes.
LEMMA DischargeRun ==
    ASSUME NEW m, IsManager(m), WellFormed(m.state), NEW s, m.state.session = s.session, NEW K
    PROVE  LET acts == Discharged(s, K)
           IN  /\ IsList(acts)
               /\ \E x : /\ ExecutedAll(m, acts) = Runner!Ran(x)
                         /\ IsManager(x) /\ WellFormed(x.state) /\ SameBoard(m.state, x.state)
                         /\ DOMAIN Obligations(x.state) = DOMAIN Obligations(s) \ K
                         /\ OwesLess(s, x.state)
                         /\ AttacksThisPhase(x.state) = AttacksThisPhase(s)
                         /\ LastCombat(x.state) = LastCombat(s)
                         /\ AdvanceOffer(x.state) = AdvanceOffer(s)
                         /\ DisruptInsteadOffered(x.state) = DisruptInsteadOffered(s)
<1>1. /\ Obligations(m.state) = Obligations(s) /\ AdvanceOffer(m.state) = AdvanceOffer(s)
      /\ AttacksThisPhase(m.state) = AttacksThisPhase(s) /\ LastCombat(m.state) = LastCombat(s)
      /\ DisruptInsteadOffered(m.state) = DisruptInsteadOffered(s)
  BY SameBucket
<1>2. CASE DOMAIN Obligations(s) \cap K = {}
  <2>1. Discharged(s, K) = <<>>
    BY <1>2 DEF Discharged
  <2>2. ExecutedAll(m, <<>>) = Runner!Ran(m)
    BY RunOfNone
  <2>3. DOMAIN Obligations(m.state) = DOMAIN Obligations(s) \ K /\ OwesLess(s, m.state)
    BY <1>1, <1>2 DEF OwesLess
  <2>4. IsList(<<>>)
    BY DEF IsList
  <2>5. ExecutedAll(m, Discharged(s, K)) = Runner!Ran(m)
    BY <2>1, <2>2
  <2>6. IsList(Discharged(s, K))
    BY <2>1, <2>4
  <2>7. SameBoard(m.state, m.state)
    BY DEF SameBoard
  <2> QED BY <1>1, <2>3, <2>5, <2>6, <2>7
<1>3. CASE DOMAIN Obligations(s) \cap K # {}
  <2> DEFINE owed == Without(Obligations(s), K)
             values == [retreat_obligations |-> owed]
             a == Patch(values, {})
             x == Executed(m, a)
  <2>1. Discharged(s, K) = <<a>>
    BY <1>3 DEF Discharged
  <2>2. /\ DOMAIN owed = DOMAIN Obligations(s) \ K
        /\ \A u \in DOMAIN owed : owed[u] = Obligations(s)[u]
    BY DEF Without
  <2> HIDE DEF owed
  <2>3. DOMAIN values = {"retreat_obligations"} /\ values["retreat_obligations"] = owed
    OBVIOUS
  <2> HIDE DEF values
  <2>4. /\ ExecutedAll(m, <<a>>) = Runner!Ran(x) /\ IsManager(x)
        /\ x.state = Apply(a, m.state)
    BY PatchExecuted
  <2>5. /\ WellFormed(Apply(a, m.state)) /\ SameBoard(m.state, Apply(a, m.state))
        /\ \A key, default : InBucket(Apply(a, m.state), key, default) =
              IF key \in {} THEN default
              ELSE IF key \in DOMAIN values THEN values[key]
              ELSE InBucket(m.state, key, default)
    BY PatchedBucket
  <2> HIDE DEF a, x
  <2>6. /\ Obligations(x.state) = owed
        /\ AttacksThisPhase(x.state) = AttacksThisPhase(m.state)
        /\ LastCombat(x.state) = LastCombat(m.state)
        /\ AdvanceOffer(x.state) = AdvanceOffer(m.state)
        /\ DisruptInsteadOffered(x.state) = DisruptInsteadOffered(m.state)
    BY <2>3, <2>4, <2>5, BucketFields
  <2>7. OwesLess(s, x.state) /\ DOMAIN Obligations(x.state) = DOMAIN Obligations(s) \ K
    BY <2>2, <2>6 DEF OwesLess
  <2>8. IsList(<<a>>)
    <3>1. <<a>> \in Seq({a})
      OBVIOUS
    <3> QED BY <3>1 DEF IsList
  <2>9. ExecutedAll(m, Discharged(s, K)) = Runner!Ran(x) /\ IsList(Discharged(s, K))
    BY <2>1, <2>4, <2>8
  <2> QED BY <1>1, <2>4, <2>5, <2>6, <2>7, <2>9
<1> QED BY <1>2, <1>3

\* The title's step of a retreat: the stack stands on the goal, and owes nothing more.
LEMMA RetreatStepRun ==
    ASSUME CombatTitle, NEW m, IsManager(m), Ordered(m.state),
           NEW u \in DOMAIN Obligations(m.state), NEW f, NEW from, NEW to
    PROVE  LET s == m.state
               stack == RetreatStack(s, f, u, from)
           IN  \E x : /\ ExecutedAll(m, RetreatStepActions(s, f, u, from, to)) = Runner!Ran(x)
                      /\ IsManager(x) /\ Ordered(x.state)
                      /\ x.state.turn = s.turn /\ x.state.engine = s.engine
                      /\ DOMAIN Obligations(x.state) = DOMAIN Obligations(s) \ stack
                      /\ OwesLess(s, x.state)
                      /\ AttacksThisPhase(x.state) = AttacksThisPhase(s)
                      /\ AdvanceOffer(x.state) = AdvanceOffer(s)
                      /\ \A w \in stack : x.state.units[w].position = to
<1> DEFINE s == m.state
           stack == RetreatStack(s, f, u, from)
           S == {w \in stack : s.units[w].position # to}
           moves == MovesTo(s, SetToSeq(S), to)
           freed == Discharged(s, stack)
<1>1. u \in Units /\ ActiveIn(s, u) /\ WellFormed(s)
  BY DEF Ordered, Owed
<1>2. stack \subseteq Units /\ \A w \in stack : Present(s, w)
  BY <1>1 DEF RetreatStack, ActiveAt, ActiveIn
<1>3. RetreatStepActions(s, f, u, from, to) = moves \o freed
  BY DEF RetreatStepActions
<1> HIDE DEF stack
<1>4. S \in SUBSET Units /\ \A w \in S : Present(s, w)
  BY <1>2
<1>5. IsList(moves) /\ \E x : /\ ExecutedAll(m, moves) = Runner!Ran(x)
                              /\ IsManager(x) /\ WellFormed(x.state) /\ Drawn(s, x.state, S, to)
  <2> HIDE DEF S
  <2> QED BY <1>1, <1>4, MovesRun DEF IsList
<1>6. PICK y : /\ ExecutedAll(m, moves) = Runner!Ran(y)
               /\ IsManager(y) /\ WellFormed(y.state) /\ Drawn(s, y.state, S, to)
  BY <1>5
<1>7. y.state.session = s.session /\ y.state.turn = s.turn /\ y.state.engine = s.engine
  BY <1>6 DEF Drawn
<1>8. /\ IsList(freed)
      /\ \E x : /\ ExecutedAll(y, freed) = Runner!Ran(x)
                /\ IsManager(x) /\ WellFormed(x.state) /\ SameBoard(y.state, x.state)
                /\ DOMAIN Obligations(x.state) = DOMAIN Obligations(s) \ stack
                /\ OwesLess(s, x.state)
                /\ AttacksThisPhase(x.state) = AttacksThisPhase(s)
                /\ LastCombat(x.state) = LastCombat(s)
                /\ AdvanceOffer(x.state) = AdvanceOffer(s)
                /\ DisruptInsteadOffered(x.state) = DisruptInsteadOffered(s)
  BY <1>6, <1>7, DischargeRun
<1> HIDE DEF moves, freed
<1>9. PICK x : /\ ExecutedAll(y, freed) = Runner!Ran(x)
               /\ IsManager(x) /\ WellFormed(x.state) /\ SameBoard(y.state, x.state)
               /\ DOMAIN Obligations(x.state) = DOMAIN Obligations(s) \ stack
               /\ OwesLess(s, x.state)
               /\ AttacksThisPhase(x.state) = AttacksThisPhase(s)
               /\ LastCombat(x.state) = LastCombat(s)
               /\ AdvanceOffer(x.state) = AdvanceOffer(s)
  BY <1>8
<1>10. ExecutedAll(m, moves \o freed) = Runner!Ran(x)
  BY <1>5, <1>6, <1>8, <1>9, RunsInTurn
<1>11. SameFolk(s, x.state)
  <2>1. SameFolk(s, y.state)
    BY <1>4, <1>6, DrawnFolk
  <2>2. x.state.units = y.state.units
    BY <1>9 DEF SameBoard
  <2> QED BY <2>1, <2>2 DEF SameFolk, Present
<1>12. x.state.turn = s.turn /\ x.state.engine = s.engine
  BY <1>7, <1>9 DEF SameBoard
<1>13. Ordered(x.state)
  BY <1>9, <1>11, <1>12, FolkInOrder
<1>14. ASSUME NEW w \in stack PROVE x.state.units[w].position = to
  BY <1>2, <1>6, <1>9 DEF Drawn, SameBoard
<1> QED BY <1>3, <1>9, <1>10, <1>12, <1>13, <1>14 DEF stack

-----------------------------------------------------------------------------
(* 8. Events: the one transition of a segment that waits for an event is the one *)
(* it takes, if it is taken at all.                                              *)

\* The transitions of the gates.
LEMMA GateTransitions ==
    ASSUME CombatTitle
    PROVE  /\ LET T == Runner!Segment(CombatCursor("attack")).transitions
              IN  DOMAIN T = 1..1
                  /\ T[1] = On("Attack", "always", "attack_arc_effect", Goto("classify"))
           /\ LET T == Runner!Segment(CombatCursor("retreat_gate")).transitions
              IN  DOMAIN T = 1..1 /\ T[1] = RetreatMove(Goto("resolve"))
           /\ LET T == Runner!Segment(CombatCursor("retreat_or_disrupt_gate")).transitions
              IN  /\ DOMAIN T = 1..2 /\ T[1] = RetreatMove(Goto("resolve"))
                  /\ T[2] = On("CombatDisruptInsteadOfRetreat", "always", "disrupt_instead",
                               Goto("resolve"))
           /\ LET T == Runner!Segment(CombatCursor("advance_gate")).transitions
              IN  /\ DOMAIN T = 1..3
                  /\ T[1] = On("CombatAdvance", "always", "resolve_advance", DONE)
                  /\ T[2] = On("MoveUnit", "is_combat_advance_move", "resolve_advance", DONE)
                  /\ T[3] = On("CombatDeclineAdvance", "always", "clear_advance_gate", DONE)
<1>0. {"attack", "retreat_gate", "retreat_or_disrupt_gate", "advance_gate"} \subseteq CombatSegments
  BY DEF CombatSegments
<1>1. \A seg \in CombatSegments : Runner!Segment(CombatCursor(seg)) = CombatGraph.segments[seg]
  BY CombatSegment
<1> DEFINE a1 == On("Attack", "always", "attack_arc_effect", Goto("classify"))
           r1 == RetreatMove(Goto("resolve"))
           d2 == On("CombatDisruptInsteadOfRetreat", "always", "disrupt_instead", Goto("resolve"))
           v1 == On("CombatAdvance", "always", "resolve_advance", DONE)
           v2 == On("MoveUnit", "is_combat_advance_move", "resolve_advance", DONE)
           v3 == On("CombatDeclineAdvance", "always", "clear_advance_gate", DONE)
<1>2. /\ CombatGraph.segments["attack"].transitions = <<a1>>
      /\ CombatGraph.segments["retreat_gate"].transitions = <<r1>>
      /\ CombatGraph.segments["retreat_or_disrupt_gate"].transitions = <<r1, d2>>
      /\ CombatGraph.segments["advance_gate"].transitions = <<v1, v2, v3>>
  BY AttackSegment, RetreatGateSegment, DisruptGateSegment, AdvanceGateSegment, OwnedFields
<1> HIDE DEF CombatGraph, a1, r1, d2, v1, v2, v3
<1>3. /\ DOMAIN <<a1>> = 1..1 /\ DOMAIN <<r1>> = 1..1 /\ DOMAIN <<r1, d2>> = 1..2
      /\ DOMAIN <<v1, v2, v3>> = 1..3
      /\ <<a1>>[1] = a1 /\ <<r1>>[1] = r1 /\ <<r1, d2>>[1] = r1 /\ <<r1, d2>>[2] = d2
      /\ <<v1, v2, v3>>[1] = v1 /\ <<v1, v2, v3>>[2] = v2 /\ <<v1, v2, v3>>[3] = v3
  OBVIOUS
<1>4. /\ Runner!Segment(CombatCursor("attack")).transitions = <<a1>>
      /\ Runner!Segment(CombatCursor("retreat_gate")).transitions = <<r1>>
      /\ Runner!Segment(CombatCursor("retreat_or_disrupt_gate")).transitions = <<r1, d2>>
      /\ Runner!Segment(CombatCursor("advance_gate")).transitions = <<v1, v2, v3>>
  BY <1>0, <1>1, <1>2
<1>5. /\ DOMAIN Runner!Segment(CombatCursor("attack")).transitions = 1..1
      /\ Runner!Segment(CombatCursor("attack")).transitions[1] = a1
  BY <1>3, <1>4
<1>6. /\ DOMAIN Runner!Segment(CombatCursor("retreat_gate")).transitions = 1..1
      /\ Runner!Segment(CombatCursor("retreat_gate")).transitions[1] = r1
  BY <1>3, <1>4
<1>7. /\ DOMAIN Runner!Segment(CombatCursor("retreat_or_disrupt_gate")).transitions = 1..2
      /\ Runner!Segment(CombatCursor("retreat_or_disrupt_gate")).transitions[1] = r1
      /\ Runner!Segment(CombatCursor("retreat_or_disrupt_gate")).transitions[2] = d2
  BY <1>3, <1>4
<1>8. /\ DOMAIN Runner!Segment(CombatCursor("advance_gate")).transitions = 1..3
      /\ Runner!Segment(CombatCursor("advance_gate")).transitions[1] = v1
      /\ Runner!Segment(CombatCursor("advance_gate")).transitions[2] = v2
      /\ Runner!Segment(CombatCursor("advance_gate")).transitions[3] = v3
  BY <1>3, <1>4
<1> QED BY <1>5, <1>6, <1>7, <1>8 DEF a1, r1, d2, v1, v2, v3

\* What a faction may do at a gate is what the gate's segment lists.
LEMMA GateActions ==
    ASSUME CombatTitle
    PROVE  /\ Runner!Segment(CombatCursor("retreat_gate")).allowed_actions = {"MoveUnit"}
           /\ Runner!Segment(CombatCursor("retreat_or_disrupt_gate")).allowed_actions
                = {"MoveUnit", "CombatDisruptInsteadOfRetreat"}
           /\ Runner!Segment(CombatCursor("advance_gate")).allowed_actions
                = {"CombatAdvance", "MoveUnit", "CombatDeclineAdvance"}
           /\ Runner!Segment(StepCursor("continue")).allowed_actions = {"MoveUnit"}
<1>1. /\ CombatGraph.segments["retreat_gate"].allowed_actions = {"MoveUnit"}
      /\ CombatGraph.segments["retreat_or_disrupt_gate"].allowed_actions
           = {"MoveUnit", "CombatDisruptInsteadOfRetreat"}
      /\ CombatGraph.segments["advance_gate"].allowed_actions
           = {"CombatAdvance", "MoveUnit", "CombatDeclineAdvance"}
  BY RetreatGateSegment, DisruptGateSegment, AdvanceGateSegment, OwnedFields
<1>2. {"retreat_gate", "retreat_or_disrupt_gate", "advance_gate"} \subseteq CombatSegments
  BY DEF CombatSegments
<1>3. Runner!Segment(StepCursor("continue")).allowed_actions = {"MoveUnit"}
  BY ContinueSegment, CursorFields, OwnedFields
<1> HIDE DEF CombatGraph
<1>4. \A seg \in CombatSegments : Runner!Segment(CombatCursor(seg)) = CombatGraph.segments[seg]
  BY CombatSegment
<1> QED BY <1>1, <1>2, <1>3, <1>4

-----------------------------------------------------------------------------
(* 9. What a request may do to an engagement, and where it leaves it. *)

\* Where the unit stood when its retreat began.
StartIn(s, u) ==
    IF /\ s.engine.movement_arc # None /\ s.engine.movement_arc.retreat_fulfillment
       /\ s.engine.movement_arc.unit_id = u
    THEN s.engine.movement_arc.path[1] ELSE s.units[u].position

\* The unit has gone as far as it owed, or was disrupted where it stood.
Covered(s, t, u) ==
    \/ Apart[StartIn(s, u)][t.units[u].position] = Obligations(s)[u]
    \/ t.units[u].position = StartIn(s, u) /\ "disrupted" \in DOMAIN t.units[u].attributes

InRetreat(s) == AtRetreat(s) \/ Walking(s)

\* The engagement is where it was.
Calm(s, t) ==
    /\ \/ AtRoutine(s) /\ AtRoutine(t)
       \/ InRetreat(s) /\ InRetreat(t)
       \/ AtAdvance(s) /\ AtAdvance(t)
    /\ Obligations(t) = Obligations(s) /\ AttacksThisPhase(t) = AttacksThisPhase(s)

PhaseTurns(s, t) == AtRoutine(s) /\ AtRoutine(t) /\ Quiet(t)

\* Units that have not fought in this phase do so, perhaps as the last of it.
Struck(s, t) ==
    /\ AtRoutine(s) /\ AtEase(t)
    /\ \E fresh \in Seq(Units) \ {<<>>} :
          /\ Range(fresh) \cap Range(AttacksThisPhase(s)) = {}
          /\ \/ AttacksThisPhase(t) = AttacksThisPhase(s) \o fresh
             \/ AtRoutine(t) /\ Quiet(t)

\* Some who owed a retreat have made it.
Yielded(s, t) ==
    /\ InRetreat(s) /\ AtEase(t)
    /\ OwesLess(s, t) /\ DOMAIN Obligations(t) # DOMAIN Obligations(s)
    /\ AttacksThisPhase(t) = AttacksThisPhase(s)
    /\ \A u \in DOMAIN Obligations(s) \ DOMAIN Obligations(t) : Covered(s, t, u)

Answered(s, t) ==
    /\ AtAdvance(s) /\ AtRoutine(t)
    /\ AttacksThisPhase(t) = AttacksThisPhase(s)

FightStep(s, t) ==
    \/ Calm(s, t) \/ PhaseTurns(s, t) \/ Struck(s, t) \/ Yielded(s, t) \/ Answered(s, t)
    \/ t \in Snapshots

\* The handler leaves m, in order, and clients see it, unless a retreat is being walked.
Rests(m) ==
    /\ mgr' = Forgetful(m)
    /\ IsManager(m) /\ AtPeace(m.state)
    /\ Walking(m.state) \/ published' = m.state
    /\ FightStep(mgr.state, m.state)

-----------------------------------------------------------------------------

LEMMA RestCursorsAre ==
    ASSUME CombatTitle, NEW s
    PROVE  /\ AtRoutine(s) => /\ s.engine.cursor # None /\ s.engine.cursor.segment_id = "routine"
                              /\ s.engine.cursor.arc_id \in DOMAIN RoutineActions
                              /\ s.engine.cursor.arc_id # "combat"
                              /\ s.engine.cursor.arc_id # "movement"
                              /\ s.engine.cursor \in CombatRests
           /\ AtRetreat(s) => /\ s.engine.cursor # None /\ s.engine.cursor.arc_id = "combat"
                              /\ s.engine.cursor.segment_id \in Retreats
                              /\ s.engine.cursor \in CombatRests
           /\ AtAdvance(s) => /\ s.engine.cursor # None /\ s.engine.cursor.arc_id = "combat"
                              /\ s.engine.cursor.segment_id = "advance_gate"
                              /\ s.engine.cursor \in CombatRests
           /\ Walking(s) => /\ s.engine.cursor # None /\ s.engine.cursor.arc_id = "movement"
                            /\ s.engine.cursor.segment_id = "continue"
                            /\ s.engine.cursor \in CombatRests
<1>1. ASSUME AtRoutine(s)
      PROVE  /\ s.engine.cursor # None /\ s.engine.cursor.segment_id = "routine"
             /\ s.engine.cursor.arc_id \in DOMAIN RoutineActions
             /\ s.engine.cursor.arc_id # "combat" /\ s.engine.cursor.arc_id # "movement"
             /\ s.engine.cursor \in CombatRests
  <2>1. PICK arc \in DOMAIN RoutineActions : s.engine.cursor = RoutineCursor(arc)
    BY <1>1 DEF AtRoutine
  <2>2. RoutineCursor(arc).arc_id = arc /\ RoutineCursor(arc).segment_id = "routine"
    BY CursorFields
  <2>3. RoutineCursor(arc) # None
    BY CursorsExist
  <2>4. arc # "combat" /\ arc # "movement"
    BY MovementArcAssumption DEF CombatTitle
  <2>5. RoutineCursor(arc) \in CombatRests
    BY DEF CombatRests
  <2> QED BY <2>1, <2>2, <2>3, <2>4, <2>5
<1>2. ASSUME AtRetreat(s)
      PROVE  /\ s.engine.cursor # None /\ s.engine.cursor.arc_id = "combat"
             /\ s.engine.cursor.segment_id \in Retreats /\ s.engine.cursor \in CombatRests
  <2>1. PICK seg \in Retreats : s.engine.cursor = CombatCursor(seg)
    BY <1>2 DEF AtRetreat
  <2>2. seg \in CombatSegments /\ CombatCursor(seg) \in CombatRests
    BY DEF Retreats, CombatSegments, CombatRests
  <2> QED BY <2>1, <2>2, CursorsExist, CombatCursorFields
<1>3. ASSUME AtAdvance(s)
      PROVE  /\ s.engine.cursor # None /\ s.engine.cursor.arc_id = "combat"
             /\ s.engine.cursor.segment_id = "advance_gate" /\ s.engine.cursor \in CombatRests
  <2>1. s.engine.cursor = CombatCursor("advance_gate")
    BY <1>3 DEF AtAdvance
  <2>2. "advance_gate" \in CombatSegments /\ CombatCursor("advance_gate") \in CombatRests
    BY DEF CombatSegments, CombatRests
  <2> QED BY <2>1, <2>2, CursorsExist, CombatCursorFields
<1>4. ASSUME Walking(s)
      PROVE  /\ s.engine.cursor # None /\ s.engine.cursor.arc_id = "movement"
             /\ s.engine.cursor.segment_id = "continue" /\ s.engine.cursor \in CombatRests
  <2>1. s.engine.cursor = StepCursor("continue")
    BY <1>4 DEF Walking
  <2>2. "continue" \in MovementSegments /\ StepCursor("continue") \in CombatRests
    BY DEF MovementSegments, CombatRests
  <2> QED BY <2>1, <2>2, CursorsExist, CursorFields
<1> QED BY <1>1, <1>2, <1>3, <1>4

\* The overlay is active exactly at the gates.
LEMMA OverlayAtGates ==
    ASSUME CombatTitle, NEW s
    PROVE  /\ AtRoutine(s) \/ Walking(s) => ~OverlayIsActive(s)
           /\ AtRetreat(s) \/ AtAdvance(s) => OverlayIsActive(s)
<1>1. DOMAIN OverlayArcs = {"combat"}
  <2>1. OverlayArcs = CombatArcs
    BY DEF CombatTitle
  <2> HIDE DEF CombatTitle
  <2> QED BY <2>1 DEF CombatArcs
<1> QED BY <1>1, RestCursorsAre DEF OverlayIsActive

\* The titles that register their presentation show every such rest.
LEMMA EaseIsShown ==
    ASSUME CombatTitle, NEW s, AtEase(s)
    PROVE  CanBeShown(s)
<1>1. s.engine.cursor # None => s.engine.cursor.segment_id \in KnownSegments
  BY RestCursorsAre DEF AtEase, KnownSegments, Retreats
<1> QED BY <1>1 DEF CanBeShown, CombatTitle

LEMMA EaseIsPeace ==
    ASSUME NEW s, Ordered(s), AtEase(s)
    PROVE  AtPeace(s)
BY DEF AtPeace, AtEase

LEMMA AnswersAtEase ==
    ASSUME CombatTitle, NEW x, IsManager(x), Ordered(x.state), AtEase(x.state),
           FightStep(mgr.state, x.state), AnswersOrFails(Runner!Ran(x))
    PROVE  Rests(x)
<1>1. mgr' = Forgetful(x) /\ published' = x.state
  BY RunIs, EaseIsShown DEF AnswersOrFails, AnswersAnyway, Answers
<1>2. AtPeace(x.state)
  BY EaseIsPeace
<1> HIDE DEF FightStep, IsManager, AtPeace
<1> QED BY <1>1, <1>2 DEF Rests

\* Back from a gate to the segment that settles the engagement.
LEMMA ResolvesFrom ==
    ASSUME CombatTitle, NEW y, IsManager(y), Ordered(y.state), AdvanceOffer(y.state) = None,
           y.state.engine.movement_arc = None, NEW seg
    PROVE  \E x : /\ RestoreRoutineCursor(Runner!AutoAdvance(
                        Runner!MoveCursor(Runner!Ran(y), CombatCursor(seg), Goto("resolve"))))
                        = Runner!Ran(x)
                  /\ IsManager(x) /\ Ordered(x.state) /\ SameFight(y.state, x.state)
                  /\ AtEase(x.state)
<1> DEFINE z == Placed(y, CombatCursor("resolve"))
<1>1. Runner!MoveCursor(Runner!Ran(y), CombatCursor(seg), Goto("resolve")) = Runner!Ran(z)
  BY CombatNextCursors, MovesCursor
<1>2. WellFormed(y.state)
  BY DEF Ordered
<1>3. /\ IsManager(z) /\ WellFormed(z.state) /\ SameBut(y.state, z.state)
      /\ z.state.engine.cursor = CombatCursor("resolve")
      /\ z.state.engine.movement_arc = None
  BY <1>2, PlacedState
<1> HIDE DEF z
<1>4. Ordered(z.state)
  BY <1>3, KeepsOrder
<1>5. /\ Obligations(z.state) = Obligations(y.state) /\ AdvanceOffer(z.state) = None
      /\ AttacksThisPhase(z.state) = AttacksThisPhase(y.state)
      /\ LastCombat(z.state) = LastCombat(y.state)
  BY <1>3, SameBucket DEF SameBut
<1>6. PICK x : /\ RestoreRoutineCursor(Runner!AutoAdvance(Runner!Ran(z))) = Runner!Ran(x)
               /\ IsManager(x) /\ Ordered(x.state) /\ SameFight(z.state, x.state)
               /\ AtEase(x.state)
  <2>1. "resolve" \in SettleSegments
    BY DEF SettleSegments
  <2> QED BY <1>3, <1>4, <1>5, <2>1, Settles
<1>7. SameFight(y.state, x.state)
  BY <1>3, <1>5, <1>6 DEF SameFight, SameBut
<1> QED BY <1>1, <1>6, <1>7

\* The end of the combat arc: the routine cursor is put back.
LEMMA EndsFrom ==
    ASSUME CombatTitle, NEW y, WellFormed(y.state), NEW seg
    PROVE  \E x : /\ RestoreRoutineCursor(Runner!AutoAdvance(
                        Runner!MoveCursor(Runner!Ran(y), CombatCursor(seg), DONE)))
                        = Runner!Ran(x)
                  /\ IsManager(x) /\ WellFormed(x.state) /\ SameBut(y.state, x.state)
                  /\ x.state.engine.movement_arc = y.state.engine.movement_arc
                  /\ \E arc \in DOMAIN RoutineActions : x.state.engine.cursor = RoutineCursor(arc)
<1> DEFINE z == Placed(y, None)
           x == InSlot(z)
<1>1. Runner!MoveCursor(Runner!Ran(y), CombatCursor(seg), DONE) = Runner!Ran(z)
  BY CombatNextCursors, MovesCursor
<1>2. /\ IsManager(z) /\ WellFormed(z.state) /\ SameBut(y.state, z.state)
      /\ z.state.engine.cursor = None
      /\ z.state.engine.movement_arc = y.state.engine.movement_arc
  BY PlacedState
<1> HIDE DEF z
<1>3. Runner!AutoAdvance(Runner!Ran(z)) = Runner!Ran(z)
  BY <1>2, CombatRestsRest DEF CombatRests
<1>4. /\ BeginRoutineSlot(Runner!Ran(z)) = Runner!Ran(x)
      /\ IsManager(x) /\ WellFormed(x.state) /\ SameBut(z.state, x.state)
      /\ x.state.engine.movement_arc = z.state.engine.movement_arc
      /\ \E arc \in DOMAIN RoutineActions : x.state.engine.cursor = RoutineCursor(arc)
  BY <1>2, SlotBegins
<1> HIDE DEF x
<1>5. RestoreRoutineCursor(Runner!Ran(z)) = Runner!Ran(x)
  BY <1>2, <1>4, RoutineRestored
<1>6. SameBut(y.state, x.state) /\ x.state.engine.movement_arc = y.state.engine.movement_arc
  BY <1>2, <1>4 DEF SameBut
<1> QED BY <1>1, <1>3, <1>4, <1>5, <1>6

-----------------------------------------------------------------------------
(* 10. The answers at the gates. *)

\* The one transition of the segment that its trigger can take.
OnlyBy(c, tr) ==
    \E n \in Nat : \E k \in 1..n :
        /\ DOMAIN Runner!Segment(c).transitions = 1..n
        /\ Runner!Segment(c).transitions[k] = tr
        /\ \A i \in 1..n : i # k => Runner!Segment(c).transitions[i].trigger # tr.trigger

LEMMA OnlyOfOne ==
    ASSUME NEW c, NEW T, T = Runner!Segment(c).transitions, DOMAIN T = 1..1, NEW a, T[1] = a
    PROVE  OnlyBy(c, a)
<1>1. 1 \in 1..1 /\ 1 \in Nat /\ \A i \in 1..1 : i = 1
  OBVIOUS
<1> DEFINE one == 1
<1>2. /\ one \in Nat /\ one \in 1..one /\ \A i \in 1..one : i = one
      /\ DOMAIN Runner!Segment(c).transitions = 1..one
      /\ Runner!Segment(c).transitions[one] = a
  BY <1>1
<1> HIDE DEF one
<1> QED BY <1>2 DEF OnlyBy

LEMMA OnlyOfMany ==
    ASSUME NEW c, NEW T, T = Runner!Segment(c).transitions, NEW n \in Nat, DOMAIN T = 1..n,
           NEW k \in 1..n, NEW a, T[k] = a, \A i \in 1..n : i # k => T[i].trigger # a.trigger
    PROVE  OnlyBy(c, a)
BY DEF OnlyBy

AttackOn == On("Attack", "always", "attack_arc_effect", Goto("classify"))
RetreatOn == RetreatMove(Goto("resolve"))
DisruptOn == On("CombatDisruptInsteadOfRetreat", "always", "disrupt_instead", Goto("resolve"))
AdvanceOn == On("CombatAdvance", "always", "resolve_advance", DONE)
DragOn == On("MoveUnit", "is_combat_advance_move", "resolve_advance", DONE)
DeclineOn == On("CombatDeclineAdvance", "always", "clear_advance_gate", DONE)

LEMMA AnswerFields ==
    /\ AttackOn.trigger = "Attack" /\ AttackOn.guard = "always"
    /\ AttackOn.effect = "attack_arc_effect" /\ AttackOn.target = Goto("classify")
    /\ RetreatOn.trigger = "MoveUnit" /\ RetreatOn.guard = "is_retreat_fulfillment"
    /\ RetreatOn.effect = "apply_retreat_step" /\ RetreatOn.target = Goto("resolve")
    /\ DisruptOn.trigger = "CombatDisruptInsteadOfRetreat" /\ DisruptOn.guard = "always"
    /\ DisruptOn.effect = "disrupt_instead" /\ DisruptOn.target = Goto("resolve")
    /\ AdvanceOn.trigger = "CombatAdvance" /\ AdvanceOn.guard = "always"
    /\ AdvanceOn.effect = "resolve_advance" /\ AdvanceOn.target = DONE
    /\ DragOn.trigger = "MoveUnit" /\ DragOn.guard = "is_combat_advance_move"
    /\ DragOn.effect = "resolve_advance" /\ DragOn.target = DONE
    /\ DeclineOn.trigger = "CombatDeclineAdvance" /\ DeclineOn.guard = "always"
    /\ DeclineOn.effect = "clear_advance_gate" /\ DeclineOn.target = DONE
BY OnFields DEF AttackOn, RetreatOn, RetreatMove, DisruptOn, AdvanceOn, DragOn, DeclineOn

LEMMA GateOnly ==
    ASSUME CombatTitle
    PROVE  /\ OnlyBy(CombatCursor("attack"), AttackOn)
           /\ OnlyBy(CombatCursor("retreat_gate"), RetreatOn)
           /\ OnlyBy(CombatCursor("retreat_or_disrupt_gate"), RetreatOn)
           /\ OnlyBy(CombatCursor("retreat_or_disrupt_gate"), DisruptOn)
           /\ OnlyBy(CombatCursor("advance_gate"), AdvanceOn)
           /\ OnlyBy(CombatCursor("advance_gate"), DragOn)
           /\ OnlyBy(CombatCursor("advance_gate"), DeclineOn)
<1>0. /\ 1..1 = {1} /\ 1..2 = {1, 2} /\ 1..3 = {1, 2, 3} /\ 2 \in Nat /\ 3 \in Nat
      /\ 1 # 2 /\ 1 # 3 /\ 2 # 3
  OBVIOUS
<1>1. OnlyBy(CombatCursor("attack"), AttackOn)
  BY GateTransitions, OnlyOfOne DEF AttackOn
<1>2. OnlyBy(CombatCursor("retreat_gate"), RetreatOn)
  BY GateTransitions, OnlyOfOne DEF RetreatOn
<1>3. /\ OnlyBy(CombatCursor("retreat_or_disrupt_gate"), RetreatOn)
      /\ OnlyBy(CombatCursor("retreat_or_disrupt_gate"), DisruptOn)
  <2> DEFINE c == CombatCursor("retreat_or_disrupt_gate")
             T == Runner!Segment(c).transitions
  <2>1. DOMAIN T = 1..2 /\ T[1] = RetreatOn /\ T[2] = DisruptOn
    BY GateTransitions DEF RetreatOn, DisruptOn
  <2>2. RetreatOn.trigger # DisruptOn.trigger
    BY AnswerFields
  <2> HIDE DEF T, c
  <2>3. \A i \in 1..2 : i # 1 => T[i].trigger # RetreatOn.trigger
    BY <1>0, <2>1, <2>2
  <2>4. \A i \in 1..2 : i # 2 => T[i].trigger # DisruptOn.trigger
    BY <1>0, <2>1, <2>2
  <2>5. OnlyBy(c, RetreatOn)
    <3> DEFINE k == 1
               n == 2
    <3>1. n \in Nat /\ k \in 1..n /\ DOMAIN T = 1..n /\ T[k] = RetreatOn
          /\ \A i \in 1..n : i # k => T[i].trigger # RetreatOn.trigger
      BY <1>0, <2>1, <2>3
    <3> HIDE DEF k, n
    <3> QED BY <3>1, OnlyOfMany DEF T
  <2>6. OnlyBy(c, DisruptOn)
    <3> DEFINE k == 2
               n == 2
    <3>1. n \in Nat /\ k \in 1..n /\ DOMAIN T = 1..n /\ T[k] = DisruptOn
          /\ \A i \in 1..n : i # k => T[i].trigger # DisruptOn.trigger
      BY <1>0, <2>1, <2>4
    <3> HIDE DEF k, n
    <3> QED BY <3>1, OnlyOfMany DEF T
  <2> QED BY <2>5, <2>6 DEF c
<1>4. /\ OnlyBy(CombatCursor("advance_gate"), AdvanceOn)
      /\ OnlyBy(CombatCursor("advance_gate"), DragOn)
      /\ OnlyBy(CombatCursor("advance_gate"), DeclineOn)
  <2> DEFINE c == CombatCursor("advance_gate")
             T == Runner!Segment(c).transitions
             n == 3
  <2>1. DOMAIN T = 1..3 /\ T[1] = AdvanceOn /\ T[2] = DragOn /\ T[3] = DeclineOn
    BY GateTransitions DEF AdvanceOn, DragOn, DeclineOn
  <2>2. /\ AdvanceOn.trigger # DragOn.trigger /\ AdvanceOn.trigger # DeclineOn.trigger
        /\ DragOn.trigger # DeclineOn.trigger
    BY AnswerFields
  <2> HIDE DEF T, c
  <2>3. n \in Nat /\ DOMAIN T = 1..n /\ 1 \in 1..n /\ 2 \in 1..n /\ 3 \in 1..n
    BY <1>0, <2>1
  <2>4. \A i \in 1..n : /\ i # 1 => T[i].trigger # AdvanceOn.trigger
                        /\ i # 2 => T[i].trigger # DragOn.trigger
                        /\ i # 3 => T[i].trigger # DeclineOn.trigger
    BY <1>0, <2>1, <2>2
  <2> HIDE DEF n
  <2>5. \A k \in 1..n : \A a :
           T[k] = a /\ (\A i \in 1..n : i # k => T[i].trigger # a.trigger) => OnlyBy(c, a)
    BY <2>3, OnlyOfMany DEF T
  <2>6. OnlyBy(c, AdvanceOn)
    BY <2>1, <2>3, <2>4, <2>5
  <2>7. OnlyBy(c, DragOn)
    BY <2>1, <2>3, <2>4, <2>5
  <2>8. OnlyBy(c, DeclineOn)
    BY <2>1, <2>3, <2>4, <2>5
  <2> QED BY <2>6, <2>7, <2>8 DEF c
<1> QED BY <1>1, <1>2, <1>3, <1>4

\* An event at a segment, taken by its one transition for it, and what it comes to.
Meets(m, c, arc, tr, f, params) ==
    /\ m.state.engine.cursor = c /\ c # None /\ c.arc_id = arc
    /\ Runner!Segment(c).owner # "NO_OWNER" /\ OnlyBy(c, tr)
    /\ IsTaken(Runner!SubmitEvent(m, arc, tr.trigger, f, params))

Applies(m, c, arc, tr, f, params) ==
    /\ f # None /\ f = Runner!ResolveOwner(Runner!Segment(c).owner, m.state)
    /\ GuardPasses(tr.guard, ContextOf(m, f, params))
    /\ Runner!SubmitEvent(m, arc, tr.trigger, f, params).run
         = Runner!AutoAdvance(Runner!ApplyTransition(m, c, tr, ContextOf(m, f, params)))

LEMMA EventApplies ==
    ASSUME NEW m, NEW c, NEW arc, NEW tr, NEW f, NEW params, Meets(m, c, arc, tr, f, params)
    PROVE  Applies(m, c, arc, tr, f, params)
<1>h1. /\ m.state.engine.cursor = c /\ c # None /\ c.arc_id = arc
       /\ Runner!Segment(c).owner # "NO_OWNER" /\ OnlyBy(c, tr)
       /\ IsTaken(Runner!SubmitEvent(m, arc, tr.trigger, f, params))
  BY DEF Meets
<1>h2. PICK n \in Nat : \E k \in 1..n :
         /\ DOMAIN Runner!Segment(c).transitions = 1..n
         /\ Runner!Segment(c).transitions[k] = tr
         /\ \A i \in 1..n : i # k => Runner!Segment(c).transitions[i].trigger # tr.trigger
  BY <1>h1 DEF OnlyBy
<1>h3. PICK k \in 1..n :
         /\ DOMAIN Runner!Segment(c).transitions = 1..n
         /\ Runner!Segment(c).transitions[k] = tr
         /\ \A i \in 1..n : i # k => Runner!Segment(c).transitions[i].trigger # tr.trigger
  BY <1>h2
<1> DEFINE t == tr.trigger
           seg == Runner!Segment(c)
           o == Runner!ResolveOwner(seg.owner, m.state)
           ctx == ContextOf(m, o, params)
           P == Runner!Passing(seg, ctx, t)
           T == seg.transitions
           event == Runner!SubmitEvent(m, arc, t, f, params)
           first == Runner!FirstApplied(m, c, P, ctx)
<1>1. event = IF o = None \/ f # o \/ t \notin seg.allowed_actions THEN Runner!Rejected(m)
              ELSE Runner!Submitted(m, c, P, ctx)
  <2>1. ~Runner!IsAutomatic(seg)
    BY <1>h1 DEF Runner!IsAutomatic
  <2> QED BY <1>h1, <2>1 DEF Runner!SubmitEvent, ContextOf
<1>2. Runner!Submitted(m, c, P, ctx) =
         IF P = {} THEN Runner!Rejected(m)
         ELSE [ok |-> TRUE, run |-> Runner!AutoAdvance(first)]
  BY DEF Runner!Submitted
<1>3. IsTaken(event)
  BY <1>h1
<1>12. \A i \in P : i \in 1..n /\ T[i].trigger = t /\ GuardPasses(T[i].guard, ctx)
  BY <1>h3 DEF Runner!Passing
<1>13. GuardPasses(T[k].guard, ctx) => first = Runner!ApplyTransition(m, c, T[k], ctx)
  <2>1. \A i \in 1..n : i < k => T[i].trigger # t
    BY <1>h1, <1>h3
  <2>2. DOMAIN T = 1..n /\ T[k].trigger = t
    BY <1>h1, <1>h3
  <2> HIDE DEF event, ctx
  <2> QED BY <1>h3, <2>1, <2>2, TransitionTaken
<1>14. \A i \in 1..n : i # k => T[i].trigger # t
  BY <1>h3
<1>15. \A x, y : [ok |-> x, run |-> y].run = y
  OBVIOUS
<1> DEFINE then == Runner!AutoAdvance(first)
<1> HIDE DEF event, P, first, then
<1>4. ~IsTaken(Runner!Rejected(m))
  BY RunIs DEF IsTaken, Runner!Rejected
<1> HIDE DEF ctx, o, T, seg
<1>5. ~(o = None \/ f # o \/ t \notin seg.allowed_actions)
  BY ONLY <1>1, <1>3, <1>4
<1>6. event = Runner!Submitted(m, c, P, ctx)
  BY ONLY <1>1, <1>5
<1>7. P # {}
  BY ONLY <1>2, <1>3, <1>4, <1>6 DEF then
<1>8. event = [ok |-> TRUE, run |-> then]
  BY ONLY <1>2, <1>6, <1>7 DEF then
<1>9. event.run = then
  BY ONLY <1>8, <1>15
<1>10. ctx = ContextOf(m, f, params)
  BY <1>5 DEF ctx
<1>11. GuardPasses(T[k].guard, ctx)
  BY ONLY <1>7, <1>12, <1>14
<1>16. event.run = Runner!AutoAdvance(Runner!ApplyTransition(m, c, T[k], ctx))
  BY ONLY <1>9, <1>11, <1>13 DEF then
<1>17. /\ f # None /\ f = o
       /\ GuardPasses(T[k].guard, ContextOf(m, f, params))
       /\ event.run
            = Runner!AutoAdvance(Runner!ApplyTransition(m, c, T[k], ContextOf(m, f, params)))
  BY ONLY <1>5, <1>10, <1>11, <1>16
<1>18. T[k] = tr
  BY <1>h3 DEF T, seg
<1> QED BY ONLY <1>17, <1>18 DEF event, o, t, seg, Applies

LEMMA ContextIs ==
    \A m, f, params : LET ctx == ContextOf(m, f, params)
                      IN  ctx.state = m.state /\ ctx.owner = f /\ ctx.params = params
BY DEF ContextOf

\* Who owns the gates.
LEMMA GateOwners ==
    ASSUME CombatTitle, NEW s
    PROVE  /\ Runner!ResolveOwner("CURRENT", s) = s.turn.current_faction
           /\ Runner!ResolveOwner("retreating_in_combat", s) = RetreatingFaction(s)
<1>1. Runner!ResolveOwner("CURRENT", s) = s.turn.current_faction
  BY DEF Runner!ResolveOwner
<1>2. Runner!ResolveOwner("retreating_in_combat", s) = ArcOwner("retreating_in_combat", s)
  BY DEF Runner!ResolveOwner
<1>3. ArcOwner("retreating_in_combat", s) = OverlayOwner("retreating_in_combat", s)
  BY DEF ArcOwner
<1>4. OverlayOwner("retreating_in_combat", s) = CombatOwner("retreating_in_combat", s)
  BY DEF CombatTitle
<1>5. CombatOwner("retreating_in_combat", s) = RetreatingFaction(s)
  BY DEF CombatOwner
<1> QED BY <1>1, <1>2, <1>3, <1>4, <1>5

\* They wait for the faction of all who must retreat.
LEMMA RetreatersAreOwn ==
    ASSUME NEW s, Owed(s), DOMAIN Obligations(s) # {}
    PROVE  \A u \in DOMAIN Obligations(s) : s.units[u].faction = RetreatingFaction(s)
<1>1. Retreaters(s) = DOMAIN Obligations(s)
  BY PendingIsOwed
<1> DEFINE w == CHOOSE u \in Retreaters(s) : TRUE
<1>2. w \in DOMAIN Obligations(s) /\ RetreatingFaction(s) = s.units[w].faction
  BY <1>1 DEF RetreatingFaction
<1> HIDE DEF w
<1> QED BY <1>2 DEF Owed

\* A unit is dragged to the goal of its retreat, with its stack.
LEMMA AtOnceRests ==
    ASSUME CombatTitle, IsManager(mgr), AtPeace(mgr.state),
           NEW f, NEW u \in Units, NEW to, RetreatAtOnce(f, u, to)
    PROVE  \E x : Rests(x)
<1> DEFINE s == mgr.state
           from == Standing(u)
           params == MoveParams(u, from, to)
           event == OverlayEvent(f, "MoveUnit", params)
           ctx == ContextOf(mgr, f, params)
           stack == RetreatStack(s, f, u, from)
<1>1. /\ OverlayIsActive(s) /\ IsTaken(event)
      /\ AnswersOrFails(RestoreRoutineCursor(event.run))
      /\ OwnRetreater(f, u)
      /\ \A w \in stack : MayRetreatTo(s, f, w, from, to, HexesRemaining(s, w))
  <2>1. MayRetreatAtOnce(f, u, to) /\ OverlayRequest(f, "MoveUnit", params)
    BY DEF RetreatAtOnce
  <2>2. OverlayIsActive(s) /\ IsTaken(event) /\ AnswersOrFails(RestoreRoutineCursor(event.run))
    BY <2>1 DEF OverlayRequest
  <2>3. /\ OwnRetreater(f, u)
        /\ StackMayRetreat(s, f, stack, from, to, [w \in stack |-> HexesRemaining(s, w)])
    BY <2>1 DEF MayRetreatAtOnce
  <2> HIDE DEF stack, event, from
  <2>4. ASSUME NEW w \in stack PROVE MayRetreatTo(s, f, w, from, to, HexesRemaining(s, w))
    <3> DEFINE owed == [x \in stack |-> HexesRemaining(s, x)]
    <3>1. ValidRetreat(s, f, w, from, to, owed[w])
      BY <2>3 DEF StackMayRetreat
    <3>2. owed[w] = HexesRemaining(s, w)
      OBVIOUS
    <3> HIDE DEF owed
    <3> QED BY <3>1, <3>2 DEF ValidRetreat
  <2> QED BY <2>2, <2>3, <2>4
<1> HIDE DEF event, stack, from, params
<1>2. Ordered(s) /\ Owed(s) /\ WellFormed(s)
  BY DEF AtPeace, Ordered
<1>3. u \in DOMAIN Obligations(s)
  BY <1>1, <1>2, PendingIsOwed DEF OwnRetreater
<1>4. AtRetreat(s)
  BY <1>1, <1>3, OverlayAtGates DEF AtPeace, AtAdvance
<1>5. PICK seg \in Retreats : s.engine.cursor = CombatCursor(seg)
  BY <1>4 DEF AtRetreat
<1>6. s.engine.movement_arc = None /\ AdvanceOffer(s) = None
  BY <1>4 DEF AtRetreat
<1> DEFINE c == CombatCursor(seg)
           tr == RetreatOn
<1>7. tr.trigger = "MoveUnit" /\ tr.effect = "apply_retreat_step" /\ tr.target = Goto("resolve")
  BY AnswerFields
<1>8. OnlyBy(c, tr)
  BY GateOnly DEF Retreats
<1>9. c # None /\ c.arc_id = "combat" /\ Runner!Segment(c).owner # "NO_OWNER"
  BY <1>4, <1>5, RestCursorsAre, CombatOwners
<1> HIDE DEF c, tr, ctx
<1>10. event.run = Runner!AutoAdvance(Runner!ApplyTransition(mgr, c, tr, ctx))
  <2>1. event = Runner!SubmitEvent(mgr, "combat", tr.trigger, f, params)
    BY <1>7 DEF event, OverlayEvent
  <2>2. mgr.state.engine.cursor = c
    BY <1>5 DEF c
  <2>3. IsTaken(Runner!SubmitEvent(mgr, "combat", tr.trigger, f, params))
    BY <1>1, <2>1
  <2> DEFINE arc == "combat"
  <2>4. Meets(mgr, c, arc, tr, f, params)
    BY <1>8, <1>9, <2>2, <2>3 DEF Meets
  <2> HIDE DEF arc
  <2>5. Applies(mgr, c, arc, tr, f, params)
    BY <2>4, EventApplies
  <2> QED BY <2>1, <2>5 DEF Applies, arc, ctx
<1>11. /\ ~OverlayRaises("apply_retreat_step", ctx)
       /\ EffectActions("apply_retreat_step", ctx) = RetreatStepActions(s, f, u, from, to)
  <2>1. ctx.state = s /\ ctx.owner = f /\ ctx.params = params
    BY ContextIs DEF ctx
  <2>2. params.unit_id = u /\ params.from_hex = from /\ params.to_hex = to
    BY DEF params, MoveParams
  <2> HIDE DEF ctx
  <2> QED BY <2>1, <2>2, CombatEffectsAre, CombatRaisesAre
<1> HIDE DEF ctx
<1>12. PICK y : /\ ExecutedAll(mgr, RetreatStepActions(s, f, u, from, to)) = Runner!Ran(y)
                /\ IsManager(y) /\ Ordered(y.state)
                /\ y.state.turn = s.turn /\ y.state.engine = s.engine
                /\ DOMAIN Obligations(y.state) = DOMAIN Obligations(s) \ stack
                /\ OwesLess(s, y.state)
                /\ AttacksThisPhase(y.state) = AttacksThisPhase(s)
                /\ AdvanceOffer(y.state) = AdvanceOffer(s)
                /\ \A w \in stack : y.state.units[w].position = to
  BY <1>2, <1>3, RetreatStepRun DEF stack
<1>13. Runner!ApplyTransition(mgr, c, tr, ctx)
         = Runner!MoveCursor(Runner!Ran(y), c, Goto("resolve"))
  BY <1>7, <1>11, <1>12, AppliesTransition
<1>14. PICK x : /\ RestoreRoutineCursor(Runner!AutoAdvance(
                        Runner!MoveCursor(Runner!Ran(y), c, Goto("resolve")))) = Runner!Ran(x)
                /\ IsManager(x) /\ Ordered(x.state) /\ SameFight(y.state, x.state)
                /\ AtEase(x.state)
  BY <1>6, <1>12, ResolvesFrom DEF c
<1>15. AnswersOrFails(Runner!Ran(x))
  BY <1>1, <1>10, <1>13, <1>14
<1>16. /\ x.state.units = y.state.units /\ Obligations(x.state) = Obligations(y.state)
       /\ AttacksThisPhase(x.state) = AttacksThisPhase(y.state)
  BY <1>14 DEF SameFight
<1>17. ASSUME NEW w \in DOMAIN Obligations(s) \ DOMAIN Obligations(x.state)
       PROVE  Covered(s, x.state, w)
  <2>1. w \in stack /\ x.state.units[w].position = to
    BY <1>12, <1>16, <1>17
  <2>2. s.units[w].position = from /\ Apart[from][to] = HexesRemaining(s, w)
    BY <1>1, <2>1 DEF MayRetreatTo
  <2>3. HexesRemaining(s, w) = Obligations(s)[w]
    BY DEF HexesRemaining
  <2>4. StartIn(s, w) = from
    BY <1>6, <2>2 DEF StartIn
  <2> QED BY <2>1, <2>2, <2>3, <2>4 DEF Covered
<1>18. u \in stack
  BY DEF stack, RetreatStack
<1>19. DOMAIN Obligations(x.state) # DOMAIN Obligations(s)
  BY <1>3, <1>12, <1>16, <1>18
<1>20. OwesLess(s, x.state)
  BY <1>12, <1>16 DEF OwesLess
<1>21. Yielded(s, x.state)
  BY <1>4, <1>12, <1>14, <1>16, <1>17, <1>19, <1>20 DEF Yielded, InRetreat
<1>22. FightStep(mgr.state, x.state)
  BY <1>21 DEF FightStep
<1> QED BY <1>14, <1>15, <1>22, AnswersAtEase

-----------------------------------------------------------------------------
(* 11. Disruption in place of a retreat. *)

MarkOf(u) == [kind |-> "PatchAttributes", unit_id |-> u,
              patch |-> [values |-> [disrupted |-> 1], remove_keys |-> {}]]

\* The units of S are disrupted where they stand; all else is as it was.
Marked(s, t, S) ==
    /\ t.turn = s.turn /\ t.engine = s.engine /\ t.session = s.session
    /\ \A u \in Units \ S : t.units[u] = s.units[u]
    /\ \A u \in S : /\ Present(t, u) /\ t.units[u].position = s.units[u].position
                    /\ t.units[u].faction = s.units[u].faction
                    /\ t.units[u].active = s.units[u].active
                    /\ "disrupted" \in DOMAIN t.units[u].attributes

LEMMA UnitMarks ==
    ASSUME CombatTitle, NEW m, WellFormed(m.state), NEW u \in Units, Present(m.state, u)
    PROVE  /\ CanApply(MarkOf(u), m.state)
           /\ IsManager(Executed(m, MarkOf(u)))
           /\ WellFormed(Executed(m, MarkOf(u)).state)
           /\ Marked(m.state, Executed(m, MarkOf(u)).state, {u})
<1> DEFINE s == m.state
           a == MarkOf(u)
           attributes == Merge(Without(s.units[u].attributes, a.patch.remove_keys), a.patch.values)
           unit == [s.units[u] EXCEPT !.attributes = attributes]
           t == WithUnit(s, u, unit)
<1>1. a.kind = "PatchAttributes" /\ a.unit_id = u /\ a.patch.values = [disrupted |-> 1]
  BY DEF MarkOf
<1> HIDE DEF a
<1>2. CanApply(a, s)
  BY <1>1 DEF CanApply
<1>3. Apply(a, s) = t
  <2>1. Apply(a, s) = ApplyPatchAttributes(a, s)
    BY <1>1 DEF Apply
  <2>2. [s.units[u] EXCEPT !.attributes = Merge(Without(@, a.patch.remove_keys), a.patch.values)]
           = unit
    OBVIOUS
  <2> HIDE DEF unit
  <2> QED BY <1>1, <2>1, <2>2 DEF ApplyPatchAttributes
<1>4. DOMAIN s.units[u] = UnitFields
  BY DEF WellFormed
<1>5. "disrupted" \in DOMAIN attributes
  BY <1>1 DEF Merge
<1> HIDE DEF attributes
<1>6. /\ DOMAIN unit = UnitFields /\ unit.position = s.units[u].position
      /\ unit.faction = s.units[u].faction /\ unit.active = s.units[u].active
      /\ unit.attributes = attributes
  BY <1>4 DEF UnitFields
<1> HIDE DEF unit
<1>7. unit # None
  BY <1>6 DEF CombatTitle
<1>8. /\ WellFormed(t) /\ t.turn = s.turn /\ t.engine = s.engine /\ t.session = s.session
      /\ t.units[u] = unit
      /\ \A w \in Units \ {u} : t.units[w] = s.units[w]
  BY <1>6, UnitWritten
<1> HIDE DEF t
<1>9. Marked(s, t, {u})
  BY <1>5, <1>6, <1>7, <1>8 DEF Marked, Present
<1> QED BY <1>2, <1>3, <1>8, <1>9, ExecutedIs DEF a

LEMMA MarksRun ==
    ASSUME CombatTitle, NEW m, IsManager(m), WellFormed(m.state),
           NEW S \in SUBSET Units, \A u \in S : Present(m.state, u)
    PROVE  LET acts == [n \in DOMAIN SetToSeq(S) |-> MarkOf(SetToSeq(S)[n])]
           IN  /\ \E A : acts \in Seq(A)
               /\ \E x : /\ ExecutedAll(m, acts) = Runner!Ran(x)
                         /\ IsManager(x) /\ WellFormed(x.state) /\ Marked(m.state, x.state, S)
<1> DEFINE s == m.state
           q == SetToSeq(S)
           n == Cardinality(S)
           acts == [i \in DOMAIN q |-> MarkOf(q[i])]
<1>1. /\ n \in Nat /\ DOMAIN q = 1..n /\ \A i \in 1..n : q[i] \in S
      /\ \A i, j \in 1..n : q[i] = q[j] => i = j
      /\ \A u \in S : \E i \in 1..n : q[i] = u
  BY SetInSequence
<1> HIDE DEF q, n
<1>2. /\ acts = [i \in 1..n |-> MarkOf(q[i])]
      /\ DOMAIN acts = 1..n
      /\ \A i \in 1..n : acts[i] = MarkOf(q[i])
  BY <1>1
<1> HIDE DEF acts
<1>3. \E A : acts \in Seq(A)
  <2> DEFINE A == {MarkOf(q[i]) : i \in 1..n}
  <2>1. \A i \in 1..n : acts[i] \in A
    BY <1>2
  <2> HIDE DEF A
  <2>2. acts = [i \in 1..n |-> acts[i]]
    BY <1>2
  <2>3. acts \in [1..n -> A]
    BY <2>1, <2>2
  <2>4. acts \in Seq(A)
    BY <1>1, <2>3
  <2> QED BY <2>4
<1>4. PICK g : /\ g[0] = Runner!Ran(m)
               /\ \A k \in 0..(n - 1) : g[k + 1] = ExecStep(None, g[k], acts[k + 1])
               /\ ExecutedAll(m, acts) = g[n]
  <2>1. n \in Nat /\ DOMAIN acts = 1..n
    BY <1>1, <1>2
  <2>2. ASSUME NEW list, DOMAIN list = 1..n
        PROVE  \E g : /\ g[0] = Runner!Ran(m)
                      /\ \A k \in 0..(n - 1) : g[k + 1] = ExecStep(None, g[k], list[k + 1])
                      /\ ExecutedAll(m, list) = g[n]
    BY ONLY <2>1, <2>2, ExecutedAllUnrolled
  <2> QED BY ONLY <2>1, <2>2
<1> DEFINE First(k) == {q[i] : i \in 1..k}
           Good(k, y) == /\ g[k] = Runner!Ran(y) /\ IsManager(y) /\ WellFormed(y.state)
                         /\ Marked(s, y.state, First(k))
           P == {k \in 0..n : \E y : Good(k, y)}
<1>5. 0 \in P
  <2>1. First(0) = {}
    OBVIOUS
  <2>2. Marked(s, s, First(0))
    BY <2>1 DEF Marked
  <2>3. Good(0, m)
    BY <1>4, <2>2
  <2> HIDE DEF Good
  <2>4. 0 \in 0..n
    BY <1>1
  <2> QED BY <2>3, <2>4
<1>6. ASSUME NEW k \in 0..(n - 1), k \in P PROVE k + 1 \in P
  <2>1. k + 1 \in 1..n /\ k + 1 \in 0..n /\ k \in Nat /\ \A i \in 1..k : i \in 1..n /\ i # k + 1
        /\ 1..(k + 1) = (1..k) \cup {k + 1}
    BY <1>1
  <2>2. PICK y : Good(k, y)
    BY <1>6
  <2> DEFINE u == q[k + 1]
             a == MarkOf(u)
             z == Executed(y, a)
  <2>3. u \in S /\ u \in Units /\ u \notin First(k) /\ First(k + 1) = First(k) \cup {u}
        /\ First(k) \subseteq S
    BY <1>1, <2>1
  <2>4. acts[k + 1] = a
    BY <1>2, <2>1
  <2> HIDE DEF First, u
  <2>5. y.state.units[u] = s.units[u] /\ Present(s, u)
    BY <2>2, <2>3 DEF Marked
  <2>6. Present(y.state, u)
    BY <2>5 DEF Present
  <2>7. /\ CanApply(a, y.state) /\ IsManager(z) /\ WellFormed(z.state)
        /\ Marked(y.state, z.state, {u})
    BY <2>2, <2>3, <2>6, UnitMarks
  <2> HIDE DEF a, z
  <2>8. g[k + 1] = Runner!Ran(z)
    BY <1>4, <2>2, <2>4, <2>7, ExecStepIs, RunIs DEF z
  <2>9. Marked(s, z.state, First(k + 1))
    <3> DEFINE T == First(k)
    <3>1. /\ Marked(s, y.state, T) /\ Marked(y.state, z.state, {u})
          /\ u \notin T /\ First(k + 1) = T \cup {u} /\ T \subseteq Units
      BY <2>2, <2>3, <2>7
    <3> HIDE DEF T
    <3>2. /\ z.state.turn = s.turn /\ z.state.engine = s.engine /\ z.state.session = s.session
      BY <3>1 DEF Marked
    <3>3. \A w \in Units \ (T \cup {u}) : z.state.units[w] = s.units[w]
      BY <3>1 DEF Marked
    <3>4. \A w \in T : z.state.units[w] = y.state.units[w]
      BY <3>1 DEF Marked
    <3>5. \A w \in T : /\ Present(z.state, w) /\ z.state.units[w].position = s.units[w].position
                       /\ z.state.units[w].faction = s.units[w].faction
                       /\ z.state.units[w].active = s.units[w].active
                       /\ "disrupted" \in DOMAIN z.state.units[w].attributes
      BY <3>1, <3>4 DEF Marked, Present
    <3>6. /\ Present(z.state, u) /\ z.state.units[u].position = s.units[u].position
          /\ z.state.units[u].faction = s.units[u].faction
          /\ z.state.units[u].active = s.units[u].active
          /\ "disrupted" \in DOMAIN z.state.units[u].attributes
      BY <2>5, <3>1 DEF Marked
    <3>7. Marked(s, z.state, T \cup {u})
      BY <3>2, <3>3, <3>5, <3>6 DEF Marked
    <3> QED BY <3>1, <3>7
  <2>10. Good(k + 1, z)
    BY <2>7, <2>8, <2>9
  <2> HIDE DEF Good
  <2> QED BY <2>1, <2>10
<1> HIDE DEF P
<1>7. 0..n \subseteq P
  BY <1>1, <1>5, <1>6, Acts!BoundedInduction
<1>8. PICK y : Good(n, y)
  <2> HIDE DEF Good
  <2>1. n \in P
    BY <1>1, <1>7
  <2> QED BY <2>1 DEF P
<1>9. First(n) = S
  BY <1>1
<1>10. ExecutedAll(m, acts) = Runner!Ran(y) /\ IsManager(y) /\ WellFormed(y.state)
       /\ Marked(s, y.state, S)
  BY <1>4, <1>8, <1>9
<1> QED BY <1>3, <1>10 DEF acts, q

LEMMA AppendIs ==
    ASSUME NEW p, IsList(p), NEW a
    PROVE  Append(p, a) = p \o <<a>>
<1>1. PICK A : p \in Seq(A)
  BY DEF IsList
<1> DEFINE B == A \cup {a}
           n == Len(p)
<1>2. n \in Nat /\ p \in Seq(B) /\ a \in B /\ DOMAIN p = 1..n
  BY <1>1
<1> HIDE DEF B
<1>3. Append(p, a) \in Seq(B) /\ Len(Append(p, a)) = n + 1
  BY <1>2
<1>4. <<a>> \in Seq(B) /\ Len(<<a>>) = 1 /\ <<a>>[1] = a
  BY <1>2
<1> DEFINE one == <<a>>
<1> HIDE DEF one
<1>5. one \in Seq(B) /\ Len(one) = 1 /\ one[1] = a
  BY <1>4 DEF one
<1>6. p \o one \in Seq(B) /\ Len(p \o one) = n + 1
  <2>1. p \o one \in Seq(B) /\ Len(p \o one) = Len(p) + Len(one)
    BY ONLY <1>2, <1>5, ConcatProperties
  <2> QED BY <1>5, <2>1
<1>7. ASSUME NEW i \in 1..(n + 1) PROVE Append(p, a)[i] = (p \o one)[i]
  <2>1. CASE i <= n
    <3>1. Append(p, a)[i] = p[i]
      BY <1>2, <2>1
    <3>2. (p \o one)[i] = p[i]
      BY <1>2, <1>5, <2>1, ConcatProperties
    <3> QED BY <3>1, <3>2
  <2>2. CASE i = n + 1
    <3>1. Append(p, a)[i] = a
      BY <1>2, <2>2
    <3>2. i \in Len(p) + 1 .. Len(p) + Len(one) /\ i - Len(p) = 1
      BY <1>2, <1>5, <2>2
    <3>3. (p \o one)[i] = one[1]
      BY <1>2, <1>5, <3>2, ConcatProperties
    <3> QED BY <1>5, <3>1, <3>3
  <2>3. i <= n \/ i = n + 1
    BY <1>2
  <2> QED BY <2>3, <2>1, <2>2
<1>8. Append(p, a) = p \o one
  <2> DEFINE l == Append(p, a)
             r == p \o one
  <2>1. l \in Seq(B) /\ r \in Seq(B) /\ Len(l) = Len(r)
    BY <1>3, <1>6
  <2>2. \A i \in 1..Len(l) : l[i] = r[i]
    BY <1>3, <1>7
  <2> HIDE DEF l, r
  <2>3. l = r
    BY <2>1, <2>2, SeqEqual
  <2> QED BY <2>3 DEF l, r
<1> QED BY <1>8 DEF one

\* Nobody owes anything more, and everybody who did is disrupted where he stood.
LEMMA DisruptRun ==
    ASSUME CombatTitle, NEW m, IsManager(m), Ordered(m.state), DOMAIN Obligations(m.state) # {}
    PROVE  LET s == m.state
           IN  \E x : /\ ExecutedAll(m, DisruptActions(s, RetreatingFaction(s))) = Runner!Ran(x)
                      /\ IsManager(x) /\ Ordered(x.state)
                      /\ x.state.turn = s.turn /\ x.state.engine = s.engine
                      /\ DOMAIN Obligations(x.state) = {}
                      /\ OwesLess(s, x.state)
                      /\ AttacksThisPhase(x.state) = AttacksThisPhase(s)
                      /\ AdvanceOffer(x.state) = AdvanceOffer(s)
                      /\ \A u \in DOMAIN Obligations(s) :
                            /\ x.state.units[u].position = s.units[u].position
                            /\ "disrupted" \in DOMAIN x.state.units[u].attributes
<1> DEFINE s == m.state
           f == RetreatingFaction(s)
           S == {u \in Retreaters(s) : s.units[u].faction = f}
           owed == Without(Obligations(s), S)
           marks == [n \in DOMAIN SetToSeq(S) |-> MarkOf(SetToSeq(S)[n])]
           removed == IF \E u \in DOMAIN owed : owed[u] > 0 THEN {} ELSE {"disrupt_instead_offered"}
           values == [retreat_obligations |-> owed]
           a == Patch(values, removed)
<1>1. Owed(s) /\ WellFormed(s)
  BY DEF Ordered
<1>2. S = DOMAIN Obligations(s)
  BY <1>1, PendingIsOwed, RetreatersAreOwn
<1>3. DisruptActions(s, f) = Append(marks, a)
  BY DEF DisruptActions, MarkOf
<1>4. S \in SUBSET Units /\ \A u \in S : Present(s, u)
  BY <1>1, <1>2 DEF Owed, ActiveIn
<1>5. DOMAIN owed = {}
  BY <1>2 DEF Without
<1> HIDE DEF S, f
<1>6. IsList(marks) /\ \E y : /\ ExecutedAll(m, marks) = Runner!Ran(y)
                              /\ IsManager(y) /\ WellFormed(y.state) /\ Marked(s, y.state, S)
  BY <1>1, <1>4, MarksRun DEF IsList
<1> HIDE DEF marks, owed, removed
<1>7. PICK y : /\ ExecutedAll(m, marks) = Runner!Ran(y)
               /\ IsManager(y) /\ WellFormed(y.state) /\ Marked(s, y.state, S)
  BY <1>6
<1>8. DOMAIN values = {"retreat_obligations"} /\ values["retreat_obligations"] = owed
  OBVIOUS
<1>9. removed \subseteq {"disrupt_instead_offered"}
  BY DEF removed
<1> HIDE DEF values
<1> DEFINE x == Executed(y, a)
           one == <<a>>
<1>10. /\ ExecutedAll(y, one) = Runner!Ran(x) /\ IsManager(x) /\ x.state = Apply(a, y.state)
  BY PatchExecuted
<1>11. IsList(one)
  <2>1. one \in Seq({a})
    OBVIOUS
  <2> QED BY <2>1 DEF IsList
<1>12. /\ WellFormed(Apply(a, y.state)) /\ SameBoard(y.state, Apply(a, y.state))
       /\ \A key, default : InBucket(Apply(a, y.state), key, default) =
             IF key \in removed THEN default
             ELSE IF key \in DOMAIN values THEN values[key]
             ELSE InBucket(y.state, key, default)
  BY <1>7, PatchedBucket
<1>13. Append(marks, a) = marks \o one
  BY <1>6, AppendIs
<1> HIDE DEF a, x, one
<1>14. ExecutedAll(m, marks \o one) = Runner!Ran(x)
  <2>1. ExecutedAll(m, marks \o one) = ExecutedAll(y, one)
    BY <1>6, <1>7, <1>11, RunsInTurn
  <2> QED BY <1>10, <2>1
<1>15. /\ Obligations(x.state) = owed
       /\ AttacksThisPhase(x.state) = AttacksThisPhase(y.state)
       /\ LastCombat(x.state) = LastCombat(y.state)
       /\ AdvanceOffer(x.state) = AdvanceOffer(y.state)
  BY <1>8, <1>9, <1>10, <1>12, BucketFields
<1>16. y.state.session = s.session /\ y.state.turn = s.turn /\ y.state.engine = s.engine
  BY <1>7 DEF Marked
<1>17. /\ AttacksThisPhase(y.state) = AttacksThisPhase(s) /\ LastCombat(y.state) = LastCombat(s)
       /\ AdvanceOffer(y.state) = AdvanceOffer(s)
  BY <1>16, SameBucket
<1>18. x.state.units = y.state.units /\ x.state.turn = s.turn /\ x.state.engine = s.engine
  BY <1>10, <1>12, <1>16 DEF SameBoard
<1>19. SameFolk(s, x.state)
  <2>1. \A u \in Units \ S : x.state.units[u] = s.units[u]
    BY <1>7, <1>18 DEF Marked
  <2>2. \A u \in S : /\ Present(x.state, u) /\ x.state.units[u].faction = s.units[u].faction
                     /\ x.state.units[u].active = s.units[u].active
    BY <1>7, <1>18 DEF Marked, Present
  <2> QED BY <1>4, <2>1, <2>2 DEF SameFolk, Present
<1>20. OwesLess(s, x.state) /\ DOMAIN Obligations(x.state) = {}
  BY <1>5, <1>15 DEF OwesLess
<1>21. Ordered(x.state)
  <2>1. WellFormed(x.state) /\ x.state.turn.current_faction = s.turn.current_faction
    BY <1>10, <1>12, <1>18
  <2> QED BY <1>15, <1>17, <1>19, <1>20, <2>1, FolkInOrder
<1>22. ASSUME NEW u \in DOMAIN Obligations(s)
       PROVE  /\ x.state.units[u].position = s.units[u].position
              /\ "disrupted" \in DOMAIN x.state.units[u].attributes
  BY <1>2, <1>7, <1>18, <1>22 DEF Marked
<1>23. ExecutedAll(m, DisruptActions(s, f)) = Runner!Ran(x)
  BY <1>3, <1>13, <1>14
<1> QED BY <1>10, <1>15, <1>17, <1>18, <1>20, <1>21, <1>22, <1>23 DEF f

\* A faction does at a gate only what the gate's segment lists.
LEMMA TakenIsAllowed ==
    ASSUME NEW m, NEW c, m.state.engine.cursor = c, c # None,
           Runner!Segment(c).owner # "NO_OWNER", NEW arc, NEW t, NEW f, NEW params,
           IsTaken(Runner!SubmitEvent(m, arc, t, f, params))
    PROVE  t \in Runner!Segment(c).allowed_actions
<1> DEFINE seg == Runner!Segment(c)
           o == Runner!ResolveOwner(seg.owner, m.state)
           ctx == [state |-> m.state, owner |-> o, params |-> params]
           event == Runner!SubmitEvent(m, arc, t, f, params)
           taken == Runner!Submitted(m, c, Runner!Passing(seg, ctx, t), ctx)
<1>1. event = IF c.arc_id # arc THEN Runner!Rejected(m)
              ELSE IF o = None \/ f # o \/ t \notin seg.allowed_actions THEN Runner!Rejected(m)
              ELSE taken
  <2>1. ~Runner!IsAutomatic(seg)
    BY DEF Runner!IsAutomatic
  <2> QED BY <2>1 DEF Runner!SubmitEvent
<1>2. IsTaken(event)
  OBVIOUS
<1> HIDE DEF event, taken, ctx, o, seg
<1>3. ~IsTaken(Runner!Rejected(m))
  BY RunIs DEF IsTaken, Runner!Rejected
<1>4. t \in seg.allowed_actions
  BY ONLY <1>1, <1>2, <1>3
<1> QED BY <1>4 DEF seg

Gates == Retreats \cup {"advance_gate"}

\* A request at a gate that its one transition takes.
LEMMA GateTakes ==
    ASSUME CombatTitle, NEW seg \in Gates, mgr.state.engine.cursor = CombatCursor(seg),
           NEW tr, OnlyBy(CombatCursor(seg), tr), NEW f, NEW params,
           OverlayRequest(f, tr.trigger, params)
    PROVE  LET c == CombatCursor(seg)
               ctx == ContextOf(mgr, f, params)
           IN  /\ f # None /\ f = Runner!ResolveOwner(Runner!Segment(c).owner, mgr.state)
               /\ GuardPasses(tr.guard, ctx)
               /\ AnswersOrFails(RestoreRoutineCursor(Runner!AutoAdvance(
                      Runner!ApplyTransition(mgr, c, tr, ctx))))
<1> DEFINE c == CombatCursor(seg)
           event == OverlayEvent(f, tr.trigger, params)
           arc == "combat"
<1>1. IsTaken(event) /\ AnswersOrFails(RestoreRoutineCursor(event.run))
  BY DEF OverlayRequest
<1>2. event = Runner!SubmitEvent(mgr, arc, tr.trigger, f, params)
  BY DEF OverlayEvent
<1>3. c # None /\ c.arc_id = arc /\ Runner!Segment(c).owner # "NO_OWNER"
  <2>1. seg \in CombatSegments
    BY DEF Gates, Retreats, CombatSegments
  <2>2. c # None
    BY <2>1, CursorsExist
  <2>3. c.arc_id = arc
    BY CombatCursorFields
  <2> HIDE DEF c, arc
  <2>4. Runner!Segment(c).owner # "NO_OWNER"
    BY CombatOwners DEF c, Gates, Retreats
  <2> QED BY <2>2, <2>3, <2>4
<1> HIDE DEF c, event, arc
<1>4. Meets(mgr, c, arc, tr, f, params)
  BY <1>1, <1>2, <1>3 DEF Meets, c
<1>5. Applies(mgr, c, arc, tr, f, params)
  BY <1>4, EventApplies
<1>6. event.run = Runner!AutoAdvance(Runner!ApplyTransition(mgr, c, tr, ContextOf(mgr, f, params)))
  BY <1>2, <1>5 DEF Applies
<1> QED BY <1>1, <1>5, <1>6 DEF Applies, c

\* Where the overlay is active the rest is a gate, and which it is says who owes what.
LEMMA GateAtRest ==
    ASSUME CombatTitle, NEW s, AtPeace(s), OverlayIsActive(s)
    PROVE  \/ AtRetreat(s) /\ \E seg \in Retreats : s.engine.cursor = CombatCursor(seg)
           \/ AtAdvance(s) /\ s.engine.cursor = CombatCursor("advance_gate")
BY OverlayAtGates DEF AtPeace, AtRetreat, AtAdvance

\* An overlay request is one that the segment lists.
LEMMA OverlayIsAllowed ==
    ASSUME CombatTitle, NEW seg \in Gates, mgr.state.engine.cursor = CombatCursor(seg),
           NEW f, NEW t, NEW params, OverlayRequest(f, t, params)
    PROVE  t \in Runner!Segment(CombatCursor(seg)).allowed_actions
<1> DEFINE c == CombatCursor(seg)
           arc == "combat"
<1>1. IsTaken(Runner!SubmitEvent(mgr, arc, t, f, params))
  BY DEF OverlayRequest, OverlayEvent
<1>2. seg \in CombatSegments
  BY DEF Gates, Retreats, CombatSegments
<1>3. c # None
  BY <1>2, CursorsExist
<1>4. Runner!Segment(c).owner # "NO_OWNER"
  BY CombatOwners DEF Gates, Retreats
<1> HIDE DEF c, arc
<1>5. mgr.state.engine.cursor = c
  BY DEF c
<1>6. t \in Runner!Segment(c).allowed_actions
  BY <1>1, <1>3, <1>4, <1>5, TakenIsAllowed
<1> QED BY <1>6 DEF c

\* The stack is disrupted instead of retreating.
LEMMA DisruptRests ==
    ASSUME CombatTitle, IsManager(mgr), AtPeace(mgr.state),
           NEW f, CombatDisruptInsteadOfRetreat(f)
    PROVE  \E x : Rests(x)
<1> DEFINE s == mgr.state
           tr == DisruptOn
           ctx == ContextOf(mgr, f, None)
           seg == "retreat_or_disrupt_gate"
           c == CombatCursor(seg)
<1>1. OverlayRequest(f, "CombatDisruptInsteadOfRetreat", None)
  BY DEF CombatDisruptInsteadOfRetreat
<1>2. tr.trigger = "CombatDisruptInsteadOfRetreat" /\ tr.effect = "disrupt_instead"
      /\ tr.target = Goto("resolve")
  BY AnswerFields
<1>3. OverlayIsActive(s)
  BY <1>1 DEF OverlayRequest
<1>4. s.engine.cursor = c /\ AtRetreat(s)
  <2>1. "CombatDisruptInsteadOfRetreat" \notin
          Runner!Segment(CombatCursor("retreat_gate")).allowed_actions
    BY GateActions
  <2>2. "CombatDisruptInsteadOfRetreat" \notin
          Runner!Segment(CombatCursor("advance_gate")).allowed_actions
    BY GateActions
  <2>3. s.engine.cursor # CombatCursor("retreat_gate")
    BY <1>1, <2>1, OverlayIsAllowed DEF Gates, Retreats
  <2>4. s.engine.cursor # CombatCursor("advance_gate")
    BY <1>1, <2>2, OverlayIsAllowed DEF Gates, Retreats
  <2> QED BY <1>3, <2>3, <2>4, GateAtRest DEF Retreats
<1>5. /\ f # None /\ f = Runner!ResolveOwner(Runner!Segment(c).owner, s)
      /\ AnswersOrFails(RestoreRoutineCursor(Runner!AutoAdvance(
             Runner!ApplyTransition(mgr, c, tr, ctx))))
  <2>1. seg \in Gates
    BY DEF Gates, Retreats
  <2>2. OnlyBy(c, tr)
    BY GateOnly
  <2>3. OverlayRequest(f, tr.trigger, None)
    BY <1>1, <1>2
  <2> HIDE DEF tr, seg
  <2> QED BY <1>4, <2>1, <2>2, <2>3, GateTakes
<1>6. Runner!Segment(c).owner = "retreating_in_combat"
  BY CombatOwners DEF Retreats
<1>7. f = RetreatingFaction(s)
  BY <1>5, <1>6, GateOwners
<1> HIDE DEF tr, c, seg
<1>8. Ordered(s) /\ Owed(s) /\ DOMAIN Obligations(s) # {}
      /\ s.engine.movement_arc = None /\ AdvanceOffer(s) = None
  BY <1>4 DEF AtPeace, Ordered, AtRetreat
<1>9. /\ ~OverlayRaises("disrupt_instead", ctx)
      /\ EffectActions("disrupt_instead", ctx) = DisruptActions(s, RetreatingFaction(s))
  <2>1. ctx.state = s /\ ctx.owner = f
    BY ContextIs
  <2> HIDE DEF ctx
  <2>2. \E u \in Retreaters(s) : s.units[u].faction = f
    BY <1>7, <1>8, PendingIsOwed, RetreatersAreOwn
  <2> QED BY <1>7, <2>1, <2>2, CombatEffectsAre, CombatRaisesAre
<1> HIDE DEF ctx
<1>10. PICK y : /\ ExecutedAll(mgr, DisruptActions(s, RetreatingFaction(s))) = Runner!Ran(y)
                /\ IsManager(y) /\ Ordered(y.state)
                /\ y.state.turn = s.turn /\ y.state.engine = s.engine
                /\ DOMAIN Obligations(y.state) = {}
                /\ OwesLess(s, y.state)
                /\ AttacksThisPhase(y.state) = AttacksThisPhase(s)
                /\ AdvanceOffer(y.state) = AdvanceOffer(s)
                /\ \A u \in DOMAIN Obligations(s) :
                      /\ y.state.units[u].position = s.units[u].position
                      /\ "disrupted" \in DOMAIN y.state.units[u].attributes
  BY <1>8, DisruptRun
<1>11. Runner!ApplyTransition(mgr, c, tr, ctx)
         = Runner!MoveCursor(Runner!Ran(y), c, Goto("resolve"))
  BY <1>2, <1>9, <1>10, AppliesTransition
<1>12. PICK x : /\ RestoreRoutineCursor(Runner!AutoAdvance(
                        Runner!MoveCursor(Runner!Ran(y), c, Goto("resolve")))) = Runner!Ran(x)
                /\ IsManager(x) /\ Ordered(x.state) /\ SameFight(y.state, x.state)
                /\ AtEase(x.state)
  BY <1>8, <1>10, ResolvesFrom DEF c
<1>13. AnswersOrFails(Runner!Ran(x))
  BY <1>5, <1>11, <1>12
<1>14. /\ x.state.units = y.state.units /\ Obligations(x.state) = Obligations(y.state)
       /\ AttacksThisPhase(x.state) = AttacksThisPhase(y.state)
  BY <1>12 DEF SameFight
<1>15. ASSUME NEW w \in DOMAIN Obligations(s) PROVE Covered(s, x.state, w)
  <2>1. StartIn(s, w) = s.units[w].position
    BY <1>8 DEF StartIn
  <2> QED BY <1>10, <1>14, <2>1 DEF Covered
<1>16. OwesLess(s, x.state) /\ DOMAIN Obligations(x.state) # DOMAIN Obligations(s)
  BY <1>8, <1>10, <1>14 DEF OwesLess
<1>17. FightStep(mgr.state, x.state)
  BY <1>4, <1>10, <1>12, <1>14, <1>15, <1>16 DEF FightStep, Yielded, InRetreat
<1> QED BY <1>12, <1>13, <1>17, AnswersAtEase

LEMMA ClearIsList ==
    ASSUME NEW s, NEW keys
    PROVE  IsList(ClearBucket(s, keys))
<1>1. CASE ClearBucket(s, keys) = <<>>
  <2>1. <<>> \in Seq({})
    OBVIOUS
  <2> QED BY <1>1, <2>1 DEF IsList
<1>2. CASE ClearBucket(s, keys) = <<Patch(Empty, keys)>>
  <2> DEFINE a == Patch(Empty, keys)
  <2> HIDE DEF a
  <2>1. <<a>> \in Seq({a})
    OBVIOUS
  <2> QED BY <1>2, <2>1 DEF IsList, a
<1> QED BY <1>1, <1>2 DEF ClearBucket

\* The end of an advance: the units of the manager y, once the offer is dropped.
LEMMA OfferEnds ==
    ASSUME CombatTitle, NEW y, IsManager(y), WellFormed(y.state), NEW s, Ordered(s), AtAdvance(s),
           y.state.session = s.session, y.state.turn = s.turn, y.state.engine = s.engine,
           SameFolk(s, y.state), NEW seg
    PROVE  \E x : /\ RestoreRoutineCursor(Runner!AutoAdvance(Runner!MoveCursor(
                        ExecutedAll(y, ClearBucket(s, {"advance"})), CombatCursor(seg), DONE)))
                        = Runner!Ran(x)
                  /\ IsManager(x) /\ Ordered(x.state) /\ Answered(s, x.state)
<1> DEFINE keys == {"advance"}
           z == Dropped(y, keys)
           c == CombatCursor(seg)
<1>1. ClearBucket(s, keys) = ClearBucket(y.state, keys)
  BY DEF ClearBucket
<1>2. /\ ExecutedAll(y, ClearBucket(y.state, keys)) = Runner!Ran(z)
      /\ IsManager(z) /\ WellFormed(z.state) /\ SameBoard(y.state, z.state)
      /\ \A key, default : InBucket(z.state, key, default) =
            IF key \in keys THEN default ELSE InBucket(y.state, key, default)
  BY BucketCleared
<1> HIDE DEF z
<1>3. /\ AttacksThisPhase(z.state) = AttacksThisPhase(s) /\ LastCombat(z.state) = LastCombat(s)
      /\ Obligations(z.state) = Obligations(s) /\ AdvanceOffer(z.state) = None
  <2>1. /\ AttacksThisPhase(z.state) = AttacksThisPhase(y.state)
        /\ LastCombat(z.state) = LastCombat(y.state)
        /\ Obligations(z.state) = Obligations(y.state) /\ AdvanceOffer(z.state) = None
    <3>1. \A key, default : key # "advance" =>
             InBucket(z.state, key, default) = InBucket(y.state, key, default)
      BY <1>2
    <3>2. InBucket(z.state, "advance", None) = None
      BY <1>2
    <3>3. AdvanceOffer(z.state) = None
      BY <3>2 DEF AdvanceOffer
    <3>4. AttacksThisPhase(z.state) = AttacksThisPhase(y.state)
      BY <3>1 DEF AttacksThisPhase
    <3>5. LastCombat(z.state) = LastCombat(y.state)
      BY <3>1 DEF LastCombat
    <3>6. Obligations(z.state) = Obligations(y.state)
      BY <3>1 DEF Obligations
    <3> QED BY <3>3, <3>4, <3>5, <3>6
  <2> QED BY <2>1, SameBucket
<1> HIDE DEF c
<1>4. PICK x : /\ RestoreRoutineCursor(Runner!AutoAdvance(
                        Runner!MoveCursor(Runner!Ran(z), c, DONE))) = Runner!Ran(x)
               /\ IsManager(x) /\ WellFormed(x.state) /\ SameBut(z.state, x.state)
               /\ x.state.engine.movement_arc = z.state.engine.movement_arc
               /\ \E arc \in DOMAIN RoutineActions : x.state.engine.cursor = RoutineCursor(arc)
  BY <1>2, EndsFrom DEF c
<1>5. /\ x.state.units = y.state.units /\ x.state.turn = s.turn
      /\ x.state.engine.movement_arc = None
  BY <1>2, <1>4 DEF SameBut, SameBoard, AtAdvance
<1>6. /\ AttacksThisPhase(x.state) = AttacksThisPhase(s) /\ LastCombat(x.state) = LastCombat(s)
      /\ Obligations(x.state) = Obligations(s) /\ AdvanceOffer(x.state) = None
  <2>1. x.state.session = z.state.session
    BY <1>4 DEF SameBut
  <2> QED BY <1>3, <2>1, SameBucket
<1>7. SameFolk(s, x.state)
  BY <1>5 DEF SameFolk, Present
<1>8. OwesLess(s, x.state)
  BY <1>6 DEF OwesLess
<1>9. Ordered(x.state)
  BY <1>4, <1>5, <1>6, <1>7, <1>8, FolkInOrder
<1>10. Answered(s, x.state)
  BY <1>4, <1>5, <1>6 DEF Answered, AtRoutine, AtAdvance
<1> QED BY <1>1, <1>2, <1>4, <1>9, <1>10 DEF c

\* The faction whose turn it is declines.
LEMMA DeclineRests ==
    ASSUME CombatTitle, IsManager(mgr), AtPeace(mgr.state), NEW f, CombatDeclineAdvance(f)
    PROVE  \E x : Rests(x)
<1> DEFINE s == mgr.state
           tr == DeclineOn
           ctx == ContextOf(mgr, f, None)
           seg == "advance_gate"
           c == CombatCursor(seg)
<1>1. OverlayRequest(f, "CombatDeclineAdvance", None)
  BY DEF CombatDeclineAdvance
<1>2. tr.trigger = "CombatDeclineAdvance" /\ tr.effect = "clear_advance_gate"
      /\ tr.target = DONE
  BY AnswerFields
<1>3. OverlayIsActive(s)
  BY <1>1 DEF OverlayRequest
<1>4. s.engine.cursor = c /\ AtAdvance(s)
  <2>1. "CombatDeclineAdvance" \notin
          Runner!Segment(CombatCursor("retreat_gate")).allowed_actions
    BY GateActions
  <2>2. "CombatDeclineAdvance" \notin
          Runner!Segment(CombatCursor("retreat_or_disrupt_gate")).allowed_actions
    BY GateActions
  <2>3. s.engine.cursor # CombatCursor("retreat_gate")
    BY <1>1, <2>1, OverlayIsAllowed DEF Gates, Retreats
  <2>4. s.engine.cursor # CombatCursor("retreat_or_disrupt_gate")
    BY <1>1, <2>2, OverlayIsAllowed DEF Gates, Retreats
  <2> QED BY <1>3, <2>3, <2>4, GateAtRest DEF Retreats
<1>5. AnswersOrFails(RestoreRoutineCursor(Runner!AutoAdvance(
             Runner!ApplyTransition(mgr, c, tr, ctx))))
  <2>1. seg \in Gates
    BY DEF Gates
  <2>2. OnlyBy(c, tr)
    BY GateOnly
  <2>3. OverlayRequest(f, tr.trigger, None)
    BY <1>1, <1>2
  <2> HIDE DEF tr, seg
  <2> QED BY <1>4, <2>1, <2>2, <2>3, GateTakes
<1>6. /\ ~OverlayRaises("clear_advance_gate", ctx)
      /\ EffectActions("clear_advance_gate", ctx) = ClearBucket(s, {"advance"})
  <2>1. ctx.state = s
    BY ContextIs
  <2> HIDE DEF ctx
  <2> QED BY <2>1, CombatEffectsAre, CombatRaisesAre
<1> HIDE DEF tr, seg, ctx
<1>7. Runner!ApplyTransition(mgr, c, tr, ctx)
         = Runner!MoveCursor(ExecutedAll(mgr, ClearBucket(s, {"advance"})), c, DONE)
  BY <1>2, <1>6, AppliesTransition
<1>8. Ordered(s) /\ WellFormed(s) /\ SameFolk(s, s)
  BY DEF AtPeace, Ordered, SameFolk
<1>9. PICK x : /\ RestoreRoutineCursor(Runner!AutoAdvance(Runner!MoveCursor(
                     ExecutedAll(mgr, ClearBucket(s, {"advance"})), c, DONE))) = Runner!Ran(x)
               /\ IsManager(x) /\ Ordered(x.state) /\ Answered(s, x.state)
  BY <1>4, <1>8, OfferEnds
<1>10. AnswersOrFails(Runner!Ran(x))
  BY <1>5, <1>7, <1>9
<1>11. AtEase(x.state) /\ FightStep(mgr.state, x.state)
  BY <1>9 DEF AtEase, FightStep, Answered
<1> QED BY <1>9, <1>10, <1>11, AnswersAtEase

\* The effect of an advance, by whichever request: the units move, the offer is dropped.
LEMMA AdvanceEnds ==
    ASSUME CombatTitle, NEW m, IsManager(m), Ordered(m.state), AtAdvance(m.state), NEW seg,
           NEW f, f = m.state.turn.current_faction, NEW params, NEW tr,
           tr.effect = "resolve_advance", tr.target = DONE
    PROVE  \E x : /\ RestoreRoutineCursor(Runner!AutoAdvance(Runner!ApplyTransition(
                        m, CombatCursor(seg), tr, ContextOf(m, f, params)))) = Runner!Ran(x)
                  /\ IsManager(x) /\ Ordered(x.state) /\ Answered(m.state, x.state)
<1> DEFINE s == m.state
           c == CombatCursor(seg)
           ctx == ContextOf(m, f, params)
           offer == AdvanceOffer(s)
           movers == {u \in offer.units : ActiveIn(s, u) /\ s.units[u].faction = f}
           moves == MovesTo(s, SetToSeq(movers), offer.to_hex)
           clear == ClearBucket(s, {"advance"})
<1>1. /\ offer # None /\ offer.faction = f /\ offer.units \subseteq Units
  BY DEF AtAdvance, OfferStands
<1>2. /\ ~OverlayRaises("resolve_advance", ctx)
      /\ EffectActions("resolve_advance", ctx) = moves \o clear
  <2>1. ctx.state = s /\ ctx.owner = f
    BY ContextIs
  <2> HIDE DEF ctx
  <2>2. AdvanceFor(s, f)
    BY <1>1 DEF AdvanceFor
  <2>3. ~OverlayRaises("resolve_advance", ctx)
    BY <2>1, <2>2, CombatRaisesAre
  <2>4. EffectActions("resolve_advance", ctx) = ResolveAdvanceActions(s, f)
    BY <2>1, CombatEffectsAre
  <2>5. ResolveAdvanceActions(s, f) = moves \o clear
    BY DEF ResolveAdvanceActions
  <2> QED BY <2>3, <2>4, <2>5
<1>3. movers \in SUBSET Units /\ \A u \in movers : Present(s, u)
  BY <1>1 DEF ActiveIn
<1> HIDE DEF ctx, c, movers
<1>4. /\ \E A : moves \in Seq(A)
      /\ \E y : /\ ExecutedAll(m, moves) = Runner!Ran(y)
                /\ IsManager(y) /\ WellFormed(y.state)
                /\ Drawn(s, y.state, movers, offer.to_hex)
  BY <1>3, MovesRun DEF Ordered
<1>5. PICK y : /\ ExecutedAll(m, moves) = Runner!Ran(y)
               /\ IsManager(y) /\ WellFormed(y.state) /\ Drawn(s, y.state, movers, offer.to_hex)
  BY <1>4
<1> HIDE DEF moves
<1>6. ExecutedAll(m, moves \o clear) = ExecutedAll(y, clear)
  BY <1>4, <1>5, ClearIsList, RunsInTurn DEF IsList
<1>7. SameFolk(s, y.state)
  BY <1>3, <1>5, DrawnFolk
<1>8. y.state.session = s.session /\ y.state.turn = s.turn /\ y.state.engine = s.engine
  BY <1>5 DEF Drawn
<1>9. PICK x : /\ RestoreRoutineCursor(Runner!AutoAdvance(
                     Runner!MoveCursor(ExecutedAll(y, clear), c, DONE))) = Runner!Ran(x)
               /\ IsManager(x) /\ Ordered(x.state) /\ Answered(s, x.state)
  BY <1>5, <1>7, <1>8, OfferEnds DEF c
<1>10. Runner!ApplyTransition(m, c, tr, ctx)
         = Runner!MoveCursor(ExecutedAll(m, moves \o clear), c, DONE)
  BY <1>2, AppliesTransition
<1> QED BY <1>6, <1>9, <1>10 DEF ctx, c

LEMMA AdvanceGateRests ==
    ASSUME CombatTitle, IsManager(mgr), AtPeace(mgr.state), AtAdvance(mgr.state),
           NEW f, NEW params, NEW tr \in {AdvanceOn, DragOn}, OverlayRequest(f, tr.trigger, params)
    PROVE  \E x : Rests(x)
<1> DEFINE s == mgr.state
           seg == "advance_gate"
           c == CombatCursor(seg)
           ctx == ContextOf(mgr, f, params)
<1>1. tr.effect = "resolve_advance" /\ tr.target = DONE /\ OnlyBy(c, tr)
  BY AnswerFields, GateOnly
<1>2. s.engine.cursor = c /\ seg \in Gates
  BY DEF AtAdvance, Gates
<1>3. Runner!Segment(c).owner = "CURRENT"
  BY CombatOwners
<1> HIDE DEF seg
<1>4. /\ f = Runner!ResolveOwner(Runner!Segment(c).owner, s)
      /\ AnswersOrFails(RestoreRoutineCursor(Runner!AutoAdvance(
             Runner!ApplyTransition(mgr, c, tr, ctx))))
  BY <1>1, <1>2, GateTakes
<1>5. f = s.turn.current_faction
  BY <1>3, <1>4, GateOwners
<1>6. PICK x : /\ RestoreRoutineCursor(Runner!AutoAdvance(
                     Runner!ApplyTransition(mgr, c, tr, ctx))) = Runner!Ran(x)
               /\ IsManager(x) /\ Ordered(x.state) /\ Answered(s, x.state)
  BY <1>1, <1>5, AdvanceEnds DEF AtPeace
<1>7. AnswersOrFails(Runner!Ran(x))
  BY <1>4, <1>6
<1>8. AtEase(x.state) /\ FightStep(mgr.state, x.state)
  BY <1>6 DEF AtEase, FightStep, Answered
<1> QED BY <1>6, <1>7, <1>8, AnswersAtEase

LEMMA AdvanceRests ==
    ASSUME CombatTitle, IsManager(mgr), AtPeace(mgr.state), NEW f, CombatAdvance(f)
    PROVE  \E x : Rests(x)
<1>1. OverlayRequest(f, "CombatAdvance", None)
  BY DEF CombatAdvance
<1>2. OverlayIsActive(mgr.state)
  BY <1>1 DEF OverlayRequest
<1>3. AtAdvance(mgr.state)
  <2>1. "CombatAdvance" \notin Runner!Segment(CombatCursor("retreat_gate")).allowed_actions
    BY GateActions
  <2>2. "CombatAdvance" \notin
          Runner!Segment(CombatCursor("retreat_or_disrupt_gate")).allowed_actions
    BY GateActions
  <2>3. mgr.state.engine.cursor # CombatCursor("retreat_gate")
    BY <1>1, <2>1, OverlayIsAllowed DEF Gates, Retreats
  <2>4. mgr.state.engine.cursor # CombatCursor("retreat_or_disrupt_gate")
    BY <1>1, <2>2, OverlayIsAllowed DEF Gates, Retreats
  <2> QED BY <1>2, <2>3, <2>4, GateAtRest DEF Retreats
<1>4. AdvanceOn.trigger = "CombatAdvance"
  BY AnswerFields
<1> QED BY <1>1, <1>3, <1>4, AdvanceGateRests

LEMMA DragRests ==
    ASSUME CombatTitle, IsManager(mgr), AtPeace(mgr.state), NEW f, NEW u \in Units, NEW to,
           AdvanceByMove(f, u, to)
    PROVE  \E x : Rests(x)
<1> DEFINE s == mgr.state
           params == MoveParams(u, Standing(u), to)
<1>1. OverlayRequest(f, "MoveUnit", params) /\ HexesRemaining(s, u) = 0
  BY DEF AdvanceByMove
<1>2. OverlayIsActive(s)
  BY <1>1 DEF OverlayRequest
<1>3. params.unit_id = u
  BY DEF MoveParams
<1> HIDE DEF params
<1>4. AtAdvance(s)
  <2>1. SUFFICES ASSUME NEW seg \in Retreats, s.engine.cursor = CombatCursor(seg) PROVE FALSE
    BY <1>2, GateAtRest
  <2> DEFINE tr == RetreatOn
             ctx == ContextOf(mgr, f, params)
             c == CombatCursor(seg)
  <2>2. tr.trigger = "MoveUnit" /\ tr.guard = "is_retreat_fulfillment"
    BY AnswerFields
  <2>3. OnlyBy(c, tr)
    BY GateOnly DEF Retreats
  <2>4. seg \in Gates
    BY DEF Gates
  <2> HIDE DEF tr
  <2>5. OverlayRequest(f, tr.trigger, params)
    BY <1>1, <2>2
  <2>6. GuardPasses(tr.guard, ctx)
    BY <2>1, <2>3, <2>4, <2>5, GateTakes
  <2>7. ctx.state = s /\ ctx.params = params
    BY ContextIs
  <2> HIDE DEF ctx
  <2>8. HexesRemaining(s, u) > 0
    BY <1>3, <2>2, <2>6, <2>7, CombatGuards
  <2> QED BY <1>1, <2>8
<1>5. DragOn.trigger = "MoveUnit"
  BY AnswerFields
<1> QED BY <1>1, <1>4, <1>5, AdvanceGateRests
=============================================================================
