------------------------ MODULE StateActions_proofs ------------------------
(***************************************************************************)
(* What apply and revert do to each other and to the shape of a state, for *)
(* every kind of action and every value of the constants.                  *)
(***************************************************************************)
EXTENDS StateActions, FiniteSetTheorems, WellFoundedInduction, TLAPS

(***************************************************************************)
(* The three ways the actions write a state and write it back.             *)
(***************************************************************************)

\* Putting a unit's old record back after any write to it restores the state.
LEMMA WithUnitBack ==
    ASSUME NEW s \in GameStates, NEW u \in Units, NEW x
    PROVE  WithUnit(WithUnit(s, u, x), u, s.units[u]) = s
  BY DEF WithUnit, GameStates

\* Likewise for an engine-state entry and for the action count of the turn.
LEMMA CursorBack ==
    ASSUME NEW s \in GameStates, NEW x
    PROVE  [[s EXCEPT !.engine.cursor = x] EXCEPT !.engine.cursor = s.engine.cursor] = s
  BY DEF GameStates, EngineStates

LEMMA MovementArcBack ==
    ASSUME NEW s \in GameStates, NEW x
    PROVE  [[s EXCEPT !.engine.movement_arc = x]
               EXCEPT !.engine.movement_arc = s.engine.movement_arc] = s
  BY DEF GameStates, EngineStates

LEMMA RemainingBack ==
    ASSUME NEW s \in GameStates, NEW x
    PROVE  [[s EXCEPT !.turn.phase_actions_remaining = x]
               EXCEPT !.turn.phase_actions_remaining = s.turn.phase_actions_remaining] = s
  BY DEF GameStates, TurnStates

\* What with_unit leaves alone, and the unit it stores.
LEMMA WithUnitGet ==
    ASSUME NEW s \in GameStates, NEW u \in Units, NEW x
    PROVE  /\ WithUnit(s, u, x).units[u] = x
           /\ \A w \in Units \ {u} : WithUnit(s, u, x).units[w] = s.units[w]
           /\ WithUnit(s, u, x).rng_log = s.rng_log
  BY DEF WithUnit, GameStates

\* Reactivating units that were all active before they were deactivated.
LEMMA WithActiveBack ==
    ASSUME NEW s \in GameStates, NEW U \in SUBSET Units, \A u \in U : ActiveIn(s, u)
    PROVE  WithActive(WithActive(s, U, FALSE), U, TRUE) = s
<1> DEFINE off == WithActive(s, U, FALSE)
           on  == WithActive(off, U, TRUE)
<1>1. \A u \in Units : off.units[u] = IF u \in U THEN [s.units[u] EXCEPT !.active = FALSE]
                                     ELSE s.units[u]
  BY DEF WithActive, GameStates
<1>2. \A u \in Units : on.units[u] = s.units[u]
  <2> SUFFICES ASSUME NEW u \in Units PROVE on.units[u] = s.units[u]
    OBVIOUS
  <2>1. CASE u \in U
    <3>1. s.units[u] \in UnitStates /\ s.units[u].active = TRUE
      BY <2>1 DEF ActiveIn, Present, GameStates, UnitStates
    <3>2. on.units[u] = [[s.units[u] EXCEPT !.active = FALSE] EXCEPT !.active = TRUE]
      BY <1>1, <2>1 DEF WithActive, GameStates
    <3> QED BY <3>1, <3>2 DEF UnitStates
  <2>2. CASE u \notin U
    BY <1>1, <2>2 DEF WithActive, GameStates
  <2> QED BY <2>1, <2>2
<1>3. on = [s EXCEPT !.units = on.units]
  BY DEF WithActive, GameStates
<1>4. on.units = s.units
  BY <1>2 DEF WithActive, GameStates
<1> QED BY <1>3, <1>4 DEF GameStates

\* The dict operations stay inside the dicts.
LEMMA DictOps ==
    ASSUME NEW d \in Dicts, NEW f \in Dicts, NEW K
    PROVE  /\ Merge(d, f) \in Dicts
           /\ Without(d, K) \in Dicts
<1>1. DOMAIN d \in SUBSET Keys /\ d \in [DOMAIN d -> Values]
  BY DEF Dicts
<1>2. DOMAIN f \in SUBSET Keys /\ f \in [DOMAIN f -> Values]
  BY DEF Dicts
<1>3. Merge(d, f) \in [DOMAIN d \cup DOMAIN f -> Values]
  BY <1>1, <1>2 DEF Merge
<1>4. Without(d, K) \in [DOMAIN d \ K -> Values]
  BY <1>1 DEF Without
<1>5. DOMAIN d \cup DOMAIN f \in SUBSET Keys /\ DOMAIN d \ K \in SUBSET Keys
  BY <1>1, <1>2
<1> QED BY <1>3, <1>4, <1>5 DEF Dicts

-----------------------------------------------------------------------------
(***************************************************************************)
(* Undo is the inverse of execute: an entry reverted right after it was    *)
(* applied gives back the state, field by field, for every kind of action  *)
(* but the two LossyAt names.                                              *)
(***************************************************************************)
THEOREM RevertApply ==
    ASSUME NEW s \in GameStates, NEW a \in StateActionSet,
           CanApply(a, s), ~LossyAt(a, s)
    PROVE  Revert(Entry(a, s), Apply(a, s)) = s
<1> DEFINE e == Entry(a, s)
           t == Apply(a, s)
<1>e. e.act = a /\ e.saved = Saved(a, s)
  BY DEF Entry
<1>1. CASE a \in MoveUnits
  <2>1. a.kind = "MoveUnit" /\ a.unit_id \in Units BY <1>1 DEF MoveUnits
  <2>2. s.units[a.unit_id] \in UnitStates /\ s.units[a.unit_id].position = a.from_hex
    BY <2>1 DEF CanApply, Present, GameStates
  <2> DEFINE r == s.units[a.unit_id]
             n == NextStackIndex(s, a.to_hex, {a.unit_id})
             r1 == [r EXCEPT !.position = a.to_hex, !.stack_index = n]
  <2>3. t = WithUnit(s, a.unit_id, r1) BY <2>1 DEF Apply, ApplyMoveUnit
  <2>4. t.units[a.unit_id] = r1
    <3> HIDE DEF r1, t
    <3> QED BY <2>1, <2>3, WithUnitGet
  <2>5. Saved(a, s) = r.stack_index BY <2>1 DEF Saved
  <2>6. Revert(e, t) = WithUnit(t, a.unit_id, [r1 EXCEPT !.position = a.from_hex,
                                                  !.stack_index = r.stack_index])
    BY <1>e, <2>1, <2>4, <2>5 DEF Revert, RevertMoveUnit
  <2>7. [r1 EXCEPT !.position = a.from_hex, !.stack_index = r.stack_index] = r
    BY <2>2 DEF UnitStates
  <2> HIDE DEF r1, t, e
  <2>8. Revert(e, t) = WithUnit(WithUnit(s, a.unit_id, r1), a.unit_id, s.units[a.unit_id])
    BY <2>3, <2>6, <2>7
  <2> QED BY <2>1, <2>8, WithUnitBack DEF e, t
<1>2. CASE a \in SetTurnStates
  <2>1. a.kind = "SetTurnState" BY <1>2 DEF SetTurnStates
  <2>2. t = [s EXCEPT !.turn = a.new_turn] /\ e.saved = s.turn
    BY <1>e, <2>1 DEF Apply, Saved
  <2>3. Revert(e, t) = [t EXCEPT !.turn = e.saved] BY <1>e, <2>1 DEF Revert
  <2> QED BY <2>2, <2>3 DEF GameStates
<1>3. CASE a \in WriteArcs
  <2>1. a.kind = "WriteArc" BY <1>3 DEF WriteArcs
  <2>2. t = [s EXCEPT !.engine.movement_arc = a.payload] /\ e.saved = s.engine.movement_arc
    BY <1>e, <2>1 DEF Apply, Saved
  <2>3. Revert(e, t) = [t EXCEPT !.engine.movement_arc = e.saved]
    BY <1>e, <2>1 DEF Revert
  <2>4. Revert(e, t) = [[s EXCEPT !.engine.movement_arc = a.payload]
                          EXCEPT !.engine.movement_arc = s.engine.movement_arc]
    BY <2>2, <2>3
  <2> QED BY <2>4, MovementArcBack
<1>4. CASE a \in SetArcCursors
  <2>1. a.kind = "SetArcCursor" BY <1>4 DEF SetArcCursors
  <2>2. t = [s EXCEPT !.engine.cursor = a.cursor] /\ e.saved = s.engine.cursor
    BY <1>e, <2>1 DEF Apply, Saved
  <2>3. Revert(e, t) = [t EXCEPT !.engine.cursor = e.saved]
    BY <1>e, <2>1 DEF Revert
  <2>4. Revert(e, t) = [[s EXCEPT !.engine.cursor = a.cursor]
                          EXCEPT !.engine.cursor = s.engine.cursor]
    BY <2>2, <2>3
  <2> QED BY <2>4, CursorBack
<1>5. CASE a \in ResolvePasses \cup ArcSteps
  <2>1. a.kind \in {"ResolvePass", "ArcStep"} BY <1>5 DEF ResolvePasses, ArcSteps
  <2>2. e.saved.engine = s.engine /\ e.saved.turn = s.turn
    BY <1>e, <2>1 DEF Saved
  <2>3. \E x, y : t = [s EXCEPT !.engine.movement_arc = x, !.turn = y]
    BY <2>1 DEF Apply, ApplyResolvePass, ApplyArcStep
  <2>4. Revert(e, t) = [t EXCEPT !.engine = e.saved.engine, !.turn = e.saved.turn]
    BY <1>e, <2>1 DEF Revert
  <2> QED BY <2>2, <2>3, <2>4 DEF GameStates
<1>6. CASE a \in PatchAttributes
  <2>1. a.kind = "PatchAttributes" /\ a.unit_id \in Units BY <1>6 DEF PatchAttributes
  <2>2. s.units[a.unit_id] \in UnitStates BY <2>1 DEF CanApply, Present, GameStates
  <2> DEFINE r == s.units[a.unit_id]
  <2>3. PICK x : t = WithUnit(s, a.unit_id, [r EXCEPT !.attributes = x])
    BY <2>1 DEF Apply, ApplyPatchAttributes
  <2>4. t.units[a.unit_id] = [r EXCEPT !.attributes = x] BY <2>1, <2>3, WithUnitGet
  <2>5. e.saved = r.attributes BY <1>e, <2>1 DEF Saved
  <2>6. [[r EXCEPT !.attributes = x] EXCEPT !.attributes = r.attributes] = r
    BY <2>2 DEF UnitStates
  <2>7. Revert(e, t) = RevertPatchAttributes(e, t) BY <1>e, <2>1 DEF Revert
  <2>8. Present(t, a.unit_id)
    <3>1. Merge(Without(r.attributes, a.patch.remove_keys), a.patch.values) \in Dicts
      BY <1>6, <2>2, DictOps DEF PatchAttributes, Patches, UnitStates
    <3>2. t = WithUnit(s, a.unit_id, [r EXCEPT !.attributes =
                 Merge(Without(r.attributes, a.patch.remove_keys), a.patch.values)])
      BY <2>1, <2>2 DEF Apply, ApplyPatchAttributes, UnitStates
    <3>3. t.units[a.unit_id] \in UnitStates
      BY <2>1, <2>2, <3>1, <3>2, WithUnitGet DEF UnitStates
    <3> QED BY <3>3, NoneAssumption DEF Present
  <2>9. Revert(e, t) = WithUnit(t, a.unit_id, r)
    BY <1>e, <2>4, <2>5, <2>6, <2>7, <2>8 DEF RevertPatchAttributes
  <2>10. Revert(e, t) = WithUnit(WithUnit(s, a.unit_id, [r EXCEPT !.attributes = x]),
                                 a.unit_id, s.units[a.unit_id])
    BY <2>3, <2>9
  <2> HIDE DEF e, t
  <2> QED BY <2>1, <2>10, WithUnitBack DEF e, t
<1>7. CASE a \in DeleteUnits
  <2>1. a.kind = "DeleteUnit" /\ a.unit_id \in Units BY <1>7 DEF DeleteUnits
  <2>2. ActiveIn(s, a.unit_id) BY <2>1 DEF LossyAt
  <2>3. t = WithActive(s, {a.unit_id}, FALSE) BY <2>1 DEF Apply
  <2>4. Revert(e, t) = WithActive(t, {a.unit_id}, TRUE) BY <1>e, <2>1 DEF Revert
  <2>5. WithActive(WithActive(s, {a.unit_id}, FALSE), {a.unit_id}, TRUE) = s
    BY <2>1, <2>2, WithActiveBack
  <2> QED BY <2>3, <2>4, <2>5
<1>8. CASE a \in AddUnits
  <2>1. a.kind = "AddUnit" /\ a.unit_id \in Units BY <1>8 DEF AddUnits
  <2>2. s.units[a.unit_id] = None BY <2>1 DEF CanApply, Present
  <2>3. PICK x : t = WithUnit(s, a.unit_id, x) BY <2>1 DEF Apply, ApplyAddUnit
  <2>4. Revert(e, t) = WithUnit(t, a.unit_id, None) BY <1>e, <2>1 DEF Revert
  <2>5. WithUnit(WithUnit(s, a.unit_id, x), a.unit_id, s.units[a.unit_id]) = s
    BY <2>1, WithUnitBack
  <2> QED BY <2>2, <2>3, <2>4, <2>5
<1>9. CASE a \in SpendActions
  <2>1. a.kind = "SpendAction" BY <1>9 DEF SpendActions
  <2>2. /\ t = [s EXCEPT !.turn.phase_actions_remaining = @ - a.amount]
        /\ e.saved = s.turn.phase_actions_remaining
    BY <1>e, <2>1 DEF Apply, Saved
  <2>3. Revert(e, t) = [t EXCEPT !.turn.phase_actions_remaining = e.saved]
    BY <1>e, <2>1 DEF Revert
  <2>4. Revert(e, t) = [[s EXCEPT !.turn.phase_actions_remaining =
                                    s.turn.phase_actions_remaining - a.amount]
                          EXCEPT !.turn.phase_actions_remaining = s.turn.phase_actions_remaining]
    BY <2>2, <2>3
  <2> QED BY <2>4, RemainingBack
<1>10. CASE a \in NextPhases
  <2>1. a.kind = "NextPhase" BY <1>10 DEF NextPhases
  <2>2. (\E x : t = [s EXCEPT !.turn = x]) /\ e.saved = s.turn
    BY <1>e, <2>1 DEF Apply, ApplyNextPhase, Saved
  <2>3. Revert(e, t) = [t EXCEPT !.turn = e.saved] BY <1>e, <2>1 DEF Revert
  <2> QED BY <2>2, <2>3 DEF GameStates
<1>11. CASE a \in BucketPatches
  <2>1. a.kind = "BucketPatch" BY <1>11 DEF BucketPatches
  <2>2. (\E x : t = [s EXCEPT !.session = x]) /\ e.saved = s.session
    BY <1>e, <2>1 DEF Apply, ApplyBucketPatch, Saved
  <2>3. Revert(e, t) = [t EXCEPT !.session = e.saved] BY <1>e, <2>1 DEF Revert
  <2> QED BY <2>2, <2>3 DEF GameStates
<1>12. CASE a \in CombatEffects
  <2>1. a.kind = "CombatEffects" BY <1>12 DEF CombatEffects
  <2>2. Revert(e, t) = t BY <1>e, <2>1 DEF Revert
  <2> QED BY <2>1, <2>2 DEF LossyAt
<1>13. CASE a \in Attacks
  <2>1. a.kind = "Attack" /\ Destroyed(a) \in SUBSET Units
    BY <1>13 DEF Attacks, Destroyed
  <2> DEFINE U == Destroyed(a)
             off == WithActive(s, U, FALSE)
  <2>2. \A u \in U : ActiveIn(s, u)
    BY <2>1 DEF CanApply, CanAttack, Destroyed
  <2>3. t = [off EXCEPT !.rng_log = s.rng_log \o a.rng_entry] /\ e.saved = s.rng_log
    BY <1>e, <2>1 DEF Apply, ApplyAttack, Saved
  <2>4. Revert(e, t) = [WithActive(t, U, TRUE) EXCEPT !.rng_log = e.saved]
    BY <1>e, <2>1 DEF Revert, RevertAttack
  <2>5. WithActive(t, U, TRUE) = [WithActive(off, U, TRUE) EXCEPT !.rng_log = s.rng_log \o a.rng_entry]
    BY <2>3 DEF WithActive, GameStates
  <2>6. WithActive(off, U, TRUE) = s
    BY <2>1, <2>2, WithActiveBack
  <2>7. Revert(e, t) = [[s EXCEPT !.rng_log = s.rng_log \o a.rng_entry] EXCEPT !.rng_log = s.rng_log]
    BY <2>3, <2>4, <2>5, <2>6
  <2> QED BY <2>7 DEF GameStates
<1> QED
  BY <1>1, <1>2, <1>3, <1>4, <1>5, <1>6, <1>7, <1>8, <1>9, <1>10, <1>11, <1>12, <1>13
     DEF StateActionSet
-----------------------------------------------------------------------------
(***************************************************************************)
(* Stack indices.                                                          *)
(***************************************************************************)

\* A finite non-empty set of numbers has a greatest: a smallest counterexample
\* would lose an element and still be one.
LEMMA FiniteMaximum ==
    ASSUME NEW S \in SUBSET Nat, IsFiniteSet(S), S # {}
    PROVE  \E n \in S : \A m \in S : m <= n
<1> DEFINE NoMax(T) == T # {} /\ ~ \E n \in T : \A m \in T : m <= n
           Bad == {T \in FiniteSubsetsOf(S) : NoMax(T)}
<1>1. SUFFICES ASSUME Bad # {} PROVE FALSE
  <2>1. S \in FiniteSubsetsOf(S) BY DEF FiniteSubsetsOf
  <2> QED BY <1>1, <2>1
<1>2. PICK T \in Bad : \A U \in Bad : <<U, T>> \notin StrictSubsetOrdering(S)
  <2>1. IsWellFoundedOn(StrictSubsetOrdering(S), FiniteSubsetsOf(S))
    BY FS_StrictSubsetOrderingWellFounded
  <2> HIDE DEF NoMax
  <2>2. Bad \subseteq FiniteSubsetsOf(S) OBVIOUS
  <2> HIDE DEF Bad
  <2> QED BY <1>1, <2>1, <2>2, WFMin
<1>3. T \in SUBSET S /\ IsFiniteSet(T) /\ NoMax(T)
  BY DEF FiniteSubsetsOf
<1>4. PICK x \in T : TRUE BY <1>3
<1> DEFINE V == T \ {x}
<1>5. V \in FiniteSubsetsOf(S) BY <1>3, FS_RemoveElement DEF FiniteSubsetsOf
<1>6. <<V, T>> \in StrictSubsetOrdering(S) BY <1>3, <1>4 DEF StrictSubsetOrdering
<1>7. ~NoMax(V) BY <1>2, <1>5, <1>6
<1>8. CASE V = {}
  <2>1. T = {x} BY <1>4, <1>8
  <2> QED BY <1>3, <2>1
<1>9. CASE V # {}
  <2>1. PICK n \in V : \A m \in V : m <= n BY <1>7, <1>9
  <2>2. n \in T /\ n \in Nat /\ x \in Nat BY <1>3, <1>4
  <2>3. CASE x <= n
    <3>1. \A m \in T : m <= n BY <2>1, <2>3
    <3> QED BY <1>3, <2>2, <3>1
  <2>4. CASE n <= x
    <3>1. \A m \in T : m <= x BY <1>3, <2>1, <2>2, <2>4
    <3> QED BY <1>3, <1>4, <3>1
  <2> QED BY <2>2, <2>3, <2>4
<1> QED BY <1>8, <1>9

\* next_stack_index_at_hex returns an index, one above all that it counts.
LEMMA NextStackIndexAbove ==
    ASSUME NEW s \in GameStates, NEW h \in Hexes, NEW X
    PROVE  /\ NextStackIndex(s, h, X) \in Nat
           /\ \A n \in StackIndices(s, h, X) : n < NextStackIndex(s, h, X)
<1> DEFINE W == ActiveAt(s, h) \ X
           S == StackIndices(s, h, X)
           f == [u \in W |-> s.units[u].stack_index]
<1>1. W \in SUBSET Units /\ IsFiniteSet(W)
  BY UnitsAssumption, FS_Subset DEF ActiveAt
<1>2. \A u \in W : s.units[u].stack_index \in Nat
  BY DEF ActiveAt, ActiveIn, Present, GameStates, UnitStates
<1>3. S \in SUBSET Nat
  BY <1>2 DEF StackIndices
<1>4. IsFiniteSet(S)
  <2>1. f \in Surjection(W, S)
    BY DEF Surjection, StackIndices
  <2> QED BY <1>1, <2>1, FS_Surjection
<1>5. CASE S = {}
  BY <1>5 DEF NextStackIndex
<1>6. CASE S # {}
  <2>1. \E n \in S : \A m \in S : m <= n
    BY <1>3, <1>4, <1>6, FiniteMaximum
  <2>2. Highest(S) \in S /\ \A m \in S : m <= Highest(S)
    BY <2>1 DEF Highest
  <2>3. NextStackIndex(s, h, X) = Highest(S) + 1
    BY <1>6 DEF NextStackIndex
  <2>4. PICK top \in Nat : /\ NextStackIndex(s, h, X) = top + 1
                            /\ \A m \in S : m \in Nat /\ m <= top
    BY <1>3, <2>2, <2>3
  <2> QED BY <2>4
<1> QED BY <1>5, <1>6
-----------------------------------------------------------------------------
(***************************************************************************)
(* Type correctness of the pieces that apply and revert are built from.    *)
(***************************************************************************)

LEMMA WithUnitType ==
    ASSUME NEW s \in GameStates, NEW u \in Units, NEW r \in UnitStates \cup {None}
    PROVE  WithUnit(s, u, r) \in GameStates
  BY DEF WithUnit, GameStates

LEMMA WithActiveType ==
    ASSUME NEW s \in GameStates, NEW U \in SUBSET Units, NEW flag \in BOOLEAN,
           \A u \in U : Present(s, u)
    PROVE  /\ WithActive(s, U, flag) \in GameStates
           /\ \A u \in Units : Present(WithActive(s, U, flag), u) <=> Present(s, u)
<1> DEFINE t == WithActive(s, U, flag)
<1>1. \A u \in Units : t.units[u] = IF u \in U THEN [s.units[u] EXCEPT !.active = flag]
                                    ELSE s.units[u]
  BY DEF WithActive, GameStates
<1>2. \A u \in U : s.units[u] \in UnitStates
  BY DEF Present, GameStates
<1>3. \A u \in U : [s.units[u] EXCEPT !.active = flag] \in UnitStates
  BY <1>2 DEF UnitStates
<1>4. \A u \in U : [s.units[u] EXCEPT !.active = flag] # None
  BY <1>3, NoneAssumption
<1>5. \A u \in Units : Present(t, u) <=> Present(s, u)
  BY <1>1, <1>4 DEF Present
<1>6. t = [s EXCEPT !.units = t.units] /\ t.units \in [Units -> UnitStates \cup {None}]
  BY <1>3 DEF WithActive, GameStates
<1>7. t \in GameStates
  BY <1>6 DEF GameStates
<1> QED BY <1>5, <1>7

\* A queue that is neither empty nor a single responder.
LEMMA LongQueue ==
    ASSUME NEW S, NEW q \in Seq(S), q # <<>>, Len(q) # 1
    PROVE  Tail(q) \in Seq(S) /\ q[2] \in S
<1>1. PICK n \in Nat : n = Len(q) OBVIOUS
<1>2. n # 0 /\ n # 1 BY <1>1
<1>3. n >= 2 BY ONLY <1>1, <1>2
<1>4. q[2] \in S BY <1>1, <1>3
<1> QED BY <1>4

\* The payload and the turn after a step or a pass are a payload and a turn.
LEMMA ArcStepType ==
    ASSUME NEW s \in GameStates, NEW flow \in MovementArcs
    PROVE  /\ ArcAfterStep(s, flow) \in MovementArcs
           /\ TurnAfterStep(s, flow) \in TurnStates
<1>1. InterruptsAfterStep(flow) \in Seq(Factions)
  <2>1. CASE PathComplete(flow)
    BY <2>1 DEF InterruptsAfterStep
  <2>2. CASE ~PathComplete(flow)
    <3>1. flow.step_index + 1 \in 1..Len(flow.path)
      BY <2>2 DEF PathComplete, MovementArcs
    <3>2. flow.path[flow.step_index + 1] \in Hexes /\ flow.moving_faction \in Factions
      BY <3>1 DEF MovementArcs
    <3>3. InterruptsAt[flow.path[flow.step_index + 1]][flow.moving_faction] \in Seq(Factions)
      BY <3>2, InterruptsAssumption
    <3> QED BY <2>2, <3>3 DEF InterruptsAfterStep
  <2> QED BY <2>1, <2>2
<1>2. s.turn \in TurnStates
  BY DEF GameStates
<1> DEFINE queue == InterruptsAfterStep(flow)
<1>3. ArcAfterStep(s, flow) \in MovementArcs
  <2> HIDE DEF queue
  <2>1. \/ ArcAfterStep(s, flow) = [flow EXCEPT !.gate = AwaitingContinue]
        \/ ArcAfterStep(s, flow) = [flow EXCEPT !.gate = AwaitingContinue,
                                                !.interrupt_queue = <<>>, !.saved_turn = None]
        \/ ArcAfterStep(s, flow) = [flow EXCEPT !.gate = AwaitingInterrupt,
                                                !.interrupt_queue = queue, !.saved_turn = s.turn]
    BY DEF ArcAfterStep, queue
  <2>2. queue \in Seq(Factions) /\ <<>> \in Seq(Factions) BY <1>1 DEF queue
  <2> QED BY <1>2, <2>1, <2>2 DEF MovementArcs
<1>4. TurnAfterStep(s, flow) \in TurnStates
  <2>1. CASE queue = <<>>
    BY <1>2, <2>1 DEF TurnAfterStep
  <2>2. CASE queue # <<>>
    <3>1. PICK f \in Factions : f = Head(queue)
      <4> HIDE DEF queue
      <4>1. queue \in Seq(Factions) BY <1>1 DEF queue
      <4> QED BY <2>2, <4>1
    <3>2. PICK turn \in TurnStates : turn = s.turn
      BY <1>2
    <3>3. TurnAfterStep(s, flow) = [turn EXCEPT !.current_faction = f,
                                      !.current_phase = MovementInterrupt,
                                      !.phase_actions_remaining = 1]
      BY <2>2, <3>1, <3>2 DEF TurnAfterStep
    <3> DEFINE p == MovementInterrupt
               n == 1
    <3>4. p \in Phases \cup {MovementInterrupt} /\ n \in Int
      OBVIOUS
    <3>5. TurnAfterStep(s, flow) = [turn EXCEPT !.current_faction = f, !.current_phase = p,
                                                !.phase_actions_remaining = n]
      BY <3>3
    <3> HIDE DEF p, n, queue
    <3> QED BY <3>4, <3>5 DEF TurnStates
  <2> QED BY <2>1, <2>2
<1> QED BY <1>3, <1>4

LEMMA ArcPassType ==
    ASSUME NEW arc \in MovementArcs, NEW turn \in TurnStates,
           arc.interrupt_queue # <<>>,
           Len(arc.interrupt_queue) = 1 => arc.saved_turn # None
    PROVE  /\ ArcAfterPass(arc) \in MovementArcs
           /\ TurnAfterPass(turn, arc) \in TurnStates
<1>1. arc.interrupt_queue \in Seq(Factions)
  BY DEF MovementArcs
<1>2. CASE Len(arc.interrupt_queue) = 1
  <2>1. arc.saved_turn \in TurnStates
    BY <1>2 DEF MovementArcs
  <2> DEFINE q == <<>>
             g == AwaitingContinue
             n == None
  <2>2. ArcAfterPass(arc) = [arc EXCEPT !.interrupt_queue = q, !.gate = g, !.saved_turn = n]
    BY <1>2 DEF ArcAfterPass
  <2>3. /\ q \in Seq(Factions)
        /\ g \in {AwaitingContinue, AwaitingInterrupt}
        /\ n \in TurnStates \cup {None}
    OBVIOUS
  <2>4. ArcAfterPass(arc) \in MovementArcs
    <3> HIDE DEF q, g, n
    <3> QED BY <2>2, <2>3 DEF MovementArcs
  <2>5. TurnAfterPass(turn, arc) \in TurnStates
    BY <1>2, <2>1 DEF TurnAfterPass
  <2> QED BY <2>4, <2>5
<1>3. CASE Len(arc.interrupt_queue) # 1
  <2>1. Tail(arc.interrupt_queue) \in Seq(Factions) /\ arc.interrupt_queue[2] \in Factions
    BY <1>1, <1>3, LongQueue
  <2>2. ArcAfterPass(arc) = [arc EXCEPT !.interrupt_queue = Tail(arc.interrupt_queue)]
    BY <1>3 DEF ArcAfterPass, MovementArcs
  <2>3. TurnAfterPass(turn, arc) = [turn EXCEPT !.current_faction = arc.interrupt_queue[2]]
    BY <1>3 DEF TurnAfterPass
  <2>4. ArcAfterPass(arc) \in MovementArcs
    BY <2>1, <2>2 DEF MovementArcs
  <2>5. TurnAfterPass(turn, arc) \in TurnStates
    BY <2>1, <2>3 DEF TurnStates
  <2> QED BY <2>4, <2>5
<1> QED BY <1>2, <1>3

\* The effect of with_unit on who is on the board.
LEMMA WithUnitPresence ==
    ASSUME NEW s \in GameStates, NEW u \in Units, NEW r \in UnitStates
    PROVE  \A w \in Units : Present(WithUnit(s, u, r), w) <=> Present(s, w) \/ w = u
  BY WithUnitGet, NoneAssumption DEF Present

\* Who is on the board depends on the units alone.
LEMMA SameUnitsPresence ==
    ASSUME NEW s, NEW t, t.units = s.units
    PROVE  \A w \in Units : Present(t, w) <=> Present(s, w)
  BY DEF Present

-----------------------------------------------------------------------------
(***************************************************************************)
(* Apply: the result is a state, only AddUnit brings a unit onto the       *)
(* board, no action takes one off it (DeleteUnit only deactivates), and    *)
(* what is saved is of the action's type.                                  *)
(***************************************************************************)
THEOREM ApplyType ==
    ASSUME NEW s \in GameStates, NEW a \in StateActionSet, CanApply(a, s)
    PROVE  /\ Apply(a, s) \in GameStates
           /\ \A w \in Units : Present(Apply(a, s), w) <=> Present(s, w) \/ w \in Adds(a)
           /\ Saved(a, s) \in SavedValues(a)
<1> DEFINE t == Apply(a, s)
<1>1. CASE a \in MoveUnits
  <2>1. a.kind = "MoveUnit" /\ a.unit_id \in Units /\ a.to_hex \in Hexes
    BY <1>1 DEF MoveUnits
  <2>2. s.units[a.unit_id] \in UnitStates /\ Present(s, a.unit_id)
    BY <2>1 DEF CanApply, Present, GameStates
  <2>3. PICK n \in Nat : n = NextStackIndex(s, a.to_hex, {a.unit_id})
    BY <2>1, NextStackIndexAbove
  <2>4. PICK r \in UnitStates :
            r = [s.units[a.unit_id] EXCEPT !.position = a.to_hex, !.stack_index = n]
    BY <2>1, <2>2 DEF UnitStates
  <2>5. t = WithUnit(s, a.unit_id, r)
    BY <2>1, <2>3, <2>4 DEF Apply, ApplyMoveUnit
  <2>6. Saved(a, s) \in SavedValues(a)
    BY <2>1, <2>2 DEF Saved, SavedValues, UnitStates
  <2>7. t \in GameStates
    BY <2>1, <2>5, WithUnitType
  <2>8. \A w \in Units : Present(t, w) <=> Present(s, w)
    BY <2>1, <2>2, <2>5, WithUnitPresence
  <2> QED BY <2>1, <2>6, <2>7, <2>8 DEF Adds
<1>2. CASE a \in SetTurnStates
  <2>1. a.kind = "SetTurnState" /\ a.new_turn \in TurnStates BY <1>2 DEF SetTurnStates
  <2>2. t = [s EXCEPT !.turn = a.new_turn] BY <2>1 DEF Apply
  <2>3. t \in GameStates /\ t.units = s.units BY <2>1, <2>2 DEF GameStates
  <2>4. Saved(a, s) \in SavedValues(a) BY <2>1 DEF Saved, SavedValues, GameStates
  <2> QED BY <2>1, <2>3, <2>4, SameUnitsPresence DEF Adds
<1>3. CASE a \in WriteArcs
  <2>1. a.kind = "WriteArc" /\ a.payload \in MovementArcs \cup {None} BY <1>3 DEF WriteArcs
  <2>2. t = [s EXCEPT !.engine.movement_arc = a.payload] BY <2>1 DEF Apply
  <2>3. t \in GameStates /\ t.units = s.units BY <2>1, <2>2 DEF GameStates, EngineStates
  <2>4. Saved(a, s) \in SavedValues(a)
    BY <2>1 DEF Saved, SavedValues, GameStates, EngineStates
  <2> QED BY <2>1, <2>3, <2>4, SameUnitsPresence DEF Adds
<1>4. CASE a \in SetArcCursors
  <2>1. a.kind = "SetArcCursor" /\ a.cursor \in Cursors \cup {None} BY <1>4 DEF SetArcCursors
  <2>2. t = [s EXCEPT !.engine.cursor = a.cursor] BY <2>1 DEF Apply
  <2>3. t \in GameStates /\ t.units = s.units BY <2>1, <2>2 DEF GameStates, EngineStates
  <2>4. Saved(a, s) \in SavedValues(a)
    BY <2>1 DEF Saved, SavedValues, GameStates, EngineStates
  <2> QED BY <2>1, <2>3, <2>4, SameUnitsPresence DEF Adds
<1>5. CASE a \in ResolvePasses
  <2>1. a.kind = "ResolvePass" BY <1>5 DEF ResolvePasses
  <2>2. CanResolvePass(a, s) BY <2>1 DEF CanApply
  <2>3. s.engine.movement_arc \in MovementArcs /\ s.turn \in TurnStates
    BY <2>2 DEF CanResolvePass, GameStates, EngineStates
  <2>4. PICK x \in MovementArcs, y \in TurnStates :
            t = [s EXCEPT !.engine.movement_arc = x, !.turn = y]
    <3>1. /\ ArcAfterPass(s.engine.movement_arc) \in MovementArcs
          /\ TurnAfterPass(s.turn, s.engine.movement_arc) \in TurnStates
      BY <2>2, <2>3, ArcPassType DEF CanResolvePass
    <3>2. t = [s EXCEPT !.engine.movement_arc = ArcAfterPass(s.engine.movement_arc),
                        !.turn = TurnAfterPass(s.turn, s.engine.movement_arc)]
      BY <2>1 DEF Apply, ApplyResolvePass, GameStates
    <3> QED BY <3>1, <3>2
  <2>5. t \in GameStates /\ t.units = s.units BY <2>4 DEF GameStates, EngineStates
  <2>6. Saved(a, s) \in SavedValues(a) BY <2>1 DEF Saved, SavedValues, GameStates
  <2> QED BY <2>1, <2>5, <2>6, SameUnitsPresence DEF Adds
<1>6. CASE a \in ArcSteps
  <2>1. a.kind = "ArcStep" /\ a.flow \in MovementArcs BY <1>6 DEF ArcSteps
  <2>2. PICK x \in MovementArcs, y \in TurnStates :
            t = [s EXCEPT !.engine.movement_arc = x, !.turn = y]
    BY <2>1, ArcStepType DEF Apply, ApplyArcStep
  <2>3. t \in GameStates /\ t.units = s.units BY <2>2 DEF GameStates, EngineStates
  <2>4. Saved(a, s) \in SavedValues(a) BY <2>1 DEF Saved, SavedValues, GameStates
  <2> QED BY <2>1, <2>3, <2>4, SameUnitsPresence DEF Adds
<1>7. CASE a \in PatchAttributes
  <2>1. /\ a.kind = "PatchAttributes" /\ a.unit_id \in Units
        /\ a.patch.values \in Dicts
    BY <1>7 DEF PatchAttributes, Patches
  <2>2. s.units[a.unit_id] \in UnitStates /\ Present(s, a.unit_id)
    BY <2>1 DEF CanApply, Present, GameStates
  <2>3. PICK d \in Dicts :
            d = Merge(Without(s.units[a.unit_id].attributes, a.patch.remove_keys), a.patch.values)
    BY <2>1, <2>2, DictOps DEF UnitStates
  <2>4. PICK r \in UnitStates : r = [s.units[a.unit_id] EXCEPT !.attributes = d]
    BY <2>2 DEF UnitStates
  <2>5. t = WithUnit(s, a.unit_id, r)
    BY <2>1, <2>2, <2>3, <2>4 DEF Apply, ApplyPatchAttributes, UnitStates
  <2>6. Saved(a, s) \in SavedValues(a)
    BY <2>1, <2>2 DEF Saved, SavedValues, UnitStates
  <2>7. t \in GameStates
    BY <2>1, <2>5, WithUnitType
  <2>8. \A w \in Units : Present(t, w) <=> Present(s, w)
    BY <2>1, <2>2, <2>5, WithUnitPresence
  <2> QED BY <2>1, <2>6, <2>7, <2>8 DEF Adds
<1>8. CASE a \in DeleteUnits
  <2>1. a.kind = "DeleteUnit" /\ a.unit_id \in Units /\ Present(s, a.unit_id)
    BY <1>8 DEF DeleteUnits, CanApply
  <2> DEFINE U == {a.unit_id}
  <2>2. t = WithActive(s, U, FALSE) BY <2>1 DEF Apply
  <2>3. t \in GameStates /\ \A w \in Units : Present(t, w) <=> Present(s, w)
    <3>1. U \in SUBSET Units /\ \A u \in U : Present(s, u) BY <2>1
    <3> HIDE DEF t, U
    <3> QED BY <2>2, <3>1, WithActiveType
  <2>4. Saved(a, s) \in SavedValues(a) BY <2>1 DEF Saved, SavedValues
  <2> QED BY <2>1, <2>3, <2>4 DEF Adds
<1>9. CASE a \in AddUnits
  <2>1. /\ a.kind = "AddUnit" /\ a.unit_id \in Units /\ a.position \in Hexes
        /\ a.faction \in Factions /\ a.attributes \in Dicts
        /\ a.stack_index \in Nat \cup {None}
    BY <1>9 DEF AddUnits
  <2>2. PICK n \in Nat : n = IF a.stack_index # None THEN a.stack_index
                            ELSE NextStackIndex(s, a.position, {})
    BY <2>1, NextStackIndexAbove
  <2>3. PICK r \in UnitStates :
            r = [faction |-> a.faction, position |-> a.position, active |-> TRUE,
                 stack_index |-> n, attributes |-> a.attributes]
    BY <2>1 DEF UnitStates
  <2>4. t = WithUnit(s, a.unit_id, r)
    BY <2>1, <2>2, <2>3 DEF Apply, ApplyAddUnit
  <2>5. t \in GameStates
    <3> HIDE DEF t
    <3> QED BY <2>1, <2>4, WithUnitType
  <2>6. \A w \in Units : Present(t, w) <=> Present(s, w) \/ w = a.unit_id
    BY <2>1, <2>4, WithUnitPresence
  <2>7. Saved(a, s) \in SavedValues(a) BY <2>1 DEF Saved, SavedValues
  <2> QED BY <2>1, <2>5, <2>6, <2>7 DEF Adds
<1>10. CASE a \in SpendActions
  <2>1. a.kind = "SpendAction" /\ a.amount \in Int BY <1>10 DEF SpendActions
  <2>2. PICK n \in Int : n = s.turn.phase_actions_remaining - a.amount
    BY <2>1 DEF GameStates, TurnStates
  <2>3. t = [s EXCEPT !.turn.phase_actions_remaining = n]
    BY <2>1, <2>2 DEF Apply, GameStates, TurnStates
  <2>4. t \in GameStates /\ t.units = s.units BY <2>3 DEF GameStates, TurnStates
  <2>5. Saved(a, s) \in SavedValues(a)
    BY <2>1 DEF Saved, SavedValues, GameStates, TurnStates
  <2> QED BY <2>1, <2>4, <2>5, SameUnitsPresence DEF Adds
<1>11. CASE a \in NextPhases
  <2>1. /\ a.kind = "NextPhase" /\ a.new_faction \in Factions /\ a.new_phase \in Phases
        /\ a.max_actions \in Int /\ a.new_schedule_index \in Nat
    BY <1>11 DEF NextPhases
  <2>2. PICK n \in Nat : n = s.turn.global_tick + 1
    BY DEF GameStates, TurnStates
  <2>3. PICK y \in TurnStates :
            y = [current_faction |-> a.new_faction, current_phase |-> a.new_phase,
                 phase_actions_remaining |-> a.max_actions,
                 schedule_index |-> a.new_schedule_index, global_tick |-> n]
    BY <2>1 DEF TurnStates
  <2>4. t = [s EXCEPT !.turn = y]
    BY <2>1, <2>2, <2>3 DEF Apply, ApplyNextPhase, GameStates
  <2>5. t \in GameStates /\ t.units = s.units BY <2>4 DEF GameStates
  <2>6. Saved(a, s) \in SavedValues(a) BY <2>1 DEF Saved, SavedValues, GameStates
  <2> QED BY <2>1, <2>5, <2>6, SameUnitsPresence DEF Adds
<1>12. CASE a \in BucketPatches
  <2>1. a.kind = "BucketPatch" /\ a.patch.values \in Dicts
    BY <1>12 DEF BucketPatches, Patches
  <2>2. s.session \in Dicts BY DEF GameStates
  <2>3. PICK d \in Dicts : d = Without(Merge(s.session, a.patch.values), a.patch.remove_keys)
    BY <2>1, <2>2, DictOps
  <2>4. t = [s EXCEPT !.session = d]
    BY <2>1, <2>3 DEF Apply, ApplyBucketPatch, GameStates
  <2>5. t \in GameStates /\ t.units = s.units BY <2>4 DEF GameStates
  <2>6. Saved(a, s) \in SavedValues(a) BY <2>1, <2>2 DEF Saved, SavedValues
  <2> QED BY <2>1, <2>5, <2>6, SameUnitsPresence DEF Adds
<1>13. CASE a \in CombatEffects
  <2>1. /\ a.kind = "CombatEffects" /\ a.deactivate \in SUBSET Units
        /\ DOMAIN a.patches \in SUBSET Units /\ a.patches \in [DOMAIN a.patches -> Dicts]
    BY <1>13 DEF CombatEffects
  <2>2. \A u \in a.deactivate \cup DOMAIN a.patches : Present(s, u)
    BY <2>1 DEF CanApply
  <2> DEFINE f == [u \in Units |->
                     IF u \in DOMAIN a.patches
                     THEN [s.units[u] EXCEPT !.attributes = Merge(@, a.patches[u])]
                     ELSE s.units[u]]
             mid == [s EXCEPT !.units = f]
  <2>3. ASSUME NEW u \in DOMAIN a.patches
        PROVE  [s.units[u] EXCEPT !.attributes = Merge(@, a.patches[u])] \in UnitStates
    <3>1. s.units[u] \in UnitStates /\ a.patches[u] \in Dicts
      BY <2>1, <2>2 DEF Present, GameStates
    <3>2. Merge(s.units[u].attributes, a.patches[u]) \in Dicts
      BY <3>1, DictOps DEF UnitStates
    <3> QED BY <3>1, <3>2 DEF UnitStates
  <2>4. \A u \in Units : /\ f[u] \in UnitStates \cup {None}
                         /\ f[u] # None <=> s.units[u] # None
    BY <2>1, <2>2, <2>3, NoneAssumption DEF GameStates, Present
  <2>5. mid \in GameStates /\ mid.units = f
    BY <2>4 DEF GameStates
  <2>6. \A u \in Units : Present(mid, u) <=> Present(s, u)
    BY <2>4, <2>5 DEF Present
  <2>7. t = WithActive(mid, a.deactivate, FALSE)
    BY <2>1 DEF Apply, ApplyCombatEffects
  <2>8. t \in GameStates /\ \A w \in Units : Present(t, w) <=> Present(s, w)
    <3> HIDE DEF mid, t
    <3> QED BY <2>1, <2>2, <2>5, <2>6, <2>7, WithActiveType
  <2>9. Saved(a, s) \in SavedValues(a) BY <2>1 DEF Saved, SavedValues
  <2> QED BY <2>1, <2>8, <2>9 DEF Adds
<1>14. CASE a \in Attacks
  <2>1. /\ a.kind = "Attack" /\ Destroyed(a) \in SUBSET Units
        /\ a.rng_entry \in Seq(Draws)
    BY <1>14 DEF Attacks, Destroyed
  <2>2. \A u \in Destroyed(a) : Present(s, u)
    BY <2>1 DEF CanApply, CanAttack, Destroyed, ActiveIn
  <2>3. PICK off \in GameStates : /\ off = WithActive(s, Destroyed(a), FALSE)
                                  /\ \A w \in Units : Present(off, w) <=> Present(s, w)
    BY <2>1, <2>2, WithActiveType
  <2>4. PICK log \in Seq(Draws) : log = s.rng_log \o a.rng_entry
    <3>1. PICK old \in Seq(Draws) : old = s.rng_log
      BY DEF GameStates
    <3>2. PICK drawn \in Seq(Draws) : drawn = a.rng_entry
      BY <2>1
    <3>3. old \o drawn \in Seq(Draws)
      OBVIOUS
    <3> QED BY <3>1, <3>2, <3>3
  <2>5. t = [off EXCEPT !.rng_log = log]
    BY <2>1, <2>3, <2>4 DEF Apply, ApplyAttack
  <2>6. t \in GameStates /\ t.units = off.units BY <2>5 DEF GameStates
  <2>7. Saved(a, s) \in SavedValues(a) BY <2>1 DEF Saved, SavedValues, GameStates
  <2> QED BY <2>1, <2>3, <2>6, <2>7, SameUnitsPresence DEF Adds
<1> QED
  BY <1>1, <1>2, <1>3, <1>4, <1>5, <1>6, <1>7, <1>8, <1>9, <1>10, <1>11, <1>12, <1>13, <1>14
     DEF StateActionSet

(***************************************************************************)
(* Revert: the result is a state, and only the revert of AddUnit takes a   *)
(* unit off the board.                                                     *)
(***************************************************************************)
THEOREM RevertType ==
    ASSUME NEW s \in GameStates, NEW e, e.act \in StateActionSet,
           e.saved \in SavedValues(e.act), CanRevert(e, s)
    PROVE  /\ Revert(e, s) \in GameStates
           /\ \A w \in Units : Present(Revert(e, s), w) <=>
                                 Present(s, w) /\ w \notin Adds(e.act)
<1> DEFINE a == e.act
           t == Revert(e, s)
<1>1. CASE a \in MoveUnits
  <2>1. /\ a.kind = "MoveUnit" /\ a.unit_id \in Units /\ a.from_hex \in Hexes
        /\ Present(s, a.unit_id) /\ e.saved \in Nat
    BY <1>1 DEF MoveUnits, CanRevert, SavedValues
  <2>2. s.units[a.unit_id] \in UnitStates BY <2>1 DEF Present, GameStates
  <2>3. PICK r \in UnitStates :
            r = [s.units[a.unit_id] EXCEPT !.position = a.from_hex, !.stack_index = e.saved]
    BY <2>1, <2>2 DEF UnitStates
  <2>4. t = WithUnit(s, a.unit_id, r) BY <2>1, <2>3 DEF Revert, RevertMoveUnit
  <2> QED BY <2>1, <2>4, WithUnitType, WithUnitPresence DEF Adds
<1>2. CASE a \in SetTurnStates \cup NextPhases
  <2>1. a.kind \in {"SetTurnState", "NextPhase"} /\ e.saved \in TurnStates
    BY <1>2 DEF SetTurnStates, NextPhases, SavedValues
  <2>2. t = [s EXCEPT !.turn = e.saved] BY <2>1 DEF Revert
  <2>3. t \in GameStates /\ t.units = s.units BY <2>1, <2>2 DEF GameStates
  <2> QED BY <2>1, <2>3, SameUnitsPresence DEF Adds
<1>3. CASE a \in WriteArcs
  <2>1. a.kind = "WriteArc" /\ e.saved \in MovementArcs \cup {None}
    BY <1>3 DEF WriteArcs, SavedValues
  <2>2. t = [s EXCEPT !.engine.movement_arc = e.saved] BY <2>1 DEF Revert
  <2>3. t \in GameStates /\ t.units = s.units BY <2>1, <2>2 DEF GameStates, EngineStates
  <2> QED BY <2>1, <2>3, SameUnitsPresence DEF Adds
<1>4. CASE a \in SetArcCursors
  <2>1. a.kind = "SetArcCursor" /\ e.saved \in Cursors \cup {None}
    BY <1>4 DEF SetArcCursors, SavedValues
  <2>2. t = [s EXCEPT !.engine.cursor = e.saved] BY <2>1 DEF Revert
  <2>3. t \in GameStates /\ t.units = s.units BY <2>1, <2>2 DEF GameStates, EngineStates
  <2> QED BY <2>1, <2>3, SameUnitsPresence DEF Adds
<1>5. CASE a \in ResolvePasses \cup ArcSteps
  <2>1. /\ a.kind \in {"ResolvePass", "ArcStep"}
        /\ e.saved \in [engine: EngineStates, turn: TurnStates]
    BY <1>5 DEF ResolvePasses, ArcSteps, SavedValues
  <2>2. t = [s EXCEPT !.engine = e.saved.engine, !.turn = e.saved.turn]
    BY <2>1 DEF Revert
  <2>3. t \in GameStates /\ t.units = s.units BY <2>1, <2>2 DEF GameStates
  <2> QED BY <2>1, <2>3, SameUnitsPresence DEF Adds
<1>6. CASE a \in PatchAttributes
  <2>1. a.kind = "PatchAttributes" /\ a.unit_id \in Units /\ e.saved \in Dicts
    BY <1>6 DEF PatchAttributes, SavedValues
  <2>2. CASE Present(s, a.unit_id)
    <3>1. s.units[a.unit_id] \in UnitStates BY <2>1, <2>2 DEF Present, GameStates
    <3>2. PICK r \in UnitStates : r = [s.units[a.unit_id] EXCEPT !.attributes = e.saved]
      BY <2>1, <3>1 DEF UnitStates
    <3>3. t = WithUnit(s, a.unit_id, r)
      BY <2>1, <2>2, <3>2 DEF Revert, RevertPatchAttributes
    <3> QED BY <2>1, <2>2, <3>3, WithUnitType, WithUnitPresence DEF Adds
  <2>3. CASE ~Present(s, a.unit_id)
    <3>1. t = s BY <2>1, <2>3 DEF Revert, RevertPatchAttributes
    <3> QED BY <2>1, <3>1 DEF Adds
  <2> QED BY <2>2, <2>3
<1>7. CASE a \in DeleteUnits
  <2>1. a.kind = "DeleteUnit" /\ a.unit_id \in Units /\ Present(s, a.unit_id)
    BY <1>7 DEF DeleteUnits, CanRevert
  <2> DEFINE U == {a.unit_id}
  <2>2. t = WithActive(s, U, TRUE) BY <2>1 DEF Revert
  <2>3. t \in GameStates /\ \A w \in Units : Present(t, w) <=> Present(s, w)
    <3>1. U \in SUBSET Units /\ \A u \in U : Present(s, u) BY <2>1
    <3> HIDE DEF t, U
    <3> QED BY <2>2, <3>1, WithActiveType
  <2> QED BY <2>1, <2>3 DEF Adds
<1>8. CASE a \in AddUnits
  <2>1. a.kind = "AddUnit" /\ a.unit_id \in Units BY <1>8 DEF AddUnits
  <2>2. t = WithUnit(s, a.unit_id, None) BY <2>1 DEF Revert
  <2>3. t \in GameStates
    <3> DEFINE r == None
    <3>1. r \in UnitStates \cup {None} OBVIOUS
    <3>2. t = WithUnit(s, a.unit_id, r) BY <2>2
    <3> HIDE DEF r, t
    <3> QED BY <2>1, <3>1, <3>2, WithUnitType
  <2>4. \A w \in Units : Present(t, w) <=> Present(s, w) /\ w # a.unit_id
    BY <2>1, <2>2, WithUnitGet DEF Present
  <2> QED BY <2>1, <2>3, <2>4 DEF Adds
<1>9. CASE a \in SpendActions
  <2>1. a.kind = "SpendAction" /\ e.saved \in Int BY <1>9 DEF SpendActions, SavedValues
  <2>2. t = [s EXCEPT !.turn.phase_actions_remaining = e.saved] BY <2>1 DEF Revert
  <2>3. t \in GameStates /\ t.units = s.units BY <2>1, <2>2 DEF GameStates, TurnStates
  <2> QED BY <2>1, <2>3, SameUnitsPresence DEF Adds
<1>10. CASE a \in BucketPatches
  <2>1. a.kind = "BucketPatch" /\ e.saved \in Dicts BY <1>10 DEF BucketPatches, SavedValues
  <2>2. t = [s EXCEPT !.session = e.saved] BY <2>1 DEF Revert
  <2>3. t \in GameStates /\ t.units = s.units BY <2>1, <2>2 DEF GameStates
  <2> QED BY <2>1, <2>3, SameUnitsPresence DEF Adds
<1>11. CASE a \in CombatEffects
  <2>1. a.kind = "CombatEffects" BY <1>11 DEF CombatEffects
  <2>2. t = s BY <2>1 DEF Revert
  <2> QED BY <2>1, <2>2 DEF Adds
<1>12. CASE a \in Attacks
  <2>1. /\ a.kind = "Attack" /\ Destroyed(a) \in SUBSET Units /\ e.saved \in Seq(Draws)
        /\ \A u \in Destroyed(a) : Present(s, u)
    BY <1>12 DEF Attacks, Destroyed, CanRevert, SavedValues
  <2>2. PICK on \in GameStates : /\ on = WithActive(s, Destroyed(a), TRUE)
                                 /\ \A w \in Units : Present(on, w) <=> Present(s, w)
    BY <2>1, WithActiveType
  <2>3. t = [on EXCEPT !.rng_log = e.saved] BY <2>1, <2>2 DEF Revert, RevertAttack
  <2>4. t \in GameStates /\ t.units = on.units BY <2>1, <2>3 DEF GameStates
  <2> QED BY <2>1, <2>2, <2>4, SameUnitsPresence DEF Adds
<1> QED
  BY <1>1, <1>2, <1>3, <1>4, <1>5, <1>6, <1>7, <1>8, <1>9, <1>10, <1>11, <1>12
     DEF StateActionSet
=============================================================================
