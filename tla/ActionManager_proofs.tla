------------------------ MODULE ActionManager_proofs ------------------------
(***************************************************************************)
(* What ActionManager promises for every set of actions, every set of      *)
(* initial states and histories of any length: its invariants, from one    *)
(* inductive invariant, and the refinement of Timeline by histories whose  *)
(* actions all revert exactly.                                             *)
(***************************************************************************)
EXTENDS ActionManager, StateActions_proofs

-----------------------------------------------------------------------------
(* Sequences: cutting off a tail, and putting one element after the cut. *)

LEMMA CutOff ==
    ASSUME NEW S, NEW q \in Seq(S), NEW n \in 0..Len(q)
    PROVE  /\ SubSeq(q, 1, n) \in Seq(S)
           /\ Len(SubSeq(q, 1, n)) = n
           /\ \A i \in 1..n : SubSeq(q, 1, n)[i] = q[i]
  OBVIOUS

LEMMA PutAfter ==
    ASSUME NEW S, NEW q \in Seq(S), NEW n \in 0..Len(q), NEW x \in S
    PROVE  /\ Append(SubSeq(q, 1, n), x) \in Seq(S)
           /\ Len(Append(SubSeq(q, 1, n), x)) = n + 1
           /\ \A i \in 1..n : Append(SubSeq(q, 1, n), x)[i] = q[i]
           /\ Append(SubSeq(q, 1, n), x)[n + 1] = x
<1>1. /\ SubSeq(q, 1, n) \in Seq(S)
      /\ Len(SubSeq(q, 1, n)) = n
      /\ \A i \in 1..n : SubSeq(q, 1, n)[i] = q[i]
  BY CutOff
<1> DEFINE c == SubSeq(q, 1, n)
<1> HIDE DEF c
<1> QED BY <1>1 DEF c

LEMMA SeqRange ==
    ASSUME NEW S, NEW q \in Seq(S)
    PROVE  q \in Seq(Range(q))
  BY DEF Range

-----------------------------------------------------------------------------
(* Links of the history. *)

\* Entry e takes s to t and remembers what it replaces.
Replays(e, s, t) ==
    /\ CanApply(e.act, s)
    /\ e = Entry(e.act, s)
    /\ t = Apply(e.act, s)

\* The units a revert looks up are there when apply succeeds.
LEMMA ApplyFits ==
    ASSUME NEW s \in GameStates, NEW a \in StateActionSet, CanApply(a, s)
    PROVE  Fits(a, s, Apply(a, s))
<1>1. OnBoard(Apply(a, s)) = OnBoard(s) \cup Adds(a)
  <2>1. Adds(a) \subseteq Units
    BY DEF Adds, StateActionSet, MoveUnits, SetTurnStates, WriteArcs, SetArcCursors,
           ResolvePasses, ArcSteps, PatchAttributes, DeleteUnits, AddUnits, SpendActions,
           NextPhases, BucketPatches, CombatEffects, Attacks
  <2> QED BY <2>1, ApplyType DEF OnBoard
<1>2. OnBoard(s) \cap Adds(a) = {}
  BY DEF CanApply, OnBoard, Adds
<1>3. LooksUp(a) \subseteq OnBoard(s)
  <2>1. CASE a \in MoveUnits \cup DeleteUnits
    BY <2>1 DEF MoveUnits, DeleteUnits, LooksUp, OnBoard, CanApply
  <2>2. CASE a \in Attacks
    <3>1. a.kind = "Attack" /\ Destroyed(a) \subseteq Units
      BY <2>2 DEF Attacks, Destroyed
    <3>2. \A u \in Destroyed(a) : Present(s, u)
      BY <3>1 DEF CanApply, CanAttack, ActiveIn, Destroyed
    <3> QED BY <3>1, <3>2 DEF LooksUp, OnBoard
  <2>3. CASE a \notin MoveUnits \cup DeleteUnits \cup Attacks
    BY <2>3 DEF LooksUp, StateActionSet, SetTurnStates, WriteArcs, SetArcCursors,
           ResolvePasses, ArcSteps, PatchAttributes, AddUnits, SpendActions,
           NextPhases, BucketPatches, CombatEffects
  <2> QED BY <2>1, <2>2, <2>3
<1> QED BY <1>1, <1>2, <1>3 DEF Fits

\* An entry whose units are there reverts, and takes away what it added.
LEMMA RevertFits ==
    ASSUME NEW s \in GameStates, NEW e, EntryOK(e), NEW t,
           Fits(e.act, t, s)
    PROVE  /\ CanRevert(e, s)
           /\ Revert(e, s) \in GameStates
           /\ OnBoard(Revert(e, s)) = OnBoard(t)
<1> DEFINE a == e.act
<1>1. LooksUp(a) \subseteq OnBoard(s)
  BY DEF Fits
<1>2. CanRevert(e, s)
  BY <1>1 DEF CanRevert, LooksUp, OnBoard
<1>3. /\ Revert(e, s) \in GameStates
      /\ \A w \in Units : Present(Revert(e, s), w) <=> Present(s, w) /\ w \notin Adds(a)
  BY <1>2, RevertType DEF EntryOK
<1>4. OnBoard(Revert(e, s)) = OnBoard(s) \ Adds(a)
  BY <1>3 DEF OnBoard
<1> QED BY <1>2, <1>3, <1>4 DEF Fits

-----------------------------------------------------------------------------
(***************************************************************************)
(* The inductive invariant.  The timeline and the history are two          *)
(* sequences linked entry by entry: by who is on the board always, and     *)
(* exactly as long as every undo was exact.  TimelineInv alone is not      *)
(* inductive: that an undo brings back the snapshot below needs the link   *)
(* at the pointer, and a redo the link above it.                           *)
(***************************************************************************)
ExactHistory ==
    ~lossyUndone =>
        /\ mgr.state = timeline[mgr.pointer + 1]
        /\ \A i \in DOMAIN mgr.history : Replays(mgr.history[i], timeline[i], timeline[i + 1])

IInv == TypeOK /\ BoardFollowsHistory /\ ExactHistory

LEMMA FreshManager ==
    ASSUME NEW s \in InitialStates, mgr = Manager(s), timeline = <<s>>, lossyUndone = FALSE
    PROVE  IInv
<1>1. s \in GameStates
  BY InitialAssumption
<1>2. /\ mgr.state = s
      /\ mgr.history = <<>>
      /\ mgr.pointer = 0
      /\ mgr = [state |-> mgr.state, history |-> mgr.history, pointer |-> mgr.pointer]
  BY DEF Manager
<1>3. timeline \in Seq(GameStates) /\ Len(timeline) = 1 /\ timeline[1] = s
  BY <1>1
<1>4. mgr.history \in Seq(Range(mgr.history)) /\ Len(mgr.history) = 0 /\ DOMAIN mgr.history = {}
  BY <1>2
<1>5. TypeOK
  <2>1. mgr.pointer \in 0..Len(mgr.history) /\ Len(timeline) = Len(mgr.history) + 1
    BY <1>2, <1>3, <1>4
  <2>2. \A i \in DOMAIN mgr.history : EntryOK(mgr.history[i])
    BY <1>4
  <2>3. mgr.state \in GameStates /\ lossyUndone \in BOOLEAN
    BY <1>1, <1>2
  <2> QED BY <1>2, <1>3, <1>4, <2>1, <2>2, <2>3 DEF TypeOK
<1>6. BoardFollowsHistory
  BY <1>2, <1>3, <1>4 DEF BoardFollowsHistory
<1>7. ExactHistory
  BY <1>2, <1>3, <1>4 DEF ExactHistory
<1> QED BY <1>5, <1>6, <1>7 DEF IInv

\* The invariant of Init.
LEMMA InitIInv == Init => IInv
  BY FreshManager DEF Init

\* What the invariant says of the entry below the pointer, and of the one above.
LEMMA EntryAt ==
    ASSUME IInv, NEW i \in 1..Len(mgr.history)
    PROVE  /\ EntryOK(mgr.history[i])
           /\ timeline[i] \in GameStates /\ timeline[i + 1] \in GameStates
           /\ Fits(mgr.history[i].act, timeline[i], timeline[i + 1])
           /\ ~lossyUndone => Replays(mgr.history[i], timeline[i], timeline[i + 1])
<1>1. i \in DOMAIN mgr.history
  BY DEF IInv, TypeOK
<1>2. i \in 1..Len(timeline) /\ i + 1 \in 1..Len(timeline)
  BY DEF IInv, TypeOK
<1> QED BY <1>1, <1>2 DEF IInv, TypeOK, BoardFollowsHistory, ExactHistory

LEMMA ExecuteIInv ==
    ASSUME IInv, NEW a \in Actions, Execute(a)
    PROVE  IInv'
<1> DEFINE p == mgr.pointer
           H == mgr.history
           s == mgr.state
           t == Apply(a, s)
           e == Entry(a, s)
           S == Range(H) \cup {e}
<1>1. /\ a \in StateActionSet /\ CanApply(a, s) /\ s \in GameStates
      /\ p \in 0..Len(H) /\ p + 1 \in 0..Len(timeline)
      /\ H \in Seq(S) /\ e \in S /\ timeline \in Seq(GameStates)
  BY ActionsAssumption DEF IInv, TypeOK, Execute
<1>2. t \in GameStates /\ EntryOK(e) /\ Fits(a, s, t) /\ e.act = a
  BY <1>1, ApplyType, ApplyFits DEF EntryOK, Entry
<1>3. /\ mgr'.state = t
      /\ mgr'.history = Append(SubSeq(H, 1, p), e)
      /\ mgr'.pointer = p + 1
      /\ mgr' = [state |-> mgr'.state, history |-> mgr'.history, pointer |-> mgr'.pointer]
  BY <1>1 DEF Execute, Executed, Truncated, IInv, TypeOK
<1>4. /\ mgr'.history \in Seq(S)
      /\ Len(mgr'.history) = p + 1
      /\ DOMAIN mgr'.history = 1..(p + 1)
      /\ \A i \in 1..p : mgr'.history[i] = H[i]
      /\ mgr'.history[p + 1] = e
  <2> HIDE DEF e, S, H, p
  <2> QED BY <1>1, <1>3, PutAfter
<1>5. /\ timeline' \in Seq(GameStates)
      /\ Len(timeline') = p + 2
      /\ \A i \in 1..(p + 1) : timeline'[i] = timeline[i]
      /\ timeline'[p + 2] = t
  <2>1. timeline' = Append(SubSeq(timeline, 1, p + 1), t)
    BY DEF Execute
  <2>2. p + 1 + 1 = p + 2 BY <1>1
  <2> HIDE DEF t, p
  <2> QED BY <1>1, <1>2, <2>1, <2>2, PutAfter
<1>6. lossyUndone' = lossyUndone
  BY DEF Execute
<1>i. /\ \A i \in 1..p : i \in 1..Len(H) /\ i \in 1..(p + 1) /\ i + 1 \in 1..(p + 1)
      /\ \A i \in 1..(p + 1) : i \in 1..p \/ i = p + 1
      /\ (p + 1) + 1 = p + 2
      /\ p + 1 \in 1..(p + 1)
  BY <1>1
<1>7. TypeOK'
  <2>1. \A i \in DOMAIN mgr'.history : EntryOK(mgr'.history[i])
    <3>1. \A i \in 1..p : EntryOK(H[i])
      BY <1>i, EntryAt
    <3> HIDE DEF e
    <3> QED BY <1>i, <1>2, <1>4, <3>1
  <2>2. mgr'.history \in Seq(Range(mgr'.history))
    BY <1>4, SeqRange
  <2>3. mgr'.pointer \in 0..Len(mgr'.history) /\ Len(timeline') = Len(mgr'.history) + 1
    BY <1>1, <1>3, <1>4, <1>5
  <2>4. lossyUndone' \in BOOLEAN
    BY <1>6 DEF IInv, TypeOK
  <2> QED BY <1>2, <1>3, <1>5, <2>1, <2>2, <2>3, <2>4 DEF TypeOK
<1>8. BoardFollowsHistory'
  <2>1. OnBoard(mgr'.state) = OnBoard(timeline'[mgr'.pointer + 1])
    BY <1>1, <1>3, <1>5
  <2>2. ASSUME NEW i \in 1..p
        PROVE  Fits(mgr'.history[i].act, timeline'[i], timeline'[i + 1])
    <3>1. Fits(H[i].act, timeline[i], timeline[i + 1])
      BY <1>i, EntryAt
    <3> QED BY <1>i, <1>4, <1>5, <3>1
  <2>3. Fits(mgr'.history[p + 1].act, timeline'[p + 1], timeline'[p + 2])
    BY <1>1, <1>2, <1>4, <1>5 DEF Fits, IInv, BoardFollowsHistory
  <2>4. \A i \in 1..(p + 1) : Fits(mgr'.history[i].act, timeline'[i], timeline'[i + 1])
    BY <1>i, <2>2, <2>3
  <2> QED BY <1>4, <2>1, <2>4 DEF BoardFollowsHistory
<1>9. ExactHistory'
  <2>1. SUFFICES ASSUME ~lossyUndone
                 PROVE  /\ mgr'.state = timeline'[mgr'.pointer + 1]
                        /\ \A i \in DOMAIN mgr'.history :
                              Replays(mgr'.history[i], timeline'[i], timeline'[i + 1])
    BY <1>6 DEF ExactHistory
  <2>2. mgr'.state = timeline'[mgr'.pointer + 1]
    BY <1>1, <1>3, <1>5
  <2>3. ASSUME NEW i \in 1..p
        PROVE  Replays(mgr'.history[i], timeline'[i], timeline'[i + 1])
    <3>1. Replays(H[i], timeline[i], timeline[i + 1])
      BY <1>i, <2>1, EntryAt
    <3> QED BY <1>i, <1>4, <1>5, <3>1
  <2>4. s = timeline[p + 1]
    BY <2>1 DEF IInv, ExactHistory
  <2>5. Replays(mgr'.history[p + 1], timeline'[p + 1], timeline'[p + 2])
    BY <1>1, <1>2, <1>4, <1>5, <2>4 DEF Replays
  <2>6. \A i \in 1..(p + 1) : Replays(mgr'.history[i], timeline'[i], timeline'[i + 1])
    BY <1>i, <2>3, <2>5
  <2> QED BY <1>4, <2>2, <2>6
<1> QED BY <1>7, <1>8, <1>9 DEF IInv

\* A refused execute cuts both sequences and changes nothing else.
LEMMA ExecuteRaisesIInv ==
    ASSUME IInv, NEW a \in Actions, ExecuteRaises(a)
    PROVE  IInv'
<1> DEFINE p == mgr.pointer
           H == mgr.history
<1>1. /\ H \in Seq(Range(H)) /\ timeline \in Seq(GameStates)
      /\ p \in 0..Len(H) /\ p + 1 \in 0..Len(timeline)
      /\ \A i \in 1..p : i \in 1..Len(H) /\ i \in 1..(p + 1) /\ i + 1 \in 1..(p + 1)
      /\ p \in 0..p /\ p + 1 \in 1..(p + 1)
  BY DEF IInv, TypeOK
<1>2. /\ mgr'.state = mgr.state
      /\ mgr'.history = SubSeq(H, 1, p)
      /\ mgr'.pointer = p
      /\ mgr' = [state |-> mgr'.state, history |-> mgr'.history, pointer |-> mgr'.pointer]
      /\ timeline' = SubSeq(timeline, 1, p + 1)
      /\ lossyUndone' = lossyUndone
  BY DEF ExecuteRaises, Executed, Truncated, IInv, TypeOK
<1>3. /\ mgr'.history \in Seq(Range(H))
      /\ Len(mgr'.history) = p
      /\ DOMAIN mgr'.history = 1..p
      /\ \A i \in 1..p : mgr'.history[i] = H[i]
  <2> HIDE DEF H, p
  <2> QED BY <1>1, <1>2, CutOff
<1>4. /\ timeline' \in Seq(GameStates)
      /\ Len(timeline') = p + 1
      /\ \A i \in 1..(p + 1) : timeline'[i] = timeline[i]
  <2> HIDE DEF p
  <2> QED BY <1>1, <1>2, CutOff
<1>5. TypeOK'
  <2>1. \A i \in DOMAIN mgr'.history : EntryOK(mgr'.history[i])
    BY <1>1, <1>3, EntryAt
  <2>2. mgr'.history \in Seq(Range(mgr'.history))
    BY <1>3, SeqRange
  <2> QED BY <1>1, <1>2, <1>3, <1>4, <2>1, <2>2 DEF IInv, TypeOK
<1>6. BoardFollowsHistory'
  <2>1. \A i \in 1..p : Fits(H[i].act, timeline[i], timeline[i + 1])
    BY <1>1, EntryAt
  <2> QED BY <1>1, <1>2, <1>3, <1>4, <2>1 DEF IInv, BoardFollowsHistory
<1>7. ExactHistory'
  <2>1. ~lossyUndone => \A i \in 1..p : Replays(H[i], timeline[i], timeline[i + 1])
    BY <1>1, EntryAt
  <2> QED BY <1>1, <1>2, <1>3, <1>4, <2>1 DEF IInv, ExactHistory
<1> QED BY <1>5, <1>6, <1>7 DEF IInv

\* The entries an undo reverts are reverted without raising.
LEMMA UndoReverts ==
    ASSUME IInv, CanUndo(mgr)
    PROVE  /\ ~UndoRaisesAtOnce(mgr) /\ ~UndoRaisesHalfway(mgr)
           /\ HalfUndone(mgr) \in GameStates
           /\ OnBoard(HalfUndone(mgr)) = OnBoard(timeline[mgr.pointer])
           /\ UndoIsCoupled(mgr) =>
                 LET t == Revert(PriorEntry(mgr), HalfUndone(mgr))
                 IN  t \in GameStates /\ OnBoard(t) = OnBoard(timeline[mgr.pointer - 1])
<1> DEFINE p == mgr.pointer
           e == LastEntry(mgr)
           half == HalfUndone(mgr)
<1>1. p \in 1..Len(mgr.history) /\ mgr.state \in GameStates
  BY DEF CanUndo, IInv, TypeOK
<1>2. EntryOK(e) /\ Fits(e.act, timeline[p], timeline[p + 1])
  BY <1>1, EntryAt DEF LastEntry
<1>3. Fits(e.act, timeline[p], mgr.state)
  BY <1>2 DEF Fits, IInv, BoardFollowsHistory
<1>4. /\ CanRevert(e, mgr.state)
      /\ half \in GameStates
      /\ OnBoard(half) = OnBoard(timeline[p])
  <2> HIDE DEF e, p
  <2> QED BY <1>1, <1>2, <1>3, RevertFits DEF HalfUndone, e
<1>5. ASSUME UndoIsCoupled(mgr)
      PROVE  LET t == Revert(PriorEntry(mgr), half)
             IN  /\ CanRevert(PriorEntry(mgr), half)
                 /\ t \in GameStates
                 /\ OnBoard(t) = OnBoard(timeline[p - 1])
  <2> DEFINE d == PriorEntry(mgr)
  <2>1. p - 1 \in 1..Len(mgr.history) /\ (p - 1) + 1 = p
    BY <1>1, <1>5 DEF UndoIsCoupled
  <2>2. EntryOK(d) /\ Fits(d.act, timeline[p - 1], timeline[p])
    BY <2>1, EntryAt DEF PriorEntry
  <2>3. Fits(d.act, timeline[p - 1], half)
    BY <1>4, <2>2 DEF Fits
  <2> HIDE DEF d, half, p
  <2>4. CanRevert(d, half) /\ Revert(d, half) \in GameStates
        /\ OnBoard(Revert(d, half)) = OnBoard(timeline[p - 1])
    BY <1>4, <2>2, <2>3, RevertFits
  <2> QED BY <2>4 DEF d
<1> QED BY <1>4, <1>5 DEF UndoRaisesAtOnce, UndoRaisesHalfway, LastEntry

\* Undoing an exact entry brings back the snapshot below it.
LEMMA UndoExact ==
    ASSUME IInv, CanUndo(mgr), ~lossyUndone,
           \A i \in UndoneEntries : ~LossyAt(mgr.history[i].act, timeline[i])
    PROVE  /\ HalfUndone(mgr) = timeline[mgr.pointer]
           /\ UndoIsCoupled(mgr) =>
                 Revert(PriorEntry(mgr), HalfUndone(mgr)) = timeline[mgr.pointer - 1]
<1> DEFINE p == mgr.pointer
<1>1. p \in 1..Len(mgr.history) /\ p \in UndoneEntries
  BY DEF CanUndo, IInv, TypeOK, UndoneEntries, UndoIsCoupled
<1>2. ASSUME NEW i \in UndoneEntries, i \in 1..Len(mgr.history)
      PROVE  Revert(mgr.history[i], timeline[i + 1]) = timeline[i]
  <2>1. /\ Replays(mgr.history[i], timeline[i], timeline[i + 1])
        /\ timeline[i] \in GameStates
        /\ mgr.history[i].act \in StateActionSet
    BY <1>2, EntryAt DEF EntryOK
  <2>2. ~LossyAt(mgr.history[i].act, timeline[i])
    BY <1>2
  <2> QED BY <2>1, <2>2, RevertApply DEF Replays
<1>3. HalfUndone(mgr) = timeline[p]
  BY <1>1, <1>2 DEF HalfUndone, LastEntry, IInv, ExactHistory
<1>4. ASSUME UndoIsCoupled(mgr)
      PROVE  Revert(PriorEntry(mgr), HalfUndone(mgr)) = timeline[p - 1]
  <2>1. /\ p - 1 \in 1..Len(mgr.history) /\ (p - 1) + 1 = p
        /\ p - 1 \in UndoneEntries
    BY <1>1, <1>4 DEF UndoIsCoupled, UndoneEntries
  <2> QED BY <1>2, <1>3, <2>1 DEF PriorEntry
<1> QED BY <1>3, <1>4

LEMMA UndoIInv ==
    ASSUME IInv, Undo
    PROVE  IInv'
<1> DEFINE p == mgr.pointer
           half == HalfUndone(mgr)
           t == Revert(PriorEntry(mgr), half)
<1>1. /\ CanUndo(mgr) /\ timeline' = timeline
      /\ p \in 1..Len(mgr.history)
      /\ mgr = [state |-> mgr.state, history |-> mgr.history, pointer |-> p]
  BY DEF Undo, CanUndo, IInv, TypeOK
<1>2. \E n \in 0..Len(mgr.history), s \in GameStates :
         /\ mgr' = [state |-> s, history |-> mgr.history, pointer |-> n]
         /\ OnBoard(s) = OnBoard(timeline[n + 1])
         /\ ~lossyUndone' => s = timeline[n + 1]
  <2>0. /\ ~UndoRaisesAtOnce(mgr) /\ ~UndoRaisesHalfway(mgr)
        /\ half \in GameStates
        /\ OnBoard(half) = OnBoard(timeline[p])
        /\ UndoIsCoupled(mgr) => t \in GameStates /\ OnBoard(t) = OnBoard(timeline[p - 1])
    BY <1>1, UndoReverts
  <2>1. ASSUME ~lossyUndone'
        PROVE  half = timeline[p] /\ (UndoIsCoupled(mgr) => t = timeline[p - 1])
    BY <1>1, <2>1, UndoExact DEF Undo
  <2>2. CASE UndoIsCoupled(mgr)
    <3>1. mgr' = [state |-> t, history |-> mgr.history, pointer |-> p - 2]
      BY <1>1, <2>0, <2>2 DEF Undo, Undone
    <3>2. p - 2 \in 0..Len(mgr.history) /\ (p - 2) + 1 = p - 1
      BY <1>1, <2>2 DEF UndoIsCoupled
    <3> HIDE DEF t, p
    <3> QED BY <2>0, <2>1, <2>2, <3>1, <3>2
  <2>3. CASE ~UndoIsCoupled(mgr)
    <3>1. mgr' = [state |-> half, history |-> mgr.history, pointer |-> p - 1]
      BY <1>1, <2>0, <2>3 DEF Undo, Undone
    <3>2. p - 1 \in 0..Len(mgr.history) /\ (p - 1) + 1 = p
      BY <1>1
    <3> HIDE DEF half, p
    <3> QED BY <2>0, <2>1, <3>1, <3>2
  <2> QED BY <2>2, <2>3
<1>3. PICK n \in 0..Len(mgr.history), s \in GameStates :
         /\ mgr' = [state |-> s, history |-> mgr.history, pointer |-> n]
         /\ OnBoard(s) = OnBoard(timeline[n + 1])
         /\ ~lossyUndone' => s = timeline[n + 1]
  BY <1>2
<1>4. /\ mgr'.state = s /\ mgr'.history = mgr.history /\ mgr'.pointer = n
      /\ mgr' = [state |-> mgr'.state, history |-> mgr'.history, pointer |-> mgr'.pointer]
  BY <1>3
<1>5. lossyUndone' \in BOOLEAN /\ (lossyUndone => lossyUndone')
  BY DEF Undo, IInv, TypeOK
<1>6. TypeOK'
  BY <1>1, <1>4, <1>5 DEF IInv, TypeOK
<1>7. BoardFollowsHistory'
  BY <1>1, <1>3, <1>4 DEF IInv, BoardFollowsHistory
<1>8. ExactHistory'
  BY <1>1, <1>3, <1>4, <1>5 DEF IInv, ExactHistory
<1> QED BY <1>6, <1>7, <1>8 DEF IInv

\* A redo that applies moves on to the snapshot above; its entry remembers anew.
LEMMA RedoIInv ==
    ASSUME IInv, Redo
    PROVE  IInv'
<1> DEFINE p == mgr.pointer
           H == mgr.history
           s == mgr.state
           a == NextEntry(mgr).act
           t == Apply(a, s)
           e == Entry(a, s)
<1>1. /\ timeline' = timeline /\ lossyUndone' = lossyUndone
      /\ p \in 0..Len(H) /\ p + 1 \in 1..Len(H) /\ s \in GameStates
      /\ H \in Seq(Range(H)) /\ DOMAIN H = 1..Len(H)
      /\ NextEntry(mgr) = H[p + 1]
      /\ timeline \in Seq(GameStates)
  BY DEF Redo, CanRedo, IInv, TypeOK, NextEntry
<1>2. CASE RedoRaises(mgr)
  <2>1. mgr' = mgr
    BY <1>2 DEF Redo, Redone
  <2> QED BY <1>1, <2>1 DEF IInv, TypeOK, BoardFollowsHistory, ExactHistory
<1>3. CASE ~RedoRaises(mgr)
  <2>1. CanApply(a, s)
    BY <1>3 DEF RedoRaises
  <2>2. /\ EntryOK(NextEntry(mgr)) /\ Fits(a, timeline[p + 1], timeline[(p + 1) + 1])
        /\ ~lossyUndone => Replays(NextEntry(mgr), timeline[p + 1], timeline[(p + 1) + 1])
        /\ timeline[p + 1] \in GameStates
    BY <1>1, EntryAt
  <2>3. a \in StateActionSet
    BY <2>2 DEF EntryOK
  <2>4. t \in GameStates /\ EntryOK(e) /\ Fits(a, s, t) /\ e.act = a
    BY <1>1, <2>1, <2>3, ApplyType, ApplyFits DEF EntryOK, Entry
  <2>5. /\ mgr'.state = t
        /\ mgr'.history = [H EXCEPT ![p + 1] = e]
        /\ mgr'.pointer = p + 1
        /\ mgr' = [state |-> mgr'.state, history |-> mgr'.history, pointer |-> mgr'.pointer]
    BY <1>3 DEF Redo, Redone
  <2>6. /\ DOMAIN mgr'.history = DOMAIN H
        /\ Len(mgr'.history) = Len(H)
        /\ mgr'.history \in Seq(Range(H) \cup {e})
        /\ mgr'.history[p + 1] = e
        /\ \A i \in DOMAIN H : i # p + 1 => mgr'.history[i] = H[i]
    <3> DEFINE S == Range(H) \cup {e}
    <3>1. H \in Seq(S) /\ e \in S BY <1>1
    <3>2. PICK k \in 1..Len(H) : k = p + 1 BY <1>1
    <3> HIDE DEF S, H, e, p
    <3> QED BY <1>1, <2>5, <3>1, <3>2 DEF S
  <2>7. ~lossyUndone => e = NextEntry(mgr) /\ s = timeline[p + 1] /\ t = timeline[(p + 1) + 1]
    BY <2>2 DEF IInv, ExactHistory, Replays
  <2>8. TypeOK'
    <3>1. mgr'.history \in Seq(Range(mgr'.history))
      BY <2>6, SeqRange
    <3>2. \A i \in DOMAIN mgr'.history : EntryOK(mgr'.history[i])
      BY <2>4, <2>6 DEF IInv, TypeOK
    <3> QED BY <1>1, <2>4, <2>5, <2>6, <3>1, <3>2 DEF IInv, TypeOK
  <2>9. BoardFollowsHistory'
    <3>1. \A i \in DOMAIN mgr'.history : mgr'.history[i].act = H[i].act
      BY <1>1, <2>4, <2>6
    <3>2. OnBoard(t) = OnBoard(timeline[(p + 1) + 1])
      BY <2>2, <2>4 DEF Fits, IInv, BoardFollowsHistory
    <3> QED BY <1>1, <2>5, <2>6, <3>1, <3>2 DEF IInv, BoardFollowsHistory
  <2>10. ExactHistory'
    <3>1. ~lossyUndone => \A i \in DOMAIN mgr'.history : mgr'.history[i] = H[i]
      BY <1>1, <2>6, <2>7
    <3> QED BY <1>1, <2>5, <2>6, <2>7, <3>1 DEF IInv, ExactHistory
  <2> QED BY <2>8, <2>9, <2>10 DEF IInv
<1> QED BY <1>2, <1>3

LEMMA ReplaceIInv ==
    ASSUME NEW s \in InitialStates, ReplaceState(s)
    PROVE  IInv'
<1>1. Init'
  BY DEF ReplaceState, Init
<1>2. Init' => IInv'
  BY InitIInv, PTL
<1> QED BY <1>1, <1>2

-----------------------------------------------------------------------------
(***************************************************************************)
(* The invariant is inductive.                                             *)
(***************************************************************************)
THEOREM Inductive == Spec => []IInv
<1>1. Init => IInv
  BY InitIInv
<1>2. IInv /\ [Next]_vars => IInv'
  <2>1. SUFFICES ASSUME IInv, [Next]_vars
                 PROVE  IInv'
    OBVIOUS
  <2>2. CASE \E a \in Actions : Execute(a)
    BY <2>1, <2>2, ExecuteIInv
  <2>3. CASE \E a \in Actions : ExecuteRaises(a)
    BY <2>1, <2>3, ExecuteRaisesIInv
  <2>4. CASE Undo
    BY <2>1, <2>4, UndoIInv
  <2>5. CASE Redo
    BY <2>1, <2>5, RedoIInv
  <2>6. CASE \E s \in InitialStates : ReplaceState(s)
    BY <2>6, ReplaceIInv
  <2>7. CASE UNCHANGED vars
    BY <2>1, <2>7 DEF vars, IInv, TypeOK, BoardFollowsHistory, ExactHistory
  <2> QED BY <2>1, <2>2, <2>3, <2>4, <2>5, <2>6, <2>7 DEF Next
<1> QED BY <1>1, <1>2, PTL DEF Spec

\* The manager always has its shape, for any actions and histories of any length.
THEOREM TypeCorrect == Spec => []TypeOK
  BY Inductive, PTL DEF IInv

(***************************************************************************)
(* undo and redo lose nothing and add nothing: while every undo is exact,  *)
(* the state is the one committed at this pointer.                         *)
(***************************************************************************)
THEOREM StateOnTimeline == Spec => []TimelineInv
<1>1. IInv => TimelineInv
  BY DEF IInv, ExactHistory, TimelineInv
<1> QED BY <1>1, Inductive, PTL

\* Every entry, redo tail included, remembers what it replaces in the timeline.
THEOREM HistoryReplays == Spec => []EntriesReplay
<1>1. IInv => EntriesReplay
  BY DEF IInv, ExactHistory, EntriesReplay, Replays
<1> QED BY <1>1, Inductive, PTL

\* Who is on the board follows the history, after exact and inexact undos alike.
THEOREM BoardReplays == Spec => []BoardFollowsHistory
  BY Inductive, PTL DEF IInv

(***************************************************************************)
(* No undo the manager offers raises: the half-reverted state that         *)
(* action_manager.py:117 could commit is unreachable, whatever the history.*)
(***************************************************************************)
THEOREM UndoTotal == Spec => []UndoNeverRaises
<1>1. IInv => UndoNeverRaises
  BY UndoReverts DEF UndoNeverRaises
<1> QED BY <1>1, Inductive, PTL

\* No redo the manager offers raises while every undo is exact.
THEOREM RedoTotal == Spec => []RedoNeverRaises
<1>1. IInv => RedoNeverRaises
  <2>1. SUFFICES ASSUME IInv, ~lossyUndone, CanRedo(mgr)
                 PROVE  ~RedoRaises(mgr)
    BY DEF RedoNeverRaises
  <2>2. mgr.pointer + 1 \in 1..Len(mgr.history)
    BY <2>1 DEF CanRedo, IInv, TypeOK
  <2>3. Replays(NextEntry(mgr), timeline[mgr.pointer + 1], timeline[mgr.pointer + 1 + 1])
    BY <2>1, <2>2, EntryAt DEF NextEntry
  <2> QED BY <2>1, <2>3 DEF RedoRaises, Replays, IInv, ExactHistory
<1> QED BY <1>1, Inductive, PTL

-----------------------------------------------------------------------------
(***************************************************************************)
(* Refinement: histories of which nothing inexact has been undone.         *)
(***************************************************************************)

\* Every step that undoes nothing inexact is a step of the timeline, or leaves it alone.
LEMMA StepSimulation ==
    ASSUME IInv, [Next]_vars, ~lossyUndone'
    PROVE  [Line!Next]_<<timeline, mgr.pointer + 1, mgr.state>>
<1>1. /\ mgr.pointer \in 0..Len(mgr.history)
      /\ Len(timeline) = Len(mgr.history) + 1
      /\ mgr = [state |-> mgr.state, history |-> mgr.history, pointer |-> mgr.pointer]
      /\ IInv
  BY DEF IInv, TypeOK
<1>2. CASE \E a \in Actions : Execute(a)
  <2>1. PICK a \in Actions : Execute(a) BY <1>2
  <2>2. mgr'.state = Apply(a, mgr.state) /\ mgr'.pointer = mgr.pointer + 1
    BY <2>1 DEF Execute, Executed
  <2>3. mgr'.state \in GameStates
    BY <1>1, <2>1, <2>2, ActionsAssumption, ApplyType DEF Execute, IInv, TypeOK
  <2>4. Line!Commit
    BY <2>1, <2>2, <2>3 DEF Execute, Line!Commit
  <2> QED BY <2>4 DEF Line!Next
<1>3. CASE \E a \in Actions : ExecuteRaises(a)
  <2>1. Line!AbandonFuture
    BY <1>3 DEF ExecuteRaises, Executed, Truncated, Line!AbandonFuture
  <2> QED BY <2>1 DEF Line!Next
<1>4. CASE Undo
  <2>1. /\ CanUndo(mgr) /\ timeline' = timeline /\ ~lossyUndone
        /\ \A i \in UndoneEntries : ~LossyAt(mgr.history[i].act, timeline[i])
    BY <1>4 DEF Undo
  <2>2. ~UndoRaisesAtOnce(mgr) /\ ~UndoRaisesHalfway(mgr)
    BY <1>1, <2>1, UndoReverts
  <2>3. /\ HalfUndone(mgr) = timeline[mgr.pointer]
        /\ UndoIsCoupled(mgr) =>
              Revert(PriorEntry(mgr), HalfUndone(mgr)) = timeline[mgr.pointer - 1]
    BY <1>1, <2>1, UndoExact
  <2>4. CASE UndoIsCoupled(mgr)
    <3>1. mgr'.pointer = mgr.pointer - 2 /\ mgr'.state = timeline[mgr.pointer - 1]
      BY <1>1, <1>4, <2>2, <2>3, <2>4 DEF Undo, Undone
    <3>2. mgr.pointer > 1 BY <2>4 DEF UndoIsCoupled
    <3>3. /\ mgr.pointer + 1 > 2
          /\ mgr'.pointer + 1 = (mgr.pointer + 1) - 2
          /\ mgr'.state = timeline[(mgr.pointer + 1) - 2]
      BY <1>1, <3>1, <3>2
    <3>4. Line!Back BY <2>1, <3>3 DEF Line!Back
    <3> QED BY <3>4 DEF Line!Next
  <2>5. CASE ~UndoIsCoupled(mgr)
    <3>1. mgr'.pointer = mgr.pointer - 1 /\ mgr'.state = timeline[mgr.pointer]
      BY <1>1, <1>4, <2>2, <2>3, <2>5 DEF Undo, Undone
    <3>2. /\ mgr.pointer + 1 > 1
          /\ mgr'.pointer + 1 = (mgr.pointer + 1) - 1
          /\ mgr'.state = timeline[(mgr.pointer + 1) - 1]
      BY <1>1, <2>1, <3>1 DEF CanUndo
    <3>3. Line!Back BY <2>1, <3>2 DEF Line!Back
    <3> QED BY <3>3 DEF Line!Next
  <2> QED BY <2>4, <2>5
<1>5. CASE Redo
  <2>1. mgr.pointer + 1 \in 1..Len(mgr.history) /\ timeline' = timeline
    BY <1>1, <1>5 DEF Redo, CanRedo
  <2>2. Replays(NextEntry(mgr), timeline[mgr.pointer + 1], timeline[(mgr.pointer + 1) + 1])
    BY <1>1, <1>5, <2>1, EntryAt DEF NextEntry, Redo
  <2>3. /\ mgr'.pointer = mgr.pointer + 1
        /\ mgr'.state = timeline[(mgr.pointer + 1) + 1]
    <3>1. mgr.state = timeline[mgr.pointer + 1]
      BY <1>1, <1>5 DEF IInv, ExactHistory, Redo
    <3> QED BY <1>1, <1>5, <2>2, <3>1 DEF Redo, Redone, RedoRaises, Replays
  <2>4. mgr.pointer + 1 < Len(timeline)
    BY <1>1, <2>1
  <2>5. Line!Forward BY <2>1, <2>3, <2>4 DEF Line!Forward
  <2> QED BY <2>5 DEF Line!Next
<1>6. CASE \E s \in InitialStates : ReplaceState(s)
  <2>1. Line!Reset
    BY <1>6 DEF ReplaceState, Manager, Line!Reset
  <2> QED BY <2>1 DEF Line!Next
<1>7. CASE UNCHANGED vars
  BY <1>7 DEF vars
<1> QED BY <1>2, <1>3, <1>4, <1>5, <1>6, <1>7 DEF Next

(***************************************************************************)
(* The manager is a timeline of snapshots for as long as nothing inexact   *)
(* is undone: action_manager.py implements undo and redo as its users      *)
(* understand them.                                                        *)
(***************************************************************************)
THEOREM Refinement == Spec => ImplementsTimeline
<1>1. Init => Line!Init
  BY DEF Init, Manager, Line!Init
<1>2. IInv /\ [Next]_vars => [Line!Next \/ lossyUndone']_(Line!vars)
  BY StepSimulation DEF Line!vars
<1> QED
  BY <1>1, <1>2, Inductive, PTL DEF Spec, ImplementsTimeline
=============================================================================
