--------------------------- MODULE ActionManager ---------------------------
(***************************************************************************)
(* The machine of src/hexengine/state/action_manager.py: any of a set of   *)
(* actions may be executed, undone and redone in any order, and the state  *)
(* may be replaced by a loaded snapshot.                                   *)
(*                                                                         *)
(* Two history variables serve the properties only: `timeline`, the state  *)
(* that execute committed at every pointer value, and `lossyUndone`, true  *)
(* once an undo has reverted an action whose revert is not its inverse.    *)
(***************************************************************************)
EXTENDS ActionHistory

CONSTANTS Actions,      \* the actions handlers may execute
          InitialStates,\* scenario and snapshot states
          MaxHistory    \* bound on the history's length

ASSUME ActionsAssumption == Actions \subseteq StateActionSet
ASSUME InitialAssumption == InitialStates \subseteq GameStates
ASSUME BoundAssumption == MaxHistory \in Nat

VARIABLES mgr, timeline, lossyUndone

vars == <<mgr, timeline, lossyUndone>>

Init ==
    \E s \in InitialStates :
        /\ mgr = Manager(s)
        /\ timeline = <<s>>
        /\ lossyUndone = FALSE

Execute(a) ==
    /\ mgr.pointer < MaxHistory
    /\ CanApply(a, mgr.state)
    /\ mgr' = Executed(mgr, a)
    /\ timeline' = Append(SubSeq(timeline, 1, mgr.pointer + 1), Apply(a, mgr.state))
    /\ UNCHANGED lossyUndone

ExecuteRaises(a) ==
    /\ ~CanApply(a, mgr.state)
    /\ mgr' = Executed(mgr, a)
    /\ timeline' = SubSeq(timeline, 1, mgr.pointer + 1)
    /\ UNCHANGED lossyUndone

\* The entries an undo that does not raise reverts.
UndoneEntries ==
    (IF UndoIsCoupled(mgr) THEN mgr.pointer - 1 ELSE mgr.pointer) .. mgr.pointer

Undo ==
    /\ CanUndo(mgr)
    /\ mgr' = Undone(mgr)
    /\ lossyUndone' = \/ lossyUndone
                      \/ \E i \in UndoneEntries : LossyAt(mgr.history[i].act, timeline[i])
    /\ UNCHANGED timeline

Redo ==
    /\ CanRedo(mgr)
    /\ mgr' = Redone(mgr)
    /\ UNCHANGED <<timeline, lossyUndone>>

\* Slip: the history outlives the state it was about.
ReplaceStateKeepingHistory(s) ==
    /\ mgr' = [mgr EXCEPT !.state = s]
    /\ timeline' = [timeline EXCEPT ![mgr.pointer + 1] = s]
    /\ lossyUndone' = FALSE

ReplaceState(s) ==
    /\ mgr' = Manager(s)
    /\ timeline' = <<s>>
    /\ lossyUndone' = FALSE

Next ==
    \/ \E a \in Actions : Execute(a) \/ ExecuteRaises(a)
    \/ Undo
    \/ Redo
    \/ \E s \in InitialStates : ReplaceState(s)

Spec == Init /\ [][Next]_vars

-----------------------------------------------------------------------------
EntryOK(e) ==
    /\ e = [act |-> e.act, saved |-> e.saved]
    /\ e.act \in StateActionSet
    /\ e.saved \in SavedValues(e.act)

\* The manager keeps its shape: a game state, a history of entries, and a pointer into it.
TypeOK ==
    /\ mgr = [state |-> mgr.state, history |-> mgr.history, pointer |-> mgr.pointer]
    /\ mgr.state \in GameStates
    /\ mgr.history \in Seq(Range(mgr.history))
    /\ mgr.pointer \in 0..Len(mgr.history)
    /\ timeline \in Seq(GameStates)
    /\ Len(timeline) = Len(mgr.history) + 1
    /\ \A i \in DOMAIN mgr.history : EntryOK(mgr.history[i])
    /\ lossyUndone \in BOOLEAN

(***************************************************************************)
(* Whatever sequence of execute, undo, redo and replace_state led here     *)
(* (coupled undos and refused executes among them), the current state is   *)
(* the very state that was committed at this pointer: undo and redo        *)
(* (action_manager.py:96-155) lose nothing and add nothing.                *)
(***************************************************************************)
TimelineInv == ~lossyUndone => mgr.state = timeline[mgr.pointer + 1]

(***************************************************************************)
(* Every entry, also those waiting to be redone, remembers what applying   *)
(* it at its own place in the timeline replaces.  This is what makes the   *)
(* saved fields that undo reads (actions.py) the right ones after any      *)
(* number of redos.                                                        *)
(***************************************************************************)
EntriesReplay ==
    ~lossyUndone =>
        \A i \in DOMAIN mgr.history :
            LET a == mgr.history[i].act
            IN  /\ CanApply(a, timeline[i])
                /\ mgr.history[i] = Entry(a, timeline[i])
                /\ timeline[i + 1] = Apply(a, timeline[i])

(***************************************************************************)
(* Which units are on the board follows the history whatever was undone:   *)
(* an entry brings in the unit it adds, which was not there before it, and *)
(* finds the units its revert will look up.  No revert of an earlier move  *)
(* or deletion can meet a unit that a later undo took away.                *)
(***************************************************************************)
Fits(a, s, t) ==
    /\ OnBoard(s) \cap Adds(a) = {}
    /\ OnBoard(t) = OnBoard(s) \cup Adds(a)
    /\ LooksUp(a) \subseteq OnBoard(s)

BoardFollowsHistory ==
    /\ OnBoard(mgr.state) = OnBoard(timeline[mgr.pointer + 1])
    /\ \A i \in DOMAIN mgr.history : Fits(mgr.history[i].act, timeline[i], timeline[i + 1])

(***************************************************************************)
(* An undo that the manager offers never raises (action_manager.py:117),   *)
(* so the half-reverted state of a coupled pair is never left behind: not  *)
(* even after inexact undos.                                               *)
(***************************************************************************)
UndoNeverRaises == CanUndo(mgr) => ~UndoRaisesAtOnce(mgr) /\ ~UndoRaisesHalfway(mgr)

(***************************************************************************)
(* A redo that the manager offers applies (action_manager.py:144), as long *)
(* as every undo so far was exact.                                         *)
(***************************************************************************)
RedoNeverRaises == ~lossyUndone /\ CanRedo(mgr) => ~RedoRaises(mgr)

(***************************************************************************)
(* The history is a timeline of snapshots: as long as no inexact action    *)
(* (CombatEffects, DeleteUnit of an inactive unit) has been undone, the    *)
(* manager implements module Timeline, whatever else was executed, undone  *)
(* and redone, and it does so again once the state has been replaced.      *)
(***************************************************************************)
Line == INSTANCE Timeline WITH
            Snapshots <- GameStates, Initial <- InitialStates,
            line <- timeline, here <- mgr.pointer + 1, current <- mgr.state

ImplementsTimeline == Line!Init /\ [][Line!Next \/ lossyUndone']_(Line!vars)

(***************************************************************************)
(* What the docstring of StateAction.revert says of every action: undo     *)
(* brings back the state that was current before the action.               *)
(***************************************************************************)
RevertReverses == mgr.state = timeline[mgr.pointer + 1]
=============================================================================
