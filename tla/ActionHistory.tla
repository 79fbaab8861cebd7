--------------------------- MODULE ActionHistory ---------------------------
(***************************************************************************)
(* ActionManager as a data structure (src/hexengine/state/                 *)
(* action_manager.py): the committed state, the history of entries and the *)
(* pointer, as one record [state, history, pointer] and the functions that *)
(* its methods compute on it.  The modules of the server build their steps *)
(* from these functions; module ActionManager makes a machine of them.     *)
(***************************************************************************)
EXTENDS StateActions, SequencesExt

Manager(s) == [state |-> s, history |-> <<>>, pointer |-> 0]

\* Slip: the redo tail stays.
NotTruncated(m) == m

(***************************************************************************)
(* execute: the redo tail is cut off before the action is applied, so it   *)
(* is gone also when apply raises.                                         *)
(***************************************************************************)
Truncated(m) == [m EXCEPT !.history = SubSeq(@, 1, m.pointer)]

\* Slip: the entry remembers the state after the action.
ExecutedSavingLate(m, a) ==
    IF CanApply(a, m.state)
    THEN [state   |-> Apply(a, m.state),
          history |-> Append(SubSeq(m.history, 1, m.pointer), Entry(a, Apply(a, m.state))),
          pointer |-> m.pointer + 1]
    ELSE [m EXCEPT !.history = SubSeq(@, 1, m.pointer)]

Executed(m, a) ==
    IF CanApply(a, m.state)
    THEN [state   |-> Apply(a, m.state),
          history |-> Append(Truncated(m).history, Entry(a, m.state)),
          pointer |-> m.pointer + 1]
    ELSE Truncated(m)

(***************************************************************************)
(* A handler executes a list of actions and stops at the first that        *)
(* raises; what it executed before stays executed.                         *)
(***************************************************************************)
ExecutedAll(m, acts) ==
    FoldLeft(LAMBDA r, a : IF r.raised THEN r
                           ELSE [m |-> Executed(r.m, a), raised |-> ~CanApply(a, r.m.state)],
             [m |-> m, raised |-> FALSE], acts)

CanUndo(m) == m.pointer > 0
CanRedo(m) == m.pointer < Len(m.history)

\* The entry undo reverts first, and the state after that first revert.
LastEntry(m) == m.history[m.pointer]
HalfUndone(m) == Revert(LastEntry(m), m.state)

\* Undoing a SpendAction reverts the entry below it too, whatever that is.
UndoIsCoupled(m) == RevertsPrior(LastEntry(m)) /\ m.pointer > 1
PriorEntry(m) == m.history[m.pointer - 1]

UndoRaisesAtOnce(m) == ~CanRevert(LastEntry(m), m.state)
UndoRaisesHalfway(m) ==
    /\ ~UndoRaisesAtOnce(m)
    /\ UndoIsCoupled(m)
    /\ ~CanRevert(PriorEntry(m), HalfUndone(m))

\* Slip: the coupled undo moves the pointer once.
UndonePointerOnce(m) ==
    [m EXCEPT !.state = IF UndoIsCoupled(m) THEN Revert(PriorEntry(m), HalfUndone(m))
                        ELSE HalfUndone(m),
              !.pointer = @ - 1]

(***************************************************************************)
(* undo: when the second revert of a coupled pair raises, the pointer is   *)
(* put back but the first revert stays committed.                          *)
(***************************************************************************)
Undone(m) ==
    CASE UndoRaisesAtOnce(m)  -> m
      [] UndoRaisesHalfway(m) -> [m EXCEPT !.state = HalfUndone(m)]
      [] OTHER ->
           IF UndoIsCoupled(m)
           THEN [m EXCEPT !.state = Revert(PriorEntry(m), HalfUndone(m)),
                          !.pointer = @ - 2]
           ELSE [m EXCEPT !.state = HalfUndone(m), !.pointer = @ - 1]

\* redo: one entry, applied again (and so remembering anew what it replaces).
NextEntry(m) == m.history[m.pointer + 1]
RedoRaises(m) == ~CanApply(NextEntry(m).act, m.state)

Redone(m) ==
    IF RedoRaises(m) THEN m
    ELSE [state   |-> Apply(NextEntry(m).act, m.state),
          history |-> [m.history EXCEPT ![m.pointer + 1] =
                           Entry(NextEntry(m).act, m.state)],
          pointer |-> m.pointer + 1]
=============================================================================
