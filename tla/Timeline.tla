------------------------------ MODULE Timeline ------------------------------
(***************************************************************************)
(* What an undo/redo history promises its users, with no actions in sight: *)
(* a line of snapshots and a cursor on the current one.  Committing a new  *)
(* snapshot forgets those after the cursor; going back and forward moves   *)
(* the cursor and nothing else.                                            *)
(***************************************************************************)
EXTENDS Naturals, Sequences

CONSTANTS Snapshots,    \* the states that can be committed
          Initial       \* those a session can start from or be reset to

VARIABLES line,         \* the snapshots, oldest first
          here,         \* index of the current one
          current       \* the snapshot the user sees

vars == <<line, here, current>>

TypeOK ==
    /\ line \in Seq(Snapshots)
    /\ here \in 1..Len(line)

Init ==
    /\ \E s \in Initial : line = <<s>> /\ current = s
    /\ here = 1

Commit ==
    /\ current' \in Snapshots
    /\ line' = Append(SubSeq(line, 1, here), current')
    /\ here' = here + 1

\* A commit that fails still forgets what could have been redone.
AbandonFuture ==
    /\ line' = SubSeq(line, 1, here)
    /\ UNCHANGED <<here, current>>

\* Back by one snapshot, or by two when the last commit belongs to the one before.
Back ==
    \E n \in {1, 2} :
        /\ here > n
        /\ here' = here - n
        /\ current' = line[here - n]
        /\ UNCHANGED line

Forward ==
    /\ here < Len(line)
    /\ here' = here + 1
    /\ current' = line[here + 1]
    /\ UNCHANGED line

Reset ==
    \E s \in Initial :
        /\ line' = <<s>>
        /\ here' = 1
        /\ current' = s

Next == Commit \/ AbandonFuture \/ Back \/ Forward \/ Reset

Spec == Init /\ [][Next]_vars
=============================================================================
