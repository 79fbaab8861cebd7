----------------------------- MODULE TurnOrder -----------------------------
(***************************************************************************)
(* What the server promises about turns, without arcs, cursors and         *)
(* history: the factions take the slots of the schedule in order; in its   *)
(* slot a faction makes moves that cost one action each, and the slot ends *)
(* with its last action or when the faction says so.  While a move is      *)
(* under way others may be given the word, but no action is paid and no    *)
(* slot ends before the faction of the slot has it back.                   *)
(***************************************************************************)
EXTENDS Integers, Sequences

CONSTANTS Slots,    \* a sequence of records with a faction and max_actions
          Players,  \* the factions
          Starts    \* the pairs <<slot, actions left>> a game may start from

VARIABLES slot,     \* index of the current slot, from 0
          left,     \* actions left in it
          moving,   \* is a move under way
          actor     \* the faction that has the word

turn == <<slot, left, moving, actor>>

HolderOf(n) == Slots[n + 1].faction
Following(n) == (n + 1) % Len(Slots)

Start(n, actions) ==
    /\ slot = n
    /\ left = actions
    /\ moving = FALSE
    /\ actor = HolderOf(n)

Init == \E start \in Starts : Start(start[1], start[2])

StartSlot(n) ==
    /\ slot' = n
    /\ left' = Slots[n + 1].max_actions
    /\ moving' = FALSE
    /\ actor' = HolderOf(n)

BeginMove ==
    /\ ~moving
    /\ actor = HolderOf(slot)
    /\ moving' = TRUE
    /\ actor' \in Players
    /\ UNCHANGED <<slot, left>>

PassTheWord ==
    /\ moving
    /\ actor' \in Players
    /\ UNCHANGED <<slot, left, moving>>

\* A move is over (also one that never was under way): it costs one action.
PayForMove ==
    /\ actor = HolderOf(slot)
    /\ IF left > 1
       THEN /\ left' = left - 1
            /\ moving' = FALSE
            /\ UNCHANGED <<slot, actor>>
       ELSE StartSlot(Following(slot))

\* An action spent on something else, by the faction of the slot.
Spend ==
    /\ actor = HolderOf(slot)
    /\ left' \in Int
    /\ left' < left
    /\ UNCHANGED <<slot, moving, actor>>

EndSlot ==
    /\ ~moving
    /\ actor = HolderOf(slot)
    /\ StartSlot(Following(slot))

Restart ==
    \E start \in Starts :
        /\ slot' = start[1]
        /\ left' = start[2]
        /\ moving' = FALSE
        /\ actor' = HolderOf(start[1])

Next == BeginMove \/ PassTheWord \/ PayForMove \/ Spend \/ EndSlot \/ Restart

Spec == Init /\ [][Next]_turn
=============================================================================
