----------------------------- MODULE Engagement -----------------------------
(***************************************************************************)
(* What an engagement is, seen from the table: an attack by units that     *)
(* have not attacked in this phase; then whoever must retreat does so, or  *)
(* is disrupted, before anything else happens; then perhaps the offer of   *)
(* an advance, taken or declined; and only then the next attack or the end *)
(* of the phase.                                                           *)
(***************************************************************************)
CONSTANTS Fighters, Starts

VARIABLES stage, owing, fought

vars == <<stage, owing, fought>>

\* Where things stand at the start, and after a saved game is loaded.
Init == <<stage, owing, fought>> \in Starts

Load == <<stage, owing, fought>>' \in Starts

\* An attack ends in a gate, or in the routine, perhaps in that of the next phase.
Strike ==
    /\ stage = "routine"
    /\ owing' \in SUBSET Fighters
    /\ stage' \in (IF owing' = {} THEN {"routine", "advance"} ELSE {"retreat"})
    /\ \/ \E attackers \in (SUBSET (Fighters \ fought)) \ {{}} : fought' = fought \cup attackers
       \/ stage' = "routine" /\ fought' = {}

\* Some who owe a retreat have made it.
Yield ==
    /\ stage = "retreat"
    /\ owing' \in (SUBSET owing) \ {owing}
    /\ stage' \in (IF owing' = {} THEN {"routine", "advance"} ELSE {"retreat"})
    /\ UNCHANGED fought

\* The offer is taken or declined.
Answer ==
    /\ stage = "advance" /\ stage' = "routine"
    /\ UNCHANGED <<owing, fought>>

NextPhase ==
    /\ stage = "routine"
    /\ fought' = {}
    /\ UNCHANGED <<stage, owing>>

Next == Strike \/ Yield \/ Answer \/ NextPhase \/ Load

Spec == Init /\ [][Next]_vars
=============================================================================
