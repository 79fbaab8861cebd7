------------------------------ MODULE Seating ------------------------------
(***************************************************************************)
(* What the server promises about factions, without messages, sockets and  *)
(* clients: a faction is free or held by one player, a player holds one    *)
(* faction, and a faction passes from one player to another only by being  *)
(* free in between.                                                        *)
(***************************************************************************)
CONSTANTS Players, Seats, Free

VARIABLE holder  \* who holds each seat

Init == holder = [f \in Seats |-> Free]

Take(p, f) ==
    /\ holder[f] = Free
    /\ \A g \in Seats : holder[g] # p
    /\ holder' = [holder EXCEPT ![f] = p]

Release(p) ==
    /\ \E f \in Seats : holder[f] = p
    /\ holder' = [f \in Seats |-> IF holder[f] = p THEN Free ELSE holder[f]]

Next == \E p \in Players : Release(p) \/ \E f \in Seats : Take(p, f)

Spec == Init /\ [][Next]_holder
============================================================================
