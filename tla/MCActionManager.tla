-------------------------- MODULE MCActionManager --------------------------
(***************************************************************************)
(* A small instance of ActionManager: two units on the board and one that  *)
(* can be added, two hexes, three factions (two of them interrupt a red    *)
(* mover on hex h2), and one action of every kind, with enough moves for   *)
(* stack indices to depend on the order of play.                           *)
(***************************************************************************)
EXTENDS ActionManager

CONSTANTS u1, u2, u3, red, blue, green, h1, h2, k, v, draw

MCInterruptsAt ==
    [h \in Hexes |-> [f \in Factions |->
        IF h = h2 /\ f = red THEN <<blue, green>> ELSE <<>>]]

EmptyDict == [x \in {} |-> v]
Sets(value) == [values |-> [x \in {k} |-> value], remove_keys |-> {}]
Clears == [values |-> EmptyDict, remove_keys |-> {k}]

NewUnit(f, h, n) ==
    [faction |-> f, position |-> h, active |-> TRUE, stack_index |-> n,
     attributes |-> EmptyDict]

Opening ==
    [units |-> [u \in Units |-> CASE u = u1 -> NewUnit(red, h1, 0)
                                  [] u = u2 -> NewUnit(blue, h2, 0)
                                  [] OTHER  -> None],
     turn |-> [current_faction |-> red, current_phase |-> "Movement",
               phase_actions_remaining |-> 2, schedule_index |-> 0, global_tick |-> 0],
     engine |-> [cursor |-> None, movement_arc |-> None],
     session |-> EmptyDict,
     rng_log |-> <<>>]

MCInitialStates == {Opening}

Flow == [unit_id |-> u1, path |-> <<h1, h2, h1>>, step_index |-> 1,
         moving_faction |-> red, budget_remaining |-> 1, retreat_fulfillment |-> FALSE,
         gate |-> AwaitingContinue, interrupt_queue |-> <<>>, saved_turn |-> None]

Move(u, a, b) == [kind |-> "MoveUnit", unit_id |-> u, from_hex |-> a, to_hex |-> b]
Spend == [kind |-> "SpendAction", amount |-> 1]
Pass(f) == [kind |-> "ResolvePass", responding_faction |-> f]
AddU3 == [kind |-> "AddUnit", unit_id |-> u3, faction |-> blue, position |-> h1,
          stack_index |-> None, attributes |-> EmptyDict]
Advance == [kind |-> "NextPhase", new_faction |-> blue, new_phase |-> "Movement",
            max_actions |-> 2, new_schedule_index |-> 1]
Kill == [kind |-> "Attack", attacker_ids |-> {u1}, attacker_id |-> u1,
         defender_ids |-> {u2}, outcome |-> "defender_destroyed", rng_entry |-> <<draw>>]
SetCursor(seg) == [kind |-> "SetArcCursor",
                   cursor |-> [arc_id |-> "movement", segment_id |-> seg, suspended |-> None]]

ExactActions ==
    {Move(u1, h1, h2), Move(u1, h2, h1), Move(u2, h2, h1), Move(u3, h1, h2), Spend, AddU3,
     Advance, Kill, Pass(blue), Pass(green), SetCursor("continue"),
     [kind |-> "ArcStep", flow |-> Flow],
     [kind |-> "WriteArc", payload |-> None],
     [kind |-> "SetTurnState", new_turn |-> [Opening.turn EXCEPT !.current_faction = green]],
     [kind |-> "PatchAttributes", unit_id |-> u3, patch |-> Sets(v)],
     [kind |-> "BucketPatch", patch |-> Sets(v)], [kind |-> "BucketPatch", patch |-> Clears]}

Deletion == [kind |-> "DeleteUnit", unit_id |-> u2]
Effects  == [kind |-> "CombatEffects", patches |-> [u \in {u1} |-> [x \in {k} |-> v]],
             deactivate |-> {u2}]

AllActions == ExactActions \cup {Deletion, Effects}

OnlyDeletions == {Kill, Deletion}
=============================================================================
