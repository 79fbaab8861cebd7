------------------------------ MODULE MCCombat ------------------------------
(***************************************************************************)
(* A small instance of CombatServer: a strip of two rows of hexes, on it   *)
(* one red infantry unit with artillery behind it against a blue stack of  *)
(* two; in the crowded scenario a third stands behind the stack.           *)
(*                                                                         *)
(* Keys and Values are only those of the scenario, for the assumption on   *)
(* it; the bucket's own keys hold other values.                            *)
(***************************************************************************)
EXTENDS CombatServer

CONSTANTS r1, r2, b1, b2, b3, red, blue, Columns

HM == INSTANCE HexMath

MCHexes == (0..(Columns - 1)) \X (0..1)
Cube(h) == HM!Hex(h[1], h[2], -h[1] - h[2])
MCApart == [a \in MCHexes |-> [b \in MCHexes |-> HM!Distance(Cube(a), Cube(b))]]
MCNeighbours == [a \in MCHexes |-> {b \in MCHexes : MCApart[a][b] = 1}]
MCStepCosts == [a \in MCHexes |-> [b \in MCHexes |-> 1]]
MCSighted == MCHexes \X MCHexes
MCTerrainOf == [h \in MCHexes |-> IF h = <<0, 0>> THEN "hills" ELSE "plain"]

MCReach == [u \in Units |-> IF u = r2 THEN 2 ELSE 1]
MCStepOne == [u \in Units |-> Empty]
MCBudgets == [u \in Units |-> 1]
NoInterrupts == [h \in Hexes |-> [f \in Factions |-> <<>>]]

MCRoutineActions ==
    ("move" :> {"MoveUnit", "NextPhase"}) @@ ("combat_phase" :> {"Attack", "NextPhase"})

Fights(f) == [routine_arc_id |-> "combat_phase", faction |-> f, phase |-> "Combat",
              max_actions |-> 2]
Marches(f) == [routine_arc_id |-> "move", faction |-> f, phase |-> "Move", max_actions |-> 1]

MCSchedule == <<Fights(red), Fights(blue), Marches(red), Marches(blue)>>

NewUnit(f, h, n, combat, morale) ==
    [faction |-> f, position |-> h, active |-> TRUE, stack_index |-> n,
     attributes |-> ("combat" :> combat) @@ ("morale" :> morale)]

MCScenario ==
    [units |-> (r1 :> NewUnit(red, <<1, 0>>, 0, 2, 3)) @@ (r2 :> NewUnit(red, <<0, 0>>, 0, 2, 0))
                 @@ (b1 :> NewUnit(blue, <<2, 0>>, 0, 1, 3))
                 @@ (b2 :> NewUnit(blue, <<2, 0>>, 1, 1, 6)),
     turn |-> [current_faction |-> red, current_phase |-> "Combat",
               phase_actions_remaining |-> 2, schedule_index |-> 0, global_tick |-> 0],
     engine |-> [cursor |-> None, movement_arc |-> None],
     session |-> Empty, rng_log |-> <<>>]

\* A third blue unit next to the stack.
CrowdedScenario ==
    [MCScenario EXCEPT !.units = [u \in Units |-> IF u = b3 THEN NewUnit(blue, <<3, 0>>, 0, 1, 3)
                                                 ELSE MCScenario.units[u]]]

\* Saved games hold the cursor of their phase.
MCSnapshots == {BeginRoutineSlot(Runner!Ran(Manager(MCScenario))).m.state}

\* Each side against the other: valid parties, and defenders one is missing from.
Parties(attackers, defenders) ==
    {<<<<attackers[1]>>, defenders>>, <<<<attackers[2]>>, defenders>>, <<attackers, defenders>>,
     <<<<attackers[1]>>, <<defenders[1]>>>>}

MCAssaults ==
    {[attackers |-> p[1], defenders |-> p[2], primary_attacker |-> p[1][1],
      primary_defender |-> p[2][1]] :
        p \in Parties(<<r1, r2>>, <<b1, b2>>) \cup Parties(<<b1, b2>>, <<r1, r2>>)}

\* Three rows of the results table, in the last both outcomes of the morale check.
MCDice == {[roll |-> 1, passed |-> FALSE], [roll |-> 3, passed |-> TRUE]}
             \cup [roll: {6}, passed: BOOLEAN]

NoRequests == {}
=============================================================================
