------------------------------ MODULE MCDrafts ------------------------------
(***************************************************************************)
(* A small instance of ClientDrafts: the client of the red player, who has *)
(* one infantry unit with artillery behind it against a blue stack of two, *)
(* on the strip of module MCCombat.  The game opens in the red combat      *)
(* phase, in the blue one (whose attack may rout red), or in the red Move  *)
(* phase with a marker on the map.  No two red units share a hex.          *)
(***************************************************************************)
EXTENDS ClientDrafts

CONSTANTS r1, r2, b1, b2, red, blue, flag, Columns

HM == INSTANCE HexMath

MCHexes == (0..(Columns - 1)) \X (0..1)
Cube(h) == HM!Hex(h[1], h[2], -h[1] - h[2])
MCApart == [a \in MCHexes |-> [b \in MCHexes |-> HM!Distance(Cube(a), Cube(b))]]
MCNeighbours == [a \in MCHexes |-> {b \in MCHexes : MCApart[a][b] = 1}]
MCStepCosts == [a \in MCHexes |-> [b \in MCHexes |-> 1]]
MCSighted == MCHexes \X MCHexes
MCTerrainOf == [h \in MCHexes |-> "plain"]

MCReach == [u \in Units |-> IF u = r2 THEN 2 ELSE 1]
MCStepOne == [u \in Units |-> Empty]
MCBudgets == [u \in Units |-> 1]
NoInterrupts == [h \in Hexes |-> [f \in Factions |-> <<>>]]

MCRoutineActions ==
    ("move" :> {"MoveUnit", "NextPhase"}) @@ ("combat_phase" :> {"Attack", "NextPhase"})

Fights(f) == [routine_arc_id |-> "combat_phase", faction |-> f, phase |-> "Combat",
              max_actions |-> 2]
Marches(f) == [routine_arc_id |-> "move", faction |-> f, phase |-> "Move", max_actions |-> 1]

MCSchedule == <<Fights(red), Fights(blue), Marches(red), Marches(blue)>>

NewUnit(f, h, n, combat, morale) ==
    [faction |-> f, position |-> h, active |-> TRUE, stack_index |-> n,
     attributes |-> ("combat" :> combat) @@ ("morale" :> morale)]

\* The game at the beginning of a slot of the schedule.
At(n) ==
    [units |-> (r1 :> NewUnit(red, <<3, 0>>, 0, 2, 0)) @@ (r2 :> NewUnit(red, <<2, 0>>, 0, 2, 0))
                 @@ (b1 :> NewUnit(blue, <<4, 0>>, 0, 6, 0))
                 @@ (b2 :> NewUnit(blue, <<4, 0>>, 1, 2, 0)),
     turn |-> [current_faction |-> Slot(n).faction, current_phase |-> Slot(n).phase,
               phase_actions_remaining |-> Slot(n).max_actions, schedule_index |-> n,
               global_tick |-> 0],
     engine |-> [cursor |-> None, movement_arc |-> None],
     session |-> Empty, rng_log |-> <<>>]

MCScenario == At(0)

MCOpenings ==
    {[state |-> At(0), markers |-> Empty],
     [state |-> At(1), markers |-> Empty],
     [state |-> At(2), markers |-> flag :> <<1, 1>>]}

\* The hex of the blue stack, and hexes that a routed red unit may cross.
MCClicked == {<<4, 0>>, <<2, 1>>, <<1, 1>>, <<0, 1>>, <<1, 0>>}

\* The other side's attack, by both of its units.
MCAssaults ==
    {[attackers |-> <<b1, b2>>, defenders |-> <<r1>>, primary_attacker |-> b1,
      primary_defender |-> r1]}

\* Rows that spare, push back and rout the defender; a morale of 0 never passes.
MCDice == [roll: {1, 4, 6}, passed: {FALSE}]

Nothing == {}
=============================================================================
