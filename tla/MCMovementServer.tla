------------------------- MODULE MCMovementServer -------------------------
(***************************************************************************)
(* Small instances of MovementServer.  Five hexes: a line h1 h2 h3 h4 and  *)
(* h5 beside h2 and h3; h3 is rough (2 points to enter), so the shortest   *)
(* path from h1 to h4 costs 4 and nothing avoids h3.  Red's unit walks the *)
(* line step by step; blue and green may interrupt it on h2, blue on h3.   *)
(***************************************************************************)
EXTENDS MovementServer

CONSTANTS u1, u2, u3, red, blue, green, h1, h2, h3, h4, h5

MCNeighbours ==
    (h1 :> {h2}) @@ (h2 :> {h1, h3, h5}) @@ (h3 :> {h2, h4, h5}) @@ (h4 :> {h3})
      @@ (h5 :> {h2, h3})

MCStepCosts == [a \in Hexes |-> [b \in Hexes |-> IF b = h3 THEN 2 ELSE 1]]

MCBudgets == [u \in Units |-> IF u = u1 THEN 4 ELSE 2]

ShortBudgets == [u \in Units |-> IF u = u1 THEN 2 ELSE 1]

MCInterruptsAt ==
    [h \in Hexes |-> [f \in Factions |->
        CASE h = h2 /\ f = red -> <<blue, green>>
          [] h = h3 /\ f = red -> <<blue>>
          [] h = h3 /\ f = blue -> <<red>>
          [] OTHER -> <<>>]]

MCRoutineActions ==
    ("move_phase" :> {"MoveUnit", "NextPhase"}) @@ ("rest_phase" :> {"NextPhase"})

MCSchedule ==
    << [routine_arc_id |-> "move_phase", faction |-> red, phase |-> "Movement", max_actions |-> 2],
       [routine_arc_id |-> "move_phase", faction |-> blue, phase |-> "Movement", max_actions |-> 1],
       [routine_arc_id |-> "rest_phase", faction |-> green, phase |-> "Rest", max_actions |-> 1] >>

EmptyDict == [x \in {} |-> 0]

\* A title that does not fight.
NoArcs == EmptyDict
NoOwner(key, s) == None
NoGuard(guard, ctx) == FALSE
NoEffect(effect, ctx) == <<>>
NeverRaises(effect, ctx) == FALSE
NoRetreat(s, u) == 0
NoHook(s) == <<>>
NewUnit(f, h) ==
    [faction |-> f, position |-> h, active |-> TRUE, stack_index |-> 0,
     attributes |-> EmptyDict]

Board(placed) ==
    [units |-> [u \in Units |-> IF u \in DOMAIN placed THEN placed[u] ELSE None],
     turn |-> [current_faction |-> red, current_phase |-> "Movement",
               phase_actions_remaining |-> 2, schedule_index |-> 0, global_tick |-> 0],
     engine |-> [cursor |-> None, movement_arc |-> None],
     session |-> EmptyDict, rng_log |-> <<>>]

MCScenario == Board((u1 :> NewUnit(red, h1)) @@ (u2 :> NewUnit(blue, h5)))
MCSnapshots == {MCScenario}

\* Blue on h4, whose zone of control is h3.
ZocScenario == Board((u1 :> NewUnit(red, h1)) @@ (u2 :> NewUnit(blue, h4)))
ZocSnapshots == {ZocScenario}

\* A red unit on h3, which is full when a hex holds one unit.
CrowdedScenario == Board((u1 :> NewUnit(red, h1)) @@ (u2 :> NewUnit(red, h3)))
CrowdedSnapshots == {CrowdedScenario}

Spending == [kind |-> "SpendAction", amount |-> 1]
Adding == [kind |-> "AddUnit", unit_id |-> u3, faction |-> red, position |-> h3,
           stack_index |-> None, attributes |-> EmptyDict]
Deleting(u) == [kind |-> "DeleteUnit", unit_id |-> u]
Tagging == [kind |-> "PatchAttributes", unit_id |-> u1,
            patch |-> [values |-> EmptyDict, remove_keys |-> {}]]

Meddling == {Spending, Adding, Deleting(u1), Deleting(u2)}
Patching == {Tagging}
JustAdding == {Adding}
Nothing == {}
=============================================================================
