SPECIFICATION FairDrafts
CONSTANTS
    r1 = r1  r2 = r2  b1 = b1  b2 = b2
    red = red  blue = blue
    Columns = 5
    None = None
    Units = {r1, r2, b1, b2}
    Factions = {red, blue}
    Hexes <- MCHexes
    Phases = {"Move", "Combat"}
    Segments = {"routine", "retreat_open", "stepwise_open", "continue", "step_resolve", "interrupt", "interrupt_resolve", "attack", "classify", "retreat_gate", "retreat_or_disrupt_gate", "resolve", "advance_gate"}
    ArcIds = {"movement", "move", "combat_phase", "combat"}
    Keys = {"combat", "morale"}
    Values = {0, 1, 2, 3, 6}
    Draws = {"combined_attack"}
    InterruptsAt <- NoInterrupts
    Neighbours <- MCNeighbours
    StepCosts <- MCStepCosts
    Budgets <- MCBudgets
    ZocOn = TRUE
    MaxStack = 2
    RoutineActions <- MCRoutineActions
    Stepwise = {}
    MaxAutoSteps = 2
    OverlayArcs <- CombatArcs
    OverlayOwner <- CombatOwner
    OverlayPasses <- CombatPasses
    OverlayEffects <- CombatEffect
    OverlayRaises <- CombatRaises
    RetreatRemaining <- HexesRemaining
    AfterPhase <- ClearCombatState
    Apart <- MCApart
    Artillery = {r2}
    Reach <- MCReach
    StepOne <- MCStepOne
    Sighted <- MCSighted
    TerrainOf <- MCTerrainOf
    Assaults <- MCAssaults
    Dice <- MCDice
    Schedule <- MCSchedule
    Scenario <- MCScenario
    Snapshots <- Nothing
    PlainRequests <- Nothing
    PatchRequests <- Nothing
    MaxUndo = 0
    MaxTicks = 1
    MaxDebt = 0
    Presented = {"routine", "attack", "retreat_gate", "retreat_or_disrupt_gate", "advance_gate", "continue", "interrupt"}
    flag = flag
    Markers = {flag}
    Me = red
    Openings <- MCOpenings
    MaxPending = 2
    MaxPath = 4
    Patient = TRUE
    Clicked <- MCClicked
INVARIANTS PlanPreviewIsCurrent OfferedIsAccepted
PROPERTY RetreatsAreWalked
\* The bound MaxTicks ends the game; everyone may then be done.
CHECK_DEADLOCK FALSE
