SPECIFICATION CombatSpec
CONSTANTS
    r1 = r1  r2 = r2  b1 = b1  b2 = b2  b3 = b3
    red = red  blue = blue
    Columns = 5
    None = None
    Units = {r1, r2, b1, b2, b3}
    Factions = {red, blue}
    Hexes <- MCHexes
    Phases = {"Move", "Combat"}
    Segments = {"routine", "retreat_open", "stepwise_open", "continue", "step_resolve", "interrupt", "interrupt_resolve", "attack", "classify", "retreat_gate", "retreat_or_disrupt_gate", "resolve", "advance_gate"}
    ArcIds = {"movement", "move", "combat_phase", "combat"}
    Keys = {"combat", "morale"}
    Values = {0, 1, 2, 3, 6}
    Draws = {"combined_attack"}
    InterruptsAt <- NoInterrupts
    Neighbours <- MCNeighbours
    StepCosts <- MCStepCosts
    Budgets <- MCBudgets
    ZocOn = TRUE
    MaxStack = 2
    RoutineActions <- MCRoutineActions
    Stepwise = {}
    MaxAutoSteps = 2
    OverlayArcs <- CombatArcs
    OverlayOwner <- CombatOwner
    OverlayPasses <- CombatPasses
    OverlayEffects <- CombatEffect
    OverlayRaises <- CombatRaises
    RetreatRemaining <- HexesRemaining
    AfterPhase <- ClearCombatState
    Apart <- MCApart
    Artillery = {r2}
    Reach <- MCReach
    StepOne <- MCStepOne
    Sighted <- MCSighted
    TerrainOf <- MCTerrainOf
    Assaults <- MCAssaults
    Dice <- MCDice
    Schedule <- MCSchedule
    Scenario <- CrowdedScenario
    Snapshots <- NoRequests
    PlainRequests <- NoRequests
    PatchRequests <- NoRequests
    MaxUndo = 0
    MaxTicks = 1
    MaxDebt = 0
    Presented <- KnownSegments
INVARIANTS StacksAreWithinLimit
CHECK_DEADLOCK FALSE
