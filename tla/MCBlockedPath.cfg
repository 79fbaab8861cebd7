SPECIFICATION Spec
CONSTANTS
    u1 = u1  u2 = u2  u3 = u3
    red = red  blue = blue  green = green
    h1 = h1  h2 = h2  h3 = h3  h4 = h4  h5 = h5
    None = None
    Units = {u1, u2, u3}
    Factions = {red, blue, green}
    Hexes = {h1, h2, h3, h4, h5}
    Phases = {"Movement", "Rest"}
    Segments = {"routine", "retreat_open", "stepwise_open", "continue", "step_resolve", "interrupt", "interrupt_resolve"}
    ArcIds = {"movement", "move_phase", "rest_phase"}
    Keys = {}
    Values = {}
    Draws = {}
    InterruptsAt <- MCInterruptsAt
    Neighbours <- MCNeighbours
    StepCosts <- MCStepCosts
    Budgets <- MCBudgets
    ZocOn = FALSE
    MaxStack = 1
    RoutineActions <- MCRoutineActions
    Stepwise = {u1}
    MaxAutoSteps = 4
    OverlayArcs <- NoArcs
    OverlayOwner <- NoOwner
    OverlayPasses <- NoGuard
    OverlayEffects <- NoEffect
    OverlayRaises <- NeverRaises
    RetreatRemaining <- NoRetreat
    AfterPhase <- NoHook
    Schedule <- MCSchedule
    Scenario <- CrowdedScenario
    Snapshots <- CrowdedSnapshots
    PlainRequests <- Nothing
    PatchRequests <- Nothing
    MaxUndo = 0
    MaxTicks = 2
    MaxDebt = 1
    Presented = {"routine", "retreat_open", "stepwise_open", "continue", "step_resolve", "interrupt", "interrupt_resolve"}
INVARIANT NextStepIsLegal
