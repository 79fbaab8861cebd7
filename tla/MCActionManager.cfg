SPECIFICATION Spec
CONSTANTS
    u1 = u1  u2 = u2  u3 = u3
    red = red  blue = blue  green = green
    h1 = h1  h2 = h2  k = k  v = v  draw = draw
    None = None
    Units = {u1, u2, u3}
    Factions = {red, blue, green}
    Hexes = {h1, h2}
    Phases = {"Movement", "Combat"}
    Segments = {"continue"}
    ArcIds = {"movement"}
    Keys = {k}
    Values = {v}
    Draws = {draw}
    InterruptsAt <- MCInterruptsAt
    InitialStates <- MCInitialStates
    Actions <- AllActions
    MaxHistory = 3
INVARIANTS TimelineInv EntriesReplay UndoNeverRaises RedoNeverRaises BoardFollowsHistory
PROPERTY ImplementsTimeline
