SPECIFICATION Spec
CONSTANTS
    ann = ann  bob = bob  carl = carl  player = player  red = red  blue = blue  white = white
    None = None
    Users = {ann, bob}
    Names = {player}
    NameOf <- MCNameOf
    PrefOf <- MCPrefOf
    FactionList <- MCFactions
    MaxConns = 3
    MaxChanges = 0
INVARIANTS SeatsAgree IdentityAgrees ConnectedFlagIsCurrent
PROPERTY ImplementsSeating
CHECK_DEADLOCK FALSE
