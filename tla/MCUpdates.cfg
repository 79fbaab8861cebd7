SPECIFICATION FairSpec
CONSTANTS
    ann = ann  bob = bob  carl = carl  player = player  red = red  blue = blue  white = white
    None = None
    Users = {ann, bob, carl}
    Names = {player}
    NameOf <- MCNameOf
    PrefOf <- MCPrefOf
    FactionList <- MCFactions
    MaxConns = 2
    MaxChanges = 2
INVARIANT NoUpdateLost
PROPERTIES ViewAdvances GhostsLeave UpdatesArrive
CHECK_DEADLOCK FALSE
