CONSTANTS
    None = None
    ProbeArea <- MCArea
    ProbeStarts <- MCStarts
    BlockArea <- MCBlocks
    MaxBlocks = 2
    MaxCells = 5
    Places <- MCPlaces
    FirstFiles <- MCFirstFiles
    Rows <- MCRows
    MaxRows = 7
    Tokens <- MCTokens
    TypeAttributes <- MCTypeAttributes
    FirstTurn <- MCFirstTurn
    Sessions <- MCSessions
SPECIFICATION BoardSpec
INVARIANTS OutlineCloses MadeUpIdsAreUnique
CHECK_DEADLOCK FALSE
