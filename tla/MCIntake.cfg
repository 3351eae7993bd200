SPECIFICATION FairSpec
CONSTANTS
    Worlds <- SmallWorlds
    Peek = 3
    MaxMoves = 1
    MaxDenied = 1
    MaxMore = 2
CHECK_DEADLOCK FALSE
INVARIANTS
    ScanTakesOnce
    KindsAreJustified
    
    LinesAccountedFor
PROPERTIES
    IntakeEnds
