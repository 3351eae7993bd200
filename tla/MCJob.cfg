SPECIFICATION FairSpec
CONSTANTS
    Clients = {p, q}
    Fragile = {q}
    Denied = {p}
    Workers = {w}
    GraceHolds = TRUE
CHECK_DEADLOCK FALSE
INVARIANTS
    
    StatusTellsOutcome
    InterruptedIsDead
    FrozenIsReleased
PROPERTIES
    CancelIsFinal
    JobSettles
