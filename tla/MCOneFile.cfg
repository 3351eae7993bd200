SPECIFICATION FairSpec
CONSTANTS
    ReadSize = 2
    MaxLine = 3
    ChunkBytes = 3
    MaxBatchBytes = 2
    MaxRecord = 3
    Plans <- AllPlans
    MaxPartitions = 1
    MaxAttempts = 5
    MaxChanges = 1
    MaxErrors = 4
CHECK_DEADLOCK FALSE
INVARIANTS
    ReportIsFaithful
    OkMeansComplete
    HashMatchesRows
    ShardsBounded
    TextReadWhole
PROPERTIES
    StagingEnds
