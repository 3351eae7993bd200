SPECIFICATION FairSpec
CONSTANTS
    e1 = e1
    e2 = e2
    k1 = k1
    w1 = w1
    w2 = w2
    u1 = u1
    Files <- AllFiles
    Evtx = {e1, e2}
    Known = {k1}
    Web = {w1, w2}
    Unknown = {u1}
    Scans <- MixedScans
    Budgets = {1, 2, 3}
CHECK_DEADLOCK FALSE
INVARIANTS
    RowsMatchStaged
    BudgetKept
    ReportComplete
PROPERTIES
    IngestEnds
