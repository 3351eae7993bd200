SPECIFICATION Spec
CONSTANTS
    RuleSets <- FewRules
    Slots = {1, 2}
    ChunkCount = 2
    EagerRows = 2
    MaxImports = 2
    MaxEdits = 1
    MaxLosses = 1
CHECK_DEADLOCK FALSE
INVARIANTS
    EveryRuleOnce
PROPERTIES
    ResultIsComplete
