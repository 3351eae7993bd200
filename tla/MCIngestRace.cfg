SPECIFICATION Spec
CONSTANTS
    Ingests = {i1, i2, i3}
    Compactions = {}
    Readers = {}
    Cleaners = {c1}
    Sources = {s1}
    Contents = {x, y}
    Merged = merged
    NoOne = NoOne
    Remote = {s1}
    Mortal = {i1, s1}
    Lapsing = {}
CHECK_DEADLOCK FALSE
SYMMETRY IngestSymmetry
INVARIANTS
    OneImportPerContent
    CatalogMatchesLedger
    NoWorkerBeneathCleanup
    CleanedIsEmpty
