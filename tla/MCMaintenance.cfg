SPECIFICATION Spec
CONSTANTS
    Ingests = {i1}
    Compactions = {k1, k2}
    Readers = {r1}
    Cleaners = {c1}
    Sources = {s1, s2}
    Contents = {x}
    Merged = merged
    NoOne = NoOne
    Remote = {k1}
    Mortal = {r1, k1, c1}
    Lapsing = {}
CHECK_DEADLOCK FALSE
INVARIANTS
    CatalogInv
    LeasedOnDisk
    NoRowTwice
PROPERTIES
    ImplementsAtomicImports
