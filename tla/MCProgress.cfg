SPECIFICATION FairSpec
CONSTANTS
    Ingests = {i1}
    Compactions = {k1}
    Readers = {r1}
    Cleaners = {c1, c2}
    Sources = {s1, s2}
    Contents = {x}
    Merged = merged
    NoOne = NoOne
    Remote = {}
    Mortal = {i1, c1}
    Lapsing = {i1}
CHECK_DEADLOCK FALSE
PROPERTIES
    TransactionEnds
    LockIsReleased
    AbandonedIsCleaned
