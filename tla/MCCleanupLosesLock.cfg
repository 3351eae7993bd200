SPECIFICATION Spec
CONSTANTS
    Ingests = {i1}
    Compactions = {}
    Readers = {}
    Cleaners = {c1}
    Sources = {s1}
    Contents = {x}
    Merged = merged
    NoOne = NoOne
    Remote = {}
    Mortal = {}
    Lapsing = {c1}
CHECK_DEADLOCK FALSE
INVARIANTS
    CommittedNeverCleaned
