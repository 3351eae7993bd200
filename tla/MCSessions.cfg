SPECIFICATION SessionsSpec
CONSTANTS
    Ingests = {i1}
    Compactions = {k1}
    Readers = {d1, d2, q1, q2}
    Cleaners = {c1}
    Sources = {s1, s2}
    Contents = {x}
    Merged = merged
    NoOne = NoOne
    Remote = {}
    Mortal = {h1}
    Lapsing = {}
    Handles = {h1}
    Sessions = {d1, d2}
    Streams = {q1, q2}
CHECK_DEADLOCK FALSE
INVARIANTS
    ClosedLast
    QueriesSeeWholeCase

    
