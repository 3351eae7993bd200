SPECIFICATION Spec
CONSTANTS
    Clients = {p, q}
    Fragile = {}
    Denied = {p}
    Workers = {w}
    GraceHolds = TRUE
INVARIANTS NoWorkerAfterCancel
