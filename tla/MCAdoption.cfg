SPECIFICATION Spec
CONSTANTS
    l1 = l1
    l2 = l2
    l3 = l3
    s1 = s1
    s2 = s2
    s3 = s3
    Ingests = {i1, i2}
    Compactions = {k1, k2}
    LegacyFiles = {l1, l2, l3}
    Sources = {s1, s2, s3}
    Nameless = {s3}
    Mortal = {i1, k1}
    Provenance <- ProvenanceOfThree
CHECK_DEADLOCK FALSE
INVARIANTS
    LedgerBeforeImport
    ScannedOnDisk
PROPERTIES
    ImportsOnce
