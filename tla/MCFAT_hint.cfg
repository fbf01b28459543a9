SPECIFICATION Spec
CONSTANTS
    TotalClusters = 3
    U32Max = 15
    OverflowChecks = TRUE
    DiskHints <- MCAllHints
    CountDrift <- MCExact
    MaxRequest = 2
INVARIANTS
    NoPanic
