SPECIFICATION Spec
CONSTANTS
    TotalClusters = 4
    U32Max = 15
    OverflowChecks = TRUE
    DiskHints <- MCHints
    CountDrift <- MCExact
    MaxRequest = 3
INVARIANTS
    TypeOK
    CountExact
    AllOrNothing
    NoPanic
