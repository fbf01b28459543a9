SPECIFICATION FairSpec
CONSTANTS
    TotalClusters = 4
    U32Max = 15
    OverflowChecks = FALSE
    DiskHints <- MCHints
    CountDrift <- MCStale
    MaxRequest = 3
INVARIANTS
    ChainsDisjoint
    ChainsEnd
    NoLeak
    HintIsFree
    AllocFindsSpace
    WalksAgree
PROPERTIES
    CallsReturn
    ImplementsPool
