SPECIFICATION Spec
CONSTANTS
    c1 = c1
    c2 = c2
    c3 = c3
    c4 = c4
    f1 = f1
    f2 = f2
    t1 = t1
    t2 = t2
    FREE = FREE
    END = END
    ClusterSize = 2
    UsizeMax = 63
    Clusters <- MCClusters
    Bytes = {0, 1, 2}
    Files <- MCTwoFiles
    Dirs <- MCDir
    Threads <- MCTwo
    Assignments <- MCAnyOf
    Offsets = {0, 3}
    Writes <- MCPair
    Lengths = {4}
    OverflowChecks = FALSE
    CountKnown = TRUE
SYMMETRY Sym
INVARIANTS
    TypeOK
    ReadsToTheEnd
    ChainsPrivate
    HoldsWhatWasWritten
    ReadsLatest
    ShortOnlyWhenFull
