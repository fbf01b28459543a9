SPECIFICATION Spec
CONSTANTS
    c1 = c1
    c2 = c2
    c3 = c3
    c4 = c4
    f1 = f1
    f2 = f2
    t1 = t1
    t2 = t2
    FREE = FREE
    END = END
    ClusterSize = 2
    UsizeMax = 63
    Clusters <- MCClusters
    Bytes = {0, 1, 2}
    Files <- MCOneFile
    Dirs <- MCNoDir
    Threads <- MCOne
    Assignments <- MCOneOf
    Offsets = {0, 1, 3}
    Writes <- MCWrites
    Lengths = {1}
    OverflowChecks = TRUE
    CountKnown = TRUE
INVARIANTS
    AdjustReturns
\* A panic is the end of a run.
CHECK_DEADLOCK FALSE
