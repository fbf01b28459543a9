SPECIFICATION Spec
CONSTANTS
    b1 = b1
    b2 = b2
    b3 = b3
    x1 = x1
    x2 = x2
    x3 = x3
    h1 = h1
    h2 = h2
    h3 = h3
    NoBuffer = NoBuffer
    Blocks <- MCBlocks
    NumParts = 2
    Values = {0, 1}
    Buffers <- MCBuffers
    Handles <- MCThree
    CacheSize = 2
SYMMETRY Sym
INVARIANTS
    TypeOK
    OneBufferPerBlock
    HeldIsCached
    NoLostWrite
    WriteBackInv
    RunsOutOnlyWhenPinned
PROPERTIES
    ImplementsStore
