SPECIFICATION Spec
CONSTANTS
    c1 = c1
    c2 = c2
    c3 = c3
    c4 = c4
    CountDrift <- MCExact
    U32Max = 7
    NONE = NONE
    MANGLED = MANGLED
    CLEAR = CLEAR
    OLD = OLD
    DOTS = DOTS
    ENTRIES = ENTRIES
    Names <- MCNames
    LONG_NAME_LEN = 2
    SHORT_FILE_NAME_LEN = 2
    SHORT_FILE_EXT_LEN = 1
    Uppercase <- MCUppercase
    Kinds <- MCKinds
    Clusters <- MCClusters
    SlotsPerCluster = 4
SYMMETRY Sym
INVARIANT
    DeleteStaysInCluster
\* A panic ends a behaviour.
CHECK_DEADLOCK FALSE
