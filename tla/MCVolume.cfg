SPECIFICATION Spec
CONSTANTS
    U32Mod = 256
    MinSector = 8
    MaxSector = 16
    MaxCluster = 32
    MaxSecSz = 16
    MaxCalls = 2
    CallsCrashed = 1
    MaxCrashes = 2
    BootSectors <- MCBootSectors
    Layouts <- MCLayouts
INVARIANTS
    TypeOK
    LayoutSound
    ReadsWhatWasWritten
    TablesAgree
    NoDanglingInSector
    DropIsComplete
\* A panic, or a table that power left damaged, ends a behaviour.
CHECK_DEADLOCK FALSE
