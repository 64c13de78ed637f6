CONSTANTS
    o1 = o1
    o2 = o2
    o3 = o3
    o4 = o4
    PER_LIST_SIZE = 2
    FREE_CHUNK_MAX = 2
    Offset <- MCOffset
    NULL = NULL
    Junk = Junk
    Unknown = Unknown
SYMMETRY Symmetry
SPECIFICATION Spec
INVARIANTS
    TypeOK
    PagesHoldTheStack
    OverrunMeansFreedTwice
PROPERTY
    ImplementsStack
CHECK_DEADLOCK FALSE
