\* Two chunk files of three slots, a ring of one chunk.
CONSTANTS
    a = a
    b = b
    cfg = cfg
    Key = {a, b, cfg}
    Config = cfg
    Files = 2
    Slots = 3
    BUFF_QUEUE_SIZE = 1
    MaxChunks = 3
    InitFree <- MCInitFree
    InitSize = {0, 3}
    None = None
SPECIFICATION Spec
CHECK_DEADLOCK FALSE
INVARIANTS
    TypeOK
    
    RecordsWrongByTeardownOnly
    QuietStopIsSafe
PROPERTIES
    SpinEndsUnlessStuck
    StuckForEver
