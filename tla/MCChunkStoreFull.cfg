CONSTANTS
    k1 = k1
    k2 = k2
    k3 = k3
    Key <- MCKey3
    NumFiles = 1
    FSP_SIZE = 2
    MAX_CHUNK_FILE_SIZE = 4
    JunkSize <- MCJunkZero
    MaxPuts = 1
    MaxFree = 1
    Damaged = Damaged
    NoRecord = NoRecord
    Hole = Hole
    Idle = Idle
SYMMETRY Symmetry3
SPECIFICATION Spec
INVARIANT
    FreeChunkIsUsable
CHECK_DEADLOCK FALSE
