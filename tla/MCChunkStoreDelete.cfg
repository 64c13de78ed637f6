CONSTANTS
    k1 = k1
    k2 = k2
    k3 = k3
    Key <- MCKey
    NumFiles = 1
    FSP_SIZE = 2
    MAX_CHUNK_FILE_SIZE = 4
    JunkSize <- MCJunkFull
    MaxPuts = 1
    MaxFree = 1
    Damaged = Damaged
    NoRecord = NoRecord
    Hole = Hole
    Idle = Idle
SYMMETRY Symmetry
SPECIFICATION Spec
INVARIANT
    FreeChunksAreUnused
CHECK_DEADLOCK FALSE
