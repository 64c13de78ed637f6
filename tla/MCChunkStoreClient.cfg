CONSTANTS
    k1 = k1
    k2 = k2
    k3 = k3
    Key <- MCKey
    NumFiles = 1
    FSP_SIZE = 2
    MAX_CHUNK_FILE_SIZE = 6
    JunkSize <- MCJunkFull
    MaxPuts = 1
    MaxFree = 2
    Damaged = Damaged
    NoRecord = NoRecord
    Hole = Hole
    Idle = Idle
SYMMETRY Symmetry
SPECIFICATION Spec
INVARIANTS
    DamageStaysInChunkZero
    ClientInv
CONSTRAINT NotAstray
CHECK_DEADLOCK FALSE
