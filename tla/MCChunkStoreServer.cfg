CONSTANTS
    k1 = k1
    k2 = k2
    k3 = k3
    Key <- MCKey
    NumFiles = 2
    FSP_SIZE = 2
    MAX_CHUNK_FILE_SIZE = 4
    JunkSize <- MCJunkZero
    MaxPuts = 2
    MaxFree = 0
    Damaged = Damaged
    NoRecord = NoRecord
    Hole = Hole
    Idle = Idle
SYMMETRY Symmetry
SPECIFICATION ServerSpec
INVARIANTS
    TypeOK
    RecordsPointAtData
    ServerInv
    NoSpaceWasted
    FilesFillEvenly
PROPERTIES
    WrittenOnce
    ImplementsDedup
CHECK_DEADLOCK FALSE
