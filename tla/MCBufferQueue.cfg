CONSTANTS
    a = a
    b = b
    c = c
    NUM_BUFFER_QUEUES = 2
    BUFF_QUEUE_SIZE = 2
    Key <- MCKey
    Route <- MCRoute
    MaxChunks = 4
    Garbage = Garbage
SPECIFICATION Spec
INVARIANTS
    TypeOK
    StoredInOrder
    NoSlotRace
    QueueInv
PROPERTY
    EverythingIsStored
CHECK_DEADLOCK FALSE
