CONSTANTS
    a = a
    b = b
    c = c
    NUM_BUFFER_QUEUES = 2
    BUFF_QUEUE_SIZE = 2
    Key <- MCKey
    Route <- MCRouteAny
    MaxChunks = 4
    Garbage = Garbage
SPECIFICATION Spec
INVARIANT
    NeverWild
CHECK_DEADLOCK FALSE
