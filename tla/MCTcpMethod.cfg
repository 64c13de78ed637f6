\* Three descriptors, two addresses.
CONSTANTS
    a1 = a1
    a2 = a2
    Addr = {a1, a2}
    Fds = 3
    MaxLen = 2
    MaxRx = 3
    MaxTx = 2
SPECIFICATION Spec
SYMMETRY MCSymmetry
CHECK_DEADLOCK FALSE
INVARIANTS
    TypeOK
    RecvTakesTheStream
    OneOwnerEach
