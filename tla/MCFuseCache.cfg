\* One line of three ways, two blocks and the fingerprint of no block.
CONSTANTS
    a = a
    b = b
    t1 = t1
    t2 = t2
    Zero = Zero
    Hash = {a, b, Zero}
    d1 = d1
    d2 = d2
    Data = {d1, d2}
    LineOf <- MCLineOf
    Lines = 1
    Ways = 3
    g_block_size = 2
    Life = 2
    Thread = {t1, t2}
    MaxCalls = 6
    Nul = Nul
SPECIFICATION Spec
SYMMETRY MCSymmetry
CHECK_DEADLOCK FALSE
INVARIANTS
    TypeOK
    OneWayBesideWayZero
PROPERTIES
    HitIsWhatWasPut
