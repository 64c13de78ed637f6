\* Messages long enough for the low word of the count to wrap.
CONSTANTS
    B = 4
    Word = 32
    ByteBits = 2
    MaxLength = 35
    FileBuffer = 8
SPECIFICATION Spec
CHECK_DEADLOCK FALSE
INVARIANTS
    TypeOK
    DigestOfTheMessage
    NothingLostInTheBuffer
    FileDigestIsWhole
PROPERTIES
    PaddingEnds
