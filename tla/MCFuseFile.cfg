\* Two names, two files and two handles, blocks of two bytes.
CONSTANTS
    n1 = n1
    n2 = n2
    f1 = f1
    f2 = f2
    h1 = h1
    h2 = h2
    a = a
    b = b
    Name = {n1, n2}
    File = {f1, f2}
    Fh = {h1, h2}
    Fill = {a, b}
    Nul = Nul
    g_block_size = 2
    Blocks = 2
    Chunks = 3
    MaxFree = 2
    MaxOps = 4
    MaxFaults = 2
    InitSize = {1}
    Extent <- MCExtent
    NewSize = {1, 3}
    JunkSize <- MCJunkSize
    ZeroHash = ZeroHash
    Garbage = Garbage
    None = None
SPECIFICATION Spec
SYMMETRY MCSymmetry
CHECK_DEADLOCK FALSE
INVARIANTS
    TypeOK
    WrittenIsRead
    SizeIsKept
    AlignedReadsCount
