CONSTANTS
    Overhead = 2
    MINSHIFT = 2
    MINALIGN = 2
    PAGESZ = 8
    INTBITS = 7
    SIZEBITS = 8
    NPages = 5
    MaxLive = 3
    Align = {0, 3, 4, 16}
    Size = {0, 1, 5, 12, 70}
SPECIFICATION Spec
INVARIANTS HeapPartition LiveFits
PROPERTY ReallocKeeps
