SPECIFICATION Spec
CONSTANTS
    Threads = {t1, t2}
    NBMAP = 3
    BPB = 4
    BYTE = 2
    Size = 10
    NMeta = 3
    UINT = 64
    NoBlock = NoBlock
INVARIANTS
    AllocatedIsOwned
    AllocatorInv
PROPERTIES
    HintStaysGood
SYMMETRY Symmetry
