SPECIFICATION Spec
CONSTANTS
    MinBlocks = 9
    NLOG = 2
    BPB = 8
    IPB = 2
    Ratio = 4
    UintRange = 65536
    Sizes = {9, 10, 11, 12, 15, 16, 17, 20, 24, 25}
    MaxBlocks = 32
INVARIANTS
    ServingIsSound
    FormatInv
CHECK_DEADLOCK FALSE
