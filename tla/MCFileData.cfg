SPECIFICATION Spec
CONSTANTS
    Threads = {t1, t2}
    BSIZE = 2
    MAXFILE_BLOCKS = 4
    Vals = {1, 2}
    Offsets = {0, 3, 4, 8, 9}
    Lengths = {1, 2, 3, 5, 6}
    TruncSizes = {0, 1, 4, 5, 9}
    MaxCalls = 3
    Nobody = Nobody
INVARIANTS
    DataInv
    ContentExact
    ReadExact
SYMMETRY Symmetry
CHECK_DEADLOCK FALSE
