SPECIFICATION Spec
CONSTANTS
    Threads = {t1, t2}
    Bufs = {c1, c2}
    Blocks = {1, 2, 3, 5}
    Vals = {0, 1}
    NBUCKET = 3
    MaxPins = 1
    MaxHeld = 2
    Level <- MCLevel
    Nobody = Nobody
    NoBuf = NoBuf
INVARIANTS
    CacheInv
    RefcntExact
    HolderSeesContent
    StuckOnlyInBget
SYMMETRY Symmetry
CHECK_DEADLOCK FALSE
