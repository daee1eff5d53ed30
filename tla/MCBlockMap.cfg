SPECIFICATION Spec
CONSTANTS
    Threads = {t1, t2}
    NDIRECT = 1
    NINDIRECT1 = 2
    NBlocks = 24
    MAXOPBLOCKS = 12
    Offsets = {0, 9}
    Lengths = {6}
    TruncSizes = {0, 4, 12}
    BPB = 2
    MaxCalls = 3
    Nobody = Nobody
INVARIANTS
    MapInv
    WalkAgrees
    MapExact
    DurableConsistent
    ReservationHolds
SYMMETRY Symmetry
