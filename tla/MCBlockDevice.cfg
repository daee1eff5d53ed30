SPECIFICATION FairSpec
CONSTANTS
    Threads = {t1, t2}
    NBlocks = 2
    NAsked = 3
    Vals = {0, 1}
    Nobody = Nobody
INVARIANTS
    TransfersHitTheirBlock
PROPERTIES
    CallReturns
CHECK_DEADLOCK FALSE
