SPECIFICATION FairSpec
CONSTANTS
    Threads = {t1, t2}
    Blocks = {b1, b2, b3}
    Vals = {0, 1}
    MAXOPBLOCKS = 2
    NLOG = 4
    LogSize = 4
    OpLimit = 1
    NotCached = NotCached
INVARIANTS
    QuiescentIsDurable
    LogInv
    SleeperHasWaker
    NoErrExit
PROPERTIES
    AtomicStore
    SleeperWakes
