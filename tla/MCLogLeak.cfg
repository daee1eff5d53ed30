SPECIFICATION LeakSpec
CONSTANTS
    Threads = {t1, t2}
    Blocks = {b1}
    Vals = {0}
    MAXOPBLOCKS = 2
    NLOG = 4
    LogSize = 4
    OpLimit = 1
    NotCached = NotCached
PROPERTY SleeperWakes
