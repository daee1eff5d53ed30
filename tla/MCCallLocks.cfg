SPECIFICATION Spec
CONSTANTS
    Threads = {t1, t2, t3}
    NUnits = 3
    TransferRestarts = {0, 1}
    TruncateRestarts = {0}
    Kinds = {"getattr", "readdir", "create", "unlink", "rmdir", "rename", "rename_onto", "read", "write", "truncate"}
    Nobody = Nobody
INVARIANTS
    LocksInv
SYMMETRY Symmetry
