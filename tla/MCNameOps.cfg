SPECIFICATION Spec
CONSTANTS
    Names = {a, b}
    NInodes = 3
    NSlots = 4
    NFILE_INIT = 1
    MaxOpen = 2
    MaxDepth = 2
    Calls = {"rmdir", "truncate", "crash", "getattr", "access", "chmod", "opendir", "open", "create", "mkdir", "unlink", "readdir", "transfer", "release", "rename"}
    Kernel = TRUE
    MaxRef = 2
INVARIANTS
    NamesInv
    LinkCountExact
    OpenKeepsInode
    RefExact
    Reclaimed
PROPERTIES
    NamesAreATree
SYMMETRY Symmetry
