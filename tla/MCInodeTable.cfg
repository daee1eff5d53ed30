SPECIFICATION Spec
CONSTANTS
    Threads = {t1, t2, t3}
    NINODES = 2
    NINODE_INIT = 1
    MaxSlots = 4
    NGen = 2
    Nobody = Nobody
INVARIANTS
    TableInv
    RefExact
    ReferenceKeepsInode
    HolderSeesDisk
    FreeingNeverWaits
SYMMETRY Symmetry
