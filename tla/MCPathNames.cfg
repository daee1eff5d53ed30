SPECIFICATION Spec
CONSTANTS
    Letters = {"a", "b"}
    DIRSIZE = 3
    MaxPath = 5
    MaxDirents = 2
INVARIANTS
    PathInv
    DirectoryExact
    ShortNamesListed
