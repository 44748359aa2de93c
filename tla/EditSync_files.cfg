\* One file, edited in place twice over, two transfers at a time, two saves.
SPECIFICATION EditSpec
CONSTANTS
    x1 = x1
    x2 = x2
    e1 = e1
    e2 = e2
    l1 = l1
    l2 = l2
    r1 = r1
    r2 = r2
    Transfers <- MCTwo
    Edits <- MCEdits
    Locals <- MCLocals
    Watched <- MCCacheOnly
    Remotes <- MCOneRemote
    Initial <- MCInitial
    Cache <- MCCache
    Own <- MCOwn
    None = None
    MAX = 2
    MaxTime = 2
    MaxSaves = 2
    Sizes <- MCSizes
SYMMETRY SymmetricFiles
INVARIANTS
    UndisturbedCopyIsFaithful
    EditNotLost
\* all transfers done
CHECK_DEADLOCK FALSE
