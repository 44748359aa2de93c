\* Two files of one name edited in one session.
SPECIFICATION EditSpec
CONSTANTS
    x1 = x1
    x2 = x2
    e1 = e1
    e2 = e2
    l1 = l1
    l2 = l2
    r1 = r1
    r2 = r2
    Transfers <- MCTwo
    Edits <- MCEdits
    Locals <- MCCacheOnly
    Watched <- MCCacheOnly
    Remotes <- MCRemotes
    Initial <- MCNamesakes
    Cache <- MCSharedCache
    Own <- MCTwoOwn
    None = None
    MAX = 2
    MaxTime = 1
    MaxSaves = 0
    Sizes <- MCSizes
INVARIANTS
    EditsStayHome
\* all transfers done
CHECK_DEADLOCK FALSE
