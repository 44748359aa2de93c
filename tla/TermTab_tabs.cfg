\* Two attempts, two tabs, one host.
SPECIFICATION TabSpec
CONSTANTS
    s1 = s1
    s2 = s2
    h1 = h1
    t1 = t1
    t2 = t2
    Sessions <- MCSessions
    Hosts <- MCHosts
    Tabs <- MCTabs
    Inputs <- MCInputs
    Hook = Hook
    Export = Export
    Disconnect = Disconnect
    None = None
    MaxInput = 1
    MaxReloads = 0
SYMMETRY Symmetric
INVARIANTS
    DeadTabHasNoSession
    NoOtherOrphans
    LiveTabIsLive
    DeadTabOffersReconnect
\* no tab and no session left
CHECK_DEADLOCK FALSE
