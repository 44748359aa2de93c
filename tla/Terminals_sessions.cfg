\* One SSH session, every way it is typed into and ended; or two serial tabs
\* that want the same device.
SPECIFICATION MCSpec
CONSTANTS
    s1 = s1
    h1 = h1
    a = a
    b = b
    t1 = t1
    t2 = t2
    Sessions <- MCSessions
    Hosts <- MCHosts
    Inputs <- MCInputs
    Hook = Hook
    Export = Export
    Disconnect = Disconnect
    None = None
    MaxInput = 4
    MaxReloads = 1
    Consoles <- MCConsoles
    Keys <- MCKeys
    Break = Break
    CloseCmd = CloseCmd
    Nobody = Nobody
    MaxTyped = 2
    MaxRestarts = 1
INVARIANTS
    InputConserved
    HookFirst
    ExitIsLast
    TypedIsSent
    LiveConsoleIsLive
PROPERTIES
    ImplementsTerminal
    DisconnectEndsSession
    ListedSessionsEnd
    ClosedPortIsFree
\* every session ended, every host deleted, every tab closed
CHECK_DEADLOCK FALSE
