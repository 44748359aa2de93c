\* A session from its opening to its end.
SPECIFICATION SftpSpec
CONSTANTS
    c1 = c1
    e1 = e1
    x1 = x1
    x2 = x2
    Calls <- MCCalls
    Edits <- MCEdits
    Transfers <- MCTransfers
    Disconnect = Disconnect
    None = None
    MAX = 1
    MaxCloses = 2
INVARIANTS
    ListedWatchersCancelled
PROPERTIES
    CallsReturn
    QueuedBeforeCloseIsDone
\* the session has ended and nobody is left
CHECK_DEADLOCK FALSE
