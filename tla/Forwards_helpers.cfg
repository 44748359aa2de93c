\* Every kind of helper with one connection, two bytes each way.
SPECIFICATION ForwardsSpec
CONSTANTS
    MaxSend = 2
    Display = 0
    Files <- MCFiles
    Clients <- MCClients
    NoCookie = NoCookie
    Asks <- MCAsks
    Kinds <- MCTunnels
INVARIANTS
    BytesInOrder
    CompleteDeliversAll
    XServerSeesOwnCookie
    HandshakeTakesItsOwn
PROPERTIES
    BothClosedEndSplice
    OwnerEndStopsForwards
    ConnectionSettles
\* the helper and the connection have ended
CHECK_DEADLOCK FALSE
