\* The bridge through a jump host.
SPECIFICATION ForwardsSpec
CONSTANTS
    MaxSend = 2
    Display = 0
    Files <- MCFiles
    Clients <- MCClients
    NoCookie = NoCookie
    Asks <- MCAsks
    Kinds <- MCJump
PROPERTIES
    BridgeEndsWithSession
\* the bridge has ended
CHECK_DEADLOCK FALSE
