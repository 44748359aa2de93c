\* Two connections to two servers of one address, resets, one key change.
SPECIFICATION HostKeySpec
CONSTANTS
    c1 = c1
    c2 = c2
    k1 = k1
    k2 = k2
    Conns <- MCConns
    Servers <- MCServers
    Names <- MCNames
    Line <- MCLine
    Keys <- MCKeys
    None = None
    MaxChanges = 1
SYMMETRY Symmetric
INVARIANTS
    OneKeyPerName
    KeysRemembered
PROPERTIES
    KeyChangeNoticed
