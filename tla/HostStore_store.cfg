\* Two hosts, one perhaps the copy of the other, a connection that re-stores a
\* lost secret, a file tab that saves its copy, one crash.
SPECIFICATION StoreSpec
CONSTANTS
    i1 = i1
    i2 = i2
    k1 = k1
    Ids <- MCIds
    Secrets <- MCSecrets
    Fields = {"password"}
    None = None
    Clients = {"connection", "tab"}
    MaxCrashes = 1
SYMMETRY SymmetricIds
INVARIANTS
    DiskMatches
    MarkersAreOwn
    MarkersHaveEntries
    NoOtherLeftovers
PROPERTIES
    BlankKeepsSecret
