CONSTANTS
    s1 = s1
    s2 = s2
    k1 = k1
    k2 = k2
    k3 = k3
    e1 = e1
    e2 = e2
    null = null
    Servers <- MCServers
    Socks <- MCSocks
    Endpoints <- MCEndpoints
    DefaultEndpoint = e1
    Null = null
    MoveIntoEmptyOnly = TRUE
SPECIFICATION Spec
INVARIANTS OneOwnerPerSocket NoStaleHandle
