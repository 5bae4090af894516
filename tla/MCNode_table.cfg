SPECIFICATION FairSpec
CONSTANTS
    i1 = i1
    i2 = i2
    o1 = o1
    p = p
    q = q
    Conn = {i1, i2, o1}
    Inbound = {i1, i2}
    Peer = {p, q}
    PeerOf <- Ends
    MaxConnections = 1
    StaleSecs = 0
    CanPanic = TRUE
INVARIANTS
    RoutedIsConnected
    PeersFileFresh
    CounterExact
PROPERTY GhostsPruned
