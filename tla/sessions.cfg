SPECIFICATION Spec
CONSTANTS
    DL_WORKERS = 2
    IpAddrs <- MCIpAddrs
    NumPeers = 3
INVARIANTS
    TypeOK
    CounterAddsUp
    ConnectedPeersTracked
PROPERTIES
    CounterSettles
CHECK_DEADLOCK FALSE
