\* Three endpoints, one of them unreachable, tunnels dying while others are dialed.
SPECIFICATION FairSpec
CONSTANTS
    InitialEndpoints <- ThreeEndpoints
    TunnelNum = 4
    RetryFailed = FALSE
    Reachable = {"a", "c"}
    MaxRemovals = 4
    MaxFlakes = 4
INVARIANTS
    TypeOK
    NeverOverfull
    RefillUnderway
PROPERTIES
    PoolFills
    CancelStops
CHECK_DEADLOCK FALSE
