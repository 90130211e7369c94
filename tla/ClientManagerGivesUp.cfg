\* Three endpoints, only the last one reachable.
SPECIFICATION FairSpec
CONSTANTS
    InitialEndpoints <- ThreeEndpoints
    TunnelNum = 1
    RetryFailed = FALSE
    Reachable = {"c"}
    MaxRemovals = 0
    MaxFlakes = 0
PROPERTIES
    PoolFills
CHECK_DEADLOCK FALSE
