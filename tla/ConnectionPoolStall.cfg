\* A server's pool in which a connection ends with a full recvQueue.
SPECIFICATION FairSpec
CONSTANTS
    ConnIDs = {c1, c2}
    Accepting = {TRUE}
    Incoming = {b1, b2}
    Outgoing = {}
    PoolQueueSize = 1
    RecvQueueSize = 1
    MaxCancels = 1
    MaxCloses = 0
    MayStop = FALSE
PROPERTIES
    EveryBlockReceived
CHECK_DEADLOCK FALSE
