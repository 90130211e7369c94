\* A client's pool whose application closes a connection that still receives.
SPECIFICATION Spec
CONSTANTS
    ConnIDs = {c1, c2}
    Accepting = {FALSE}
    Incoming = {b1, b2}
    Outgoing = {s1}
    PoolQueueSize = 1
    RecvQueueSize = 1
    MaxCancels = 0
    MaxCloses = 1
    MayStop = FALSE
INVARIANTS
    NoSendOnClosed
CHECK_DEADLOCK FALSE
