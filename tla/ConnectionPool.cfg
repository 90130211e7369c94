\* The pool of a server and of a client: connections end, are closed and come
\* back under the same ID, and the pool stops.
SPECIFICATION Spec
CONSTANTS
    ConnIDs = {c1, c2}
    Accepting = {TRUE, FALSE}
    Incoming = {b1, b2}
    Outgoing = {s1}
    PoolQueueSize = 1
    RecvQueueSize = 1
    MaxCancels = 1
    MaxCloses = 1
    MayStop = TRUE
SYMMETRY Symmetry
INVARIANTS
    TypeOK
    LiveConnectionMapped
    NoBlockLost
CHECK_DEADLOCK FALSE
