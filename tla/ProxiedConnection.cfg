\* A target that sends a short and a long block, an application that sends one
\* block and whose end may fail.
SPECIFICATION ProxyFairSpec
CONSTANTS
    Bytes <- ShortAndLong
    TargetData = 2
    DrainReads = 1
    BufSizes = {2}
    OrderedRecvQueueSize = 1
    MaxWrites = 1
    Faults = {"application", "client hole", "server hole"}
INVARIANTS
    ProxyTypeOK
    Authenticated
    OneDisconnect
    CancelledIsClosed
    ReadsInOrder
    EOFMeansAll
PROPERTIES
    EveryByteRead
    PromiseKept
    Released
CHECK_DEADLOCK FALSE
