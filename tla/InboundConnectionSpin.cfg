\* One block from the server, and an application whose end may fail.
SPECIFICATION FairSpec
CONSTANTS
    Incoming <- OneBlock
    BufSizes = {2}
    OrderedRecvQueueSize = 1
    MaxWrites = 0
PROPERTY
    ReaderStops
CHECK_DEADLOCK FALSE
