\* Five BlockIDs and a stream that goes on past the wrap.
SPECIFICATION FairSpec
CONSTANTS
    IDMod = 5
    MaxBlocks = 7
    Window = 4
    RecvQueueSize = 2
    OrderedRecvQueueSize = 1
INVARIANTS
    TypeOK
    InOrder
    NothingForgotten
PROPERTIES
    KilledOnlyOnHole
    ImplementsStream
    HoleResolved
    Delivery
CHECK_DEADLOCK FALSE
