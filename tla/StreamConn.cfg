\* Two goroutines that write, one after the other and at once.
SPECIFICATION FairSpec
CONSTANTS
    Lengths <- TwoWriters
    HeaderSize = 1
    payloadSizeMask = 3
    MayCut = TRUE
    Unsealed = Unsealed
    Junk = Junk
INVARIANTS
    WholeBlocks
    WrittenCanBeOpened
PROPERTIES
    EveryBlockArrives
CHECK_DEADLOCK FALSE
