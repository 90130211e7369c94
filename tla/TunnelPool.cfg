\* Two blocks over two tunnels, one of which may take over, every queue of
\* one block.
SPECIFICATION FairSpec
CONSTANTS
    Blocks = {b1, b2}
    Tunnels = {t1, t2}
    SendQueueSize = 1
    RecvQueueSize = 1
    WireSize = 1
INVARIANTS
    TypeOK
    OnePlace
    NoGridlock
PROPERTIES
    ImplementsTransport
    EveryBlockSettled
    DeadTunnelRemoved
CHECK_DEADLOCK FALSE
