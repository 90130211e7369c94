\* Pings after one second of silence, a round trip of two seconds at most, a
\* timeout after five, room for one message, blocks from one end.
SPECIFICATION Spec
CONSTANTS
    PingInterval = 1
    TunnelRecvTimeoutSec = 4
    TunnelBlockTimeoutSec = 1
    HandshakeSec = 1
    MaxDelay = 1
    SendBuffer = 1
    Senders = {"client"}
INVARIANTS
    NoFalseAlarm
    DeafTunnelCloses
