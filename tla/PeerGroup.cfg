\* Two clients, two listening addresses, three tunnels.
SPECIFICATION FairSpec
CONSTANTS
    PeerIDs = {i1, i2}
    Tunnels = {t1, t2, t3}
    Listeners = {l1, l2}
    None = None
INVARIANTS
    TypeOK
    LivePeerMapped
    CountDownOnlyWhenEmpty
    EmptyPoolCounted
PROPERTIES
    EmptyPeerRemoved
CHECK_DEADLOCK FALSE
