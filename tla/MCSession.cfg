SPECIFICATION FairSpec
CONSTANTS
    Interval = 2
    MaxMisses = 3
    Timeout = 6
    PeerDownAfter = 5
    Modes = {"traditional", "sr_monitor", "sr_quiet"}
INVARIANTS
    TypeOK
    ClosedOnce
    WorkersInsideActivation
PROPERTIES
    NoEarlyTimeout
    ImplementsContract
    StopsEventually
    SilentPeerEnds
