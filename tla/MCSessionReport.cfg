SPECIFICATION Spec
CONSTANTS
    Interval = 2
    MaxMisses = 2
    Timeout = 4
    PeerDownAfter = 3
    Modes = {"traditional"}
INVARIANT FailureReported
