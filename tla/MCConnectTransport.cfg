SPECIFICATION ConnectSpec
CONSTANTS
    Attempts = 1
    InitialDelay = 1
    MaxDelay = 1
    Assignments = {a1, a2}
    NoAssignment = NoAssignment
    MaxSessions = 3
    Servers = {s1, s2}
INVARIANT TransportOutsideTunnel
