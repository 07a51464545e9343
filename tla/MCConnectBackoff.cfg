SPECIFICATION ConnectSpec
CONSTANTS
    Attempts = 2
    InitialDelay = 1
    MaxDelay = 3
    Assignments = {a1, a2}
    NoAssignment = NoAssignment
    MaxSessions = 4
    Servers = {s1, s2}
PROPERTY BackoffObserved
