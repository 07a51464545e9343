SPECIFICATION CommandSpec
CONSTANTS
    Attempts = 2
    InitialDelay = 1
    MaxDelay = 3
    Assignments = {a1, a2}
    NoAssignment = NoAssignment
    MaxSessions = 4
    Servers = {s1, s2}
    Slots = {c1, c2, c3}
    MaxConnections = 2
    Tasks = {t1, t2}
    Preflight = preflight
    Budget = 4
    QueryTimeout = 2
    MinTtl = 1
    MaxTtl = 2
    MaxHops = 2
    MaxServers = 2
    MaxAddresses = 3
    Callers = {k1, k2}
    Upstreams = {u1, u2}
    MaxRequests = 1
    MaxFiles = 2
INVARIANTS
    LoopAccounted
    HostReleased
    NothingOutlives
    CallsSound
    ProxySound
PROPERTIES
    FinalEndsAreFinal
    InterruptExits
    ForwardReturns
