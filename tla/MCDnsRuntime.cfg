SPECIFICATION DnsSpec
CONSTANTS
    Policies = {"p"}
    Initial = "p"
    MaxWorkers = 2
    MaxResolvers = 2
    MaxQueries = 3
    MaxSessions = 2
    MaxUpdates = 1
    Asked <- MCAsked
    Ports = {1, 2}
    RelayIds = 2
    Upstream = 2
    Plans = {"p", "q", "off"}
    FirstPlan = "off"
    ServersOf <- MCServersOf
    HostResolvers = {"h4", "h6"}
    Ipv6Resolvers = {"h6"}
    MaxPhysical = 2
    Backends = {"resolved", "resolvconf", "scutil", "windows", "missing"}
    MaxTries = 3
    MaxChanges = 1
INVARIANTS
    PoolSound
    SilenceMeansChange
    AnswersOwnQuestion
    PlatformSound
PROPERTIES
    DeactivationEnds
