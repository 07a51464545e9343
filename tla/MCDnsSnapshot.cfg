SPECIFICATION DnsSpec
\* The platform alone: no session of the runtime is started.
CONSTANTS
    Policies = {"p", "q"}
    Initial = "p"
    MaxWorkers = 2
    MaxResolvers = 2
    MaxQueries = 3
    MaxSessions = 0
    MaxUpdates = 1
    Asked <- MCAsked
    Ports = {1, 2}
    RelayIds = 2
    Upstream = 2
    Plans = {"p", "q", "off"}
    FirstPlan = "off"
    ServersOf <- MCServersOf
    HostResolvers = {"h4", "h6"}
    Ipv6Resolvers = {"h6"}
    MaxPhysical = 2
    Backends = {"resolved", "resolvconf", "scutil", "windows", "missing"}
    MaxTries = 3
    MaxChanges = 1
INVARIANTS
    SnapshotBeforeChange
