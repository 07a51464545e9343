SPECIFICATION ManagedSpec
CONSTANTS
    a = a
    b = b
    d1 = d1
    d2 = d2
    Lookers = {a, b}
    LookupDomains = {d1, d2}
    Ttl = 0
    PerServer = 1
    Endpoints = 2
    MaxInodes = 3
    MaxClock = 1
    MaxLookups = 3
    AuthAttempts = 3
    r1 = r1
    Requests = {r1, r2}
    Keepalives = {r1}
    Shells = {o1, o2}
    MaxRuns = 3
    MaxTokens = 3
    EntryLimit = 3
    IdSpace = 9
    Counters = {8}
    SrIds = {0, 1}
    LineIds = {a, b}
    Latencies = {1, 2}
    MaxServers = 2
    MaxGroupCount = 2
    MaxEntries = 4
    \* One process at a time saves or deletes an account; two run commands.
    p1 = p1
    p2 = p2
    Processes = {p1}
    MaxGenerations = 3
    MaxChunks = 2
    MaxObsolete = 1
    Instances = {p1, p2}
    Names = {a, b}
    Domains = {d1, d2}
    MaxIds = 2
    MaxCommands = 4
    Writers = {a, b}
    Pids = {d1, d2}
    OpenTries = 2
    MaxFiles = 3
    MaxNames = 2
    MaxFaults = 2
SYMMETRY ManagedSymmetry
INVARIANTS
    CacheHonest
    GatesPassed
    RequestsSound
    SavedSessionSound
    SelectionSound
    ManifestDecodes
    SavesSound
    ProfilesSound
    StateFileSound
