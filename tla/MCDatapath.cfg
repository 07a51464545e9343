SPECIFICATION DatapathSpec
CONSTANTS
    Width <- MCWidth
    Protected <- MCProtected
    Peers <- MCPeers
    Malformed = Malformed
    MaxTargets = 2
    MaxExclusions = 1
    p1 = p1
    p2 = p2
    Cidrs = {p1, p2}
    Platforms = {"linux", "macos", "windows"}
    MaxRequests = 3
    i1 = i1
    i2 = i2
    i3 = i3
    Ids = {i1, i2, i3}
    Payloads = {x}
    MaxPacket = 3
    MaxLen = 2
    MaxGroups = 2
    MaxBytes = 6
    Lifetime = 1
    Keys = {k1, k2, k3}
    HalfLengths = {1, 2}
    MaxJoined = 3
    MaxPairs = 2
    Window = 2
    Names = {"name", "canary"}
    Related <- MCRelated
    Canary = "canary"
    Unusable = {"z"}
    Fallback <- MCFallback
    ServerLists <- MCLists
    RuleLists <- MCRules
    HostLists <- MCHosts
    MaxEdits = 2
    Unset = Unset
INVARIANTS
    PlanSound
    Restored
    OthersSurvive
    ReassemblySound
    PolicyHonoured
PROPERTIES
    HalvesSound
