SPECIFICATION StorageSpec
\* Two processes at once: a login and a change of the domain.
CONSTANTS
    p1 = p1
    p2 = p2
    d1 = d1
    d2 = d2
    a = a
    b = b
    Processes = {p1}
    MaxGenerations = 1
    MaxChunks = 1
    MaxObsolete = 2
    Instances = {p1, p2}
    Names = {a}
    Domains = {d1, d2}
    MaxIds = 2
    MaxCommands = 4
SYMMETRY Symmetry
INVARIANTS
    SentToOwner
