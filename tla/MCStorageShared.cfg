SPECIFICATION StorageSpec
\* Two processes save at once: nothing locks the account.
CONSTANTS
    p1 = p1
    p2 = p2
    d1 = d1
    d2 = d2
    a = a
    b = b
    Processes = {p1, p2}
    MaxGenerations = 3
    MaxChunks = 1
    MaxObsolete = 2
    Instances = {p1}
    Names = {a}
    Domains = {d1, d2}
    MaxIds = 2
    MaxCommands = 1
SYMMETRY Symmetry
INVARIANTS
    SavedStaysReadable
