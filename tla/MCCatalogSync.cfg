\* Files, hides, restarts and failures; every path belongs to one key.
SPECIFICATION Spec
CONSTANTS
    None = None
    k1 = k1
    k2 = k2
    a = a
    b = b
    xa = xa
    xb = xb
    m = m
    x = x
    Keys = {k1, k2}
    Paths = {a, b}
    PathsOf <- MCPathsOf
    AllOf <- MCAllOf
    Dirs = {m, x}
    Under <- MCUnder
    Before <- MCBefore
    KindOf <- MCKindOf
    Kinds = 2
    Downloads <- MCDownloads
    u1 = u1
    Users = {u1}
    MaxChanges = 2
    MaxFaults = 1
INVARIANTS TypeOK InodesUnique
PROPERTIES InodesStable NoVanish NoResurrection SyncMatchesTree Converges
