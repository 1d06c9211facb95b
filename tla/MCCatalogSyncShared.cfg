\* Two downloads that give their files one path; no call fails.
SPECIFICATION Spec
CONSTANTS
    None = None
    k1 = k1
    k2 = k2
    a = a
    b = b
    xa = xa
    xb = xb
    m = m
    x = x
    Keys = {k1, k2}
    Paths = {a, b}
    PathsOf <- SharedPathsOf
    AllOf <- MCAllOf
    Dirs = {m, x}
    Under <- MCUnder
    Before <- MCBefore
    KindOf <- MCKindOf
    Kinds = 2
    Downloads <- SharedDownloads
    u1 = u1
    Users = {u1}
    MaxChanges = 2
    MaxFaults = 0
PROPERTY SyncMatchesTree
