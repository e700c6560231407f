SPECIFICATION Spec
CONSTANTS
    p1 = p1
    p2 = p2
    s1 = s1
    s2 = s2
    d1 = d1
    d2 = d2
    None = None
    Procs <- MCProcs
    Shorts <- MCShorts
    Dests <- MCDests
    Limit = 1
    MaxTries = 2
    MaxCodes = 3
    MaxVersions = 3
SYMMETRY Symmetry
INVARIANT QuotaHolds
