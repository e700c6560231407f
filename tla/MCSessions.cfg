SPECIFICATION Spec
CONSTANTS
    p1 = p1
    p2 = p2
    t1 = t1
    nobody = nobody
    Procs <- MCProcs
    Tokens <- MCTokens
    Nobody <- nobody
    MaxSessions = 3
    MaxTime = 1
    Lifetime = 1
    LockLimit = 1
    MaxBlind = 1
SYMMETRY Symmetry
INVARIANTS
    TypeOK
    OneLivePerFamily
    FamilyIsALine
    RotationKeepsExpiry
    LockOvershoot
    WaitersAreServed
PROPERTY Implements
