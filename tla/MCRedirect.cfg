SPECIFICATION Spec
CONSTANTS
    p1 = p1
    p2 = p2
    v1 = v1
    bot = bot
    Procs <- MCProcs
    Visitors <- MCVisitors
    Bots <- MCBots
    Rows <- MCRows
    MaxScans = 3
    MaxDay = 1
INVARIANTS
    TypeOK
    CountersMatchEvents
    UniqueOncePerDay
    LimitOvershoot
PROPERTY RedirectsAreServed
CHECK_DEADLOCK FALSE
