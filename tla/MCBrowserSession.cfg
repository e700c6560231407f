SPECIFICATION FairSpec
CONSTANTS
    t1 = t1
    r1 = r1
    r2 = r2
    None = None
    Tabs <- OneTab
    Clients <- BothClients
    Requests <- MCRequests
    ExpiresIn = {TRUE}
    MaxFamilies = 2
    MaxSessions = 2
    MaxEvents = 2
INVARIANTS
    TypeOK
    CallsGoOn
    OneClientIsNoReplay
    NoSpentToken
PROPERTIES
    RequestsSettle
CHECK_DEADLOCK FALSE
