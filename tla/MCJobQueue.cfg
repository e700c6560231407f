SPECIFICATION Spec
CONSTANTS
    w1 = w1
    w2 = w2
    k1 = k1
    None = None
    Workers <- MCWorkers
    Keys <- MCKeys
    MaxAttempts = 2
    Timeout = 1
    Grace = 1
    MaxJobs = 2
    MaxLosses = 1
    MaxSnoozes = 1
    MaxLate = 1
INVARIANTS
    TypeOK
    RunsAreBounded
    ResultsAreTaken
PROPERTIES
    Implements
    JobsSettle
CHECK_DEADLOCK FALSE
