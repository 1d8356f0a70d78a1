CONSTANTS
    Keys = {p1, p2, s1}
    PumpKeys = {p1, p2}
    TokenOf <- OneToken
    Window = 2
    BatchSize = 2
    Retries = 1
    NumJobs = 3
    MaxTime = 2
    MaxFaults = 1
SPECIFICATION FairSpec
INVARIANTS
    WindowsDisjoint
    ContinuationsFit
    OpenersSerialized
PROPERTY
    EveryHitAudited
CHECK_DEADLOCK FALSE
