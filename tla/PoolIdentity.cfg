CONSTANTS
    c1 = c1
    c2 = c2
    c3 = c3
    c4 = c4
    p1 = p1
    p2 = p2
    NoMapping = NoMapping
    Calls = {c1, c2, c3, c4}
    Pools = {p1, p2}
    KindOf <- MCKindOf
    PoolOf <- MCPoolOf
    Identities = {1, 2}
    IdentityOf <- MCIdentityOf
    Histories <- MCHistories
    MaxNow = 1
    MaxConcurrent = 2
    BatchWorkers = 1
    BatchSize = 2
    Endpoints = 2
    Budget = 2
SPECIFICATION FairSpec
CHECK_DEADLOCK FALSE
INVARIANTS
    EarliestWins
    LearnedOnce
    NeverBackdated
PROPERTIES
    EveryResolveEnds
