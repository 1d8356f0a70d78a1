CONSTANTS
    p1 = p1
    p2 = p2
    p3 = p3
    x = x
    y = y
    NoPool = NoPool
    Pools = {p1, p2, p3}
    MintOf <- MCMintOf
    Legacy = {p1}
    Versions = {"V1"}
    MaxPools = 1
    QueueMax = 2
    MaxAttempts = 2
    RotationsPerHour = 1
    MaxCuts = 1
SPECIFICATION FairSpec
INVARIANTS
    OnePoolPerToken
    HeldRowStillAsks
    RecordsMatchPools
PROPERTIES
    QueueDrains
    DormantsRechecked
