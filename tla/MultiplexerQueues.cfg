CONSTANTS
    Audits = {a1, a2, a3, a4}
    QueueSize = 2
    BurstLimit = 3
    MaxReady = 2
SPECIFICATION FairSpec
INVARIANTS
    EvidenceInOnePlace
    DeadlineCountCovers
PROPERTY
    EveryAuditServed
CHECK_DEADLOCK FALSE
