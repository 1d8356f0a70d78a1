CONSTANTS
    ResolutionWriters = {r1, r2}
    CausalWriters = {c1, c2}
    AuditWriters = {a1}
    Limit = 2
    NoLimit = NoLimit
    CountCap = 4
SPECIFICATION FairSpec
INVARIANTS
    NoLostWakeup
    BoundedOvertaking
PROPERTY
    EveryWriterAdmitted
