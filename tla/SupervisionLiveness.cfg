CONSTANTS
    Supervisors = {s1}
    Workers = {w1, w2}
    NoOne = NoOne
    SupervisorsMayDie = TRUE
SPECIFICATION FairSpec
PROPERTIES
    StopHonoured
    HungWorkerReplaced
CHECK_DEADLOCK FALSE
