CONSTANTS
    Supervisors = {s1, s2}
    Workers = {w1, w2}
    NoOne = NoOne
    SupervisorsMayDie = FALSE
SPECIFICATION Spec
SYMMETRY ProcessSymmetry
INVARIANT
    OneWorkerPerDatabase
PROPERTY
    HealthyWorkerKept
CHECK_DEADLOCK FALSE
