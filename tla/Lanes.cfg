CONSTANTS
    Calls = {c1, c2, c3}
    NumTokens = 2
    PumpWorkers = 1
    PumpSwapWorkers = 2
SPECIFICATION LanesFairSpec
INVARIANTS
    TokensSerialized
    QuietAfterClose
PROPERTIES
    EveryCallEnds
CHECK_DEADLOCK FALSE
