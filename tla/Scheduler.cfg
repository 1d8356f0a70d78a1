CONSTANTS
    Assets = {sol, usdc, bonk}
    MaxReservations = 3
SPECIFICATION FairSpec
INVARIANTS
    CompletionAccepted
    NothingLostOrDoubled
PROPERTIES
    ImplementsFairCausalOrder
CHECK_DEADLOCK FALSE
