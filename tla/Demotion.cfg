CONSTANTS
    Assets = {sol, usdc}
    MaxReservations = 4
    AuditRoom = 1
SPECIFICATION DSpec
SYMMETRY AssetSymmetry
INVARIANTS
    CausalPrefix
    EvidenceKept
    NoCursorOnNoOp
CHECK_DEADLOCK FALSE
