CONSTANTS
    x = x
    y = y
    t1 = t1
    t2 = t2
    Assets = {x, y}
    Signatures = {t1, t2}
    TradesOf <- MCTradesOf
    Delivered <- MCDelivered
    Workers = 2
    Preparers = 2
    IngressSize = 2
    BatchSize = 2
    OldRows <- MCOldRows
SPECIFICATION PipelineFairSpec
INVARIANTS
    ReservationCovers
    ResultsInTicketOrder
    IngressOrderKept
PROPERTIES
    EveryNotificationProcessed
CHECK_DEADLOCK FALSE
