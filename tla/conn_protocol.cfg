CONSTANTS
    t1 = t1  t2 = t2  t3 = t3
    b1 = b1  b2 = b2
    Nil = Nil
    TaIds = {t1, t2, t3}
    SubIds = {b1, b2}
    Commands <- AllCommands
    SOFT_OUT_WIRE_LIMIT = 2
    MAX_SEND_BATCH = 2
    WireRoom = 2
    MaxInbox = 1
    MaxMatches = 2
    MaxBacklog = 3
SPECIFICATION FairSpec
INVARIANTS NoLostWakeup ResponsesConform NoTransactionForgotten
PROPERTIES Backpressure RequestsAnswered IdleConnSleeps
CHECK_DEADLOCK FALSE
