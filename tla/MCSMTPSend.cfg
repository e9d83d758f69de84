SPECIFICATION SendSpec
CONSTANTS
    m1 = m1
    m2 = m2
    NoOp = NoOp
    Ops <- MCOps
    RunsWhenCancelled = {}
    MaxCancels = 2
CHECK_DEADLOCK FALSE
INVARIANTS
    CancelFindsTransmission
    UndisturbedSuccessMeansSent
    CancelledStreamNotReused
PROPERTIES
    EverySendSettles
