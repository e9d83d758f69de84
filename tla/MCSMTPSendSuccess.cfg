SPECIFICATION SendSpec
CONSTANTS
    m1 = m1
    m2 = m2
    NoOp = NoOp
    Ops <- MCOps
    RunsWhenCancelled = {}
    MaxCancels = 1
CHECK_DEADLOCK FALSE
INVARIANTS
    SuccessMeansSent
