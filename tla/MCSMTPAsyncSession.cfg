SPECIFICATION SessionSpec
CONSTANTS
    s1 = s1
    s2 = s2
    d1 = d1
    NoOp = NoOp
    SendOps <- MCSendOps
    DisconnectOps <- MCDisconnectOps
    Ops <- MCOps
    RunsWhenCancelled = {}
CHECK_DEADLOCK FALSE
INVARIANTS
    SessionOutlivesItsUsers
    WrapperOutlivesCallback
PROPERTIES
    ConnectionIsClosed
    SessionIsDestroyed
