SPECIFICATION Spec
CONSTANTS
    a1 = a1
    a2 = a2
    b = b
    Requests = {a1, a2, b}
    FolderOf <- MCFolderOf
    Urgent = {a2}
    Folders = {"A", "INBOX"}
    NoFolder = "none"
    INBOX = "INBOX"
    MaximumConnections = 2
    AllowsConcurrent = TRUE
    MaxCancels = 1
CHECK_DEADLOCK FALSE
INVARIANTS
    PoolBound
    RunningStateAgrees
    FinishedMeansDisconnected
PROPERTIES
    IdleConnectionsClose
