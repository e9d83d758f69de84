SPECIFICATION Spec
CONSTANTS
    idle1 = idle1
    idle2 = idle2
    idle3 = idle3
    m1 = m1
    m2 = m2
    m3 = m3
    Folders <- MCFolders
    NoFolder = "none"
    INBOX = "INBOX"
    Fold <- MCFold
    Offers <- MCOffers
    MaxRelogins = 1
    Ops <- MCOps
    MaxConnects = 2
    Size = 7
    chunkSize = 3
    maxRetries = 3
    Quantum = 2
    Modes = {"chunks", "stream"}
    Estimates = {0, 4, 7, 9}
    Uids <- MCUids
    FirstMail <- MCFirstMail
    Counts = {0, 2}
CHECK_DEADLOCK FALSE
INVARIANTS
    SelectedFolderTrue
    OnlyKnownFaults
    SecondAttemptCanSucceed
    InterruptionSafe
    PartKept
    BeliefTrue
    SearchCorrect
PROPERTIES
    BrokenStreamIsLeft
