SPECIFICATION Spec
CONSTANTS
    Folders <- MCFolders
    NoFolder = "none"
    INBOX = "INBOX"
    Fold <- MCFold
    Offers <- MCOffers
    MaxRelogins = 1
CHECK_DEADLOCK FALSE
INVARIANT LoggedInWhenAsserted
