SPECIFICATION MCSpec
CONSTANTS
    null = null
    NULL <- null
    Keys <- MCKeys
    Values <- MCValues
    Hash <- MCHash
    CHASH_DEFAULTSIZE = 2
    CHASH_MAXDEPTH = 1
    x = x
    y = y
    Names = {x, y}
    MAX = 6
    Ranges <- MCRanges
    KeptRanges <- MCRanges
    cafe = cafe
    home = home
    mouse = mouse
    disk = disk
    camera = camera
    Networks <- MCNetworks
    Protected <- MCProtected
    Passwords <- MCPasswords
    MaxScans = 2
    WindowsDevices <- MCWindowsDevices
    Delays = {1, 3, 10}
    Garbage = {0, 100}
    MaxCrashes = 2
    Paths <- MCPaths
    Stems <- MCStems
    NameOf <- MCNameOf
    Dotted <- MCDotted
    Same <- MCSame
    MaxFiles = 4
INVARIANTS
    TableCorrect
    ReadsWhatItHolds
    TableAndButtonTrue
    DelayRestored
    NamesTrue
PROPERTIES
    ImplementsMap
    ImplementsIntegerSet
    ToggledIsShown
