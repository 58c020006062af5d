SPECIFICATION Spec
CONSTANTS
    NoWindow = NoWindow
    Pkgs = {p1}
    TrayPkgs = {p1}
    Windows = {w1, w2}
    Starters = {s1}
    Reordered = FALSE
    MaxId = 2
    MaxMessages = 2
    MaxRequests = 0
    MaxLost = 1
INVARIANTS
    TypeOK
    MapMatchesWindows
    OrphanOnlyAfterHint
PROPERTIES
    CrashIsNoticed
    NoWindowWaitsForever
    EnvCloseEnds
CHECK_DEADLOCK FALSE
