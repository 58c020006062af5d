SPECIFICATION Spec
CONSTANTS
    NoWindow = NoWindow
    Pkgs = {p1}
    TrayPkgs = {}
    Windows = {w1, w2}
    Starters = {s1}
    Reordered = FALSE
    MaxId = 2
    MaxMessages = 2
    MaxRequests = 0
    MaxLost = 0
PROPERTIES
    HintOnlyAfterCrash
CHECK_DEADLOCK FALSE
