SPECIFICATION Spec
CONSTANTS
    N = 1
    Clicks = {"C"}
    Combos = {}
    Wheels = {"W"}
    Views = {}
    Locks = {"L"}
    Brains = {}
    Fires = {"MOUSELEFT"}
    Others = {}
    Buttons = {"MOUSELEFT"}
    Value <- MCValue
    Physical <- MCPhysical
    NoKey = "none"
    MaxHeld = 2
    MaxValue = 1
    Reconfigured = FALSE
    InputMoves = FALSE
INVARIANTS
    FocusOutReleases
