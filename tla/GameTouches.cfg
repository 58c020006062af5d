SPECIFICATION Spec
CONSTANTS
    N = 1
    Clicks = {"C"}
    Combos = {"CTRL+C"}
    Wheels = {"W"}
    Views = {"CTRL+W"}
    Locks = {"L"}
    Brains = {"B"}
    Fires = {"MOUSELEFT"}
    Others = {}
    Buttons = {"MOUSELEFT"}
    Value <- MCValue
    Physical <- MCPhysical
    NoKey = "none"
    MaxHeld = 1
    MaxValue = 1
    Reconfigured = TRUE
    InputMoves = TRUE
INVARIANTS
    ViewTouchHasTimer
    WheelTouchHasDirection
    MouseFollowsLock
