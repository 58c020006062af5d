SPECIFICATION Spec
CONSTANTS
    MainId = 1
    AccessoryId = 2
    Rotations = {0, 1}
    MaxSignals = 2
INVARIANTS
    TypeOK
    VisibleFollowsMode
    UpdatesFollowMode
    ParallelViewRemembered
PROPERTIES
    SwitchedDisplayGetsInput
