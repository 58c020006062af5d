SPECIFICATION Spec
CONSTANTS
    NoWidget = NoWidget
    Widgets = {w1}
    MaxFrames = 2
    MaxCalls = 4
INVARIANTS
    ScreenSettles
    NothingAfterExit
PROPERTIES
    GuiComesBack
CHECK_DEADLOCK FALSE
