SPECIFICATION Spec
CONSTANTS
    NoWidget = NoWidget
    Widgets = {w1, w2}
    Ids = {1, 2}
    MaxFrames = 2
INVARIANT NoStrandedFrame
CHECK_DEADLOCK FALSE
