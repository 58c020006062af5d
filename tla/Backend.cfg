SPECIFICATION Spec
CONSTANTS
    NoWidget = NoWidget
    Widgets = {w1, w2}
    Ids = {1, 2}
    MaxFrames = 2
INVARIANTS
    TypeOK
    GateFollowsRequest
    OneDisplayPerId
PROPERTIES
    ConnectedStaysListed
    FramesInOrder
    ImplementsGate
    EveryBatchHandled
    DelayEnds
CHECK_DEADLOCK FALSE
