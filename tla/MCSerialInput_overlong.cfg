SPECIFICATION Spec
CONSTANTS
    Kinds <- OverlongKinds
    MaxItems = 2
    FrameBufferSize = 4
    AtBufferSize = 5
    MAX_FLEX_MESSAGE_LENGTH = 2
    DataLength = 2
INVARIANTS
    LineIsText
