SPECIFICATION Spec
CONSTANTS
    Kinds <- EveryKind
    MaxItems = 3
    FrameBufferSize = 4
    AtBufferSize = 5
    MAX_FLEX_MESSAGE_LENGTH = 2
    DataLength = 2
INVARIANTS
    TypeOK
    FreshItemsServed
    BinaryHostHeard
PROPERTIES
    FreshItemAnswered
