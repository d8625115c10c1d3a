SPECIFICATION Spec
CONSTANTS
    u1 = u1
    u2 = u2
    u3 = u3
    f1 = f1
    f2 = f2
    Uuids <- TwoUuids
    Freqs <- OneFreq
    MESSAGE_QUEUE_SIZE = 2
    FrameChunks = 2
    BufferLoads = 3
    DataLoads <- ShortAndLong
    Inputs <- AbortInputs
    RadioFaults <- NoFaults
    NoMessage = NoMessage
PROPERTIES
    AcceptedEnds
