SPECIFICATION HostSafety
CONSTANTS
    u1 = u1
    u2 = u2
    f1 = f1
    Uuids <- TwoUuids
    Freqs <- OneFreq
    MESSAGE_QUEUE_SIZE = 1
    FrameChunks = 1
    BufferLoads = 1
    DataLoads = {}
    Inputs <- SendInputs
    RadioFaults <- NoFaults
    NoMessage = NoMessage
    Libs <- BothLibs
    CutFrames = FALSE
    Calls <- SendCalls
    SlowDevice = FALSE
    MaxLine = 3
INVARIANTS
    FailedIsNotQueued
CHECK_DEADLOCK FALSE
