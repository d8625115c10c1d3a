SPECIFICATION HostSafety
CONSTANTS
    u1 = u1
    u2 = u2
    f1 = f1
    Uuids <- TwoUuids
    Freqs <- OneFreq
    MESSAGE_QUEUE_SIZE = 1
    FrameChunks = 1
    BufferLoads = 1
    DataLoads = {}
    Inputs <- HostInputs
    RadioFaults <- TuneFaults
    NoMessage = NoMessage
    Libs <- BothLibs
    CutFrames = TRUE
    Calls <- AllCalls
    SlowDevice = TRUE
    MaxLine = 3
INVARIANTS
    HostTypeOK
    TransmittedIsTrue
    AcksCountOnce
SYMMETRY Symmetric
CHECK_DEADLOCK FALSE
