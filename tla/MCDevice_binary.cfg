SPECIFICATION Safety
CONSTANTS
    u1 = u1
    u2 = u2
    u3 = u3
    f1 = f1
    f2 = f2
    Uuids <- ThreeUuids
    Freqs <- TwoFreqs
    MESSAGE_QUEUE_SIZE = 2
    FrameChunks = 2
    BufferLoads = 3
    DataLoads <- ShortAndLong
    Inputs <- BinaryInputs
    RadioFaults <- MessageFaults
    NoMessage = NoMessage
INVARIANTS
    TypeOK
    HostNotMisled
    NothingUnreported
    CoreIsolation
    GuardCoversAir
PROPERTIES
    ServiceSafety
SYMMETRY Symmetric
