SPECIFICATION Spec
CONSTANTS
    m1 = m1
    m2 = m2
    MESSAGE_QUEUE_SIZE = 3
    Messages <- MCMessages
    Blank = Blank
    Torn = Torn
    NoMessage = NoMessage
INVARIANTS
    TypeOK
    ServedMessageIsStable
    RingIsConsistent
    NoLostWakeup
PROPERTIES
    ImplementsFifo
CHECK_DEADLOCK TRUE
