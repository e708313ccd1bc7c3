SPECIFICATION Spec
CONSTANTS
    SndSize = 4
    RcvSize = 3
    MinChunk = 2
    MaxChunk = 3
    IovMax = 4
    MaxMessages = 2
    MaxLength = 6
    MaxReply = 3
    Excess = 0
INVARIANTS TypeOK WireFramed SentIsFlushed ChunksBounded DeliveredInOrder AtBoundary
PROPERTIES Progress
CHECK_DEADLOCK FALSE
