SPECIFICATION Spec
CONSTANTS
    Buffers = {b1, b2}
    NoBuffer = NoBuffer
    FifoCapacity = 1
    Frames = {"command"}
CHECK_DEADLOCK FALSE
INVARIANTS
    QueueExists
