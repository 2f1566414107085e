SPECIFICATION Spec
CONSTANTS
    Buffers = {b1, b2}
    NoBuffer = NoBuffer
    FifoCapacity = 1
    Frames = {"dummy", "command"}
SYMMETRY BufferSymmetry
INVARIANTS
    TypeOK
    NoLostKick
    ClocksWhenFlowHigh
    InStep
    OneOwner
CHECK_DEADLOCK FALSE
PROPERTIES
    LinkSpec
