SPECIFICATION FairSpec
CONSTANTS
    Timeout = 2
    FifoCapacity = 1
    MaxRequests = 2
    MaxPackets = 2
INVARIANTS
    TypeOK
    KicksAreKept
PROPERTIES
    RequestEnds
    RpcSpec
CHECK_DEADLOCK FALSE
