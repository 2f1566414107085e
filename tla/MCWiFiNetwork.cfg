SPECIFICATION FairSpec
CONSTANTS
    Packets = {p1, p2, p3}
    NoPacket = NoPacket
    FifoCapacity = 2
    InboxCapacity = 1
INVARIANTS
    TypeOK
    RefsAreExact
    NoNullUsed
    FifoAtRest
PROPERTIES
    RemovalEnds
    PacketsLeave
