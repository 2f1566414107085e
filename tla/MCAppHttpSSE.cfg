SPECIFICATION FairSpec
CONSTANTS
    MaxConnections = 3
    NumSockets = 2
INVARIANTS
    TypeOK
    ClosedByItsTask
PROPERTIES
    PeerGoneIsFreed
CHECK_DEADLOCK FALSE
