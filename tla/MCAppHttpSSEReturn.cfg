SPECIFICATION Spec
CONSTANTS
    MaxConnections = 3
    NumSockets = 2
INVARIANTS
    ListenerNeverReturns
CHECK_DEADLOCK FALSE
