SPECIFICATION Spec
CONSTANTS
    Tasks = {t1, t2}
    NoTask = NoTask
    ResetVal = 3
    FifoCapacity = 1
    OutboxBound = 1
INVARIANTS
    AssertionsHold
