SPECIFICATION Spec
CONSTANTS
    Budget <- IdleBudget
    MaxKinds = 1
    MsgQueueLimit = 1
    MaxReconnects = 1
CHECK_DEADLOCK FALSE
INVARIANTS
    IdleStaysClosed
