SPECIFICATION FairSpec
CONSTANTS
    Budget <- ReconnectBudget
    MaxKinds = 2
    MsgQueueLimit = 1
    MaxReconnects = 1
CHECK_DEADLOCK FALSE
INVARIANTS
    TypeOK
    InputOrder
    ReconnectComplete
    IdleHasDialog
PROPERTIES
    Resumes
