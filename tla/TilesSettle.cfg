SPECIFICATION FairSpec
CONSTANTS
    keyA = keyA
    keyB = keyB
    wkr = wkr
    Keys = {keyA, keyB}
    FirstView = {keyA}
    Workers = {wkr}
    WorkerOf <- OneWorker
    MaxWid = 6
    OnFlyLimit = 1
    Budget <- SettleBudget
CHECK_DEADLOCK FALSE
INVARIANTS
    PauseEnds
PROPERTIES
    Settles
    MessagesEmitted
