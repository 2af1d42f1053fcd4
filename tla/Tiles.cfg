SPECIFICATION Spec
CONSTANTS
    keyA = keyA
    keyB = keyB
    wkr = wkr
    Keys = {keyA}
    FirstView = {keyA}
    Workers = {wkr}
    WorkerOf <- OneWorker
    MaxWid = 6
    OnFlyLimit = 1
    Budget <- VisibleBudget
CHECK_DEADLOCK FALSE
INVARIANTS
    OnFlyAccounted
    NoBrokenImage
    NoOlderImage
