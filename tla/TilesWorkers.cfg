SPECIFICATION Spec
CONSTANTS
    keyA = keyA
    keyB = keyB
    wkr = wkr
    Keys = {keyA}
    FirstView = {}
    Workers = {wkr}
    WorkerOf <- OneWorker
    MaxWid = 6
    OnFlyLimit = 1
    Budget <- HiddenBudget
CHECK_DEADLOCK FALSE
INVARIANTS
    TypeOK
    NoBrokenImage
    NoOlderImage
