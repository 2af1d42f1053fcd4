SPECIFICATION FairSpec
CONSTANTS
    keyA = keyA
    keyB = keyB
    wkr = wkr
    Keys = {keyA}
    FirstView = {keyA}
    Workers = {wkr}
    WorkerOf <- OneWorker
    MaxWid = 6
    OnFlyLimit = 1
    Budget <- RedrawBudget
CHECK_DEADLOCK FALSE
PROPERTIES
    MessagesEmitted
