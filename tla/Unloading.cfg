SPECIFICATION FairSpec
CONSTANTS
    NumSessions = 2
    Editors = {1, 2}
    Owners = {}
    AlwaysSaveOnExit = FALSE
    IsViewFileExtension = FALSE
    LimStoreFailures = 2
    Batched = TRUE
    UploadFaults = {"CONNECT_FAILED"}
    Budget <- UnloadBudget
PROPERTIES
    Unloads
    CloseFinishes
