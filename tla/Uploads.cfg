SPECIFICATION HSpec
CONSTANTS
    NumSessions = 1
    Editors = {1}
    Owners = {}
    AlwaysSaveOnExit = FALSE
    IsViewFileExtension = FALSE
    LimStoreFailures = 2
    Batched = TRUE
    UploadFaults = {"CONNECT_FAILED", "FAILED", "TOO_LARGE", "UNAUTHORIZED", "CONFLICT"}
    Budget <- UploadBudget
INVARIANTS
    NoSilentLoss
    UploadedTimeSound
    VersionOrder
    SyncWaitsForCheckFileInfo
