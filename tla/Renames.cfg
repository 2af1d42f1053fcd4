SPECIFICATION HSpec
CONSTANTS
    NumSessions = 1
    Editors = {1}
    Owners = {}
    AlwaysSaveOnExit = TRUE
    IsViewFileExtension = FALSE
    LimStoreFailures = 2
    Batched = TRUE
    UploadFaults = {}
    Budget <- RenameBudget
INVARIANTS
    NoSilentLoss
    LatestBeforeRename
