SPECIFICATION HSpec
CONSTANTS
    NumSessions = 1
    Editors = {1}
    Owners = {}
    AlwaysSaveOnExit = FALSE
    IsViewFileExtension = FALSE
    LimStoreFailures = 2
    Batched = TRUE
    UploadFaults = {}
    Budget <- TwoEditsBudget
INVARIANTS
    UnloadWaitsForSave
