SPECIFICATION HSpec
CONSTANTS
    NumSessions = 2
    Editors = {1, 2}
    Owners = {2}
    AlwaysSaveOnExit = FALSE
    IsViewFileExtension = FALSE
    LimStoreFailures = 2
    Batched = TRUE
    UploadFaults = {"CONNECT_FAILED"}
    Budget <- SessionBudget
INVARIANTS
    TypeOK
    NoSilentLoss
    OpenSessionsStay
PROPERTIES
    ImplementsDocumentStore
