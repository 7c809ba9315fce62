SPECIFICATION FairSpec
CONSTANTS
    Jobs = {j1}
    Clients = {c1}
    Contents = {a}
    NoContent = nil
    SourceKind = "url"
    AutoApprove = TRUE
    AdminRetries = TRUE
    Sweeps = {"processing", "awaiting_approval"}
    MaxTries = 2
    MaxDeaths = 2
    RecoverCap = 1
PROPERTIES
    ProcessingEnds
    ApprovedIsHandled
CHECK_DEADLOCK FALSE
