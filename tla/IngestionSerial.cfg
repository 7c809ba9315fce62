SPECIFICATION Spec
CONSTANTS
    Jobs = {j1, j2}
    Clients = {c1}
    Contents = {a, b}
    NoContent = nil
    SourceKind = "file"
    AutoApprove = FALSE
    AdminRetries = TRUE
    Sweeps = {"processing", "awaiting_approval"}
    MaxTries = 3
    MaxDeaths = 3
    RecoverCap = 2
SYMMETRY MCSymmetry
CONSTRAINT Serial
INVARIANTS
    TypeOK
    ReadyIsPublished
    CompiledWasApproved
    CommitsWholeBatch
    RetryRouteAccepted
PROPERTIES
    ResumeNeverRepeats
CHECK_DEADLOCK FALSE
