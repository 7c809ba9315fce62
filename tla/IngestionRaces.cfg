SPECIFICATION Spec
CONSTANTS
    Jobs = {j1, j2}
    Clients = {c1}
    Contents = {a}
    NoContent = nil
    SourceKind = "file"
    AutoApprove = FALSE
    AdminRetries = FALSE
    Sweeps = {"processing"}
    MaxTries = 2
    MaxDeaths = 0
    RecoverCap = 1
SYMMETRY MCSymmetry
INVARIANTS
    ReadyIsPublished
PROPERTIES
    SuccessResetsRecover
CHECK_DEADLOCK FALSE
