SPECIFICATION Spec
CONSTANTS
    Jobs = {j1, j2}
    Clients = {c1}
    Contents = {a, b}
    NoContent = nil
    SourceKind = "file"
    AutoApprove = FALSE
    AdminRetries = TRUE
    Sweeps = {}
    MaxTries = 1
    MaxDeaths = 0
    RecoverCap = 2
SYMMETRY MCSymmetry
INVARIANT NothingCompiledUnreviewed
CHECK_DEADLOCK FALSE
