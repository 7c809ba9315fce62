SPECIFICATION Spec
CONSTANTS
    NumChunks = 4
    NumPages = 4
    Widths = {1, 2}
    Threshold = 2
    MaxJobs = 5
    MaxFailures = 2
INVARIANTS
    TypeOK
    PublishedWhole
    BreakerStops
PROPERTIES
    KeepsFinishedWork
CHECK_DEADLOCK FALSE
