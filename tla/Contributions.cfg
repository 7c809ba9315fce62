SPECIFICATION Spec
CONSTANTS
    Drafts = {d1}
    Authors = {a1, a2}
    MaxRound = 1
    MaxTries = 2
    Callers = {k1, k2}
    Uploads = {u1, u2}
    Contribs = {c1}
    MaxNumber = 2
    MaxText = 1
    MaxAttempts = 2
    MaxCalls = 3
INVARIANTS TypeOK CurrentVersionExists ApprovedContributionLanded
PROPERTIES RunningEnds TempFilesGo
CHECK_DEADLOCK FALSE
