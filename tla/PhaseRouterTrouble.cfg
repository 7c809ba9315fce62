SPECIFICATION FairSpec
CONSTANTS
    Callers = {t1, t2}
    Slots = {vision, main_llm}
    None = none
    WorkerVisible = FALSE
    MaxOoms = 2
    MaxLeftovers = 2
    MaxCancels = 2
INVARIANTS
    LoadsSerialized
    CachedIsLoaded
PROPERTIES
    CallsReturn
