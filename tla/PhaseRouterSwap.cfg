SPECIFICATION Spec
CONSTANTS
    Callers = {t1, t2, t3, t4}
    Slots = {vision, main_llm}
    None = none
    WorkerVisible = TRUE
    MaxOoms = 0
    MaxLeftovers = 0
    MaxCancels = 0
INVARIANTS
    TypeOK
PROPERTIES
    SwapsCold
