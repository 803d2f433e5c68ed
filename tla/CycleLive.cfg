SPECIFICATION FairSpec
CONSTANTS
    w1 = w1
    w2 = w2
    Nobody = Nobody
    Workers = {w1}
    Worlds = {x, y}
    MaxCycles = 2
    Overlap = FALSE
    Crashes = FALSE
    ProcIdentity = TRUE
    UserOps <- NoOps
    Terminals <- Completed
PROPERTY CycleCompletes
CHECK_DEADLOCK FALSE
