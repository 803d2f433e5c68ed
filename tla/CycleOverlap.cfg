SPECIFICATION Spec
CONSTANTS
    w1 = w1
    w2 = w2
    Nobody = Nobody
    Workers = {w1, w2}
    Worlds = {x}
    MaxCycles = 2
    Overlap = TRUE
    Crashes = FALSE
    ProcIdentity = TRUE
    UserOps <- NoOps
    Terminals <- NoTerminals
SYMMETRY MCSymmetry
INVARIANT ExecutedAtMostOnce
INVARIANT VerifiedMeansExecuted
INVARIANT CompletedMeansMeasured
CHECK_DEADLOCK FALSE
