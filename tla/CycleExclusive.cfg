SPECIFICATION Spec
CONSTANTS
    w1 = w1
    w2 = w2
    Nobody = Nobody
    Workers = {w1, w2}
    Worlds = {x, y}
    MaxCycles = 3
    Overlap = FALSE
    Crashes = TRUE
    ProcIdentity = TRUE
    UserOps <- AllOps
    Terminals <- Completed
SYMMETRY MCSymmetry
INVARIANT TypeOK
INVARIANT ResumableEvidence
INVARIANT OneEvidencePerObservation
INVARIANT OnlyLastCycleOpen
PROPERTY StagesOnlyAdvance
CHECK_DEADLOCK FALSE
