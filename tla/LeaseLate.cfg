SPECIFICATION Spec
CONSTANTS
    w1 = w1
    w2 = w2
    Nobody = Nobody
    Ghost = Ghost
    Workers = {w1, w2}
    Duration = 3
    Interval = 1
    Patience = 2
    MaxAge = 1
    OnTime = FALSE
    Delays <- MCDelays
    Jitter = 1
    AgeCap = 5
    MaxObs = 2
    MaxCrashes = 1
SYMMETRY MCSymmetry
PROPERTY TokenProtectsLease
