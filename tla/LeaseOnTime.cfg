SPECIFICATION FairSpec
CONSTANTS
    w1 = w1
    w2 = w2
    Nobody = Nobody
    Ghost = Ghost
    Workers = {w1, w2}
    Duration = 4
    Interval = 1
    Patience = 3
    MaxAge = 2
    OnTime = TRUE
    Delays <- MCDelays
    Jitter = 1
    AgeCap = 5
    MaxObs = 2
    MaxCrashes = 2
INVARIANT TypeOK
INVARIANT RunsAlone
PROPERTY LastObservationKept
PROPERTY MonitorNeverStops
