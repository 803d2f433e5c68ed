SPECIFICATION Spec
CONSTANTS
    Values <- MCValues
    MaxTime = 2
    MaxAuthority = 2
    MaxSources = 2
    MaxSignals = 3
    MaxStates = 3
    MaxCrashes = 1
INVARIANT StateHasRules
INVARIANT DisplacedByStronger
INVARIANT ReconcileIdempotent
PROPERTY MetricFromBest
CHECK_DEADLOCK FALSE
