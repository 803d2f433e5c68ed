SPECIFICATION Spec
CONSTANTS
    w1 = w1
    w2 = w2
    Workers = {w1, w2}
    Overlap = FALSE
    Categories <- MCCategories
    MaxRequests = 3
    MaxRuns = 2
    MaxCrashes = 1
INVARIANT TypeOK
INVARIANT DenialHoldsCategory
PROPERTY GateSpec
CHECK_DEADLOCK FALSE
