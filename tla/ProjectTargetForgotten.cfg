SPECIFICATION Spec
CONSTANTS
    w1 = w1
    Workers = {w1}
    Overlap = FALSE
    Candidates = 2
    MaxTargets = 2
    MaxCommands = 3
    MaxAttempts = 2
    Declared <- MCDeclared
    MaxRepairs = 1
    MaxCommits = 2
    MaxCrashes = 1
PROPERTY TargetStaysNamed
CHECK_DEADLOCK FALSE
