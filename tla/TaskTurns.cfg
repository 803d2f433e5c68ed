SPECIFICATION FairSpec
CONSTANTS
    w1 = w1
    Operator = Operator
    Workers = {w1}
    NTasks = 3
    Deps <- TwoAndOne
    MaxRetries = 1
    Overlap = FALSE
    Commands <- AllCommands
    MaxCrashes = 2
INVARIANT TypeOK
INVARIANT RunsWithinRetries
INVARIANT RunsAfterDependencies
INVARIANT DependenciesPersisted
PROPERTY EndedIsFinal
PROPERTY RunningIsRecovered
CHECK_DEADLOCK FALSE
