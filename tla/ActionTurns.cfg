SPECIFICATION FairSpec
CONSTANTS
    w1 = w1
    d1 = d1
    handoff = handoff
    change = change
    Workers = {w1}
    Deciders = {d1}
    Actions = {handoff, change}
    Handoffs = {handoff}
    Overlap = FALSE
    MaxAsked = 2
    MaxEffects = 2
    MaxCrashes = 1
INVARIANT TypeOK
INVARIANT EffectsApproved
INVARIANT VerifiedMeansObserved
PROPERTY ResultNotRepeated
PROPERTY AwaitedIsObserved
CHECK_DEADLOCK FALSE
