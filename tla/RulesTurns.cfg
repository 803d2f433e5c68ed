\* Commands one after the other, one of which may die anywhere.
SPECIFICATION Spec
CONSTANTS
    Rules <- MCRules
    MaxVersion = 3
    MaxCrashes = 2
INVARIANTS
    StateBacked
    LinkedDependentsStale
    ReadyIsCurrent
