SPECIFICATION Spec
CONSTANTS
    KeepRecent = 6
    MaxSteps = 4
    MaxParallel = 7
INVARIANTS
    NoOrphanResult
    NoUnansweredRequest
    RecentStepKept
