SPECIFICATION LlmSpec
CONSTANTS
    Count = 3
    Limit = 2
    MaxTries = 2
    MaxCalls = 3
    MaxSteps = 1
INVARIANTS
    LlmTypeOK
    SlotsAccounted
    FailuresReported
    OnlyLimitsRetried
    LimitsExhausted
PROPERTIES
    RunEnds
