SPECIFICATION FairSessionSpec
CONSTANTS
    Orders <- MCOrders
    Ids <- MCIds
    Strip <- MCStrip
    OrderAmount <- MCOrderAmount
    Refundable <- MCRefundable
    Tickets = {t1}
    Keys = {k1}
    Workers = {w1}
    Calls <- MCAllCalls
    UnknownCalls <- MCUnknownCalls
    MaxAttempts = 2
    NoCall = NoCall
    Threshold = 2
    MaxSteps = 2
    MaxParallel = 2
    MaxTries = 2
INVARIANTS
    SessionTypeOK
    FirstAttemptAudited
    RepeatsNotExecuted
PROPERTIES
    EffectsVetted
    UsesTools
    SessionEnds
