SPECIFICATION SessionSpec
CONSTANTS
    Orders <- MCOrders
    Ids <- MCIds
    Strip <- MCStrip
    OrderAmount <- MCOrderAmount
    Refundable <- MCRefundable
    Tickets = {t1}
    Keys = {k1, k2}
    Workers = {w1, w2}
    Calls <- MCMoneyCalls
    UnknownCalls <- MCNoCalls
    MaxAttempts = 1
    NoCall = NoCall
    Threshold = 2
    MaxSteps = 3
    MaxParallel = 1
    MaxTries = 1
PROPERTIES
    EffectsVetted
INVARIANTS
    PaidWithinThreshold
