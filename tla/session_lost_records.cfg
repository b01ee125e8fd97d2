SPECIFICATION SessionSpec
CONSTANTS
    Orders <- MCOrders
    Ids <- MCIds
    Strip <- MCStrip
    OrderAmount <- MCOrderAmount
    Refundable <- MCRefundable
    Tickets = {t1}
    Keys = {k1}
    Workers = {w1}
    Calls <- MCAllCalls
    UnknownCalls <- MCUnknownCalls
    MaxAttempts = 1
    NoCall = NoCall
    Threshold = 2
    MaxSteps = 3
    MaxParallel = 1
    MaxTries = 2
INVARIANTS
    RefundsAudited
