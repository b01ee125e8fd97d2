SPECIFICATION Spec
CONSTANTS
    Orders <- MCOneOrder
    Ids <- MCPaddedIds
    Strip <- MCPaddedStrip
    OrderAmount <- MCOrderAmount
    Refundable <- MCOneOrder
    Tickets = {t1}
    Keys = {k1, k2}
    Workers = {w1}
    Calls <- MCMoneyCalls
    MaxAttempts = 2
    NoCall = NoCall
INVARIANTS
    PaidWithinPrice
