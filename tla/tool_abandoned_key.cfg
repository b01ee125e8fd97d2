SPECIFICATION Spec
CONSTANTS
    Orders <- MCOrders
    Ids <- MCIds
    Strip <- MCStrip
    OrderAmount <- MCOrderAmount
    Refundable <- MCOrders
    Tickets = {t1}
    Keys = {k1}
    Workers = {w1}
    Calls <- MCMoneyCalls
    MaxAttempts = 2
    NoCall = NoCall
INVARIANTS
    AlreadyProcessedIsTrue
