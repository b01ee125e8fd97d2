SPECIFICATION FairSpec
CONSTANTS
    Orders <- MCOrders
    Ids <- MCIds
    Strip <- MCStrip
    OrderAmount <- MCOrderAmount
    Refundable <- MCOrders
    Tickets = {t1}
    Keys = {k1, k2}
    Workers = {w1, w2}
    Calls <- MCLedgerCalls
    MaxAttempts = 2
    NoCall = NoCall
INVARIANTS
    TypeOK
    PaidWithinPrice
    MarkedIffPaid
    EffectsRegistered
    ReservationsExclusive
PROPERTIES
    LedgerSpec
    CallsReturn
