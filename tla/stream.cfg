SPECIFICATION FairSpec
CONSTANTS
    Clients = {c1, c2}
    MaxEvents = 3
    MaxGhosts = 1
    MaxRetries = 2
    MaxShown = 2
    MaxRestarts = 1
INVARIANTS
    TypeOK
    EventsAccounted
    InOrder
    ConnectionAccounted
PROPERTIES
    FeedSpec
    RetriesEnd
    QueueDrains
