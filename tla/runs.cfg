SPECIFICATION FairSpec
CONSTANTS
    RunIds = {1, 2}
    Clients = {q1, q2}
    Tickets <- MCTickets
    Shipped = shipped
    Custom = {custom}
    Uploads <- MCUploads
    ShippedList <- MCShippedList
    EnvDataset = NoDataset
    NoDataset = NoDataset
    NoRun = NoRun
    MaxSwitches = 2
    MaxRestarts = 1
INVARIANTS
    TypeOK
    DoneMeansSaved
    QuietSwitchIsClean
    RowsOfOwnTickets
PROPERTIES
    RunsFinish
