\* Cancellation while the manager has more requests than the channel takes.
SPECIFICATION FairSpec
CONSTANTS
    Housekeepers = {h1}
    Launderers = {}
    Stockers = {}
    Rooms = {r1, r2}
    Cottages = {}
    RequestTypes = {"99"}
    Items <- UsedItems
    RestockRequests <- OneList
    InitialStock <- FullStock
    NoRequest = NoRequest
    CleaningCap = 1
    LaundererCap = 1
    StockerCap = 1
    Chans = {}
    NoChan = NoChan
    MaxLag = 0
    MaxCleaning = 2
    MaxRestock = 0
    MaxCrashes = 0
    MayShutdown = TRUE
    Bodies <- ValidBodies
    MaxDays = 0
    MaxBad = 0
    Backlog <- NoBacklog
    MaxLosses = 0
CHECK_DEADLOCK FALSE
PROPERTIES
    ManagerReturnsAfterCancel
