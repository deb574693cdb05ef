\* Day changes while the manager is busy dispatching, and the stocker they feed.
SPECIFICATION FairSpec
CONSTANTS
    Housekeepers = {h1}
    Launderers = {}
    Stockers = {s1}
    Rooms = {r1, r2}
    Cottages = {}
    RequestTypes = {"99"}
    Items <- UsedItems
    RestockRequests <- OneList
    InitialStock <- LowStock
    NoRequest = NoRequest
    CleaningCap = 1
    LaundererCap = 1
    StockerCap = 1
    Chans = {}
    NoChan = NoChan
    MaxLag = 0
    MaxCleaning = 2
    MaxRestock = 3
    MaxCrashes = 0
    MayShutdown = FALSE
    Bodies <- ValidBodies
    MaxDays = 3
    MaxBad = 1
    Backlog <- NoBacklog
    MaxLosses = 0
PROPERTIES
    DayChangeRestocks
