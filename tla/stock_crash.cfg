\* Every request type, a stocker, shutdown at any moment and a crash with restart.
SPECIFICATION Spec
CONSTANTS
    Housekeepers = {h1}
    Launderers = {}
    Stockers = {s1}
    Rooms = {r1}
    Cottages = {r1}
    RequestTypes <- AllTypes
    Items <- UsedItems
    RestockRequests <- TwoLists
    InitialStock <- LowStock
    NoRequest = NoRequest
    CleaningCap = 1
    LaundererCap = 4
    StockerCap = 1
    Chans = {}
    NoChan = NoChan
    MaxLag = 0
    MaxCleaning = 1
    MaxRestock = 1
    MaxCrashes = 1
    MayShutdown = TRUE
CHECK_DEADLOCK FALSE
INVARIANTS
    IInv
