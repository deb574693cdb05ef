\* A message with an enum number the README does not list.
SPECIFICATION SysSpec
CONSTANTS
    Housekeepers = {h1}
    Launderers = {}
    Stockers = {}
    Rooms = {r1}
    Cottages = {}
    RequestTypes = {"99", "DAILY_CLEANING"}
    Items <- UsedItems
    RestockRequests <- OneList
    InitialStock <- FullStock
    NoRequest = NoRequest
    CleaningCap = 1
    LaundererCap = 1
    StockerCap = 1
    Chans = {}
    NoChan = NoChan
    MaxLag = 0
    MaxCleaning = 2
    MaxRestock = 0
    MaxCrashes = 0
    MayShutdown = FALSE
    Bodies <- SomeBodies
    MaxDays = 0
    MaxBad = 0
    Backlog <- NoBacklog
    MaxLosses = 0
INVARIANTS
    OnlyAcceptedTypesDispatched
