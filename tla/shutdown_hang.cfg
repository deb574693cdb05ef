\* Cancellation while housekeepers have more laundry than the channel takes.
SPECIFICATION FairSpec
CONSTANTS
    Housekeepers = {h1}
    Launderers = {l1}
    Stockers = {}
    Rooms = {r1}
    Cottages = {}
    RequestTypes = {"FULL_CLEANING"}
    Items <- UsedItems
    RestockRequests <- OneList
    InitialStock <- FullStock
    NoRequest = NoRequest
    CleaningCap = 1
    LaundererCap = 1
    StockerCap = 1
    Chans = {c1}
    NoChan = NoChan
    MaxLag = 0
    MaxCleaning = 1
    MaxRestock = 0
    MaxCrashes = 0
    MayShutdown = TRUE
    Bodies <- ValidBodies
    MaxDays = 0
    MaxBad = 0
    Backlog <- NoBacklog
    MaxLosses = 0
CHECK_DEADLOCK FALSE
PROPERTIES
    WorkReturnsAfterCancel
