\* Two housekeepers, two rooms and two kinds of cleaning with statuses of their own.
SPECIFICATION SysSpec
CONSTANTS
    Housekeepers = {h1, h2}
    Launderers = {}
    Stockers = {}
    Rooms = {r1, r2}
    Cottages = {r1, r2}
    RequestTypes = {"PREPARE_FOR_GUEST", "PREPARE_FOR_SLEEP"}
    Items <- UsedItems
    RestockRequests <- OneList
    InitialStock <- FullStock
    NoRequest = NoRequest
    CleaningCap = 1
    LaundererCap = 1
    StockerCap = 1
    Chans = {}
    NoChan = NoChan
    MaxLag = 0
    MaxCleaning = 3
    MaxRestock = 0
    MaxCrashes = 0
    MayShutdown = FALSE
    Bodies <- ValidBodies
    MaxDays = 0
    MaxBad = 0
    Backlog <- NoBacklog
    MaxLosses = 0
SYMMETRY RoomAndHousekeeperSymmetry
INVARIANTS
    StatusWasRequested
