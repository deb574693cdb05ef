\* Crash, lost channels and shutdown between dispatch, work and acknowledgement.
\* The work itself is the shortest there is: a type the switch does not know.
SPECIFICATION SysSpec
CONSTANTS
    Housekeepers = {h1}
    Launderers = {}
    Stockers = {}
    Rooms = {r1, r2, r3}
    Cottages = {}
    RequestTypes = {"99"}
    Items <- UsedItems
    RestockRequests <- OneList
    InitialStock <- FullStock
    NoRequest = NoRequest
    CleaningCap = 1
    LaundererCap = 1
    StockerCap = 1
    Chans = {}
    NoChan = NoChan
    MaxLag = 0
    MaxCleaning = 3
    MaxRestock = 1
    MaxCrashes = 1
    MayShutdown = TRUE
    Bodies <- SomeBodies
    MaxDays = 0
    MaxBad = 1
    Backlog <- NoBacklog
    MaxLosses = 1
SYMMETRY RoomSymmetry
CHECK_DEADLOCK FALSE
INVARIANTS
    SysTypeOK
    NoRequestLostUndispatched
    RequestsAccountedFor
    RegistriesExact
PROPERTIES
    ImplementsHandover
