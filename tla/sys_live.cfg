\* A backlog that blocks the housekeeper behind the launderer and the manager behind
\* the housekeeper, with hour changes up to an hour late: events are skipped, left in
\* a channel, or still in hand for the channel of a wash that has ended.
SPECIFICATION FairSpec
CONSTANTS
    Housekeepers = {h1}
    Launderers = {l1}
    Stockers = {}
    Rooms = {"r1", "r2"}
    Cottages = {}
    RequestTypes = {"FULL_CLEANING", "DAILY_CLEANING", "99"}
    Items <- UsedItems
    RestockRequests <- OneList
    InitialStock <- FullStock
    NoRequest = NoRequest
    CleaningCap = 1
    LaundererCap = 1
    StockerCap = 1
    Chans = {c1, c2}
    NoChan = NoChan
    MaxLag = 1
    MaxCleaning = 4
    MaxRestock = 0
    MaxCrashes = 0
    MayShutdown = FALSE
    Bodies <- BacklogBodies
    MaxDays = 0
    MaxBad = 0
    Backlog <- BlockingBacklog
    MaxLosses = 0
INVARIANTS
    RegistriesExact
PROPERTIES
    EveryRequestWorked
    WashesEnd
    ImplementsStaffStock
