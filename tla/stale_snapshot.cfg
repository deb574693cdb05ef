\* A stocker acting on its snapshot while others restock the same items.
SPECIFICATION Spec
CONSTANTS
    Housekeepers = {h1}
    Launderers = {l1}
    Stockers = {s1}
    Rooms = {r1}
    Cottages = {}
    RequestTypes = {"DAILY_CLEANING", "PREPARE_FOR_SLEEP"}
    Items <- UsedItems
    RestockRequests <- TwoLists
    InitialStock <- LowStock
    NoRequest = NoRequest
    CleaningCap = 1
    LaundererCap = 1
    StockerCap = 1
    Chans = {c1}
    NoChan = NoChan
    MaxLag = 0
    MaxCleaning = 2
    MaxRestock = 1
    MaxCrashes = 0
    MayShutdown = FALSE
INVARIANTS
    RestocksOnlyShortItems
