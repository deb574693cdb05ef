\* Two housekeepers, one launderer and one stocker on a low stock.
SPECIFICATION Spec
CONSTANTS
    Housekeepers = {h1, h2}
    Launderers = {l1}
    Stockers = {s1}
    Rooms = {r1}
    Cottages = {}
    RequestTypes = {"DAILY_CLEANING", "PREPARE_FOR_SLEEP"}
    Items <- UsedItems
    RestockRequests <- TwoLists
    InitialStock <- LowStock
    NoRequest = NoRequest
    CleaningCap = 1
    LaundererCap = 1
    StockerCap = 1
    Chans = {c1}
    NoChan = NoChan
    MaxLag = 0
    MaxCleaning = 2
    MaxRestock = 1
    MaxCrashes = 0
    MayShutdown = FALSE
SYMMETRY Symmetry
INVARIANTS
    TypeOK
    StockNeverNegative
    StockBounded
    RetryFindsStock
    MetricsExact
