---------------------------- MODULE StaffChannels ----------------------------
(***************************************************************************)
(* The shared state every service is wired to in NewServices: the three    *)
(* buffered Go channels of internal/app/init.go and the root context that  *)
(* main cancels at shutdown, with the request values that travel in the    *)
(* channels (internal/domain/request.go).                                  *)
(***************************************************************************)
EXTENDS Naturals, Sequences

CONSTANTS
    Rooms,            \* room names that cleaning requests carry
    RequestTypes,     \* the request types that arrive
    Items,            \* the managed stock items
    RestockRequests,  \* the item lists selectItemsToRestock may return
    NoRequest,        \* the zero request of an idle employee
    CleaningCap,      \* capacity of the cleaning channel (32 in the code)
    LaundererCap,     \* capacity of the launderer channel (32)
    StockerCap        \* capacity of the stocker channel (16)

VARIABLES
    cleaningCh,       \* manager -> housekeepers
    laundererCh,      \* housekeepers -> launderers
    stockerCh,        \* manager -> stockers
    ctxDone           \* the root context has been cancelled

channelVars == <<cleaningCh, laundererCh, stockerCh>>

\* The strings RequestType.String() yields: the four names the housekeeper's
\* switch knows, and the decimal text of any enum number it does not know.
KnownTypes == {"PREPARE_FOR_GUEST", "DAILY_CLEANING", "FULL_CLEANING", "PREPARE_FOR_SLEEP"}
UnknownType == "99"

\* documents.ManagedStockItemNames.
ManagedStockItemNames ==
    {"cleaningItem", "soap", "bathroomAmenities", "aromaCandle", "waterBottle",
     "wineBottle", "teaBags", "sweets", "chips"}

CleaningRequests == [RoomName: Rooms, RequestType: RequestTypes]
WashRequests == [RoomName: Rooms, Item: {"towels", "linens"}]

ASSUME CapAssumption ==
    /\ CleaningCap \in Nat \ {0}
    /\ LaundererCap \in Nat \ {0}
    /\ StockerCap \in Nat \ {0}

ASSUME RequestTypesAssumption == RequestTypes \subseteq KnownTypes \cup {UnknownType}

ASSUME ItemsAssumption ==
    /\ {"cleaningItem", "soap", "aromaCandle", "wineBottle", "teaBags"} \subseteq Items
    /\ Items \subseteq ManagedStockItemNames

\* selectItemsToRestock returns a non-empty prefix of a shuffle: no item twice.
ASSUME RestockRequestsAssumption ==
    /\ RestockRequests \subseteq Seq(Items)
    /\ \A r \in RestockRequests :
          /\ r # <<>>
          /\ \A i, j \in 1..Len(r) : r[i] = r[j] => i = j

ChannelsInit ==
    /\ cleaningCh = <<>>
    /\ laundererCh = <<>>
    /\ stockerCh = <<>>

ChannelsRestart ==
    /\ cleaningCh' = <<>>
    /\ laundererCh' = <<>>
    /\ stockerCh' = <<>>

\* Mutants: a send that does not respect the capacity.
SendCleaningUnbounded(request) == cleaningCh' = Append(cleaningCh, request)
SendWashUnbounded(request) == laundererCh' = Append(laundererCh, request)

\* A send on a buffered channel: blocks (is not enabled) while the buffer is
\* full. None of the sends in the code watches the context.
SendCleaning(request) ==
    /\ Len(cleaningCh) < CleaningCap
    /\ cleaningCh' = Append(cleaningCh, request)

SendWash(request) ==
    /\ Len(laundererCh) < LaundererCap
    /\ laundererCh' = Append(laundererCh, request)

SendRestock(request) ==
    /\ Len(stockerCh) < StockerCap
    /\ stockerCh' = Append(stockerCh, request)

\* The signal handler of main cancels the root context.
Cancel ==
    /\ ~ctxDone
    /\ ctxDone' = TRUE

ChannelsTypeOK ==
    /\ cleaningCh \in Seq(CleaningRequests) /\ Len(cleaningCh) <= CleaningCap
    /\ laundererCh \in Seq(WashRequests) /\ Len(laundererCh) <= LaundererCap
    /\ stockerCh \in Seq(RestockRequests) /\ Len(stockerCh) <= StockerCap
    /\ ctxDone \in BOOLEAN
=============================================================================
