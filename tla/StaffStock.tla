------------------------------ MODULE StaffStock ------------------------------
(***************************************************************************)
(* Housekeepers, launderers and stockers at work on the one stock document *)
(* and the channels between them.  The manager and the time-event service  *)
(* are their environment here: cleaning and restock requests arrive in the *)
(* channels, and hour changes are offered to the launderers' channels.     *)
(***************************************************************************)
EXTENDS HousekeeperService, LaundererService, FiniteSets

CONSTANTS
    MaxCleaning,   \* bound: cleaning requests that arrive
    MaxRestock,    \* bound: restock requests that arrive
    MaxCrashes,    \* bound: crashes and restarts of the process
    MayShutdown    \* whether the root context may be cancelled

ASSUME BoundsAssumption ==
    /\ MaxCleaning \in Nat
    /\ MaxRestock \in Nat
    /\ MaxCrashes \in Nat
    /\ MayShutdown \in BOOLEAN

ASSUME EmployeesAssumption ==
    /\ IsFiniteSet(Housekeepers)
    /\ IsFiniteSet(Launderers)
    /\ IsFiniteSet(Stockers)

VARIABLES
    cleaningCount,   \* cleaning requests that have arrived since the start
    restockCount,    \* restock requests that have arrived since the start
    crashes          \* crashes so far

envVars == <<cleaningCount, restockCount, crashes>>
vars == <<channelVars, ctxDone, stock, cleaningStatus, hourVars,
          hkVars, stVars, ldVars, envVars>>

\* What a start of the process sets up in memory.
ProcessInit ==
    /\ ChannelsInit
    /\ ctxDone = FALSE
    /\ Hours!RegistryInit
    /\ HkInit
    /\ StInit
    /\ LdInit
    /\ cleaningCount = 0
    /\ restockCount = 0

ProcessRestart ==
    /\ ChannelsRestart
    /\ ctxDone' = FALSE
    /\ Hours!RegistryRestart
    /\ HkRestart
    /\ StRestart
    /\ LdRestart
    /\ cleaningCount' = 0
    /\ restockCount' = 0

Init ==
    /\ ProcessInit
    /\ StockInit
    /\ CottageInit
    /\ crashes = 0

-----------------------------------------------------------------------------
\* The environment.

\* The manager's s.cleaningCh <- cleaningRequest.
CleaningArrives ==
    /\ cleaningCount < MaxCleaning
    /\ \E request \in CleaningRequests : SendCleaning(request)
    /\ cleaningCount' = cleaningCount + 1
    /\ UNCHANGED <<laundererCh, stockerCh, ctxDone, stock, cleaningStatus, hourVars,
                   hkVars, stVars, ldVars, restockCount, crashes>>

\* The manager's s.stockerCh <- RestockRequest, after a day change.
RestockArrives ==
    /\ restockCount < MaxRestock
    /\ \E request \in RestockRequests : SendRestock(request)
    /\ restockCount' = restockCount + 1
    /\ UNCHANGED <<cleaningCh, laundererCh, ctxDone, stock, cleaningStatus, hourVars,
                   hkVars, stVars, ldVars, cleaningCount, crashes>>

\* The simulated clock moves on by an hour.
HourPasses ==
    /\ Hours!EventsMayAge
    /\ AgeWashes
    /\ Hours!AgeEvents
    /\ UNCHANGED <<hourChangeChannels, channelVars, ctxDone, stock, cleaningStatus,
                   hkVars, stVars, ldEmployees, ldPhase, ldTaken, ldChan, envVars>>

\* The time-event service offers an hour change, perhaps an old one, to a
\* channel that is registered, or was when the service read the registry.
HourOffered(c) ==
    /\ \E age \in 0..MaxLag : Hours!Offer(c, age)
    /\ UNCHANGED <<hourChangeChannels, channelVars, ctxDone, stock, cleaningStatus,
                   hkVars, stVars, ldVars, envVars>>

Shutdown ==
    /\ MayShutdown
    /\ Cancel
    /\ UNCHANGED <<channelVars, stock, cleaningStatus, hourVars, hkVars, stVars, ldVars, envVars>>

\* The process dies and is started again: the database keeps what it has.
Crash ==
    /\ crashes < MaxCrashes
    /\ crashes' = crashes + 1
    /\ ProcessRestart
    /\ UNCHANGED <<stock, cleaningStatus>>

-----------------------------------------------------------------------------
\* The services.

\* The channels some washingCycle still refers to.
ChansInUse == {ldChan[l] : l \in Launderers}

HousekeeperStep(h) ==
    /\ HkStepOf(h)
    /\ UNCHANGED <<ctxDone, hourVars, stVars, ldVars, envVars>>

StockerStep(s) ==
    /\ StStepOf(s)
    /\ UNCHANGED <<ctxDone, cleaningStatus, hourVars, hkVars, ldVars, envVars>>

LaundererStep(l) ==
    /\ LdStepOf(l, ChansInUse)
    /\ UNCHANGED <<ctxDone, cleaningStatus, hkVars, stVars, envVars>>

Next ==
    \/ CleaningArrives
    \/ RestockArrives
    \/ HourPasses
    \/ \E c \in Chans : HourOffered(c)
    \/ Shutdown
    \/ Crash
    \/ \E h \in Housekeepers : HousekeeperStep(h)
    \/ \E s \in Stockers : StockerStep(s)
    \/ \E l \in Launderers : LaundererStep(l)

Spec == Init /\ [][Next]_vars

-----------------------------------------------------------------------------
\* Every variable has its type.
TypeOK ==
    /\ ChannelsTypeOK
    /\ StockTypeOK
    /\ CottageTypeOK
    /\ Hours!RegistryTypeOK
    /\ HkTypeOK
    /\ StTypeOK
    /\ LdTypeOK
    /\ cleaningCount \in 0..MaxCleaning
    /\ restockCount \in 0..MaxRestock
    /\ crashes \in 0..MaxCrashes

\* No interleaving of consumers drives an item below zero: ConsumeItem's check
\* and decrement are one conditional update.
StockNeverNegative == \A i \in Items : stock[i] >= 0

\* The largest quantity a housekeeper consumes at once.
LargestConsumption == 10

\* The second attempt of a housekeeper finds what it needs, although others may
\* consume between its restock and the attempt: one replenishment lasts as long
\* as no more requests have arrived since the start than it covers.
RetryFindsStock ==
    cleaningCount * LargestConsumption <= stockReplenishmentQuantity =>
        \A h \in Housekeepers :
            hkPhase[h] = "retry" => stock[HkCurrentStep(h).arg] >= HkCurrentStep(h).quantity

\* What the metrics report adds up over the goroutines at every moment: a request
\* that has arrived waits in its channel, has been received by an employee that
\* the table still shows idle, or is counted, exactly one of the three; and the
\* idle employees are those outside work.  The handled count lags behind the
\* requests that have left the channel, by the employees in that window.
MetricsExact ==
    /\ HkPool!HandledRequests + Cardinality(HkPool!Receiving) + Len(cleaningCh) = cleaningCount
    /\ StPool!HandledRequests + Cardinality(StPool!Receiving) + Len(stockerCh) = restockCount
    /\ HkPool!IdleEmployeeCount =
          Cardinality({h \in Housekeepers : hkPhase[h] \in {"select", "received", "stopped"}})

\* A stocker restocks only items that are short.  The stock a stocker acts on
\* is its snapshot, so another employee may have restocked since: this does
\* not hold.
RestocksOnlyShortItems ==
    \A s \in Stockers :
        stPhase[s] = "items" /\ stNext[s] <= Len(StItems(s)) /\ StIsShort(s) =>
            stock[StItems(s)[stNext[s]]] < minimumStockQuantity

-----------------------------------------------------------------------------
\* Who has decided to restock item i and has not called RestockItem for it yet.
\* A stocker decides for all its items when it takes its snapshot.
HkPending(i) == {h \in Housekeepers : hkPhase[h] = "restock" /\ HkCurrentStep(h).arg = i}

LdPending(i) == {l \in Launderers : ldPhase[l] = "restock" /\ i = "soap"}

StPending(i) ==
    {s \in Stockers :
        /\ stPhase[s] = "items"
        /\ stSnapshot[s][i] < minimumStockQuantity
        /\ \E n \in 1..Len(StItems(s)) : n >= stNext[s] /\ StItems(s)[n] = i}

PendingRestocks(i) ==
    Cardinality(HkPending(i)) + Cardinality(LdPending(i)) + Cardinality(StPending(i))

\* The employees that may restock item i, and a level that item i is below
\* whenever one of them decides to.
Restockers(i) ==
    Cardinality(Stockers) + Cardinality(IF i = "soap" THEN Launderers ELSE Housekeepers)

DecisionLevel(i) == IF i = "soap" THEN 20 ELSE 10

StockLimit(i) ==
    LET grown == DecisionLevel(i) - 1 + stockReplenishmentQuantity * Restockers(i)
    IN  IF InitialStock[i] > grown THEN InitialStock[i] ELSE grown

\* Decisions to restock are taken on a quantity that is stale when they are
\* carried out, so several employees restock the same shortage; the stock of
\* an item still never exceeds one replenishment per employee above the level
\* it was short at.
StockBounded == \A i \in Items : stock[i] <= StockLimit(i)

\* The inductive form: the stock and every replenishment already decided fit.
ReplenishmentsFit ==
    \A i \in Items :
        stock[i] + stockReplenishmentQuantity * PendingRestocks(i) <= StockLimit(i)

\* A request received is held until the table shows it, the table shows it until
\* work returns, and the locals of work are set in the phases that use them.
HkLocals ==
    \A h \in Housekeepers :
        /\ hkPhase[h] = "received" => hkTaken[h] \in CleaningRequests
        /\ hkPhase[h] \notin {"select", "received", "stopped"} => HkRequest(h) \in CleaningRequests
        /\ hkPhase[h] \in {"work", "restock", "retry"} => hkStep[h] >= 1
        /\ hkPhase[h] \in {"restock", "retry"} =>
              hkStep[h] <= Len(HkSteps(h)) /\ HkCurrentStep(h).kind = "consume"

StLocals ==
    \A s \in Stockers :
        /\ stPhase[s] = "received" => stTaken[s] \in RestockRequests
        /\ stPhase[s] \notin {"select", "received", "stopped"} => StItems(s) \in RestockRequests
        /\ stPhase[s] = "items" => stNext[s] >= 1

LdLocals ==
    \A l \in Launderers :
        /\ ldPhase[l] = "received" => ldTaken[l] \in WashRequests
        /\ ldPhase[l] \notin {"select", "received", "stopped"} =>
              ldEmployees[l].currentRequest \in WashRequests
        /\ ldPhase[l] = "cycle" => ldChan[l] \in Chans

\* The inductive invariant.
IInv ==
    /\ TypeOK
    /\ HkLocals
    /\ StLocals
    /\ LdLocals
    /\ StockNeverNegative
    /\ ReplenishmentsFit
=============================================================================
