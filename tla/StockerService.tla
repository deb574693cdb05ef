---------------------------- MODULE StockerService ----------------------------
(***************************************************************************)
(* The stockers (internal/app/stocker_service.go).  A stocker takes one    *)
(* snapshot of the stock and then walks the requested items, restocking    *)
(* the ones the snapshot shows below the minimum.  ImmediateRestock is the *)
(* call the other services make into the stocker from their own goroutine. *)
(* Goroutine phases: select, received, snapshot, items, stopped.           *)
(***************************************************************************)
EXTENDS StockRepo

CONSTANT Stockers        \* the configured stocker names

VARIABLES
    stEmployees,   \* the employees map
    stPhase,       \* the goroutine's program counter
    stTaken,       \* the request received and not yet entered in the map
    stSnapshot,    \* the local stock map of work, all 0 outside work
    stNext         \* index of the next requested item, 0 outside work

stVars == <<stEmployees, stPhase, stTaken, stSnapshot, stNext>>

StPool == INSTANCE EmployeeService WITH
    Employees <- Stockers, requests <- stockerCh,
    employees <- stEmployees, phase <- stPhase, taken <- stTaken

minimumStockQuantity == 10
stockReplenishmentQuantity == 50

ImmediateRestock(item, err) == RestockItem(item, stockReplenishmentQuantity, err)

StItems(s) == stEmployees[s].currentRequest
NoSnapshot == [i \in Items |-> 0]

StInit ==
    /\ StPool!WorkInit
    /\ stSnapshot = [s \in Stockers |-> NoSnapshot]
    /\ stNext = [s \in Stockers |-> 0]

StRestart ==
    /\ StPool!WorkRestart
    /\ stSnapshot' = [s \in Stockers |-> NoSnapshot]
    /\ stNext' = [s \in Stockers |-> 0]

StReceive(s) ==
    /\ StPool!ReceiveRequest(s)
    /\ UNCHANGED <<stSnapshot, stNext, cleaningCh, laundererCh, stock>>

\* The manager never sends an empty list, so the early return for one is not
\* a step of its own.
StStartWork(s) ==
    /\ StPool!StartWork(s, "snapshot")
    /\ UNCHANGED <<stSnapshot, stNext, cleaningCh, laundererCh, stock>>

StStop(s) ==
    /\ StPool!StopOnCancel(s)
    /\ UNCHANGED <<stSnapshot, stNext, cleaningCh, laundererCh, stock>>

\* GetStock: the stock as it is now, or an error that ends the work.
StGetStock(s) ==
    /\ stPhase[s] = "snapshot"
    /\ \/ /\ ~ctxDone
          /\ stSnapshot' = [stSnapshot EXCEPT ![s] = stock]
          /\ stNext' = [stNext EXCEPT ![s] = 1]
          /\ stPhase' = [stPhase EXCEPT ![s] = "items"]
          /\ UNCHANGED <<stEmployees, stTaken>>
       \/ /\ StPool!WorkReturns(s)
          /\ UNCHANGED <<stSnapshot, stNext>>
    /\ UNCHANGED <<channelVars, stock>>

\* The next requested item is short in the snapshot.
StIsShort(s) == stSnapshot[s][StItems(s)[stNext[s]]] < minimumStockQuantity

\* Mutant: an item whose restock fails is tried again.
StNextItemInsisting(s) ==
    /\ stPhase[s] = "items"
    /\ stNext[s] <= Len(StItems(s))
    /\ \E err \in {"nil", "failed"} :
          /\ IF StIsShort(s)
               THEN RestockItem(StItems(s)[stNext[s]], stockReplenishmentQuantity, err)
               ELSE err = "nil" /\ UNCHANGED stock
          /\ stNext' = IF err = "nil" THEN [stNext EXCEPT ![s] = @ + 1] ELSE stNext
    /\ UNCHANGED <<stEmployees, stPhase, stTaken, stSnapshot, channelVars>>

\* One iteration of the loop: skip, or restock and go on whatever the error.
StNextItem(s) ==
    /\ stPhase[s] = "items"
    /\ stNext[s] <= Len(StItems(s))
    /\ IF StIsShort(s)
         THEN \E err \in {"nil", "failed"} :
                 RestockItem(StItems(s)[stNext[s]], stockReplenishmentQuantity, err)
         ELSE UNCHANGED stock
    /\ stNext' = [stNext EXCEPT ![s] = @ + 1]
    /\ UNCHANGED <<stEmployees, stPhase, stTaken, stSnapshot, channelVars>>

StFinish(s) ==
    /\ stPhase[s] = "items"
    /\ stNext[s] > Len(StItems(s))
    /\ StPool!WorkReturns(s)
    /\ stSnapshot' = [stSnapshot EXCEPT ![s] = NoSnapshot]
    /\ stNext' = [stNext EXCEPT ![s] = 0]
    /\ UNCHANGED <<channelVars, stock>>

\* One step of stocker s, on every variable but the other services'.
StStepOf(s) ==
    \/ StReceive(s) \/ StStop(s) \/ StStartWork(s) \/ StGetStock(s) \/ StNextItem(s)
    \/ StFinish(s)

StTypeOK ==
    /\ stEmployees \in [Stockers -> StPool!EmployeeStatus(RestockRequests)]
    /\ stPhase \in [Stockers -> {"select", "received", "snapshot", "items", "stopped"}]
    /\ stTaken \in [Stockers -> RestockRequests \cup {NoRequest}]
    /\ stSnapshot \in [Stockers -> [Items -> Int]]
    /\ stNext \in [Stockers -> Nat]
=============================================================================
