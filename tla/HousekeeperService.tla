-------------------------- MODULE HousekeeperService --------------------------
(***************************************************************************)
(* The housekeepers (internal/app/housekeeper_service.go).  work is a      *)
(* fixed list of steps per request type; a step that only logs is left     *)
(* out.  A housekeeper's goroutine is in one of                            *)
(*   select   waiting for a request          received holding one, still   *)
(*                                                    idle in the table    *)
(*   clock    asking for the time            restock  in ImmediateRestock  *)
(*   work     about to do its current step   stopped  ended by the context *)
(*   retry    consuming a second time                                      *)
(***************************************************************************)
EXTENDS StockerService, CottageRepo

CONSTANT Housekeepers    \* the configured housekeeper names

VARIABLES
    hkEmployees,   \* the employees map
    hkPhase,       \* the goroutine's program counter
    hkTaken,       \* the request received and not yet entered in the map
    hkStep         \* index of the current step of work, 0 outside work

hkVars == <<hkEmployees, hkPhase, hkTaken, hkStep>>

HkPool == INSTANCE EmployeeService WITH
    Employees <- Housekeepers, requests <- cleaningCh,
    employees <- hkEmployees, phase <- hkPhase, taken <- hkTaken

consume(item, quantity) == [kind |-> "consume", arg |-> item, quantity |-> quantity]
laundry(item) == [kind |-> "laundry", arg |-> item, quantity |-> 0]
setStatus(status) == [kind |-> "status", arg |-> status, quantity |-> 0]

\* The switch of work; an unknown type is only logged.
CleaningSteps(requestType) ==
    CASE requestType = "PREPARE_FOR_GUEST" ->
            << consume("wineBottle", 1), consume("aromaCandle", 1), setStatus("prepared_for_guest") >>
      [] requestType = "DAILY_CLEANING" ->
            << consume("cleaningItem", 5), laundry("towels"), setStatus("daily_cleaned") >>
      [] requestType = "FULL_CLEANING" ->
            << laundry("towels"), laundry("linens"), consume("cleaningItem", 10),
               setStatus("fully_cleaned") >>
      [] requestType = "PREPARE_FOR_SLEEP" ->
            << consume("teaBags", 1), consume("aromaCandle", 1), setStatus("prepared_for_sleep") >>
      [] OTHER -> << >>

HkRequest(h) == hkEmployees[h].currentRequest
HkSteps(h) == CleaningSteps(HkRequest(h).RequestType)
HkCurrentStep(h) == HkSteps(h)[hkStep[h]]

\* h's goroutine is about to perform a step of the given kind.
HkAt(h, kind) ==
    /\ hkPhase[h] = "work"
    /\ hkStep[h] <= Len(HkSteps(h))
    /\ HkCurrentStep(h).kind = kind

\* The step is over, however it ended: its errors are only logged.
HkNextStep(h) ==
    /\ hkStep' = [hkStep EXCEPT ![h] = @ + 1]
    /\ hkPhase' = [hkPhase EXCEPT ![h] = "work"]
    /\ UNCHANGED <<hkEmployees, hkTaken>>

HkGoto(h, phase) ==
    /\ hkPhase' = [hkPhase EXCEPT ![h] = phase]
    /\ UNCHANGED <<hkEmployees, hkTaken, hkStep>>

HkInit ==
    /\ HkPool!WorkInit
    /\ hkStep = [h \in Housekeepers |-> 0]

HkRestart ==
    /\ HkPool!WorkRestart
    /\ hkStep' = [h \in Housekeepers |-> 0]

HkReceive(h) ==
    /\ HkPool!ReceiveRequest(h)
    /\ UNCHANGED <<hkStep, laundererCh, stockerCh, stock, cleaningStatus>>

HkStartWork(h) ==
    /\ HkPool!StartWork(h, "clock")
    /\ UNCHANGED <<hkStep, laundererCh, stockerCh, stock, cleaningStatus>>

HkStop(h) ==
    /\ HkPool!StopOnCancel(h)
    /\ UNCHANGED <<hkStep, laundererCh, stockerCh, stock, cleaningStatus>>

\* clock.Now: without a start time the request is abandoned.
HkClock(h) ==
    /\ hkPhase[h] = "clock"
    /\ \/ /\ ~ctxDone
          /\ hkPhase' = [hkPhase EXCEPT ![h] = "work"]
          /\ hkStep' = [hkStep EXCEPT ![h] = 1]
          /\ UNCHANGED <<hkEmployees, hkTaken>>
       \/ /\ HkPool!WorkReturns(h)
          /\ UNCHANGED hkStep
    /\ UNCHANGED <<channelVars, stock, cleaningStatus>>

\* actionConsumeItemRetry up to its first error check.
HkConsume(h) ==
    /\ HkAt(h, "consume")
    /\ \E err \in {"nil", "insufficient", "failed"} :
          /\ ConsumeItem(HkCurrentStep(h).arg, HkCurrentStep(h).quantity, err)
          /\ IF err = "insufficient" THEN HkGoto(h, "restock") ELSE HkNextStep(h)
    /\ UNCHANGED <<channelVars, cleaningStatus>>

\* Mutant: a failed restock is tried again until it succeeds.
HkRestockInsisting(h) ==
    /\ hkPhase[h] = "restock"
    /\ \E err \in {"nil", "failed"} :
          /\ ImmediateRestock(HkCurrentStep(h).arg, err)
          /\ HkGoto(h, IF err = "nil" THEN "retry" ELSE "restock")
    /\ UNCHANGED <<channelVars, cleaningStatus>>

\* Mutant: the error of the restock is ignored.
HkRestockUnchecked(h) ==
    /\ hkPhase[h] = "restock"
    /\ \E err \in {"nil", "failed"} : ImmediateRestock(HkCurrentStep(h).arg, err)
    /\ HkGoto(h, "retry")
    /\ UNCHANGED <<channelVars, cleaningStatus>>

\* The ImmediateRestock of actionConsumeItemRetry.
HkRestock(h) ==
    /\ hkPhase[h] = "restock"
    /\ \E err \in {"nil", "failed"} :
          /\ ImmediateRestock(HkCurrentStep(h).arg, err)
          /\ IF err = "nil" THEN HkGoto(h, "retry") ELSE HkNextStep(h)
    /\ UNCHANGED <<channelVars, cleaningStatus>>

\* The second and last attempt, whatever it returns.
HkRetry(h) ==
    /\ hkPhase[h] = "retry"
    /\ \E err \in {"nil", "insufficient", "failed"} :
          ConsumeItem(HkCurrentStep(h).arg, HkCurrentStep(h).quantity, err)
    /\ HkNextStep(h)
    /\ UNCHANGED <<channelVars, cleaningStatus>>

\* actionLaundry: a blocking send that does not watch the context.
HkLaundry(h) ==
    /\ HkAt(h, "laundry")
    /\ SendWash([RoomName |-> HkRequest(h).RoomName, Item |-> HkCurrentStep(h).arg])
    /\ HkNextStep(h)
    /\ UNCHANGED <<cleaningCh, stockerCh, stock, cleaningStatus>>

\* Mutant: the room is read from a field that the housekeepers share, so it may
\* be the room of any that is at work.
HkUpdateStatusShared(h) ==
    /\ HkAt(h, "status")
    /\ \E k \in {j \in Housekeepers : ~hkEmployees[j].isIdle}, err \in {"nil", "failed"} :
          UpdateCleaningStatus(HkRequest(k).RoomName, HkCurrentStep(h).arg, err)
    /\ HkNextStep(h)
    /\ UNCHANGED <<channelVars, stock>>

HkUpdateStatus(h) ==
    /\ HkAt(h, "status")
    /\ \E err \in {"nil", "failed"} :
          UpdateCleaningStatus(HkRequest(h).RoomName, HkCurrentStep(h).arg, err)
    /\ HkNextStep(h)
    /\ UNCHANGED <<channelVars, stock>>

\* The steps are done; the finish time is only logged.
HkFinish(h) ==
    /\ hkPhase[h] = "work"
    /\ hkStep[h] > Len(HkSteps(h))
    /\ HkPool!WorkReturns(h)
    /\ hkStep' = [hkStep EXCEPT ![h] = 0]
    /\ UNCHANGED <<channelVars, stock, cleaningStatus>>

\* One step of housekeeper h, on every variable but the other services'.
HkStepOf(h) ==
    \/ HkReceive(h) \/ HkStop(h) \/ HkStartWork(h) \/ HkClock(h) \/ HkConsume(h)
    \/ HkRestock(h) \/ HkRetry(h) \/ HkLaundry(h) \/ HkUpdateStatus(h) \/ HkFinish(h)

HkTypeOK ==
    /\ hkEmployees \in [Housekeepers -> HkPool!EmployeeStatus(CleaningRequests)]
    /\ hkPhase \in [Housekeepers -> {"select", "received", "clock", "work", "restock", "retry",
                                     "stopped"}]
    /\ hkTaken \in [Housekeepers -> CleaningRequests \cup {NoRequest}]
    /\ hkStep \in [Housekeepers -> 0..5]
=============================================================================
