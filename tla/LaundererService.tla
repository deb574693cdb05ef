--------------------------- MODULE LaundererService ---------------------------
(***************************************************************************)
(* The launderers (internal/app/launderer_service.go): consume soap, with  *)
(* one immediate restock and retry when it is short, then wait for an      *)
(* hour-change event at least the cycle's duration after the start time.   *)
(* Goroutine phases: select, received, clock, wash (first attempt),        *)
(* restock, rewash (second attempt), register (entering washingCycle),     *)
(* cycle, stopped.                                                         *)
(*                                                                         *)
(* A start time is represented by ldElapsed, the whole hours from it to    *)
(* the latest hour change: -1 when the wash started in the middle of the   *)
(* current hour.  It saturates at ElapsedCap, where every event that is    *)
(* still in a channel is late enough for every cycle.                      *)
(***************************************************************************)
EXTENDS StockerService

CONSTANTS
    Launderers,    \* the configured launderer names
    Chans,         \* identities of hour-change channels
    NoChan,        \* no channel
    MaxLag         \* bound: hours an event may wait before it is consumed

ASSUME ChansAssumption == NoChan \notin Chans /\ MaxLag \in Nat

VARIABLES
    hourChangeChannels,   \* the registered hour-change channels
    hourBuffer,           \* their contents
    ldEmployees,   \* the employees map
    ldPhase,       \* the goroutine's program counter
    ldTaken,       \* the request received and not yet entered in the map
    ldElapsed,     \* hours since startTime, 0 outside a wash
    ldChan         \* the hourChangeCh of washingCycle, NoChan outside it

ldVars == <<ldEmployees, ldPhase, ldTaken, ldElapsed, ldChan>>
hourVars == <<hourChangeChannels, hourBuffer>>

Hours == INSTANCE TimeEventRegistry WITH channels <- hourChangeChannels, buffer <- hourBuffer

LdPool == INSTANCE EmployeeService WITH
    Employees <- Launderers, requests <- laundererCh,
    employees <- ldEmployees, phase <- ldPhase, taken <- ldTaken

washTable == [linens |-> [soap |-> 20, cycleDurationInHours |-> 2],
              towels |-> [soap |-> 10, cycleDurationInHours |-> 1]]

ElapsedCap == washTable["linens"].cycleDurationInHours + MaxLag

WashConfig(l) == washTable[ldEmployees[l].currentRequest.Item]

LdInit ==
    /\ LdPool!WorkInit
    /\ ldElapsed = [l \in Launderers |-> 0]
    /\ ldChan = [l \in Launderers |-> NoChan]

LdRestart ==
    /\ LdPool!WorkRestart
    /\ ldElapsed' = [l \in Launderers |-> 0]
    /\ ldChan' = [l \in Launderers |-> NoChan]

LdGoto(l, phase) ==
    /\ ldPhase' = [ldPhase EXCEPT ![l] = phase]
    /\ UNCHANGED <<ldEmployees, ldTaken>>

\* work returns and its locals are gone.
LdReturn(l) ==
    /\ LdPool!WorkReturns(l)
    /\ ldElapsed' = [ldElapsed EXCEPT ![l] = 0]
    /\ ldChan' = [ldChan EXCEPT ![l] = NoChan]

LdReceive(l) ==
    /\ LdPool!ReceiveRequest(l)
    /\ UNCHANGED <<ldElapsed, ldChan, cleaningCh, stockerCh, stock, hourVars>>

LdStartWork(l) ==
    /\ LdPool!StartWork(l, "clock")
    /\ UNCHANGED <<ldElapsed, ldChan, cleaningCh, stockerCh, stock, hourVars>>

LdStop(l) ==
    /\ LdPool!StopOnCancel(l)
    /\ UNCHANGED <<ldElapsed, ldChan, cleaningCh, stockerCh, stock, hourVars>>

\* clock.Now gives the start time, on an hour change or inside an hour, or
\* an error that abandons the request.
LdClock(l) ==
    /\ ldPhase[l] = "clock"
    /\ \/ /\ ~ctxDone
          /\ \E elapsed \in {-1, 0} : ldElapsed' = [ldElapsed EXCEPT ![l] = elapsed]
          /\ LdGoto(l, "wash")
          /\ UNCHANGED ldChan
       \/ LdReturn(l)
    /\ UNCHANGED <<channelVars, stock, hourVars>>

\* wash up to washingCycle, as the first (phase "wash") or second ("rewash")
\* attempt; only a shortage on the first attempt leads to a restock.
LdWash(l) ==
    /\ ldPhase[l] \in {"wash", "rewash"}
    /\ \E err \in {"nil", "insufficient", "failed"} :
          /\ ConsumeItem("soap", WashConfig(l).soap, err)
          /\ CASE err = "nil" ->
                    LdGoto(l, "register") /\ UNCHANGED <<ldElapsed, ldChan>>
               [] err = "insufficient" /\ ldPhase[l] = "wash" ->
                    LdGoto(l, "restock") /\ UNCHANGED <<ldElapsed, ldChan>>
               [] OTHER -> LdReturn(l)
    /\ UNCHANGED <<channelVars, hourVars>>

LdRestock(l) ==
    /\ ldPhase[l] = "restock"
    /\ \E err \in {"nil", "failed"} :
          /\ ImmediateRestock("soap", err)
          /\ IF err = "nil"
               THEN LdGoto(l, "rewash") /\ UNCHANGED <<ldElapsed, ldChan>>
               ELSE LdReturn(l)
    /\ UNCHANGED <<channelVars, hourVars>>

\* Mutant: the channel is registered for another event than the hour change.
LdRegisterElsewhere(l, inUse) ==
    /\ ldPhase[l] = "register"
    /\ \E c \in Chans \ inUse :
          /\ hourBuffer' = [hourBuffer EXCEPT ![c] = <<>>]
          /\ ldChan' = [ldChan EXCEPT ![l] = c]
    /\ LdGoto(l, "cycle")
    /\ UNCHANGED <<hourChangeChannels, ldElapsed, channelVars, stock>>

\* washingCycle makes a fresh channel (an identity outside `inUse', the
\* channels something else still refers to) and registers it.
LdRegister(l, inUse) ==
    /\ ldPhase[l] = "register"
    /\ \E c \in Chans \ inUse :
          /\ Hours!Register(c)
          /\ hourBuffer' = [hourBuffer EXCEPT ![c] = <<>>]
          /\ ldChan' = [ldChan EXCEPT ![l] = c]
    /\ LdGoto(l, "cycle")
    /\ UNCHANGED <<ldElapsed, channelVars, stock>>

\* Mutant: the cycle ends only at an event exactly its duration after the start.
CycleOverExactly(l, age) == ldElapsed[l] - age = WashConfig(l).cycleDurationInHours

\* currentTime.Sub(startTime).Hours() >= cycleDurationInHours
CycleOver(l, age) == ldElapsed[l] - age >= WashConfig(l).cycleDurationInHours

\* Mutant: no Unregister on the way out.
LdHourChangeLeaking(l) ==
    /\ ldPhase[l] = "cycle"
    /\ hourBuffer[ldChan[l]] # <<>>
    /\ hourBuffer' = [hourBuffer EXCEPT ![ldChan[l]] = <<>>]
    /\ IF CycleOver(l, hourBuffer[ldChan[l]][1]) THEN LdReturn(l) ELSE UNCHANGED ldVars
    /\ UNCHANGED <<hourChangeChannels, channelVars, stock>>

\* The select of washingCycle takes an event; a late enough one ends the
\* cycle, and the deferred Unregister runs on the way out.
LdHourChange(l) ==
    /\ ldPhase[l] = "cycle"
    /\ hourBuffer[ldChan[l]] # <<>>
    /\ hourBuffer' = [hourBuffer EXCEPT ![ldChan[l]] = <<>>]
    /\ IF CycleOver(l, hourBuffer[ldChan[l]][1])
         THEN Hours!Unregister(ldChan[l]) /\ LdReturn(l)
         ELSE UNCHANGED <<hourChangeChannels, ldVars>>
    /\ UNCHANGED <<channelVars, stock>>

\* The select of washingCycle takes ctx.Done: a nil error, so the wash counts
\* as done.  An event left in the channel goes with it.
LdCycleCancelled(l) ==
    /\ ldPhase[l] = "cycle"
    /\ ctxDone
    /\ Hours!Unregister(ldChan[l])
    /\ hourBuffer' = [hourBuffer EXCEPT ![ldChan[l]] = <<>>]
    /\ LdReturn(l)
    /\ UNCHANGED <<channelVars, stock>>

\* One step of launderer l, on every variable but the other services'.
LdStepOf(l, inUse) ==
    \/ LdReceive(l) \/ LdStop(l) \/ LdStartWork(l) \/ LdClock(l) \/ LdWash(l)
    \/ LdRestock(l) \/ LdRegister(l, inUse) \/ LdHourChange(l) \/ LdCycleCancelled(l)

\* l has a start time.
Washing(l) == ldPhase[l] \notin {"select", "received", "clock", "stopped"}

\* An hour passes for every wash under way.
AgeWashes ==
    ldElapsed' = [l \in Launderers |->
        IF Washing(l) /\ ldElapsed[l] < ElapsedCap THEN ldElapsed[l] + 1 ELSE ldElapsed[l]]

LdTypeOK ==
    /\ ldEmployees \in [Launderers -> LdPool!EmployeeStatus(WashRequests)]
    /\ ldPhase \in [Launderers -> {"select", "received", "clock", "wash", "restock", "rewash",
                                   "register", "cycle", "stopped"}]
    /\ ldTaken \in [Launderers -> WashRequests \cup {NoRequest}]
    /\ ldElapsed \in [Launderers -> -1..ElapsedCap]
    /\ ldChan \in [Launderers -> Chans \cup {NoChan}]
=============================================================================
