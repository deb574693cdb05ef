--------------------------- MODULE EmployeeService ---------------------------
(***************************************************************************)
(* The generic worker pool of internal/app/employee_service.go, which the  *)
(* housekeeper, launderer and stocker services embed: one goroutine per    *)
(* employee that loops over a select of the context and of its request     *)
(* channel.  Each service instantiates this module with its own channel,   *)
(* employee table and program counters, and supplies the work.             *)
(***************************************************************************)
EXTENDS Naturals, Sequences, FiniteSets, Functions

CONSTANTS
    Employees,     \* the employee names (the keys of the employees map)
    NoRequest      \* the zero request

VARIABLES
    requests,      \* the request channel
    employees,     \* the employees map: one employeeStatus each
    phase,         \* where each employee's goroutine is
    taken,         \* the request a goroutine has received and not yet entered
                   \* in the table, NoRequest outside phase "received"
    ctxDone

\* employeeStatus with the requests of a given set.
EmployeeStatus(Requests) ==
    [isIdle: BOOLEAN, handledRequests: Nat, currentRequest: Requests \cup {NoRequest}]

\* The constructors fill the map with idle employees; Work starts them.
NewEmployees ==
    [e \in Employees |-> [isIdle |-> TRUE, handledRequests |-> 0, currentRequest |-> NoRequest]]

WorkInit ==
    /\ employees = NewEmployees
    /\ phase = [e \in Employees |-> "select"]
    /\ taken = [e \in Employees |-> NoRequest]

\* The same in a process that is started again.
WorkRestart ==
    /\ employees' = NewEmployees
    /\ phase' = [e \in Employees |-> "select"]
    /\ taken' = [e \in Employees |-> NoRequest]

\* Mutant: the request is not counted.
setEmployeeWorkingUncounted(e, request) ==
    employees' = [employees EXCEPT ![e] =
        [isIdle |-> FALSE, handledRequests |-> @.handledRequests, currentRequest |-> request]]

setEmployeeWorkingStatus(e, request) ==
    employees' = [employees EXCEPT ![e] =
        [isIdle |-> FALSE, handledRequests |-> @.handledRequests + 1, currentRequest |-> request]]

setEmployeeIdleStatus(e) ==
    employees' = [employees EXCEPT ![e] =
        [isIdle |-> TRUE, handledRequests |-> @.handledRequests, currentRequest |-> NoRequest]]

\* What IdleEmployeeCount and EmployeeMetrics report, under the same mutex.
IdleEmployeeCount == Cardinality({e \in Employees : employees[e].isIdle})
HandledRequests == SumFunction([e \in Employees |-> employees[e].handledRequests])

\* The employees between the receive and setEmployeeWorkingStatus.
Receiving == {e \in Employees : phase[e] = "received"}

\* select takes a request (it may even when the context is done too: a Go
\* select with two ready cases picks either).  The table does not show it yet.
ReceiveRequest(e) ==
    /\ phase[e] = "select"
    /\ requests # <<>>
    /\ requests' = Tail(requests)
    /\ taken' = [taken EXCEPT ![e] = Head(requests)]
    /\ phase' = [phase EXCEPT ![e] = "received"]
    /\ UNCHANGED employees

\* setEmployeeWorkingStatus, under the mutex, and the call of work up to its
\* first blocking point.  From here on the table has the goroutine's request.
StartWork(e, first) ==
    /\ phase[e] = "received"
    /\ setEmployeeWorkingStatus(e, taken[e])
    /\ taken' = [taken EXCEPT ![e] = NoRequest]
    /\ phase' = [phase EXCEPT ![e] = first]
    /\ UNCHANGED requests

\* work returns, whatever became of the request, and the loop goes on.
WorkReturns(e) ==
    /\ setEmployeeIdleStatus(e)
    /\ phase' = [phase EXCEPT ![e] = "select"]
    /\ UNCHANGED taken

\* Mutant: the goroutine that ends takes a request with it.
StopTakingRequest(e) ==
    /\ phase[e] = "select"
    /\ ctxDone
    /\ phase' = [phase EXCEPT ![e] = "stopped"]
    /\ requests' = IF requests = <<>> THEN requests ELSE Tail(requests)
    /\ UNCHANGED <<employees, taken>>

\* select takes the ctx.Done case and the goroutine ends.
StopOnCancel(e) ==
    /\ phase[e] = "select"
    /\ ctxDone
    /\ phase' = [phase EXCEPT ![e] = "stopped"]
    /\ UNCHANGED <<requests, employees, taken>>
=============================================================================
