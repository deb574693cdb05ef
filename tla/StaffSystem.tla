----------------------------- MODULE StaffSystem -----------------------------
(***************************************************************************)
(* The whole process: the three worker pools of StaffStock with the        *)
(* manager and the time-event service in place of its environment, fed by  *)
(* three broker queues.  Around it, publishers, the simulated clock, lost  *)
(* broker channels, shutdown, and crashes followed by a restart.           *)
(***************************************************************************)
EXTENDS StaffStock, TimeEventNotificationService, Functions

CONSTANTS
    MaxDays,       \* bound: day-change messages
    MaxBad,        \* bound: time messages that do not unmarshal
    MaxLosses,     \* bound: losses of broker channels
    Backlog        \* cleaning messages published before the process first starts

ASSUME SystemBoundsAssumption ==
    /\ MaxDays \in Nat
    /\ MaxBad \in Nat
    /\ MaxLosses \in Nat

ASSUME BacklogAssumption == Backlog \in Seq(Bodies)

VARIABLES
    published,     \* the bodies published so far, each at most once
    days,          \* day-change messages published
    bad,           \* bad time messages published
    losses,        \* losses of broker channels so far
    dispatched,    \* history: the requests sent on the cleaning channel
    worked         \* history: the requests whose work has returned

sysEnvVars == <<published, days, bad, losses>>
historyVars == <<dispatched, worked>>
queueVars == <<cleaningQueueVars, hourQueueVars, dayQueueVars>>
frontVars == <<mgrVars, dayVars, tensVars, queueVars>>
sysVars == <<vars, frontVars, sysEnvVars, historyVars>>

SysInit ==
    /\ Init
    /\ MgrInit
    /\ TensInit
    /\ CleaningQueue!QueueInit(Backlog)
    /\ HourQueue!QueueInit(<<>>)
    /\ DayQueue!QueueInit(<<>>)
    /\ published = Range(Backlog)
    /\ days = 0
    /\ bad = 0
    /\ losses = 0
    /\ dispatched = {}
    /\ worked = {}

-----------------------------------------------------------------------------
\* Outside the process.

PublishCleaning(body) ==
    /\ body \notin published
    /\ published' = published \cup {body}
    /\ CleaningQueue!Publish(body)
    /\ UNCHANGED <<vars, mgrVars, dayVars, tensVars, hourQueueVars, dayQueueVars,
                   days, bad, losses, historyVars>>

PublishDay(message) ==
    /\ days < MaxDays
    /\ days' = days + 1
    /\ message = BadEvent => bad < MaxBad
    /\ bad' = IF message = BadEvent THEN bad + 1 ELSE bad
    /\ DayQueue!Publish(message)
    /\ UNCHANGED <<vars, mgrVars, dayVars, tensVars, cleaningQueueVars, hourQueueVars,
                   published, losses, historyVars>>

\* An hour passes, and the clock service publishes its hour-change message.
PublishHour(message) ==
    /\ HourPasses
    /\ TensMayAge
    /\ message = BadEvent => bad < MaxBad
    /\ bad' = IF message = BadEvent THEN bad + 1 ELSE bad
    /\ AgeTens(message)
    /\ UNCHANGED <<mgrVars, dayVars, cleaningQueueVars, dayQueueVars,
                   published, days, losses, historyVars>>

\* One AMQP channel, several, or with the connection all of them are lost.
BrokerLost(queues) ==
    /\ losses < MaxLosses
    /\ losses' = losses + 1
    /\ IF "cleaning" \in queues THEN CleaningQueue!ChannelLost ELSE UNCHANGED cleaningQueueVars
    /\ IF "hour" \in queues THEN HourQueue!ChannelLost ELSE UNCHANGED hourQueueVars
    /\ IF "day" \in queues THEN DayQueue!ChannelLost ELSE UNCHANGED dayQueueVars
    /\ UNCHANGED <<vars, mgrVars, dayVars, tensVars, published, days, bad, historyVars>>

SysShutdown ==
    /\ Shutdown
    /\ UNCHANGED <<frontVars, sysEnvVars, historyVars>>

\* The process ends, killed or at the end of a shutdown, and a new one starts.
SysCrash ==
    /\ Crash
    /\ MgrRestart
    /\ TensRestart
    /\ CleaningQueue!ConsumerRestarted
    /\ HourQueue!ConsumerRestarted
    /\ DayQueue!ConsumerRestarted
    /\ UNCHANGED <<sysEnvVars, historyVars>>

-----------------------------------------------------------------------------
\* The goroutines.

\* The manager's two sends, its only steps in these two phases, are the
\* arrivals of StaffStock.
ManagerStep ==
    /\ MgrStep
    /\ mgrPhase = "dispatch" => cleaningCount < MaxCleaning
    /\ mgrPhase = "restock" => restockCount < MaxRestock
    /\ cleaningCount' = IF mgrPhase = "dispatch" THEN cleaningCount + 1 ELSE cleaningCount
    /\ restockCount' = IF mgrPhase = "restock" THEN restockCount + 1 ELSE restockCount
    /\ dispatched' = IF mgrPhase = "dispatch" THEN dispatched \cup {mgrDelivery} ELSE dispatched
    /\ UNCHANGED <<ctxDone, stock, cleaningStatus, hourVars, hkVars, stVars, ldVars, crashes,
                   tensVars, hourQueueVars, dayQueueVars, sysEnvVars, worked>>

TimeEventStep ==
    /\ TensStep
    /\ UNCHANGED <<channelVars, ctxDone, stock, cleaningStatus, hkVars, stVars, ldVars, envVars,
                   mgrVars, cleaningQueueVars, sysEnvVars, historyVars>>

SysHousekeeperStep(h) ==
    /\ HousekeeperStep(h)
    /\ worked' = IF hkEmployees[h].isIdle = FALSE /\ hkEmployees'[h].isIdle
                   THEN worked \cup {HkRequest(h)} ELSE worked
    /\ UNCHANGED <<frontVars, sysEnvVars, dispatched>>

SysStockerStep(s) ==
    /\ StockerStep(s)
    /\ UNCHANGED <<frontVars, sysEnvVars, historyVars>>

\* The identities that neither a wash nor the time-event service refers to.
FreshChans == Chans \ (ChansInUse \cup tensPending)

\* A channel that a washing cycle makes is one of these; they do not differ in
\* anything but their names, so one of them stands for all.
SysLaundererStep(l) ==
    /\ LaundererStep(l)
    /\ \/ ldChan'[l] \in {ldChan[l], NoChan}
       \/ \E c \in FreshChans : ldChan'[l] = c /\ c = CHOOSE d \in FreshChans : TRUE
    /\ UNCHANGED <<frontVars, sysEnvVars, historyVars>>

SysNext ==
    \/ \E body \in Bodies : PublishCleaning(body)
    \/ \E message \in {0, BadEvent} : PublishDay(message)
    \/ \E message \in {0, BadEvent} : PublishHour(message)
    \/ \E queues \in SUBSET {"cleaning", "hour", "day"} \ {{}} : BrokerLost(queues)
    \/ SysShutdown
    \/ SysCrash
    \/ ManagerStep
    \/ TimeEventStep
    \/ \E h \in Housekeepers : SysHousekeeperStep(h)
    \/ \E s \in Stockers : SysStockerStep(s)
    \/ \E l \in Launderers : SysLaundererStep(l)

SysSpec == SysInit /\ [][SysNext]_sysVars

\* Every goroutine that can go on does, and the simulated clock does not stop.
\* Nothing is assumed of publishers, losses, crashes or shutdown.
\* Every step of a goroutine changes the variables in its subscript.
Fairness ==
    /\ WF_<<mgrVars, dayVars, cleaningQueueVars>>(ManagerStep)
    /\ WF_<<tensVars, hourQueueVars, dayQueueVars>>(TimeEventStep)
    /\ WF_hourReady(PublishHour(0))
    /\ \A h \in Housekeepers : WF_hkVars(SysHousekeeperStep(h))
    /\ \A s \in Stockers : WF_stVars(SysStockerStep(s))
    /\ \A l \in Launderers : WF_<<ldVars, hourVars>>(SysLaundererStep(l))

FairSpec == SysSpec /\ Fairness

-----------------------------------------------------------------------------
\* Every variable has its type.
SysTypeOK ==
    /\ TypeOK
    /\ MgrTypeOK
    /\ TensTypeOK
    /\ published \subseteq Bodies
    /\ days \in 0..MaxDays /\ bad \in 0..MaxBad /\ losses \in 0..MaxLosses
    /\ dispatched \subseteq CleaningRequests /\ worked \subseteq CleaningRequests

\* The process as a whole does to the stock and the channels only what the
\* pools of StaffStock do in their environment: the manager's sends are its
\* arrivals, the offers of notify its hour offers, so that what is proved of
\* StaffStock holds here.
ImplementsStaffStock == Spec

\* A valid cleaning message is still with the broker until its request is in
\* the cleaning channel: the acknowledgement comes after the dispatch, so that
\* neither a crash, a lost channel nor a shutdown in between loses it.
NoRequestLostUndispatched ==
    \A body \in published :
        Unmarshals(body) =>
            \/ RequestOf(body) \in dispatched
            \/ body \in Range(cleaningReady) \cup Range(cleaningUnacked)

\* The requests in the cleaning channel, received by housekeepers that the table
\* still shows idle, and being worked on.
InFlight ==
    Range(cleaningCh)
        \cup {hkTaken[h] : h \in HkPool!Receiving}
        \cup {HkRequest(h) : h \in {k \in Housekeepers : ~hkEmployees[k].isIdle}}

\* A dispatched request is waiting, being worked on, or its work has returned.
\* Only a crash loses one, and never more than the channel holds and the
\* housekeepers have in hand.
RequestsAccountedFor ==
    Cardinality(dispatched \ (worked \cup InFlight))
        <= crashes * (CleaningCap + Cardinality(Housekeepers))

Handover == INSTANCE RequestHandover WITH
    Requests <- CleaningRequests,
    MaxInHand <- CleaningCap + Cardinality(Housekeepers),
    accepted <- {RequestOf(body) : body \in {b \in published : Unmarshals(b)}},
    handedOver <- dispatched,
    inHand <- InFlight,
    done <- worked,
    restarts <- crashes

\* The process hands requests over as RequestHandover promises: nothing but the
\* end of its work, or of the process, takes a request out of the channel and
\* the housekeepers' hands; not cancellation, a lost channel or a redelivery.
ImplementsHandover == Handover!HandoverSpec

\* The status a request type ends with.
StatusFor(requestType) ==
    {CleaningSteps(requestType)[n].arg : n \in {k \in 1..Len(CleaningSteps(requestType)) :
        CleaningSteps(requestType)[k].kind = "status"}}

\* A cottage shows the status of a request dispatched for that very room: rooms
\* cleaned at the same time do not get each other's.
StatusWasRequested ==
    \A room \in Cottages :
        \/ cleaningStatus[room] = "initial"
        \/ \E request \in dispatched :
              request.RoomName = room /\ cleaningStatus[room] \in StatusFor(request.RequestType)

\* The registries hold exactly the channels somebody reads: one of its own for
\* each launderer in a washing cycle, and the manager's while its loop runs.
RegistriesExact ==
    LET washing == {l \in Launderers : ldPhase[l] = "cycle"}
    IN  /\ hourChangeChannels = {ldChan[l] : l \in washing}
        /\ \A k, l \in washing : ldChan[k] = ldChan[l] => k = l
        /\ (DayChan \in dayChangeChannels) <=> mgrPhase \notin {"starting", "returned"}

\* Every published valid request is worked on in the end, although housekeepers
\* wait for launderers, launderers for hour changes and the manager for both:
\* again and again nothing published is left to do (worked only grows).
EveryRequestWorked ==
    []<>(\A body \in published : Unmarshals(body) => RequestOf(body) \in worked)

\* A day change that is taken from the queue while the manager is registered
\* leads to a restock request later, even if it is skipped because the manager,
\* busy dispatching, has not read the one before.  One that is taken before the
\* manager has registered leads to none.
DayChangeRestocks ==
    tensPhase = "dayAck" /\ DayChan \in dayChangeChannels ~> mgrPhase = "restock"

\* Every wash comes to an end: a skipped event, a stale one in the channel or one
\* that notify still holds only delays it, and no launderer stays in its cycle.
WashesEnd == \A l \in Launderers : []<>(ldPhase[l] # "cycle")

-----------------------------------------------------------------------------
\* What the repository's documents and tests say and the code does not keep.

\* Only the request values the README lists as accepted are dispatched, and
\* other messages are nacked.
OnlyAcceptedTypesDispatched == \A request \in dispatched : request.RequestType \in KnownTypes

\* After cancellation every employee's goroutine ends and Work returns.
WorkReturnsAfterCancel ==
    ctxDone ~> /\ \A h \in Housekeepers : hkPhase[h] = "stopped"
               /\ \A l \in Launderers : ldPhase[l] = "stopped"
               /\ \A s \in Stockers : stPhase[s] = "stopped"

\* After cancellation the manager's Start returns, and with it Services.Start.
ManagerReturnsAfterCancel == ctxDone ~> mgrPhase = "returned"
=============================================================================
