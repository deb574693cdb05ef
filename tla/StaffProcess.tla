----------------------------- MODULE StaffProcess -----------------------------
(***************************************************************************)
(* The life of the process (internal/main.go): run opens the database, the *)
(* broker connection, its channels and queues, starts the HTTP server and  *)
(* the services, waits for the context and closes everything again.  The   *)
(* connection, a channel or the context may end at any moment of it, and   *)
(* the probes are answered from the start of the HTTP server on.           *)
(* Of the services only their consumers are of interest here; StaffSystem  *)
(* is about what they do with the deliveries.  main's goroutine is in      *)
(*   startup, shutdown  at step mainStep of the list below                 *)
(*   serving   in ManagerService.Start     waiting  at <-ctx.Done()        *)
(*   exited    run has returned nil        failed   run has returned an    *)
(*             error; the steps stay where they were                       *)
(***************************************************************************)
EXTENDS RabbitMqConsumer, Sequences

CONSTANT MaxLosses        \* bound: losses of the connection or of a channel

ASSUME MaxLossesAssumption == MaxLosses \in Nat

VARIABLES
    mainPhase,
    mainStep,
    tensPhase,    \* TimeEventNotificationService.Start: off, hour, day, consuming, returned
    ctxDone,      \* the root context has been cancelled
    mongoOpen,    \* the client is connected and not disconnected
    httpUp,       \* the HTTP server listens
    probe,        \* the latest request to /readyz: none, ping (in progress), 200, 503
    losses

mainVars == <<mainPhase, mainStep>>
brokerVars == <<connVars, refused, chanVars, opVars>>
processVars == <<brokerVars, mainVars, tensPhase, ctxDone, mongoOpen, httpUp, probe, losses>>

Step(op, c) == [op |-> op, consumer |-> c]
Main(op) == Step(op, "none")

\* run up to the ManagerService.Start that Services.Start ends with.
StartupSteps ==
    << Main("config"), Main("mongo"), Main("dial"),
       Step("new", "cleaning"), Step("new", "day"), Step("new", "hour"),
       Step("declare", "cleaning"), Step("bind", "cleaning"),
       Step("declare", "day"), Step("bind", "day"),
       Step("declare", "hour"), Step("bind", "hour"),
       Main("clock"), Main("http"), Main("services"), Step("consume", "cleaning") >>

ShutdownSteps ==
    << Main("telemetry"), Main("mongo"), Step("close", "hour"), Step("close", "day"),
       Step("close", "cleaning"), Main("connection"), Main("clock"), Main("http") >>

ProcessInit ==
    /\ ConsumerInit
    /\ mainPhase = "startup"
    /\ mainStep = 1
    /\ tensPhase = "off"
    /\ ctxDone = FALSE
    /\ mongoOpen = FALSE
    /\ httpUp = FALSE
    /\ probe = "none"
    /\ losses = 0

-----------------------------------------------------------------------------
\* Start-up.  Every error makes run return it, and nothing is closed.

Starting(op) == mainPhase = "startup" /\ StartupSteps[mainStep].op = op

StepDone == mainStep' = mainStep + 1 /\ UNCHANGED mainPhase
Fail == mainPhase' = "failed" /\ UNCHANGED mainStep

\* LoadConfigs and telemetry.Init.
Configure ==
    /\ Starting("config")
    /\ StepDone \/ Fail
    /\ UNCHANGED <<brokerVars, tensPhase, ctxDone, mongoOpen, httpUp, probe, losses>>

\* NewMongoDb: the ping watches the context; a client that cannot ping is
\* disconnected.
NewMongoDb ==
    /\ Starting("mongo")
    /\ \/ ~ctxDone /\ StepDone /\ mongoOpen' = TRUE
       \/ Fail /\ UNCHANGED mongoOpen
    /\ UNCHANGED <<brokerVars, tensPhase, ctxDone, httpUp, probe, losses>>

NewRabbitMqConnection ==
    /\ Starting("dial")
    /\ \E answer \in {"connected", "dialling", "failed"} :
          /\ reconnectLocked(answer)
          /\ CASE answer = "connected" -> StepDone
               [] answer = "dialling"  -> UNCHANGED mainVars
               [] answer = "failed"    -> Fail
    /\ UNCHANGED <<chanVars, opVars, tensPhase, ctxDone, mongoOpen, httpUp, probe, losses>>

\* The rest of NewRabbitmq: nothing in it watches the context.
NewRabbitmq ==
    /\ Starting("new") \/ Starting("declare") \/ Starting("bind")
    /\ \E result \in {"going", "done", "failed"} :
          /\ ConsumerOp(StartupSteps[mainStep].op, StartupSteps[mainStep].consumer, result)
          /\ CASE result = "going"  -> UNCHANGED mainVars
               [] result = "done"   -> StepDone
               [] result = "failed" -> Fail
    /\ UNCHANGED <<tensPhase, ctxDone, mongoOpen, httpUp, probe, losses>>

\* The client connects when it is first used.
NewClockClient ==
    /\ Starting("clock")
    /\ StepDone \/ Fail
    /\ UNCHANGED <<brokerVars, tensPhase, ctxDone, mongoOpen, httpUp, probe, losses>>

\* A server that cannot listen is only logged.
StartHTTPServer ==
    /\ Starting("http")
    /\ StepDone
    /\ httpUp' \in BOOLEAN
    /\ UNCHANGED <<brokerVars, tensPhase, ctxDone, mongoOpen, probe, losses>>

\* NewServices and the go statements of Services.Start.
StartServices ==
    /\ Starting("services")
    /\ \/ StepDone /\ tensPhase' = "hour"
       \/ Fail /\ UNCHANGED tensPhase
    /\ UNCHANGED <<brokerVars, ctxDone, mongoOpen, httpUp, probe, losses>>

\* ManagerService.Start: it returns, and with it Services.Start, when Consume
\* fails, and run does not notice.
StartManager ==
    /\ Starting("consume")
    /\ \E err \in {"nil", "failed"} :
          /\ Consume("cleaning", ctxDone, err)
          /\ mainPhase' = IF err = "nil" THEN "serving" ELSE "waiting"
    /\ UNCHANGED <<mainStep, tensPhase, ctxDone, mongoOpen, httpUp, probe, losses>>

-----------------------------------------------------------------------------
\* Running.

\* ManagerService.Start sees the context or the end of its deliveries.
ManagerReturns ==
    /\ mainPhase = "serving"
    /\ ctxDone \/ ~chanOpen["cleaning"]
    /\ mainPhase' = "waiting"
    /\ UNCHANGED <<brokerVars, mainStep, tensPhase, ctxDone, mongoOpen, httpUp, probe, losses>>

Running == mainPhase \notin {"exited", "failed"}

\* TimeEventNotificationService.Start consumes the hour changes, then the day
\* changes, and returns if one of them fails.
TensConsume ==
    /\ Running
    /\ tensPhase \in {"hour", "day"}
    /\ \E err \in {"nil", "failed"} :
          /\ Consume(tensPhase, ctxDone, err)
          /\ tensPhase' = CASE err = "failed" -> "returned"
                            [] tensPhase = "hour" -> "day"
                            [] OTHER -> "consuming"
    /\ UNCHANGED <<mainVars, ctxDone, mongoOpen, httpUp, probe, losses>>

TensReturns ==
    /\ Running
    /\ tensPhase = "consuming"
    /\ ctxDone \/ ~chanOpen["hour"] \/ ~chanOpen["day"]
    /\ tensPhase' = "returned"
    /\ UNCHANGED <<brokerVars, mainVars, ctxDone, mongoOpen, httpUp, probe, losses>>

\* ReadinessHandler up to its first check.
ProbeConnection ==
    /\ Running
    /\ httpUp
    /\ probe # "ping"
    /\ probe' = IF IsConnectionOpen THEN "ping" ELSE "503"
    /\ UNCHANGED <<brokerVars, mainVars, tensPhase, ctxDone, mongoOpen, httpUp, losses>>

\* The ping fails on a disconnected client, and may fail on a connected one.
ProbePing ==
    /\ Running
    /\ probe = "ping"
    /\ probe' \in IF mongoOpen THEN {"200", "503"} ELSE {"503"}
    /\ UNCHANGED <<brokerVars, mainVars, tensPhase, ctxDone, mongoOpen, httpUp, losses>>

-----------------------------------------------------------------------------
\* Shutdown: an error of a step is only logged.

ShutdownBegins ==
    /\ mainPhase = "waiting"
    /\ ctxDone
    /\ mainPhase' = "shutdown"
    /\ mainStep' = 1
    /\ UNCHANGED <<brokerVars, tensPhase, ctxDone, mongoOpen, httpUp, probe, losses>>

ShuttingDown(op) == mainPhase = "shutdown" /\ ShutdownSteps[mainStep].op = op

ShutdownTelemetry ==
    /\ ShuttingDown("telemetry")
    /\ StepDone
    /\ UNCHANGED <<brokerVars, tensPhase, ctxDone, mongoOpen, httpUp, probe, losses>>

CloseMongo ==
    /\ ShuttingDown("mongo")
    /\ StepDone
    /\ mongoOpen' = FALSE
    /\ UNCHANGED <<brokerVars, tensPhase, ctxDone, httpUp, probe, losses>>

CloseConsumer ==
    /\ ShuttingDown("close")
    /\ CloseChannel(ShutdownSteps[mainStep].consumer)
    /\ StepDone
    /\ UNCHANGED <<connVars, refused, opVars, tensPhase, ctxDone, mongoOpen, httpUp, probe, losses>>

CloseConnection ==
    /\ ShuttingDown("connection")
    /\ Close
    /\ chanOpen' = [c \in Consumers |-> FALSE]
    /\ StepDone
    /\ UNCHANGED <<channel, queue, bound, opVars, tensPhase, ctxDone, mongoOpen, httpUp, probe, losses>>

CloseClock ==
    /\ ShuttingDown("clock")
    /\ StepDone
    /\ UNCHANGED <<brokerVars, tensPhase, ctxDone, mongoOpen, httpUp, probe, losses>>

\* Shutdown waits for a probe in progress until the timeout, then run returns.
ShutdownHTTPServer ==
    /\ ShuttingDown("http")
    /\ mainPhase' = "exited"
    /\ httpUp' = FALSE
    /\ UNCHANGED <<brokerVars, mainStep, tensPhase, ctxDone, mongoOpen, probe, losses>>

-----------------------------------------------------------------------------
\* The environment.

LoseConnection ==
    /\ Running /\ losses < MaxLosses
    /\ losses' = losses + 1
    /\ ConnectionLost
    /\ UNCHANGED <<mainVars, tensPhase, ctxDone, mongoOpen, httpUp, probe>>

LoseChannel(c) ==
    /\ Running /\ losses < MaxLosses
    /\ losses' = losses + 1
    /\ ChannelLost(c)
    /\ UNCHANGED <<mainVars, tensPhase, ctxDone, mongoOpen, httpUp, probe>>

\* SIGINT or SIGTERM.
Signal ==
    /\ Running
    /\ ~ctxDone
    /\ ctxDone' = TRUE
    /\ UNCHANGED <<brokerVars, mainVars, tensPhase, mongoOpen, httpUp, probe, losses>>

\* What main's goroutine does on its own.
MainStep ==
    \/ Configure \/ NewMongoDb \/ NewRabbitMqConnection \/ NewRabbitmq \/ NewClockClient
    \/ StartHTTPServer \/ StartServices \/ StartManager
    \/ ShutdownBegins \/ ShutdownTelemetry \/ CloseMongo \/ CloseConsumer
    \/ CloseConnection \/ CloseClock \/ ShutdownHTTPServer

ProcessNext ==
    \/ MainStep
    \/ ManagerReturns
    \/ TensConsume
    \/ TensReturns
    \/ ProbeConnection
    \/ ProbePing
    \/ LoseConnection
    \/ \E c \in Consumers : LoseChannel(c)
    \/ Signal

ProcessSpec == ProcessInit /\ [][ProcessNext]_processVars

\* main's goroutine goes on where it can.  Nothing is assumed of the manager,
\* which may be blocked in a send.
FairProcessSpec == ProcessSpec /\ WF_processVars(MainStep)

-----------------------------------------------------------------------------
\* Every variable has its type.
ProcessTypeOK ==
    /\ ConsumerTypeOK
    /\ mainPhase \in {"startup", "serving", "waiting", "shutdown", "exited", "failed"}
    /\ mainStep \in 1..Len(StartupSteps)
    /\ tensPhase \in {"off", "hour", "day", "consuming", "returned"}
    /\ ctxDone \in BOOLEAN /\ mongoOpen \in BOOLEAN /\ httpUp \in BOOLEAN
    /\ probe \in {"none", "ping", "200", "503"}
    /\ losses \in 0..MaxLosses

\* However often connection and channels are lost and opened again, the process
\* has at most one connection open, the one it will close; after Close it has
\* none.
OneConnection == live \subseteq {conn} /\ (closed => live = {})

\* "If the underlying connection died between checks, reopen and retry once":
\* with a broker that refuses nothing, one lost connection never makes the
\* opening of a channel fail.  Only the call a channel was opened for may.
OneLossAbsorbed ==
    /\ mainPhase = "failed"
    /\ StartupSteps[mainStep].op \in {"new", "declare", "bind"}
    /\ losses <= 1 /\ ~refused
    => opStep = "call" /\ StartupSteps[mainStep].op # "new"

\* Once /readyz has answered 200 the three queues exist and are bound, so that
\* what is published from then on is kept, whatever was lost on the way.
ReadyMeansBound == probe = "200" => bound = Consumers

\* Start-up comes to an end, with a broker that never answers too.
StartupEnds == mainPhase = "startup" ~> mainPhase # "startup"

\* A signal during start-up ends the process, although most of start-up does not
\* look at the context; so does one once the manager has returned, even if the
\* channels to be closed have been lost before.
SignalEndsProcess ==
    ctxDone /\ mainPhase \in {"startup", "waiting"} ~> mainPhase \in {"exited", "failed"}

-----------------------------------------------------------------------------
\* What the repository's tests say and the code does not keep.

\* An application that /readyz reports ready on an open connection consumes its
\* requests, with a broker that refuses nothing: it is not idle because Consume,
\* unlike the calls before it, did not reopen a channel that a lost connection
\* had closed.
ReadyMeansConsuming ==
    [][probe = "ping" /\ probe' = "200" /\ IsConnectionOpen /\ ~refused =>
          mainPhase # "waiting" \/ ctxDone]_processVars
=============================================================================
