-------------------------- MODULE StaffProcessProofs --------------------------
(***************************************************************************)
(* Proofs about StaffProcess for every number of dial attempts and of      *)
(* losses: the inductive invariant ProcessInv, and from it the invariants  *)
(* the run `process' checks.                                               *)
(***************************************************************************)
EXTENDS StaffProcess, TLAPS

-----------------------------------------------------------------------------
\* The two lists of steps.

\* Which step of start-up is at which place, and whose.
LEMMA StartupShape ==
    /\ Len(StartupSteps) = 16
    /\ \A n \in 1..16 :
          /\ StartupSteps[n].op = "config" <=> n = 1
          /\ StartupSteps[n].op = "mongo" <=> n = 2
          /\ StartupSteps[n].op = "dial" <=> n = 3
          /\ StartupSteps[n].op = "new" <=> n \in 4..6
          /\ StartupSteps[n].op = "declare" <=> n \in {7, 9, 11}
          /\ StartupSteps[n].op = "bind" <=> n \in {8, 10, 12}
          /\ StartupSteps[n].op = "clock" <=> n = 13
          /\ StartupSteps[n].op = "http" <=> n = 14
          /\ StartupSteps[n].op = "services" <=> n = 15
          /\ StartupSteps[n].op = "consume" <=> n = 16
          /\ n \in 4..12 => StartupSteps[n].consumer \in Consumers
          /\ n = 8 => StartupSteps[n].consumer = "cleaning"
          /\ n = 10 => StartupSteps[n].consumer = "day"
          /\ n = 12 => StartupSteps[n].consumer = "hour"
BY DEF StartupSteps, Step, Main, Consumers

\* The same of shutdown.
LEMMA ShutdownShape ==
    \A n \in 1..8 :
       /\ ShutdownSteps[n].op = "http" <=> n = 8
       /\ ShutdownSteps[n].op = "close" => ShutdownSteps[n].consumer \in Consumers
BY DEF ShutdownSteps, Step, Main, Consumers

-----------------------------------------------------------------------------
\* The parts of the inductive invariant.

\* Where main is: before the dial there is no connection and no operation under
\* way, and the connection is closed only by shutdown.
MainWhere ==
    /\ mainPhase = "startup" /\ mainStep <= 3 => conn = 0 /\ live = {} /\ opStep = "check"
    /\ closed => mainPhase \in {"shutdown", "exited"}
    /\ mainPhase = "shutdown" => mainStep <= 8

\* Every connection but the one that is open has cost a loss.
LossesCounted == ~closed => conn <= losses + (IF conn \in live THEN 1 ELSE 0)

\* openChannel is at its second try only after its connection has died, so that
\* the second try is on a second connection.
RetryAfterLoss ==
    /\ opStep = "channel" => conn >= 1
    /\ opStep = "connect" /\ retried => conn >= 1 /\ conn \notin live
    /\ opStep = "channel" /\ retried => conn >= 2

\* The bindings that start-up has made; a probe is answered only after all.
BoundSoFar ==
    /\ mainPhase = "startup" =>
          /\ mainStep > 8 => "cleaning" \in bound
          /\ mainStep > 10 => "day" \in bound
          /\ mainStep > 12 => "hour" \in bound
    /\ mainPhase \notin {"startup", "failed"} => bound = Consumers
    /\ httpUp \/ probe \in {"ping", "200"} => bound = Consumers

\* The inductive invariant.
ProcessInv ==
    /\ ProcessTypeOK
    /\ OneConnection
    /\ MainWhere
    /\ LossesCounted
    /\ RetryAfterLoss
    /\ BoundSoFar
    /\ OneLossAbsorbed

-----------------------------------------------------------------------------
\* The connection.

\* The attempts of one reconnectLocked stay below the bound.
LEMMA AttemptRange ==
    ASSUME NEW a \in 0..DialAttempts - 1
    PROVE  (a + 1) % DialAttempts \in 0..DialAttempts - 1
BY DialAttemptsAssumption

\* A dial either yields a new connection, the only one that is open, or changes
\* nothing but the count of attempts and is a refusal.
LEMMA ReconnectFacts ==
    ASSUME ConnTypeOK, live = {}, NEW answer, reconnectLocked(answer)
    PROVE  /\ ConnTypeOK' /\ UNCHANGED closed
           /\ \/ answer = "connected" /\ conn' = conn + 1 /\ live' = {conn'} /\ UNCHANGED refused
              \/ answer \in {"dialling", "failed"} /\ UNCHANGED <<conn, live>> /\ refused'
<1>1. CASE answer = "connected" /\ conn' = conn + 1 /\ live' = live \cup {conn + 1} /\ attempt' = 0
           /\ UNCHANGED <<closed, refused>>
  BY <1>1, DialAttemptsAssumption DEF ConnTypeOK
<1>2. CASE /\ answer = IF attempt + 1 < DialAttempts THEN "dialling" ELSE "failed"
           /\ attempt' = (attempt + 1) % DialAttempts
           /\ refused' = TRUE
           /\ UNCHANGED <<conn, live, closed>>
  <2>1. attempt' \in 0..DialAttempts - 1
    BY <1>2, AttemptRange DEF ConnTypeOK
  <2> QED
    BY <1>2, <2>1 DEF ConnTypeOK
<1> QED
  BY <1>1, <1>2 DEF reconnectLocked

\* openConnection on a connection that has not been closed: afterwards there is
\* an open one, or the broker has refused.
LEMMA OpenConnectionFacts ==
    ASSUME ConnTypeOK, OneConnection, ~closed, NEW answer, openConnection(answer)
    PROVE  /\ ConnTypeOK' /\ UNCHANGED closed
           /\ \/ answer = "connected" /\ UNCHANGED <<conn, live, refused>> /\ conn \in live
              \/ answer = "connected" /\ conn \notin live /\ conn' = conn + 1 /\ live' = {conn'} /\ UNCHANGED refused
              \/ answer \in {"dialling", "failed"} /\ conn \notin live /\ UNCHANGED <<conn, live>> /\ refused'
<1>1. CASE conn \in live
  BY <1>1 DEF openConnection, IsConnectionOpen, connVars, ConnTypeOK
<1>2. CASE conn \notin live
  <2>1. live = {} /\ reconnectLocked(answer)
    BY <1>2 DEF OneConnection, openConnection, IsConnectionOpen
  <2> QED
    BY <1>2, <2>1, ReconnectFacts
<1> QED
  BY <1>1, <1>2

\* The invariant holds initially.
LEMMA InitProcessInv == ProcessInit => ProcessInv
<1> SUFFICES ASSUME ProcessInit PROVE ProcessInv
  OBVIOUS
<1> USE DEF ProcessInit, ConsumerInit, ConnInit
<1>1. ProcessTypeOK
  <2>1. ConnTypeOK
    <3>1. closed \in BOOLEAN /\ refused \in BOOLEAN
      OBVIOUS
    <3>2. conn \in Nat /\ live \subseteq 1..conn /\ attempt \in 0..DialAttempts - 1
      BY DialAttemptsAssumption
    <3> QED
      BY <3>1, <3>2 DEF ConnTypeOK
  <2>2. channel \in [Consumers -> 0..conn] /\ chanOpen \in [Consumers -> BOOLEAN]
    OBVIOUS
  <2>3. mainStep \in 1..Len(StartupSteps) /\ losses \in 0..MaxLosses
    BY StartupShape, MaxLossesAssumption
  <2>4. /\ mainPhase \in {"startup", "serving", "waiting", "shutdown", "exited", "failed"}
        /\ tensPhase \in {"off", "hour", "day", "consuming", "returned"}
        /\ probe \in {"none", "ping", "200", "503"}
        /\ opStep \in {"check", "connect", "channel", "call"}
    OBVIOUS
  <2>5. ctxDone \in BOOLEAN /\ mongoOpen \in BOOLEAN /\ httpUp \in BOOLEAN /\ retried \in BOOLEAN
    OBVIOUS
  <2> QED
    BY <2>1, <2>2, <2>3, <2>4, <2>5 DEF ProcessTypeOK, ConsumerTypeOK
<1>2. OneConnection /\ MainWhere /\ LossesCounted /\ RetryAfterLoss /\ BoundSoFar /\ OneLossAbsorbed
  BY DEF OneConnection, MainWhere, LossesCounted, RetryAfterLoss, BoundSoFar, OneLossAbsorbed
<1> QED
  BY <1>1, <1>2 DEF ProcessInv

\* There are three queues to bind.
LEMMA AllBound ==
    ASSUME NEW S, S \subseteq Consumers, "cleaning" \in S, "day" \in S, "hour" \in S
    PROVE  S = Consumers
BY DEF Consumers

-----------------------------------------------------------------------------
\* The steps.

\* Steps that leave the broker's side alone.
LEMMA QuietPreserves ==
    ASSUME ProcessInv,
           \/ Configure \/ NewMongoDb \/ NewClockClient \/ StartHTTPServer \/ StartServices
           \/ ManagerReturns \/ TensReturns \/ ProbeConnection \/ ProbePing
           \/ ShutdownBegins \/ ShutdownTelemetry \/ CloseMongo \/ CloseClock
           \/ ShutdownHTTPServer \/ Signal \/ UNCHANGED processVars
    PROVE  ProcessInv'
<1> USE DEF ProcessInv, brokerVars, mainVars
<1>1. UNCHANGED <<conn, live, closed, attempt, refused, channel, chanOpen, queue, bound, opStep, retried, losses>>
  BY DEF Configure, NewMongoDb, NewClockClient, StartHTTPServer, StartServices, ManagerReturns,
         TensReturns, ProbeConnection, ProbePing, ShutdownBegins, ShutdownTelemetry, CloseMongo,
         CloseClock, ShutdownHTTPServer, Signal, processVars, connVars, chanVars, opVars
<1>2. ConsumerTypeOK' /\ OneConnection' /\ LossesCounted' /\ RetryAfterLoss' /\ losses' \in 0..MaxLosses
  BY <1>1 DEF ProcessTypeOK, ConsumerTypeOK, ConnTypeOK, OneConnection, LossesCounted, RetryAfterLoss
<1>3. /\ mainPhase \in {"startup", "serving", "waiting", "shutdown", "exited", "failed"}
      /\ mainStep \in 1..16 /\ Len(StartupSteps) = 16
      /\ tensPhase \in {"off", "hour", "day", "consuming", "returned"}
      /\ ctxDone \in BOOLEAN /\ mongoOpen \in BOOLEAN /\ httpUp \in BOOLEAN
      /\ probe \in {"none", "ping", "200", "503"}
      /\ bound \subseteq Consumers
  BY StartupShape DEF ProcessTypeOK, ConsumerTypeOK
<1> DEFINE Types == /\ mainPhase \in {"startup", "serving", "waiting", "shutdown", "exited", "failed"}
                    /\ mainStep \in 1..16
                    /\ tensPhase \in {"off", "hour", "day", "consuming", "returned"}
                    /\ ctxDone \in BOOLEAN /\ mongoOpen \in BOOLEAN /\ httpUp \in BOOLEAN
                    /\ probe \in {"none", "ping", "200", "503"}
           Goal == Types' /\ MainWhere' /\ BoundSoFar' /\ OneLossAbsorbed'
<1>4. SUFFICES Goal
  BY <1>2, <1>3 DEF ProcessTypeOK
<1> USE DEF StepDone, Fail, Starting, ShuttingDown, MainWhere, BoundSoFar, OneLossAbsorbed, Consumers
<1>5. CASE Configure
  BY <1>5, <1>1, <1>3, StartupShape, ShutdownShape DEF Configure
<1>6. CASE NewMongoDb
  <2>1. ctxDone' \in BOOLEAN /\ mongoOpen' \in BOOLEAN /\ httpUp' \in BOOLEAN
    BY <1>6, <1>3 DEF NewMongoDb
  <2> QED
    BY <1>6, <1>1, <1>3, <2>1, StartupShape, ShutdownShape DEF NewMongoDb
<1>7. CASE NewClockClient
  BY <1>7, <1>1, <1>3, StartupShape, ShutdownShape DEF NewClockClient
<1>8. CASE StartHTTPServer
  <2>1. ctxDone' \in BOOLEAN /\ mongoOpen' \in BOOLEAN /\ httpUp' \in BOOLEAN
    BY <1>8, <1>3 DEF StartHTTPServer
  <2>2. /\ mainPhase = "startup" /\ mainStep = 14 /\ mainStep' = 15
        /\ UNCHANGED <<mainPhase, tensPhase, ctxDone, mongoOpen, probe>>
    <3>1. /\ Starting("http") /\ StepDone
          /\ UNCHANGED <<mainPhase, tensPhase, ctxDone, mongoOpen, probe>>
      BY <1>8 DEF StartHTTPServer
    <3> QED
      BY <1>3, <3>1, StartupShape
  <2>3. bound = Consumers
    <3>1. "cleaning" \in bound /\ "day" \in bound /\ "hour" \in bound
      BY <2>2
    <3> QED
      BY <1>3, <3>1, AllBound
  <2>4. Types'
    BY <1>3, <2>1, <2>2
  <2> QED
    BY <1>1, <2>2, <2>3, <2>4
<1>9. CASE StartServices
  BY <1>9, <1>1, <1>3, StartupShape, ShutdownShape DEF StartServices
<1>10. CASE ManagerReturns
  BY <1>10, <1>1, <1>3, StartupShape, ShutdownShape DEF ManagerReturns
<1>11. CASE TensReturns
  BY <1>11, <1>1, <1>3, StartupShape, ShutdownShape DEF TensReturns
<1>12. CASE ProbeConnection
  BY <1>12, <1>1, <1>3, StartupShape, ShutdownShape DEF ProbeConnection
<1>13. CASE ProbePing
  BY <1>13, <1>1, <1>3, StartupShape, ShutdownShape DEF ProbePing
<1>14. CASE ShutdownBegins
  BY <1>14, <1>1, <1>3, StartupShape, ShutdownShape DEF ShutdownBegins
<1>15. CASE ShutdownTelemetry
  BY <1>15, <1>1, <1>3, StartupShape, ShutdownShape DEF ShutdownTelemetry
<1>16. CASE CloseMongo
  <2>1. ctxDone' \in BOOLEAN /\ mongoOpen' \in BOOLEAN /\ httpUp' \in BOOLEAN
    BY <1>16, <1>3 DEF CloseMongo
  <2> QED
    BY <1>16, <1>1, <1>3, <2>1, StartupShape, ShutdownShape DEF CloseMongo
<1>17. CASE CloseClock
  BY <1>17, <1>1, <1>3, StartupShape, ShutdownShape DEF CloseClock
<1>18. CASE ShutdownHTTPServer
  BY <1>18, <1>1, <1>3, StartupShape, ShutdownShape DEF ShutdownHTTPServer
<1>19. CASE Signal
  BY <1>19, <1>1, <1>3, StartupShape, ShutdownShape DEF Signal
<1>20. CASE UNCHANGED processVars
  BY <1>20, <1>1, <1>3, StartupShape, ShutdownShape DEF processVars
<1> QED
  BY <1>5, <1>6, <1>7, <1>8, <1>9, <1>10, <1>11, <1>12, <1>13, <1>14, <1>15, <1>16, <1>17, <1>18, <1>19, <1>20

-----------------------------------------------------------------------------
\* The consumers' operations.

\* A call that fails closes at most its channel.
LEMMA CallFailsFacts ==
    ASSUME ConsumerTypeOK, NEW c \in Consumers, CallFails(c) \/ UNCHANGED <<chanVars, refused>>
    PROVE  /\ chanOpen' \in [Consumers -> BOOLEAN] /\ refused' \in BOOLEAN
           /\ UNCHANGED <<channel, queue, bound>>
           /\ refused => refused'
<1>1. CASE CallRefused(c)
  BY <1>1 DEF CallRefused, ConsumerTypeOK
<1>2. CASE UNCHANGED <<chanVars, refused>>
  BY <1>2 DEF chanVars, ConsumerTypeOK, ConnTypeOK
<1> QED
  BY <1>1, <1>2 DEF CallFails

\* The parts of the invariant that are about connection and operation.
BrokerInv == ConsumerTypeOK /\ OneConnection /\ LossesCounted /\ RetryAfterLoss

\* A step of NewRabbitmqConsumer, DeclareQueue or BindQueue.  It fails without a
\* refusal only in the call itself, or if there has been more than one loss.
LEMMA ConsumerOpFacts ==
    ASSUME BrokerInv, ~closed, losses \in Nat, UNCHANGED losses,
           NEW op \in {"new", "declare", "bind"}, NEW c \in Consumers,
           NEW result \in {"going", "done", "failed"}, ConsumerOp(op, c, result)
    PROVE  /\ BrokerInv' /\ UNCHANGED closed
           /\ bound \subseteq bound'
           /\ op = "bind" /\ result = "done" => c \in bound'
           /\ result = "failed" /\ ~refused' /\ losses <= 1 => opStep' = "call" /\ op # "new"
<1> USE DEF BrokerInv
<1>1. /\ ConnTypeOK /\ channel \in [Consumers -> 0..conn] /\ chanOpen \in [Consumers -> BOOLEAN]
      /\ queue \subseteq Consumers /\ bound \subseteq Consumers /\ retried \in BOOLEAN
      /\ opStep \in {"check", "connect", "channel", "call"}
      /\ conn \in Nat
  BY DEF ConsumerTypeOK, ConnTypeOK
<1>2. CASE CheckChannel(op, c, result)
  <2>1. /\ UNCHANGED <<conn, live, closed, attempt, refused, channel, chanOpen, queue, bound>>
        /\ opStep' \in {"call", "connect"} /\ retried' = FALSE /\ result = "going"
    BY <1>2 DEF CheckChannel, connVars, chanVars
  <2>2. ConsumerTypeOK'
    <3>1. retried' \in BOOLEAN
      BY <2>1
    <3>2. ConnTypeOK'
      BY <1>1, <2>1 DEF ConnTypeOK
    <3> QED
      BY <1>1, <2>1, <3>1, <3>2 DEF ConsumerTypeOK
  <2> QED
    BY <2>1, <2>2 DEF OneConnection, LossesCounted, RetryAfterLoss
<1>3. CASE Connect(result)
  <2>1. PICK answer \in {"connected", "dialling", "failed"} :
           /\ openConnection(answer)
           /\ opStep' = IF answer = "connected" THEN "channel" ELSE "connect"
           /\ result = IF answer = "failed" THEN "failed" ELSE "going"
    BY <1>3 DEF Connect
  <2>2. opStep = "connect" /\ UNCHANGED <<retried, channel, chanOpen, queue, bound>>
    BY <1>3 DEF Connect, chanVars
  <2>3. /\ ConnTypeOK' /\ UNCHANGED closed
        /\ \/ answer = "connected" /\ UNCHANGED <<conn, live, refused>> /\ conn \in live
           \/ answer = "connected" /\ conn \notin live /\ conn' = conn + 1 /\ live' = {conn'} /\ UNCHANGED refused
           \/ answer \in {"dialling", "failed"} /\ conn \notin live /\ UNCHANGED <<conn, live>> /\ refused'
    BY <1>1, <2>1, OpenConnectionFacts
  <2>4. ConsumerTypeOK'
    BY <1>1, <2>1, <2>2, <2>3 DEF ConsumerTypeOK
  <2>5. OneConnection'
    BY <2>3 DEF OneConnection
  <2>7. LossesCounted'
    <3>1. conn \notin live => conn <= losses
      BY <1>1 DEF LossesCounted
    <3>2. CASE UNCHANGED <<conn, live>>
      BY <2>3, <3>2 DEF LossesCounted
    <3>3. CASE conn \notin live /\ conn' = conn + 1 /\ live' = {conn'}
      BY <1>1, <3>1, <3>3 DEF LossesCounted
    <3> QED
      BY <2>3, <3>2, <3>3
  <2>6. RetryAfterLoss'
    <3>1. conn \in live => conn >= 1
      BY <1>1 DEF ConnTypeOK
    <3> QED
      BY <1>1, <2>1, <2>2, <2>3, <3>1 DEF RetryAfterLoss
  <2> QED
    BY <2>1, <2>2, <2>3, <2>4, <2>5, <2>6, <2>7
<1>4. CASE OpenChannel(c, result)
  <2>1. opStep = "channel" /\ UNCHANGED <<conn, live, closed, attempt, queue, bound>>
    BY <1>4 DEF OpenChannel, connVars
  <2>2. CASE /\ IsConnectionOpen
             /\ result = "going"
             /\ opStep' = "call"
             /\ channel' = [channel EXCEPT ![c] = conn]
             /\ chanOpen' = [chanOpen EXCEPT ![c] = TRUE]
             /\ UNCHANGED <<retried, refused>>
    <3>1. chanOpen' \in [Consumers -> BOOLEAN]
      BY <1>1, <2>2
    <3>2. channel' \in [Consumers -> 0..conn']
      BY <1>1, <2>1, <2>2
    <3>3. ConnTypeOK'
      BY <1>1, <2>1, <2>2 DEF ConnTypeOK
    <3> QED
      BY <1>1, <2>1, <2>2, <3>1, <3>2, <3>3
         DEF ConsumerTypeOK, OneConnection, LossesCounted, RetryAfterLoss
  <2>3. CASE /\ IsConnectionOpen
             /\ result = "failed"
             /\ refused' = TRUE
             /\ UNCHANGED <<channel, chanOpen, opVars>>
    <3>1. refused' \in BOOLEAN /\ refused'
      BY <2>3
    <3>2. ConnTypeOK'
      BY <1>1, <2>1, <3>1 DEF ConnTypeOK
    <3>3. UNCHANGED <<channel, chanOpen, opStep, retried>>
      BY <2>3 DEF opVars
    <3> QED
      BY <1>1, <2>1, <2>3, <3>1, <3>2, <3>3
         DEF ConsumerTypeOK, OneConnection, LossesCounted, RetryAfterLoss
  <2>4. CASE /\ ~IsConnectionOpen
             /\ result = IF retried THEN "failed" ELSE "going"
             /\ opStep' = IF retried THEN "channel" ELSE "connect"
             /\ retried' = TRUE
             /\ UNCHANGED <<channel, chanOpen, refused>>
    <3>1. retried' \in BOOLEAN /\ retried'
      BY <2>4
    <3>2. ConnTypeOK'
      BY <1>1, <2>1, <2>4 DEF ConnTypeOK
    <3>3. conn \notin live /\ conn >= 1 /\ conn <= losses /\ (retried => conn >= 2)
      BY <1>1, <2>1, <2>4 DEF IsConnectionOpen, LossesCounted, RetryAfterLoss
    <3> QED
      BY <1>1, <2>1, <2>4, <3>1, <3>2, <3>3
         DEF ConsumerTypeOK, OneConnection, LossesCounted, RetryAfterLoss
  <2> QED
    BY <1>4, <2>2, <2>3, <2>4 DEF OpenChannel
<1>5. CASE Call(op, c, result)
  <2>1. /\ opStep = "call" /\ UNCHANGED <<conn, live, closed, attempt, retried>>
        /\ opStep' = IF result = "done" THEN "check" ELSE "call"
    BY <1>5 DEF Call, connVars
  <2>2. /\ channel' = channel /\ chanOpen' \in [Consumers -> BOOLEAN] /\ refused' \in BOOLEAN
        /\ queue' \subseteq Consumers /\ bound' \subseteq Consumers /\ bound \subseteq bound'
        /\ op = "bind" /\ result = "done" => c \in bound'
        /\ op = "new" => result = "done"
    <3>1. CASE op = "new"
      BY <1>1, <1>5, <3>1 DEF Call, chanVars, ConnTypeOK
    <3>2. CASE op = "declare"
      <4>1. DeclareQueue(c, result)
        BY <1>5, <3>2 DEF Call
      <4> QED
        BY <1>1, <3>2, <4>1, CallFailsFacts DEF DeclareQueue, ConnTypeOK
    <3>3. CASE op = "bind"
      <4>1. BindQueue(c, result)
        BY <1>5, <3>3 DEF Call
      <4> QED
        BY <1>1, <3>3, <4>1, CallFailsFacts DEF BindQueue, ConnTypeOK
    <3> QED
      BY <3>1, <3>2, <3>3
  <2>3. ConnTypeOK'
    BY <1>1, <2>1, <2>2 DEF ConnTypeOK
  <2> QED
    BY <1>1, <2>1, <2>2, <2>3 DEF ConsumerTypeOK, OneConnection, LossesCounted, RetryAfterLoss
<1> QED
  BY <1>2, <1>3, <1>4, <1>5 DEF ConsumerOp

-----------------------------------------------------------------------------
\* Steps on the broker's side.

\* The dial of NewRabbitmqConnection.
LEMMA DialPreserves ==
    ASSUME ProcessInv, NewRabbitMqConnection
    PROVE  ProcessInv'
<1>1. /\ ConsumerTypeOK /\ ConnTypeOK /\ conn \in Nat /\ mainStep \in 1..16 /\ losses \in Nat
      /\ channel \in [Consumers -> 0..conn]
  BY StartupShape, MaxLossesAssumption DEF ProcessInv, ProcessTypeOK, ConsumerTypeOK, ConnTypeOK
<1>2. mainPhase = "startup" /\ mainStep = 3 /\ StartupSteps[3].op = "dial"
  BY <1>1, StartupShape DEF NewRabbitMqConnection, Starting
<1>3. conn = 0 /\ live = {} /\ opStep = "check" /\ ~closed
  BY <1>2 DEF ProcessInv, MainWhere
<1>4. UNCHANGED <<channel, chanOpen, queue, bound, opStep, retried, tensPhase, ctxDone, mongoOpen,
                  httpUp, probe, losses>>
  BY DEF NewRabbitMqConnection, chanVars, opVars
<1>5. PICK answer \in {"connected", "dialling", "failed"} :
         /\ reconnectLocked(answer)
         /\ CASE answer = "connected" -> StepDone
              [] answer = "dialling"  -> UNCHANGED mainVars
              [] answer = "failed"    -> Fail
  BY DEF NewRabbitMqConnection
<1>6. /\ ConnTypeOK' /\ UNCHANGED closed
      /\ \/ answer = "connected" /\ conn' = conn + 1 /\ live' = {conn'} /\ UNCHANGED refused
         \/ answer \in {"dialling", "failed"} /\ UNCHANGED <<conn, live>> /\ refused'
  BY <1>1, <1>3, <1>5, ReconnectFacts
<1>7. \/ answer = "connected" /\ mainPhase' = "startup" /\ mainStep' = 4
      \/ answer = "dialling" /\ mainPhase' = "startup" /\ mainStep' = 3
      \/ answer = "failed" /\ mainPhase' = "failed" /\ mainStep' = 3
  <2>1. \/ answer = "connected" /\ StepDone
        \/ answer = "dialling" /\ UNCHANGED mainVars
        \/ answer = "failed" /\ Fail
    BY <1>5
  <2> QED
    BY <1>2, <2>1 DEF StepDone, Fail, mainVars
<1>8. ProcessTypeOK'
  <2>1. channel' \in [Consumers -> 0..conn']
    BY <1>1, <1>4, <1>6
  <2>2. ConsumerTypeOK'
    BY <1>1, <1>4, <1>6, <2>1 DEF ConsumerTypeOK
  <2> QED
    BY <1>4, <1>7, <2>2, StartupShape DEF ProcessInv, ProcessTypeOK
<1>9. OneConnection' /\ MainWhere'
  BY <1>3, <1>4, <1>6, <1>7 DEF OneConnection, MainWhere
<1>10. LossesCounted'
  BY <1>1, <1>3, <1>4, <1>6 DEF LossesCounted
<1>11. RetryAfterLoss' /\ BoundSoFar'
  BY <1>2, <1>3, <1>4, <1>7 DEF ProcessInv, RetryAfterLoss, BoundSoFar
<1>12. OneLossAbsorbed'
  BY <1>2, <1>7 DEF OneLossAbsorbed
<1> QED
  BY <1>8, <1>9, <1>10, <1>11, <1>12 DEF ProcessInv

\* The steps of NewRabbitmq.
LEMMA NewRabbitmqPreserves ==
    ASSUME ProcessInv, NewRabbitmq
    PROVE  ProcessInv'
<1> DEFINE op == StartupSteps[mainStep].op
           c == StartupSteps[mainStep].consumer
<1>1. BrokerInv /\ mainStep \in 1..16 /\ losses \in 0..MaxLosses /\ losses \in Nat
      /\ bound \subseteq Consumers
  BY StartupShape, MaxLossesAssumption DEF ProcessInv, ProcessTypeOK, ConsumerTypeOK, BrokerInv
<1>2. mainPhase = "startup" /\ mainStep \in 4..12 /\ c \in Consumers /\ op \in {"new", "declare", "bind"}
  BY <1>1, StartupShape DEF NewRabbitmq, Starting
<1>3. ~closed
  BY <1>2 DEF ProcessInv, MainWhere
<1>4. UNCHANGED <<tensPhase, ctxDone, mongoOpen, httpUp, probe, losses>>
  BY DEF NewRabbitmq
<1>5. PICK result \in {"going", "done", "failed"} :
         /\ ConsumerOp(op, c, result)
         /\ CASE result = "going"  -> UNCHANGED mainVars
              [] result = "done"   -> StepDone
              [] result = "failed" -> Fail
  BY DEF NewRabbitmq
<1>6. /\ BrokerInv' /\ UNCHANGED closed
      /\ bound \subseteq bound'
      /\ op = "bind" /\ result = "done" => c \in bound'
      /\ result = "failed" /\ ~refused' /\ losses <= 1 => opStep' = "call" /\ op # "new"
  BY <1>1, <1>2, <1>3, <1>4, <1>5, ConsumerOpFacts
<1>7. \/ result = "going" /\ mainPhase' = "startup" /\ mainStep' = mainStep
      \/ result = "done" /\ mainPhase' = "startup" /\ mainStep' = mainStep + 1
      \/ result = "failed" /\ mainPhase' = "failed" /\ mainStep' = mainStep
  BY <1>2, <1>5 DEF StepDone, Fail, mainVars
<1>8. ProcessTypeOK'
  BY <1>1, <1>2, <1>4, <1>6, <1>7, StartupShape DEF ProcessInv, ProcessTypeOK, BrokerInv
<1>9. MainWhere'
  BY <1>1, <1>2, <1>3, <1>6, <1>7 DEF MainWhere
<1>10. BoundSoFar'
  <2>1. mainPhase' \in {"startup", "failed"}
    BY <1>7
  <2>2. mainPhase' = "startup" => /\ mainStep' > 8 => "cleaning" \in bound'
                                  /\ mainStep' > 10 => "day" \in bound'
                                  /\ mainStep' > 12 => "hour" \in bound'
    <3>1. /\ mainStep > 8 => "cleaning" \in bound'
          /\ mainStep > 10 => "day" \in bound'
          /\ mainStep > 12 => "hour" \in bound'
      BY <1>2, <1>6 DEF ProcessInv, BoundSoFar
    <3>2. result = "done" => /\ mainStep = 8 => "cleaning" \in bound'
                             /\ mainStep = 10 => "day" \in bound'
                             /\ mainStep = 12 => "hour" \in bound'
      BY <1>1, <1>6, StartupShape
    <3> QED
      BY <1>1, <1>7, <3>1, <3>2
  <2>3. httpUp' \/ probe' \in {"ping", "200"} => bound' = Consumers
    <3>1. bound = Consumers => bound' = Consumers
      BY <1>6 DEF BrokerInv, ConsumerTypeOK
    <3> QED
      BY <1>4, <3>1 DEF ProcessInv, BoundSoFar
  <2> QED
    BY <2>1, <2>2, <2>3 DEF BoundSoFar
<1>11. OneLossAbsorbed'
  BY <1>4, <1>6, <1>7 DEF OneLossAbsorbed
<1> QED
  BY <1>6, <1>8, <1>9, <1>10, <1>11 DEF ProcessInv, BrokerInv

\* Losses that cost no connection do no harm to the count.
LEMMA MoreLosses ==
    ASSUME LossesCounted, conn \in Nat, losses \in Nat, losses' \in Nat, losses' >= losses,
           UNCHANGED <<conn, live, closed>>
    PROVE  LossesCounted'
<1>1. \A n \in Nat, k \in {0, 1} : n >= losses /\ conn <= losses + k => conn <= n + k
  OBVIOUS
<1>2. conn <= losses + (IF conn \in live THEN 1 ELSE 0) => conn <= losses' + (IF conn \in live THEN 1 ELSE 0)
  BY <1>1
<1> QED
  BY <1>2 DEF LossesCounted

\* A step that opens or closes nothing but channels.
LEMMA ChannelFrame ==
    ASSUME ProcessInv,
           UNCHANGED <<conn, live, closed, attempt, channel, queue, bound, opStep, retried>>,
           chanOpen' \in [Consumers -> BOOLEAN], refused' \in BOOLEAN,
           losses' \in Nat, losses' >= losses
    PROVE  BrokerInv'
<1>1. ConsumerTypeOK /\ ConnTypeOK /\ conn \in Nat /\ losses \in Nat
  BY MaxLossesAssumption DEF ProcessInv, ProcessTypeOK, ConsumerTypeOK, ConnTypeOK
<1>2. ConnTypeOK'
  BY <1>1 DEF ConnTypeOK
<1>3. ConsumerTypeOK'
  BY <1>1, <1>2 DEF ConsumerTypeOK
<1>4. OneConnection' /\ RetryAfterLoss'
  BY DEF ProcessInv, OneConnection, RetryAfterLoss
<1>5. LossesCounted'
  BY <1>1, MoreLosses DEF ProcessInv
<1> QED
  BY <1>3, <1>4, <1>5 DEF BrokerInv

\* Consume, whoever calls it.
LEMMA ConsumeFacts ==
    ASSUME ConsumerTypeOK, NEW c \in Consumers, NEW err, Consume(c, ctxDone, err)
    PROVE  /\ UNCHANGED <<conn, live, closed, attempt, channel, queue, bound, opStep, retried>>
           /\ chanOpen' \in [Consumers -> BOOLEAN] /\ refused' \in BOOLEAN
<1>1. CallFails(c) \/ UNCHANGED <<chanVars, refused>>
  BY DEF Consume
<1>2. UNCHANGED <<conn, live, closed, attempt, opStep, retried>>
  BY DEF Consume, connVars, opVars
<1> QED
  BY <1>1, <1>2, CallFailsFacts

\* Steps that change channels, or end the connection, but open nothing.
LEMMA ClosingPreserves ==
    ASSUME ProcessInv,
           \/ StartManager \/ TensConsume \/ CloseConsumer \/ CloseConnection
           \/ LoseConnection \/ \E c \in Consumers : LoseChannel(c)
    PROVE  ProcessInv'
<1> USE DEF ProcessInv
<1>1. /\ ConsumerTypeOK /\ ConnTypeOK /\ conn \in Nat /\ mainStep \in 1..16 /\ losses \in Nat
      /\ bound \subseteq Consumers /\ chanOpen \in [Consumers -> BOOLEAN]
      /\ refused \in BOOLEAN
  BY StartupShape, MaxLossesAssumption DEF ProcessTypeOK, ConsumerTypeOK, ConnTypeOK
<1>2. Len(StartupSteps) = 16 /\ "cleaning" \in Consumers /\ "day" \in Consumers /\ "hour" \in Consumers
  BY StartupShape DEF Consumers
<1>3. CASE StartManager
  <2>1. /\ mainPhase = "startup" /\ mainStep = 16
        /\ UNCHANGED <<mainStep, tensPhase, ctxDone, mongoOpen, httpUp, probe, losses>>
    BY <1>1, <1>3, StartupShape DEF StartManager, Starting
  <2>2. PICK err \in {"nil", "failed"} :
           /\ Consume("cleaning", ctxDone, err)
           /\ mainPhase' = IF err = "nil" THEN "serving" ELSE "waiting"
    BY <1>3 DEF StartManager
  <2>3. BrokerInv' /\ UNCHANGED <<bound, closed>>
    BY <1>1, <1>2, <2>1, <2>2, ConsumeFacts, ChannelFrame
  <2>4. bound = Consumers
    <3>1. "cleaning" \in bound /\ "day" \in bound /\ "hour" \in bound
      BY <2>1 DEF BoundSoFar
    <3> QED
      BY <1>1, <3>1, AllBound
  <2>5. ProcessTypeOK'
    BY <2>1, <2>2, <2>3 DEF ProcessTypeOK, BrokerInv
  <2>6. MainWhere' /\ OneLossAbsorbed' /\ BoundSoFar'
    BY <2>1, <2>2, <2>3, <2>4 DEF MainWhere, OneLossAbsorbed, BoundSoFar
  <2> QED
    BY <2>3, <2>5, <2>6 DEF BrokerInv
<1>4. CASE TensConsume
  <2>1. /\ mainPhase \notin {"exited", "failed"} /\ tensPhase \in {"hour", "day"}
        /\ UNCHANGED <<mainPhase, mainStep, ctxDone, mongoOpen, httpUp, probe, losses>>
    BY <1>4 DEF TensConsume, Running, mainVars
  <2>2. PICK err \in {"nil", "failed"} :
           /\ Consume(tensPhase, ctxDone, err)
           /\ tensPhase' = CASE err = "failed" -> "returned"
                             [] tensPhase = "hour" -> "day"
                             [] OTHER -> "consuming"
    BY <1>4 DEF TensConsume
  <2>3. /\ BrokerInv'
        /\ UNCHANGED <<conn, live, closed, bound, opStep>>
    BY <1>1, <1>2, <2>1, <2>2, ConsumeFacts, ChannelFrame
  <2>4. tensPhase' \in {"returned", "day", "consuming"}
    BY <2>1, <2>2
  <2>5. ProcessTypeOK'
    BY <2>1, <2>3, <2>4 DEF ProcessTypeOK, BrokerInv
  <2>6. MainWhere' /\ OneLossAbsorbed' /\ BoundSoFar'
    BY <2>1, <2>3 DEF MainWhere, OneLossAbsorbed, BoundSoFar
  <2> QED
    BY <2>3, <2>5, <2>6 DEF BrokerInv
<1>5. CASE CloseConsumer
  <2>1. /\ mainPhase = "shutdown" /\ mainStep <= 8 /\ ShutdownSteps[mainStep].op = "close"
        /\ UNCHANGED <<mainPhase, tensPhase, ctxDone, mongoOpen, httpUp, probe, losses>>
        /\ UNCHANGED <<conn, live, closed, attempt, refused, channel, queue, bound, opStep, retried>>
        /\ mainStep' = mainStep + 1
    BY <1>5 DEF CloseConsumer, ShuttingDown, CloseChannel, StepDone, connVars, opVars, MainWhere
  <2>2. mainStep' \in 1..8 /\ mainStep' # 1
    BY <1>1, <2>1, ShutdownShape
  <2>3. PICK c \in Consumers : CloseChannel(c)
    BY <1>1, <1>5, <2>1, ShutdownShape DEF CloseConsumer
  <2>4. chanOpen' \in [Consumers -> BOOLEAN]
    BY <1>1, <2>3 DEF CloseChannel
  <2>5. BrokerInv'
    BY <1>1, <2>1, <2>4, ChannelFrame
  <2>6. ProcessTypeOK'
    BY <1>2, <2>1, <2>2, <2>5 DEF ProcessTypeOK, BrokerInv
  <2>7. MainWhere' /\ OneLossAbsorbed' /\ BoundSoFar'
    BY <2>1, <2>2 DEF MainWhere, OneLossAbsorbed, BoundSoFar
  <2> QED
    BY <2>5, <2>6, <2>7 DEF BrokerInv
<1>6. CASE CloseConnection
  <2>1. /\ mainPhase = "shutdown" /\ mainStep <= 8 /\ ShutdownSteps[mainStep].op = "connection"
        /\ UNCHANGED <<mainPhase, tensPhase, ctxDone, mongoOpen, httpUp, probe, losses>>
        /\ UNCHANGED <<conn, attempt, refused, channel, queue, bound, opStep, retried>>
        /\ mainStep' = mainStep + 1 /\ live' = live \ {conn}
        /\ chanOpen' = [c \in Consumers |-> FALSE]
    BY <1>6 DEF CloseConnection, ShuttingDown, Close, StepDone, opVars, MainWhere
  <2>2. closed' = TRUE /\ closed' \in BOOLEAN /\ chanOpen' \in [Consumers -> BOOLEAN]
    BY <1>6, <2>1 DEF CloseConnection, Close
  <2>3. mainStep' \in 1..8 /\ mainStep' # 1
    BY <1>1, <2>1, ShutdownShape
  <2>4. ConnTypeOK'
    BY <1>1, <2>1, <2>2 DEF ConnTypeOK
  <2>5. ConsumerTypeOK'
    BY <1>1, <2>1, <2>2, <2>4 DEF ConsumerTypeOK
  <2>6. OneConnection' /\ LossesCounted' /\ RetryAfterLoss'
    BY <2>1, <2>2 DEF OneConnection, LossesCounted, RetryAfterLoss
  <2>7. ProcessTypeOK'
    BY <1>2, <2>1, <2>3, <2>5 DEF ProcessTypeOK
  <2>8. MainWhere' /\ OneLossAbsorbed' /\ BoundSoFar'
    BY <2>1, <2>3 DEF MainWhere, OneLossAbsorbed, BoundSoFar
  <2> QED
    BY <2>6, <2>7, <2>8
<1>7. CASE LoseConnection
  <2>1. /\ mainPhase \notin {"exited", "failed"} /\ losses < MaxLosses /\ losses' = losses + 1
        /\ UNCHANGED <<mainPhase, mainStep, tensPhase, ctxDone, mongoOpen, httpUp, probe>>
        /\ conn \in live /\ live' = live \ {conn}
        /\ UNCHANGED <<conn, closed, attempt, refused, channel, queue, bound, opStep, retried>>
    BY <1>7 DEF LoseConnection, Running, mainVars, ConnectionLost, IsConnectionOpen, opVars
  <2>2. chanOpen' \in [Consumers -> BOOLEAN]
    BY <1>7 DEF LoseConnection, ConnectionLost
  <2>3. ConnTypeOK'
    BY <1>1, <2>1 DEF ConnTypeOK
  <2>4. ConsumerTypeOK'
    BY <1>1, <2>1, <2>2, <2>3 DEF ConsumerTypeOK
  <2>5. OneConnection' /\ RetryAfterLoss'
    BY <2>1 DEF OneConnection, RetryAfterLoss
  <2>6. LossesCounted'
    BY <1>1, <2>1 DEF LossesCounted
  <2>7. losses' \in 0..MaxLosses
    BY <1>1, <2>1, MaxLossesAssumption
  <2>8. ProcessTypeOK'
    BY <1>2, <2>1, <2>4, <2>7 DEF ProcessTypeOK
  <2>9. MainWhere' /\ OneLossAbsorbed' /\ BoundSoFar'
    BY <2>1 DEF MainWhere, OneLossAbsorbed, BoundSoFar
  <2> QED
    BY <2>5, <2>6, <2>8, <2>9
<1>8. CASE \E c \in Consumers : LoseChannel(c)
  <2>1. PICK c \in Consumers : LoseChannel(c)
    BY <1>8
  <2>2. /\ mainPhase \notin {"exited", "failed"} /\ losses < MaxLosses /\ losses' = losses + 1
        /\ UNCHANGED <<mainPhase, mainStep, tensPhase, ctxDone, mongoOpen, httpUp, probe>>
        /\ UNCHANGED <<conn, live, closed, attempt, channel, queue, bound, opStep, retried>>
    BY <2>1 DEF LoseChannel, Running, mainVars, ChannelLost, CallRefused, connVars, opVars
  <2>3. chanOpen' \in [Consumers -> BOOLEAN] /\ refused' \in BOOLEAN
    BY <1>1, <2>1, CallFailsFacts DEF LoseChannel, ChannelLost, CallFails
  <2>4. losses' \in 0..MaxLosses /\ losses' \in Nat /\ losses' >= losses
    BY <1>1, <2>2, MaxLossesAssumption
  <2>5. BrokerInv'
    BY <2>2, <2>3, <2>4, ChannelFrame
  <2>6. ProcessTypeOK'
    BY <1>2, <2>2, <2>4, <2>5 DEF ProcessTypeOK, BrokerInv
  <2>7. MainWhere' /\ OneLossAbsorbed' /\ BoundSoFar'
    BY <2>2 DEF MainWhere, OneLossAbsorbed, BoundSoFar
  <2> QED
    BY <2>5, <2>6, <2>7 DEF BrokerInv
<1> QED
  BY <1>3, <1>4, <1>5, <1>6, <1>7, <1>8

-----------------------------------------------------------------------------
\* The theorems.

\* ProcessInv holds in every reachable state.
THEOREM ProcessInvariance == ProcessSpec => []ProcessInv
<1>1. ASSUME ProcessInv, [ProcessNext]_processVars PROVE ProcessInv'
  BY <1>1, QuietPreserves, DialPreserves, NewRabbitmqPreserves, ClosingPreserves
     DEF ProcessNext, MainStep
<1> QED
  BY <1>1, InitProcessInv, PTL DEF ProcessSpec

\* Every variable keeps its type; in particular no reconnect makes more than
\* DialAttempts dials.
THEOREM ProcessTypeCorrect == ProcessSpec => []ProcessTypeOK
<1>1. ProcessInv => ProcessTypeOK
  BY DEF ProcessInv
<1> QED
  BY <1>1, ProcessInvariance, PTL

\* openConnection, the dial at start-up and Close never leave more than one
\* connection open, or one that shutdown would not close.
THEOREM AtMostOneConnection == ProcessSpec => []OneConnection
<1>1. ProcessInv => OneConnection
  BY DEF ProcessInv
<1> QED
  BY <1>1, ProcessInvariance, PTL

\* A single lost connection is absorbed by the one retry of openChannel.
THEOREM LossAbsorbed == ProcessSpec => []OneLossAbsorbed
<1>1. ProcessInv => OneLossAbsorbed
  BY DEF ProcessInv
<1> QED
  BY <1>1, ProcessInvariance, PTL

\* ReadinessHandler answers 200 only in a process whose queues are bound.
THEOREM ReadyIsBound == ProcessSpec => []ReadyMeansBound
<1>1. ProcessInv => ReadyMeansBound
  BY DEF ProcessInv, BoundSoFar, ReadyMeansBound
<1> QED
  BY <1>1, ProcessInvariance, PTL
=============================================================================
