-------------------------- MODULE StaffSystemProofs --------------------------
(***************************************************************************)
(* Proofs about the whole process of StaffSystem, for every value of its   *)
(* constants: it implements StaffStock and RequestHandover, so that what   *)
(* is proved of them holds of it, and what the manager, the time-event     *)
(* service and the broker's queues add to them.                            *)
(***************************************************************************)
EXTENDS StaffSystem, StaffRetryProofs, StaffMetricsProofs

-----------------------------------------------------------------------------
\* The inductive invariant.

\* The types of what StaffSystem adds to StaffStock.
FrontTypeOK ==
    /\ MgrTypeOK
    /\ TensTypeOK
    /\ published \subseteq Bodies
    /\ days \in 0..MaxDays /\ bad \in 0..MaxBad /\ losses \in 0..MaxLosses
    /\ dispatched \subseteq CleaningRequests /\ worked \subseteq CleaningRequests

\* The requests in the valid messages the broker has taken.
Accepted == {RequestOf(body) : body \in {b \in published : Unmarshals(b)}}

\* The manager holds a delivery.
Holding == mgrPhase \in {"dispatch", "ack"}

\* What the manager has in hand and what the broker waits for is the same
\* message, as long as their channel is open; nothing else is unacknowledged.
DeliveryHeld ==
    /\ Range(cleaningReady) \subseteq published
    /\ Holding => mgrDelivery \in Accepted
    /\ mgrPhase = "ack" => mgrDelivery \in dispatched
    /\ IF cleaningOpen /\ Holding
         THEN \E body \in published :
                 cleaningUnacked = <<body>> /\ Unmarshals(body) /\ RequestOf(body) = mgrDelivery
         ELSE cleaningUnacked = <<>>

\* The time-event service acknowledges a message the broker waits for.
EventHeld ==
    /\ hourOpen /\ tensPhase = "hourAck" => hourUnacked # <<>>
    /\ dayOpen /\ tensPhase = "dayAck" => dayUnacked # <<>>

\* What is in flight has come from the manager.
FlightDispatched == InFlight \subseteq dispatched

\* The inductive invariant.
SysInv ==
    /\ IInv
    /\ HkTable
    /\ FrontTypeOK
    /\ DeliveryHeld
    /\ EventHeld
    /\ NoRequestLostUndispatched
    /\ RegistriesExact
    /\ FlightDispatched
    /\ StatusWasRequested

-----------------------------------------------------------------------------
\* The process does to the pools only what StaffStock does.

\* The tuples of variables.
LEMMA PoolsUnchanged ==
    ASSUME UNCHANGED <<channelVars, ctxDone, stock, cleaningStatus, hourVars, hkVars, stVars, ldVars, envVars>>
    PROVE  UNCHANGED vars
BY DEF vars

\* The manager's sends are arrivals, and its other steps are none of the pools'.
LEMMA ManagerRefines ==
    ASSUME FrontTypeOK, Accepted \subseteq CleaningRequests, DeliveryHeld, ManagerStep
    PROVE  CleaningArrives \/ RestockArrives \/ UNCHANGED vars
<1>1. UNCHANGED <<ctxDone, stock, cleaningStatus, hourVars, hkVars, stVars, ldVars, crashes>>
  BY DEF ManagerStep
<1>2. CASE MgrDispatch
  <2>1. mgrPhase = "dispatch" /\ SendCleaning(mgrDelivery) /\ UNCHANGED <<laundererCh, stockerCh>>
    BY <1>2 DEF MgrDispatch
  <2>2. mgrDelivery \in CleaningRequests
    BY <2>1 DEF DeliveryHeld, Holding
  <2>3. cleaningCount < MaxCleaning /\ cleaningCount' = cleaningCount + 1 /\ restockCount' = restockCount
    BY <2>1 DEF ManagerStep
  <2> QED
    BY <1>1, <2>1, <2>2, <2>3 DEF CleaningArrives
<1>3. CASE MgrRestock
  <2>1. mgrPhase = "restock" /\ (\E items \in RestockRequests : SendRestock(items))
        /\ UNCHANGED <<cleaningCh, laundererCh>>
    BY <1>3 DEF MgrRestock
  <2>2. restockCount < MaxRestock /\ restockCount' = restockCount + 1 /\ cleaningCount' = cleaningCount
    BY <2>1 DEF ManagerStep
  <2> QED
    BY <1>1, <2>1, <2>2 DEF RestockArrives
<1>4. CASE MgrStart \/ MgrReturn \/ MgrReject \/ MgrReceive \/ MgrAck \/ MgrDayChange
  <2>1. mgrPhase \in {"starting", "select", "ack"} /\ UNCHANGED channelVars
    BY <1>4 DEF MgrStart, MgrReturn, MgrReject, MgrReceive, MgrAck, MgrDayChange
  <2>2. cleaningCount' = cleaningCount /\ restockCount' = restockCount
    BY <2>1 DEF ManagerStep
  <2> QED
    BY <1>1, <2>1, <2>2, PoolsUnchanged DEF envVars
<1> QED
  BY <1>2, <1>3, <1>4 DEF ManagerStep, MgrStep

\* An offer to a launderer is one of StaffStock's, and the other steps of the
\* time-event service leave the launderers' channels alone.
LEMMA TimeEventRefines ==
    ASSUME FrontTypeOK, TimeEventStep
    PROVE  (\E c \in Chans : HourOffered(c)) \/ UNCHANGED vars
<1>1. UNCHANGED <<channelVars, ctxDone, stock, cleaningStatus, hkVars, stVars, ldVars, envVars>>
  BY DEF TimeEventStep
<1>2. CASE UNCHANGED hourVars
  BY <1>1, <1>2, PoolsUnchanged
<1>3. ASSUME NEW c \in tensPending, TensOffer(c)
      PROVE  (\E d \in Chans : HourOffered(d)) \/ UNCHANGED hourVars
  <2>1. CASE c = DayChan
    BY <1>3, <2>1 DEF TensOffer, hourVars
  <2>2. CASE c # DayChan
    <3>1. c \in Chans /\ tensAge \in 0..MaxLag
      BY <2>2 DEF FrontTypeOK, TensTypeOK
    <3>2. Hours!Offer(c, tensAge) /\ UNCHANGED hourChangeChannels
      BY <1>3, <2>2 DEF TensOffer
    <3> QED
      BY <1>1, <3>1, <3>2 DEF HourOffered
  <2> QED
    BY <2>1, <2>2
<1>4. CASE TensStart \/ TensReturn \/ TensHourEvent \/ TensHourAck \/ TensDayEvent \/ TensDayAck
  BY <1>2, <1>4 DEF TensStart, TensReturn, TensHourEvent, TensHourAck, TensDayEvent, TensDayAck
<1> QED
  BY <1>2, <1>3, <1>4 DEF TimeEventStep, TensStep

\* A valid message carries a request of the manager's kind.
LEMMA AcceptedType ==
    ASSUME published \subseteq Bodies
    PROVE  Accepted \subseteq CleaningRequests
<1> SUFFICES ASSUME NEW body \in Bodies, Unmarshals(body) PROVE RequestOf(body) \in CleaningRequests
  BY DEF Accepted
<1>1. body.RoomName \in Rooms /\ body.RequestType \in RequestTypes
  BY BodiesAssumption DEF Unmarshals
<1> QED
  BY <1>1 DEF RequestOf, CleaningRequests

\* Every step of the process is a step of StaffStock, or none.
LEMMA StepRefines ==
    ASSUME SysInv, [SysNext]_sysVars
    PROVE  [Next]_vars
<1>1. FrontTypeOK /\ DeliveryHeld /\ Accepted \subseteq CleaningRequests
  BY AcceptedType DEF SysInv, FrontTypeOK
<1>2. ManagerStep => Next \/ UNCHANGED vars
  BY <1>1, ManagerRefines DEF Next
<1>3. TimeEventStep => Next \/ UNCHANGED vars
  BY <1>1, TimeEventRefines DEF Next
<1>4. \A body \in Bodies : PublishCleaning(body) => UNCHANGED vars
  BY DEF PublishCleaning
<1>5. \A message : PublishDay(message) => UNCHANGED vars
  BY DEF PublishDay
<1>6. \A message : PublishHour(message) => Next
  BY DEF PublishHour, Next
<1>7. \A queues : BrokerLost(queues) => UNCHANGED vars
  BY DEF BrokerLost
<1>8. (SysShutdown => Next) /\ (SysCrash => Next)
  BY DEF SysShutdown, SysCrash, Next
<1>9. \A h \in Housekeepers : SysHousekeeperStep(h) => Next
  BY DEF SysHousekeeperStep, Next
<1>10. \A s \in Stockers : SysStockerStep(s) => Next
  BY DEF SysStockerStep, Next
<1>11. \A l \in Launderers : SysLaundererStep(l) => Next
  BY DEF SysLaundererStep, Next
<1>12. UNCHANGED sysVars => UNCHANGED vars
  BY DEF sysVars
<1> QED
  BY <1>2, <1>3, <1>4, <1>5, <1>6, <1>7, <1>8, <1>9, <1>10, <1>11, <1>12 DEF SysNext

-----------------------------------------------------------------------------
\* What is in a queue after the operations on it.

\* Nothing, or the one message.
LEMMA RangeSmall ==
    /\ Range(<<>>) = {}
    /\ \A x : Range(<<x>>) = {x}
BY DEF Range

\* A message more.
LEMMA RangeAppend ==
    ASSUME NEW S, NEW q \in Seq(S), NEW x \in S
    PROVE  Append(q, x) \in Seq(S) /\ Range(Append(q, x)) = Range(q) \cup {x}
<1>1. <<x>> \in Seq(S) /\ Append(q, x) = q \o <<x>> /\ Append(q, x) \in Seq(S)
  BY AppendIsConcat, AppendProperties
<1>2. Range(q \o <<x>>) = Range(q) \cup Range(<<x>>)
  BY <1>1, RangeConcatenation, ZenonT(40)
<1>3. Range(<<x>>) = {x}
  BY RangeSmall
<1> QED
  BY <1>1, <1>2, <1>3, Zenon

\* The oldest message taken.
LEMMA RangeTail ==
    ASSUME NEW S, NEW q \in Seq(S), q # <<>>
    PROVE  /\ Head(q) \in S /\ Head(q) \in Range(q) /\ Tail(q) \in Seq(S)
           /\ Range(q) = {Head(q)} \cup Range(Tail(q))
<1>1. <<Head(q)>> \in Seq(S) /\ Tail(q) \in Seq(S) /\ Head(q) \in S
  BY HeadTailProperties
<1>2. q = <<Head(q)>> \o Tail(q)
  BY HeadTailProperties
<1>3. Range(<<Head(q)>> \o Tail(q)) = Range(<<Head(q)>>) \cup Range(Tail(q))
  BY <1>1, RangeConcatenation, ZenonT(40)
<1>4. Range(<<Head(q)>>) = {Head(q)}
  BY RangeSmall
<1>5. Range(q) = {Head(q)} \cup Range(Tail(q))
  BY <1>2, <1>3, <1>4, Zenon
<1> QED
  BY <1>1, <1>5, Zenon

\* The unacknowledged messages put back.
LEMMA RangeRequeue ==
    ASSUME NEW S, NEW q \in Seq(S), NEW r \in Seq(S)
    PROVE  r \o q \in Seq(S) /\ Range(r \o q) = Range(r) \cup Range(q)
BY ConcatProperties, RangeConcatenation

-----------------------------------------------------------------------------
\* The manager and the cleaning queue.

\* What the invariant says of them.
CleaningSide ==
    /\ mgrPhase \in {"starting", "select", "dispatch", "ack", "restock", "returned"}
    /\ mgrDelivery \in CleaningRequests \cup {NoRequest}
    /\ cleaningReady \in Seq(Bodies) /\ cleaningUnacked \in Seq(Bodies)
    /\ cleaningOpen \in BOOLEAN
    /\ published \subseteq Bodies
    /\ dispatched \subseteq CleaningRequests
    /\ DeliveryHeld
    /\ NoRequestLostUndispatched

\* Steps of the others do not disturb them.
LEMMA CleaningFrame ==
    ASSUME CleaningSide, UNCHANGED <<mgrVars, cleaningQueueVars, published, dispatched>>
    PROVE  CleaningSide'
BY DEF CleaningSide, DeliveryHeld, Holding, Accepted, NoRequestLostUndispatched, mgrVars, cleaningQueueVars

\* A message is published.
LEMMA PublishCleaningSide ==
    ASSUME CleaningSide, NEW body \in Bodies, PublishCleaning(body)
    PROVE  CleaningSide'
<1>1. /\ published' = published \cup {body} /\ cleaningReady' = Append(cleaningReady, body)
      /\ UNCHANGED <<mgrPhase, mgrDelivery, dispatched, cleaningUnacked, cleaningOpen>>
  BY DEF PublishCleaning, CleaningQueue!Publish, mgrVars, historyVars
<1>2. /\ cleaningReady' \in Seq(Bodies)
      /\ Range(cleaningReady') = Range(cleaningReady) \cup {body}
  BY <1>1, RangeAppend DEF CleaningSide
<1>3. DeliveryHeld'
  BY <1>1, <1>2 DEF CleaningSide, DeliveryHeld, Holding, Accepted
<1>4. NoRequestLostUndispatched'
  BY <1>1, <1>2 DEF CleaningSide, NoRequestLostUndispatched
<1> QED
  BY <1>1, <1>2, <1>3, <1>4 DEF CleaningSide

\* The broker puts the delivery back, whether the channel is lost or a new
\* process consumes the queue.
LEMMA Requeued ==
    ASSUME CleaningSide, cleaningReady' = cleaningUnacked \o cleaningReady
    PROVE  /\ cleaningReady' \in Seq(Bodies)
           /\ Range(cleaningReady') = Range(cleaningUnacked) \cup Range(cleaningReady)
           /\ Range(cleaningReady') \subseteq published
<1>1. cleaningUnacked = <<>> \/ \E body \in published : cleaningUnacked = <<body>>
  BY DEF CleaningSide, DeliveryHeld
<1>2. Range(cleaningUnacked) \subseteq published
  BY <1>1, RangeSmall
<1>3. /\ cleaningReady' \in Seq(Bodies)
      /\ Range(cleaningReady') = Range(cleaningUnacked) \cup Range(cleaningReady)
  BY RangeRequeue DEF CleaningSide
<1> QED
  BY <1>2, <1>3 DEF CleaningSide, DeliveryHeld

\* The channel of the cleaning queue is lost.
LEMMA CleaningLost ==
    ASSUME CleaningSide, CleaningQueue!ChannelLost,
           UNCHANGED <<mgrVars, published, dispatched>>
    PROVE  CleaningSide'
<1>1. /\ cleaningReady' = cleaningUnacked \o cleaningReady /\ cleaningUnacked' = <<>>
      /\ UNCHANGED <<mgrPhase, mgrDelivery>>
  BY DEF CleaningQueue!ChannelLost, mgrVars
<1>2. ~cleaningOpen' /\ cleaningOpen' \in BOOLEAN
  BY DEF CleaningQueue!ChannelLost
<1>3. DeliveryHeld'
  BY <1>1, <1>2, Requeued DEF CleaningSide, DeliveryHeld, Holding, Accepted
<1>4. NoRequestLostUndispatched'
  BY <1>1, Requeued, RangeSmall DEF CleaningSide, NoRequestLostUndispatched
<1>5. <<>> \in Seq(Bodies)
  BY EmptySeq
<1> QED
  BY <1>1, <1>2, <1>3, <1>4, <1>5, Requeued DEF CleaningSide

\* The process is started again.
LEMMA CleaningRestarted ==
    ASSUME CleaningSide, CleaningQueue!ConsumerRestarted, MgrRestart,
           UNCHANGED <<published, dispatched>>
    PROVE  CleaningSide'
<1>1. /\ cleaningReady' = cleaningUnacked \o cleaningReady /\ cleaningUnacked' = <<>>
      /\ mgrPhase' = "starting" /\ mgrDelivery' = NoRequest
  BY DEF CleaningQueue!ConsumerRestarted, MgrRestart
<1>2. cleaningOpen' \in BOOLEAN
  BY DEF CleaningQueue!ConsumerRestarted
<1>3. DeliveryHeld'
  BY <1>1, Requeued DEF CleaningSide, DeliveryHeld, Holding, Accepted
<1>4. NoRequestLostUndispatched'
  BY <1>1, Requeued, RangeSmall DEF CleaningSide, NoRequestLostUndispatched
<1>5. <<>> \in Seq(Bodies)
  BY EmptySeq
<1> QED
  BY <1>1, <1>2, <1>3, <1>4, <1>5, Requeued DEF CleaningSide

\* A step of the manager that takes, dispatches or acknowledges nothing.
LEMMA ManagerMoves ==
    ASSUME CleaningSide, ~Holding, ~Holding',
           mgrPhase' \in {"starting", "select", "restock", "returned"},
           UNCHANGED <<mgrDelivery, cleaningQueueVars, published, dispatched>>
    PROVE  CleaningSide'
<1>1. mgrPhase' # "ack"
  BY DEF Holding
<1> QED
  BY <1>1 DEF CleaningSide, DeliveryHeld, Accepted, NoRequestLostUndispatched, cleaningQueueVars

\* Every step of the manager: a message leaves the queue only as the delivery in
\* its hands, or because it is not valid, and is acknowledged only when its
\* request has been dispatched.
LEMMA ManagerCleaning ==
    ASSUME CleaningSide, ManagerStep
    PROVE  CleaningSide'
<1>1. UNCHANGED published
  BY DEF ManagerStep, sysEnvVars
<1>2. mgrPhase # "dispatch" => UNCHANGED dispatched
  BY DEF ManagerStep
<1>3. CASE MgrStart \/ MgrReturn \/ MgrDayChange \/ MgrRestock
  <2>1. /\ mgrPhase \in {"starting", "select", "restock"}
        /\ mgrPhase' \in {"select", "restock", "returned"}
        /\ UNCHANGED <<mgrDelivery, cleaningQueueVars>>
    BY <1>3 DEF MgrStart, MgrReturn, MgrDayChange, MgrRestock, MgrGoto
  <2> QED
    BY <1>1, <1>2, <2>1, ManagerMoves DEF Holding
<1>4. CASE MgrReject
  <2>1. /\ mgrPhase = "select" /\ cleaningReady # <<>> /\ ~Unmarshals(Head(cleaningReady))
        /\ cleaningReady' = Tail(cleaningReady)
        /\ UNCHANGED <<mgrPhase, mgrDelivery, cleaningUnacked, cleaningOpen, dispatched>>
    BY <1>2, <1>4 DEF MgrReject, CleaningQueue!DeliverAndSettle, mgrVars
  <2>2. /\ cleaningReady' \in Seq(Bodies)
        /\ Range(cleaningReady) = {Head(cleaningReady)} \cup Range(cleaningReady')
    BY <2>1, RangeTail DEF CleaningSide
  <2>3. DeliveryHeld'
    BY <1>1, <2>1, <2>2 DEF CleaningSide, DeliveryHeld, Holding, Accepted
  <2>4. NoRequestLostUndispatched'
    BY <1>1, <2>1, <2>2 DEF CleaningSide, NoRequestLostUndispatched
  <2> QED
    BY <1>1, <2>1, <2>2, <2>3, <2>4 DEF CleaningSide
<1>5. CASE MgrReceive
  <2> DEFINE body == Head(cleaningReady)
  <2>1. /\ mgrPhase = "select" /\ cleaningReady # <<>> /\ Unmarshals(body)
        /\ cleaningReady' = Tail(cleaningReady)
        /\ cleaningUnacked' = Append(cleaningUnacked, body)
        /\ cleaningOpen /\ UNCHANGED cleaningOpen
        /\ mgrPhase' = "dispatch" /\ mgrDelivery' = RequestOf(body)
        /\ UNCHANGED dispatched
    BY <1>2, <1>5 DEF MgrReceive, CleaningQueue!Deliver
  <2>2. /\ cleaningReady' \in Seq(Bodies)
        /\ Range(cleaningReady) = {body} \cup Range(cleaningReady')
        /\ body \in Bodies /\ body \in published
    BY <2>1, RangeTail DEF CleaningSide, DeliveryHeld
  <2> HIDE DEF body
  <2>3. cleaningUnacked = <<>>
    BY <2>1 DEF CleaningSide, DeliveryHeld, Holding
  <2>4. cleaningUnacked' = <<body>> /\ cleaningUnacked' \in Seq(Bodies)
    BY <2>1, <2>2, <2>3
  <2>5. RequestOf(body) \in Accepted
    BY <2>1, <2>2 DEF Accepted
  <2>6. Accepted' = Accepted /\ Accepted \subseteq CleaningRequests
    BY <1>1, AcceptedType DEF Accepted, CleaningSide
  <2>7. DeliveryHeld'
    BY <1>1, <2>1, <2>2, <2>4, <2>5, <2>6 DEF CleaningSide, DeliveryHeld, Holding
  <2>8. Range(cleaningUnacked') = {body}
    BY <2>4, RangeSmall
  <2>9. NoRequestLostUndispatched'
    BY <1>1, <2>1, <2>2, <2>3, <2>8, RangeSmall DEF CleaningSide, NoRequestLostUndispatched
  <2> QED
    BY <1>1, <2>1, <2>2, <2>4, <2>5, <2>6, <2>7, <2>9 DEF CleaningSide
<1>6. CASE MgrDispatch
  <2>1. /\ mgrPhase = "dispatch" /\ mgrPhase' = "ack"
        /\ UNCHANGED <<mgrDelivery, cleaningReady, cleaningUnacked, cleaningOpen>>
    BY <1>6 DEF MgrDispatch, MgrGoto, cleaningQueueVars
  <2>2. dispatched' = dispatched \cup {mgrDelivery}
    BY <2>1 DEF ManagerStep
  <2>3. Accepted' = Accepted /\ Accepted \subseteq CleaningRequests
    BY <1>1, AcceptedType DEF Accepted, CleaningSide
  <2>4. mgrDelivery \in CleaningRequests
    BY <2>1, <2>3 DEF CleaningSide, DeliveryHeld, Holding
  <2>5. DeliveryHeld'
    BY <1>1, <2>1, <2>2, <2>3 DEF CleaningSide, DeliveryHeld, Holding
  <2>6. NoRequestLostUndispatched'
    BY <1>1, <2>1, <2>2 DEF CleaningSide, NoRequestLostUndispatched
  <2> QED
    BY <1>1, <2>1, <2>2, <2>4, <2>5, <2>6 DEF CleaningSide
<1>7. CASE MgrAck
  <2>1. /\ mgrPhase = "ack" /\ mgrPhase' = "select" /\ mgrDelivery' = NoRequest
        /\ cleaningUnacked' = IF cleaningOpen THEN Tail(cleaningUnacked) ELSE cleaningUnacked
        /\ UNCHANGED <<cleaningReady, cleaningOpen, dispatched>>
    BY <1>2, <1>7 DEF MgrAck, CleaningQueue!Settle
  <2>2. cleaningUnacked' = <<>>
    <3>1. CASE cleaningOpen
      <4>1. PICK body \in published : cleaningUnacked = <<body>>
        BY <2>1, <3>1 DEF CleaningSide, DeliveryHeld, Holding
      <4> QED
        BY <2>1, <3>1, <4>1
    <3>2. CASE ~cleaningOpen
      BY <2>1, <3>2 DEF CleaningSide, DeliveryHeld
    <3> QED
      BY <3>1, <3>2
  <2>3. \A body \in Range(cleaningUnacked) : RequestOf(body) \in dispatched
    <3>1. cleaningUnacked = <<>> \/ \E body : cleaningUnacked = <<body>> /\ RequestOf(body) = mgrDelivery
      BY DEF CleaningSide, DeliveryHeld
    <3>2. mgrDelivery \in dispatched
      BY <2>1 DEF CleaningSide, DeliveryHeld
    <3> QED
      BY <3>1, <3>2, RangeSmall
  <2>4. DeliveryHeld'
    BY <1>1, <2>1, <2>2 DEF CleaningSide, DeliveryHeld, Holding, Accepted
  <2>5. NoRequestLostUndispatched'
    BY <1>1, <2>1, <2>2, <2>3, RangeSmall DEF CleaningSide, NoRequestLostUndispatched
  <2>6. <<>> \in Seq(Bodies)
    BY EmptySeq
  <2> QED
    BY <1>1, <2>1, <2>2, <2>4, <2>5, <2>6 DEF CleaningSide
<1> QED
  BY <1>3, <1>4, <1>5, <1>6, <1>7 DEF ManagerStep, MgrStep

\* Every step of the process keeps what is said of the cleaning queue.
LEMMA CleaningStep ==
    ASSUME CleaningSide, [SysNext]_sysVars
    PROVE  CleaningSide'
<1> DEFINE quiet == UNCHANGED <<mgrVars, cleaningQueueVars, published, dispatched>>
<1>1. \A queues : BrokerLost(queues) => quiet \/ CleaningSide'
  BY CleaningLost DEF BrokerLost, historyVars
<1>2. SysCrash => CleaningSide'
  BY CleaningRestarted DEF SysCrash, sysEnvVars, historyVars
<1>3. (\E message : PublishDay(message) \/ PublishHour(message)) => quiet
  BY DEF PublishDay, PublishHour, historyVars
<1>4. SysShutdown \/ TimeEventStep => quiet
  BY DEF SysShutdown, TimeEventStep, frontVars, queueVars, sysEnvVars, historyVars
<1>5. (\E h \in Housekeepers : SysHousekeeperStep(h)) => quiet
  BY DEF SysHousekeeperStep, frontVars, queueVars, sysEnvVars
<1>6. (\E s \in Stockers : SysStockerStep(s)) \/ (\E l \in Launderers : SysLaundererStep(l)) => quiet
  BY DEF SysStockerStep, SysLaundererStep, frontVars, queueVars, sysEnvVars, historyVars
<1>7. UNCHANGED sysVars => quiet
  BY DEF sysVars, frontVars, queueVars, sysEnvVars, historyVars
<1>8. quiet => CleaningSide'
  BY CleaningFrame
<1> QED
  BY <1>1, <1>2, <1>3, <1>4, <1>5, <1>6, <1>7, <1>8, PublishCleaningSide, ManagerCleaning DEF SysNext

-----------------------------------------------------------------------------
\* The time-event service, its queues, and the manager's day-change channel.

\* What the invariant says of them.
EventSide ==
    /\ TensTypeOK
    /\ EventHeld
    /\ Days!RegistryTypeOK

\* Steps of the others do not disturb them.
LEMMA TensFrame ==
    ASSUME TensTypeOK, EventHeld, UNCHANGED <<tensVars, hourQueueVars, dayQueueVars>>
    PROVE  TensTypeOK' /\ EventHeld'
BY DEF TensTypeOK, EventHeld, tensVars, hourQueueVars, dayQueueVars

\* Nor the day-change channel.
LEMMA DaysFrame ==
    ASSUME Days!RegistryTypeOK, UNCHANGED dayVars
    PROVE  Days!RegistryTypeOK'
BY DEF Days!RegistryTypeOK, dayVars

\* What notify reads from a registry it can offer to.
LEMMA NotifyFacts ==
    ASSUME TensTypeOK, NEW age \in 0..MaxLag, NEW subscribers,
           subscribers \subseteq Chans \cup {DayChan}, StartNotify(age, subscribers)
    PROVE  /\ tensPhase' \in {"select", "notify"}
           /\ tensPending' \subseteq Chans \cup {DayChan}
           /\ tensAge' \in 0..MaxLag
BY ChansAssumption DEF StartNotify

\* Every step of the time-event service.
LEMMA TimeEventSide ==
    ASSUME EventSide, Hours!RegistryTypeOK, TimeEventStep
    PROVE  EventSide'
<1>1. /\ TensTypeOK /\ EventHeld /\ Days!RegistryTypeOK
      /\ hourChangeChannels \subseteq Chans /\ dayChangeChannels \subseteq {DayChan}
  BY DEF EventSide, Hours!RegistryTypeOK, Days!RegistryTypeOK
<1>2. 0 \in 0..MaxLag /\ \A S : <<>> \in Seq(S)
  BY ChansAssumption, EmptySeq
<1> USE DEF hourQueueVars, dayQueueVars
<1>3. CASE TensStart \/ TensReturn
  <2>1. /\ tensPhase' \in {"select", "returned"}
        /\ UNCHANGED <<tensPending, tensAge, dayVars, hourQueueVars, dayQueueVars>>
    BY <1>3 DEF TensStart, TensReturn
  <2>2. TensTypeOK' /\ EventHeld'
    BY <1>1, <2>1 DEF TensTypeOK, EventHeld
  <2> QED
    BY <1>1, <2>1, <2>2, DaysFrame DEF EventSide
<1>4. CASE TensHourEvent
  <2>1. /\ tensPhase = "select" /\ hourReady # <<>> /\ hourReady' = Tail(hourReady)
        /\ UNCHANGED <<tensPending, dayVars, dayQueueVars, hourOpen>>
    BY <1>4 DEF TensHourEvent, HourQueue!DeliverAndSettle, HourQueue!Deliver
  <2>2. /\ Head(hourReady) \in {BadEvent} \cup 0..MaxLag
        /\ hourReady' \in Seq({BadEvent} \cup 0..MaxLag)
    BY <1>1, <2>1, RangeTail DEF TensTypeOK
  <2>3. CASE Head(hourReady) = BadEvent
    <3>1. UNCHANGED <<tensPhase, tensAge, hourUnacked>>
      BY <1>4, <2>3 DEF TensHourEvent, HourQueue!DeliverAndSettle
    <3>2. TensTypeOK' /\ EventHeld'
      BY <1>1, <2>1, <2>2, <3>1 DEF TensTypeOK, EventHeld
    <3> QED
      BY <1>1, <2>1, <3>2, DaysFrame DEF EventSide
  <2>4. CASE Head(hourReady) # BadEvent
    <3>1. /\ tensPhase' = "hourAck" /\ tensAge' = Head(hourReady)
          /\ hourUnacked' = Append(hourUnacked, Head(hourReady))
      BY <1>4, <2>4 DEF TensHourEvent, HourQueue!Deliver
    <3>2. Head(hourReady) \in 0..MaxLag
      BY <2>2, <2>4
    <3>3. hourUnacked' \in Seq(0..MaxLag) /\ hourUnacked' # <<>>
      BY <1>1, <3>1, <3>2, AppendProperties DEF TensTypeOK
    <3>4. TensTypeOK' /\ EventHeld'
      BY <1>1, <2>1, <2>2, <3>1, <3>2, <3>3 DEF TensTypeOK, EventHeld
    <3> QED
      BY <1>1, <2>1, <3>4, DaysFrame DEF EventSide
  <2> QED
    BY <2>3, <2>4
<1>5. CASE TensHourAck
  <2>1. /\ tensPhase = "hourAck" /\ StartNotify(tensAge, hourChangeChannels)
        /\ hourUnacked' = IF hourOpen THEN Tail(hourUnacked) ELSE hourUnacked
        /\ UNCHANGED <<hourReady, hourOpen, dayVars, dayQueueVars>>
    BY <1>5 DEF TensHourAck, HourQueue!Settle
  <2>2. hourUnacked' \in Seq(0..MaxLag)
    BY <1>1, <2>1, RangeTail DEF TensTypeOK, EventHeld
  <2>3. tensAge \in 0..MaxLag
    BY <1>1 DEF TensTypeOK
  <2>4. /\ tensPhase' \in {"select", "notify"} /\ tensAge' \in 0..MaxLag
        /\ tensPending' \subseteq Chans \cup {DayChan}
    BY <1>1, <2>1, <2>3, NotifyFacts
  <2>5. TensTypeOK' /\ EventHeld'
    BY <1>1, <2>1, <2>2, <2>4 DEF TensTypeOK, EventHeld
  <2> QED
    BY <1>1, <2>1, <2>5, DaysFrame DEF EventSide
<1>6. CASE TensDayEvent
  <2>1. /\ tensPhase = "select" /\ dayReady # <<>> /\ dayReady' = Tail(dayReady)
        /\ UNCHANGED <<tensPending, tensAge, dayVars, hourQueueVars, dayOpen>>
    BY <1>6 DEF TensDayEvent, DayQueue!DeliverAndSettle, DayQueue!Deliver
  <2>2. Head(dayReady) \in {BadEvent, 0} /\ dayReady' \in Seq({BadEvent, 0})
    BY <1>1, <2>1, RangeTail DEF TensTypeOK
  <2>3. CASE Head(dayReady) = BadEvent
    <3>1. UNCHANGED <<tensPhase, dayUnacked>>
      BY <1>6, <2>3 DEF TensDayEvent, DayQueue!DeliverAndSettle
    <3>2. TensTypeOK' /\ EventHeld'
      BY <1>1, <2>1, <2>2, <3>1 DEF TensTypeOK, EventHeld
    <3> QED
      BY <1>1, <2>1, <3>2, DaysFrame DEF EventSide
  <2>4. CASE Head(dayReady) # BadEvent
    <3>1. tensPhase' = "dayAck" /\ dayUnacked' = Append(dayUnacked, Head(dayReady))
      BY <1>6, <2>4 DEF TensDayEvent, DayQueue!Deliver
    <3>2. Head(dayReady) \in {0}
      BY <2>2, <2>4
    <3>3. dayUnacked' \in Seq({0}) /\ dayUnacked' # <<>>
      BY <1>1, <3>1, <3>2, AppendProperties DEF TensTypeOK
    <3>4. TensTypeOK' /\ EventHeld'
      BY <1>1, <2>1, <2>2, <3>1, <3>3 DEF TensTypeOK, EventHeld
    <3> QED
      BY <1>1, <2>1, <3>4, DaysFrame DEF EventSide
  <2> QED
    BY <2>3, <2>4
<1>7. CASE TensDayAck
  <2>1. /\ tensPhase = "dayAck" /\ StartNotify(0, dayChangeChannels)
        /\ dayUnacked' = IF dayOpen THEN Tail(dayUnacked) ELSE dayUnacked
        /\ UNCHANGED <<dayReady, dayOpen, dayVars, hourQueueVars>>
    BY <1>7 DEF TensDayAck, DayQueue!Settle
  <2>2. dayUnacked' \in Seq({0})
    BY <1>1, <2>1, RangeTail DEF TensTypeOK, EventHeld
  <2>3. /\ tensPhase' \in {"select", "notify"} /\ tensAge' \in 0..MaxLag
        /\ tensPending' \subseteq Chans \cup {DayChan}
    BY <1>1, <1>2, <2>1, NotifyFacts
  <2>4. TensTypeOK' /\ EventHeld'
    BY <1>1, <2>1, <2>2, <2>3 DEF TensTypeOK, EventHeld
  <2> QED
    BY <1>1, <2>1, <2>4, DaysFrame DEF EventSide
<1>8. ASSUME NEW c \in tensPending, TensOffer(c)
      PROVE  EventSide'
  <2>1. /\ StartNotify(tensAge, tensPending \ {c})
        /\ UNCHANGED <<dayChangeChannels, hourQueueVars, dayQueueVars>>
        /\ Days!Offer(DayChan, 0) \/ UNCHANGED dayBuffer
    BY <1>8 DEF TensOffer
  <2>2. tensAge \in 0..MaxLag /\ tensPending \ {c} \subseteq Chans \cup {DayChan}
    BY <1>1 DEF TensTypeOK
  <2>3. /\ tensPhase' \in {"select", "notify"} /\ tensAge' \in 0..MaxLag
        /\ tensPending' \subseteq Chans \cup {DayChan}
    BY <1>1, <2>1, <2>2, NotifyFacts
  <2>4. TensTypeOK' /\ EventHeld'
    BY <1>1, <2>1, <2>3 DEF TensTypeOK, EventHeld
  <2>5. Days!RegistryTypeOK'
    BY <1>1, <2>1 DEF Days!RegistryTypeOK, Days!Offer
  <2> QED
    BY <2>4, <2>5 DEF EventSide
<1> QED
  BY <1>3, <1>4, <1>5, <1>6, <1>7, <1>8 DEF TimeEventStep, TensStep

\* Waiting events grow older without growing too old.
LEMMA OlderType ==
    ASSUME NEW S \in {0..MaxLag, {BadEvent} \cup 0..MaxLag}, NEW queue \in Seq(S),
           \A n \in 1..Len(queue) : queue[n] < MaxLag
    PROVE  OlderMessages(queue) \in Seq(S) /\ Len(OlderMessages(queue)) = Len(queue)
<1>1. Len(queue) \in Nat /\ \A n \in 1..Len(queue) : queue[n] \in S
  BY LenProperties, ElementOfSeq
<1>2. ASSUME NEW n \in 1..Len(queue)
      PROVE  (IF queue[n] = BadEvent THEN BadEvent ELSE queue[n] + 1) \in S
  <2>1. queue[n] \in S /\ queue[n] < MaxLag
    BY <1>1
  <2> QED
    BY <2>1, ChansAssumption DEF BadEvent
<1>3. OlderMessages(queue) \in [1..Len(queue) -> S]
  BY <1>2 DEF OlderMessages
<1> QED
  BY <1>1, <1>3, SeqDef, LenProperties

\* A sequence of events is one of messages.
LEMMA SeqWider ==
    ASSUME NEW S, NEW T, S \subseteq T, NEW q \in Seq(S)
    PROVE  q \in Seq(T)
<1>1. PICK n \in Nat : q \in [1..n -> S]
  BY SeqDef
<1>2. q \in [1..n -> T]
  BY <1>1
<1> QED
  BY <1>1, <1>2, SeqDef

\* The broker requeues what a lost hour- or day-change channel held.
LEMMA EventsRequeued ==
    ASSUME TensTypeOK
    PROVE  /\ hourUnacked \o hourReady \in Seq({BadEvent} \cup 0..MaxLag)
           /\ dayUnacked \o dayReady \in Seq({BadEvent, 0})
<1>1. hourUnacked \in Seq({BadEvent} \cup 0..MaxLag) /\ dayUnacked \in Seq({BadEvent, 0})
  BY SeqWider DEF TensTypeOK
<1> QED
  BY <1>1, RangeRequeue DEF TensTypeOK

\* An hour passes.
LEMMA PublishHourSide ==
    ASSUME EventSide, NEW message \in {0, BadEvent}, PublishHour(message)
    PROVE  EventSide'
<1>1. TensTypeOK /\ EventHeld /\ Days!RegistryTypeOK
  BY DEF EventSide
<1>2. /\ TensMayAge
      /\ hourReady' = Append(OlderMessages(hourReady), message)
      /\ hourUnacked' = OlderMessages(hourUnacked)
      /\ tensAge' = IF HourInHand THEN tensAge + 1 ELSE tensAge
      /\ UNCHANGED <<hourOpen, tensPhase, tensPending, dayVars, dayReady, dayUnacked, dayOpen>>
  BY DEF PublishHour, AgeTens, dayQueueVars
<1>3. /\ OlderMessages(hourReady) \in Seq({BadEvent} \cup 0..MaxLag)
      /\ OlderMessages(hourUnacked) \in Seq(0..MaxLag)
      /\ Len(OlderMessages(hourUnacked)) = Len(hourUnacked)
  BY <1>1, <1>2, OlderType DEF TensMayAge, TensTypeOK
<1>4. message \in {BadEvent} \cup 0..MaxLag
  BY ChansAssumption
<1>5. hourReady' \in Seq({BadEvent} \cup 0..MaxLag)
  BY <1>2, <1>3, <1>4, RangeAppend
<1>6. hourUnacked # <<>> => hourUnacked' # <<>>
  <2>1. hourUnacked \in Seq(0..MaxLag)
    BY <1>1 DEF TensTypeOK
  <2>2. Len(hourUnacked') = Len(hourUnacked)
    BY <1>2, <1>3
  <2> QED
    BY <2>1, <2>2, EmptySeq
<1>7. tensAge' \in 0..MaxLag
  BY <1>1, <1>2, ChansAssumption DEF TensMayAge, TensTypeOK
<1>8. TensTypeOK' /\ EventHeld'
  BY <1>1, <1>2, <1>3, <1>5, <1>6, <1>7 DEF TensTypeOK, EventHeld
<1> QED
  BY <1>1, <1>2, <1>8, DaysFrame DEF EventSide

\* A day-change message is published.
LEMMA PublishDaySide ==
    ASSUME EventSide, NEW message \in {0, BadEvent}, PublishDay(message)
    PROVE  EventSide'
<1>1. TensTypeOK /\ EventHeld /\ Days!RegistryTypeOK
  BY DEF EventSide
<1>2. /\ dayReady' = Append(dayReady, message)
      /\ UNCHANGED <<tensPhase, tensPending, tensAge, hourReady, hourUnacked, hourOpen,
                     dayUnacked, dayOpen, dayVars>>
  BY DEF PublishDay, DayQueue!Publish, tensVars, hourQueueVars
<1>3. dayReady' \in Seq({BadEvent, 0})
  BY <1>1, <1>2, RangeAppend DEF TensTypeOK
<1>4. TensTypeOK' /\ EventHeld'
  BY <1>1, <1>2, <1>3 DEF TensTypeOK, EventHeld
<1> QED
  BY <1>1, <1>2, <1>4, DaysFrame DEF EventSide

\* Channels are lost.
LEMMA BrokerLostSide ==
    ASSUME EventSide, NEW queues, BrokerLost(queues)
    PROVE  EventSide'
<1>1. TensTypeOK /\ EventHeld /\ Days!RegistryTypeOK
  BY DEF EventSide
<1>2. /\ HourQueue!ChannelLost \/ UNCHANGED hourQueueVars
      /\ DayQueue!ChannelLost \/ UNCHANGED dayQueueVars
      /\ UNCHANGED <<tensPhase, tensPending, tensAge, dayVars>>
  BY DEF BrokerLost, tensVars
<1>3. \A S : <<>> \in Seq(S)
  BY EmptySeq
<1>4. /\ hourReady' \in Seq({BadEvent} \cup 0..MaxLag) /\ hourUnacked' \in Seq(0..MaxLag)
      /\ hourOpen' => UNCHANGED <<hourOpen, hourUnacked>>
  BY <1>1, <1>2, <1>3, EventsRequeued DEF HourQueue!ChannelLost, hourQueueVars, TensTypeOK
<1>5. /\ dayReady' \in Seq({BadEvent, 0}) /\ dayUnacked' \in Seq({0})
      /\ dayOpen' => UNCHANGED <<dayOpen, dayUnacked>>
  BY <1>1, <1>2, <1>3, EventsRequeued DEF DayQueue!ChannelLost, dayQueueVars, TensTypeOK
<1>6. hourOpen' \in BOOLEAN /\ dayOpen' \in BOOLEAN
  BY <1>1, <1>2 DEF HourQueue!ChannelLost, DayQueue!ChannelLost, hourQueueVars, dayQueueVars, TensTypeOK
<1>7. TensTypeOK' /\ EventHeld'
  BY <1>1, <1>2, <1>4, <1>5, <1>6 DEF TensTypeOK, EventHeld
<1> QED
  BY <1>1, <1>2, <1>7, DaysFrame DEF EventSide

\* The process is started again.
LEMMA SysCrashSide ==
    ASSUME EventSide, SysCrash
    PROVE  EventSide'
<1>1. TensTypeOK
  BY DEF EventSide
<1>2. /\ tensPhase' = "starting" /\ tensPending' = {} /\ tensAge' = 0
      /\ hourReady' = hourUnacked \o hourReady /\ hourUnacked' = <<>>
      /\ dayReady' = dayUnacked \o dayReady /\ dayUnacked' = <<>>
  BY DEF SysCrash, TensRestart, HourQueue!ConsumerRestarted, DayQueue!ConsumerRestarted
<1>3. hourOpen' \in BOOLEAN /\ dayOpen' \in BOOLEAN
  BY DEF SysCrash, HourQueue!ConsumerRestarted, DayQueue!ConsumerRestarted
<1>4. 0 \in 0..MaxLag /\ \A S : <<>> \in Seq(S)
  BY ChansAssumption, EmptySeq
<1>5. TensTypeOK' /\ EventHeld'
  BY <1>1, <1>2, <1>3, <1>4, EventsRequeued DEF TensTypeOK, EventHeld
<1>6. Days!RegistryTypeOK'
  BY DEF SysCrash, MgrRestart, Days!RegistryRestart, Days!RegistryTypeOK
<1> QED
  BY <1>5, <1>6 DEF EventSide

\* The manager registers, unregisters and empties its day-change channel.
LEMMA ManagerDays ==
    ASSUME EventSide, ManagerStep
    PROVE  EventSide'
<1>1. TensTypeOK /\ EventHeld /\ Days!RegistryTypeOK
  BY DEF EventSide
<1>2. UNCHANGED <<tensVars, hourQueueVars, dayQueueVars>>
  BY DEF ManagerStep
<1>3. Days!RegistryTypeOK'
  <2>1. CASE MgrStart \/ MgrReturn
    BY <1>1, <2>1 DEF MgrStart, MgrReturn, Days!Register, Days!Unregister, Days!RegistryTypeOK
  <2>2. CASE MgrDayChange
    BY <1>1, <2>2 DEF MgrDayChange, Days!RegistryTypeOK
  <2>3. CASE MgrReject \/ MgrReceive \/ MgrDispatch \/ MgrAck \/ MgrRestock
    BY <1>1, <2>3, DaysFrame DEF MgrReject, MgrReceive, MgrDispatch, MgrAck, MgrRestock
  <2> QED
    BY <2>1, <2>2, <2>3 DEF ManagerStep, MgrStep
<1> QED
  BY <1>1, <1>2, <1>3, TensFrame DEF EventSide

\* Every step of the process keeps what is said of the time-event service.
LEMMA EventStep ==
    ASSUME EventSide, Hours!RegistryTypeOK, [SysNext]_sysVars
    PROVE  EventSide'
<1> DEFINE quiet == UNCHANGED <<tensVars, hourQueueVars, dayQueueVars, dayVars>>
<1>1. (\E body \in Bodies : PublishCleaning(body)) => quiet
  BY DEF PublishCleaning
<1>2. SysShutdown => quiet
  BY DEF SysShutdown, frontVars, queueVars
<1>3. (\E h \in Housekeepers : SysHousekeeperStep(h)) => quiet
  BY DEF SysHousekeeperStep, frontVars, queueVars
<1>4. (\E s \in Stockers : SysStockerStep(s)) \/ (\E l \in Launderers : SysLaundererStep(l)) => quiet
  BY DEF SysStockerStep, SysLaundererStep, frontVars, queueVars
<1>5. UNCHANGED sysVars => quiet
  BY DEF sysVars, frontVars, queueVars
<1>6. quiet => EventSide'
  BY TensFrame, DaysFrame DEF EventSide
<1> QED
  BY <1>1, <1>2, <1>3, <1>4, <1>5, <1>6, TimeEventSide, PublishHourSide, PublishDaySide,
     BrokerLostSide, SysCrashSide, ManagerDays DEF SysNext

\* The counters of the environment stay within their bounds.
CountersOK == days \in 0..MaxDays /\ bad \in 0..MaxBad /\ losses \in 0..MaxLosses

\* A step of the process keeps them there.
LEMMA CountersStep ==
    ASSUME CountersOK, [SysNext]_sysVars
    PROVE  CountersOK'
<1> USE SystemBoundsAssumption DEF CountersOK
<1>1. \A message : PublishDay(message) \/ PublishHour(message) => CountersOK'
  BY DEF PublishDay, PublishHour
<1>2. \A queues : BrokerLost(queues) => CountersOK'
  BY DEF BrokerLost
<1>3. \A body : PublishCleaning(body) => UNCHANGED <<days, bad, losses>>
  BY DEF PublishCleaning
<1>4. SysShutdown \/ SysCrash \/ ManagerStep \/ TimeEventStep => UNCHANGED <<days, bad, losses>>
  BY DEF SysShutdown, SysCrash, ManagerStep, TimeEventStep, sysEnvVars
<1>5. (\E h \in Housekeepers : SysHousekeeperStep(h)) => UNCHANGED <<days, bad, losses>>
  BY DEF SysHousekeeperStep, sysEnvVars
<1>6. (\E s \in Stockers : SysStockerStep(s)) \/ (\E l \in Launderers : SysLaundererStep(l))
         => UNCHANGED <<days, bad, losses>>
  BY DEF SysStockerStep, SysLaundererStep, sysEnvVars
<1>7. UNCHANGED sysVars => UNCHANGED <<days, bad, losses>>
  BY DEF sysVars, sysEnvVars
<1> QED
  BY <1>1, <1>2, <1>3, <1>4, <1>5, <1>6, <1>7 DEF SysNext

-----------------------------------------------------------------------------
\* The registries of the time-event service.

\* The launderers in a washing cycle.
Cycling == {l \in Launderers : ldPhase[l] = "cycle"}

\* The hour channels: one registered for each launderer in a cycle.
HoursExact ==
    /\ hourChangeChannels = {ldChan[l] : l \in Cycling}
    /\ \A k, l \in Cycling : ldChan[k] = ldChan[l] => k = l

\* The day channel: registered while the manager consumes.
DaysExact == (DayChan \in dayChangeChannels) <=> mgrPhase \notin {"starting", "returned"}

\* RegistriesExact is their conjunction.
LEMMA RegistriesHalves == RegistriesExact <=> HoursExact /\ DaysExact
BY DEF RegistriesExact, HoursExact, DaysExact, Cycling

\* A launderer that neither enters nor leaves its cycle leaves the registry.
LEMMA HoursQuiet ==
    ASSUME HoursExact, UNCHANGED hourChangeChannels,
           \A k \in Launderers : ldPhase'[k] = "cycle" <=> ldPhase[k] = "cycle",
           \A k \in Launderers : ldPhase[k] = "cycle" => ldChan'[k] = ldChan[k]
    PROVE  HoursExact'
<1>1. Cycling' = Cycling
  BY DEF Cycling
<1>2. \A k \in Cycling : ldChan'[k] = ldChan[k]
  BY DEF Cycling
<1> QED
  BY <1>1, <1>2 DEF HoursExact

\* A launderer that leaves its cycle takes its own channel out, and no other's.
LEMMA HoursLeave ==
    ASSUME HoursExact, LdTypeOK, NEW l \in Cycling, Hours!Unregister(ldChan[l]), LdReturn(l)
    PROVE  HoursExact'
<1>1. /\ hourChangeChannels' = hourChangeChannels \ {ldChan[l]}
      /\ ldPhase' = [ldPhase EXCEPT ![l] = "select"]
      /\ ldChan' = [ldChan EXCEPT ![l] = NoChan]
  BY DEF Hours!Unregister, LdReturn, LdPool!WorkReturns
<1>2. Cycling' = Cycling \ {l}
  BY <1>1 DEF Cycling, LdTypeOK
<1>3. \A k \in Cycling \ {l} : ldChan'[k] = ldChan[k] /\ ldChan[k] # ldChan[l]
  BY <1>1 DEF Cycling, LdTypeOK, HoursExact
<1>4. hourChangeChannels' = {ldChan'[k] : k \in Cycling \ {l}}
  BY <1>1, <1>3 DEF HoursExact
<1> QED
  BY <1>2, <1>3, <1>4 DEF HoursExact

\* Every step of a launderer.
LEMMA LaundererHours ==
    ASSUME HoursExact, LdTypeOK, NEW l \in Launderers, LaundererStep(l)
    PROVE  HoursExact'
<1>1. ASSUME ldPhase[l] # "cycle", NEW p, p # "cycle", ldPhase' = [ldPhase EXCEPT ![l] = p],
             ldChan' = ldChan \/ ldChan' = [ldChan EXCEPT ![l] = NoChan],
             UNCHANGED hourChangeChannels
      PROVE  HoursExact'
  <2>1. \A k \in Launderers : ldPhase'[k] = "cycle" <=> ldPhase[k] = "cycle"
    BY <1>1 DEF LdTypeOK
  <2>2. \A k \in Launderers : ldPhase[k] = "cycle" => ldChan'[k] = ldChan[k]
    BY <1>1 DEF LdTypeOK
  <2> QED
    BY <1>1, <2>1, <2>2, HoursQuiet
<1>2. CASE LdReceive(l) \/ LdStop(l) \/ LdStartWork(l)
  BY <1>1, <1>2 DEF LdReceive, LdStop, LdStartWork, LdPool!ReceiveRequest, LdPool!StopOnCancel,
                    LdPool!StartWork, hourVars
<1>3. CASE LdClock(l)
  BY <1>1, <1>3 DEF LdClock, LdGoto, LdReturn, LdPool!WorkReturns, hourVars
<1>4. CASE LdWash(l)
  <2>1. \/ LdGoto(l, "register") /\ UNCHANGED ldChan
        \/ LdGoto(l, "restock") /\ UNCHANGED ldChan
        \/ LdReturn(l)
    BY <1>4 DEF LdWash
  <2> QED
    BY <1>1, <1>4, <2>1 DEF LdWash, LdGoto, LdReturn, LdPool!WorkReturns, hourVars
<1>5. CASE LdRestock(l)
  BY <1>1, <1>5 DEF LdRestock, LdGoto, LdReturn, LdPool!WorkReturns, hourVars
<1>6. CASE LdRegister(l, ChansInUse)
  <2>1. PICK c \in Chans \ ChansInUse :
           Hours!Register(c) /\ ldChan' = [ldChan EXCEPT ![l] = c]
    BY <1>6 DEF LdRegister
  <2>2. ldPhase[l] = "register" /\ ldPhase' = [ldPhase EXCEPT ![l] = "cycle"]
    BY <1>6 DEF LdRegister, LdGoto
  <2>3. Cycling' = Cycling \cup {l} /\ l \notin Cycling
    BY <2>2 DEF Cycling, LdTypeOK
  <2>4. \A k \in Cycling : ldChan'[k] = ldChan[k] /\ ldChan[k] # c
    BY <2>1, <2>3 DEF Cycling, LdTypeOK, ChansInUse
  <2>5. ldChan'[l] = c
    BY <2>1 DEF LdTypeOK
  <2>6. hourChangeChannels' = {ldChan'[k] : k \in Cycling \cup {l}}
    BY <2>1, <2>4, <2>5 DEF HoursExact, Hours!Register
  <2> QED
    BY <2>3, <2>4, <2>5, <2>6 DEF HoursExact
<1>7. CASE LdHourChange(l)
  <2>1. \/ Hours!Unregister(ldChan[l]) /\ LdReturn(l)
        \/ UNCHANGED <<hourChangeChannels, ldPhase, ldChan>>
    BY <1>7 DEF LdHourChange, ldVars
  <2> QED
    BY <1>7, <2>1, HoursLeave, HoursQuiet DEF LdHourChange, Cycling
<1>8. CASE LdCycleCancelled(l)
  BY <1>8, HoursLeave DEF LdCycleCancelled, Cycling
<1> QED
  BY <1>2, <1>3, <1>4, <1>5, <1>6, <1>7, <1>8 DEF LaundererStep, LdStepOf

\* Every step of the process keeps the hour registry exact.
LEMMA HoursStep ==
    ASSUME HoursExact, LdTypeOK, [Next]_vars
    PROVE  HoursExact'
<1> DEFINE quiet == UNCHANGED <<hourChangeChannels, ldPhase, ldChan>>
<1>1. CleaningArrives \/ RestockArrives \/ HourPasses \/ Shutdown => quiet
  BY DEF CleaningArrives, RestockArrives, HourPasses, Shutdown, hourVars, ldVars
<1>2. (\E c \in Chans : HourOffered(c)) => quiet
  BY DEF HourOffered, ldVars
<1>3. (\E h \in Housekeepers : HousekeeperStep(h)) \/ (\E s \in Stockers : StockerStep(s)) => quiet
  BY DEF HousekeeperStep, StockerStep, hourVars, ldVars
<1>4. UNCHANGED vars => quiet
  BY DEF vars, hourVars, ldVars
<1>5. quiet => HoursExact'
  BY HoursQuiet
<1>6. Crash => HoursExact'
  <2> SUFFICES ASSUME Crash PROVE HoursExact'
    OBVIOUS
  <2>1. hourChangeChannels' = {} /\ ldPhase' = [l \in Launderers |-> "select"]
    BY DEF Crash, ProcessRestart, Hours!RegistryRestart, LdRestart, LdPool!WorkRestart
  <2>2. Cycling' = {}
    BY <2>1 DEF Cycling
  <2> QED
    BY <2>1, <2>2 DEF HoursExact
<1> QED
  BY <1>1, <1>2, <1>3, <1>4, <1>5, <1>6, LaundererHours DEF Next

\* Every step of the process keeps the day registry exact.
LEMMA DaysStep ==
    ASSUME DaysExact, [SysNext]_sysVars
    PROVE  DaysExact'
<1> DEFINE quiet == UNCHANGED <<dayChangeChannels, mgrPhase>>
<1>1. quiet => DaysExact'
  BY DEF DaysExact
<1>2. CASE ManagerStep
  <2>1. CASE MgrStart
    BY <2>1 DEF MgrStart, MgrGoto, Days!Register, DaysExact
  <2>2. CASE MgrReturn
    BY <2>2 DEF MgrReturn, MgrGoto, Days!Unregister, DaysExact
  <2>3. CASE MgrReject \/ MgrReceive \/ MgrDispatch \/ MgrAck \/ MgrDayChange \/ MgrRestock
    <3>1. /\ mgrPhase \in {"select", "dispatch", "ack", "restock"}
          /\ mgrPhase' \in {"select", "dispatch", "ack", "restock"}
          /\ UNCHANGED dayChangeChannels
      BY <2>3 DEF MgrReject, MgrReceive, MgrDispatch, MgrAck, MgrDayChange, MgrRestock, MgrGoto,
                  mgrVars, dayVars
    <3> QED
      BY <3>1 DEF DaysExact
  <2> QED
    BY <1>2, <2>1, <2>2, <2>3 DEF ManagerStep, MgrStep
<1>3. CASE SysCrash
  BY <1>3 DEF SysCrash, MgrRestart, Days!RegistryRestart, DaysExact
<1>4. CASE TimeEventStep
  <2>1. UNCHANGED dayChangeChannels
    BY <1>4 DEF TimeEventStep, TensStep, TensStart, TensReturn, TensHourEvent, TensHourAck,
                TensDayEvent, TensDayAck, TensOffer, dayVars
  <2> QED
    BY <1>1, <1>4, <2>1 DEF TimeEventStep, mgrVars
<1>5. (\E body \in Bodies : PublishCleaning(body)) => quiet
  BY DEF PublishCleaning, mgrVars, dayVars
<1>6. (\E message : PublishDay(message) \/ PublishHour(message)) => quiet
  BY DEF PublishDay, PublishHour, mgrVars, dayVars
<1>7. (\E queues : BrokerLost(queues)) => quiet
  BY DEF BrokerLost, mgrVars, dayVars
<1>8. SysShutdown \/ (\E h \in Housekeepers : SysHousekeeperStep(h)) => quiet
  BY DEF SysShutdown, SysHousekeeperStep, frontVars, mgrVars, dayVars
<1>9. (\E s \in Stockers : SysStockerStep(s)) \/ (\E l \in Launderers : SysLaundererStep(l)) => quiet
  BY DEF SysStockerStep, SysLaundererStep, frontVars, mgrVars, dayVars
<1>10. UNCHANGED sysVars => quiet
  BY DEF sysVars, frontVars, mgrVars, dayVars
<1> QED
  BY <1>1, <1>2, <1>3, <1>4, <1>5, <1>6, <1>7, <1>8, <1>9, <1>10 DEF SysNext

-----------------------------------------------------------------------------
\* The requests in the cleaning channel and in housekeepers' hands.

\* The requests received by housekeepers that the table still shows idle.
Held == {hkTaken[h] : h \in HkPool!Receiving}

\* The housekeepers at work, and their requests.
Busy == {h \in Housekeepers : ~hkEmployees[h].isIdle}
Entered == {HkRequest(h) : h \in Busy}

\* InFlight in these terms, before and after a step.
LEMMA InFlightParts ==
    /\ InFlight = Range(cleaningCh) \cup Held \cup Entered
    /\ InFlight' = Range(cleaningCh') \cup Held' \cup Entered'
BY DEF InFlight, Held, Busy, Entered

\* A finite set has a finite image, no larger.
LEMMA ImageFinite ==
    ASSUME NEW S, IsFiniteSet(S), NEW f
    PROVE  /\ IsFiniteSet({f[x] : x \in S})
           /\ Cardinality({f[x] : x \in S}) <= Cardinality(S)
<1> DEFINE T == {f[x] : x \in S}
           g == [x \in S |-> f[x]]
<1>1. g \in Surjection(S, T)
  BY DEF Surjection
<1> QED
  BY <1>1, FS_Surjection

\* A channel of length n holds at most n different requests.
LEMMA RangeFinite ==
    ASSUME NEW S, NEW q \in Seq(S)
    PROVE  IsFiniteSet(Range(q)) /\ Cardinality(Range(q)) <= Len(q)
<1>1. Len(q) \in Nat /\ Range(q) = {q[i] : i \in 1..Len(q)}
  BY LenProperties, RangeEquality
<1>2. IsFiniteSet(1..Len(q)) /\ Cardinality(1..Len(q)) = Len(q)
  <2> DEFINE n == Len(q)
  <2>1. n \in Nat /\ n \in Int /\ 1 \in Int
    BY <1>1
  <2> HIDE DEF n
  <2>2. IsFiniteSet(1..n) /\ Cardinality(1..n) = IF 1 > n THEN 0 ELSE n - 1 + 1
    BY <2>1, FS_Interval
  <2>3. (IF 1 > n THEN 0 ELSE n - 1 + 1) = n
    BY <2>1
  <2> QED
    BY <2>2, <2>3 DEF n
<1> QED
  BY <1>1, <1>2, ImageFinite

\* There is room for as many requests as the channel holds and housekeepers have
\* hands.
FlightFits == IsFiniteSet(InFlight) /\ Cardinality(InFlight) <= CleaningCap + Cardinality(Housekeepers)

\* So many are never exceeded: a housekeeper has one request in hand, received or
\* entered in the table.
LEMMA FlightBounded == ChannelsTypeOK /\ HkTable => FlightFits
<1> SUFFICES ASSUME ChannelsTypeOK, HkTable PROVE FlightFits
  OBVIOUS
<1> DEFINE hands == Busy \cup HkPool!Receiving
           f == [h \in hands |-> IF hkPhase[h] = "received" THEN hkTaken[h] ELSE HkRequest(h)]
           R == Range(cleaningCh)
           H == {f[h] : h \in hands}
<1>1. cleaningCh \in Seq(CleaningRequests) /\ Len(cleaningCh) <= CleaningCap /\ Len(cleaningCh) \in Nat
  BY LenProperties DEF ChannelsTypeOK
<1>2. IsFiniteSet(R) /\ Cardinality(R) <= Len(cleaningCh) /\ Cardinality(R) \in Nat
  BY <1>1, RangeFinite, FS_CardinalityType
<1>3. hands \in SUBSET Housekeepers
  BY DEF Busy, HkPool!Receiving
<1>4. Held \cup Entered = H
  <2>1. \A h \in HkPool!Receiving : h \in hands /\ f[h] = hkTaken[h]
    BY DEF HkPool!Receiving
  <2>2. \A h \in Busy : h \in hands /\ f[h] = HkRequest(h)
    BY DEF Busy, HkTable
  <2> HIDE DEF f
  <2> QED
    BY <2>1, <2>2 DEF Held, Entered
<1> HIDE DEF hands, f
<1>5. /\ IsFiniteSet(hands) /\ Cardinality(hands) <= Cardinality(Housekeepers)
      /\ Cardinality(hands) \in Nat /\ Cardinality(Housekeepers) \in Nat
  BY <1>3, EmployeesAssumption, FS_Subset, FS_CardinalityType
<1>6. IsFiniteSet(H) /\ Cardinality(H) <= Cardinality(hands) /\ Cardinality(H) \in Nat
  BY <1>5, ImageFinite, FS_CardinalityType
<1> HIDE DEF H, R
<1>7. IsFiniteSet(R \cap H) /\ Cardinality(R \cap H) \in Nat
  BY <1>2, FS_Subset, FS_CardinalityType
<1>8. /\ IsFiniteSet(R \cup H)
      /\ Cardinality(R \cup H) = Cardinality(R) + Cardinality(H) - Cardinality(R \cap H)
  BY <1>2, <1>6, FS_Union
<1>9. Cardinality(R \cup H) <= CleaningCap + Cardinality(Housekeepers)
  BY <1>1, <1>2, <1>5, <1>6, <1>7, <1>8, CapAssumption
<1>10. InFlight = R \cup H
  BY <1>4, InFlightParts DEF R
<1> QED
  BY <1>8, <1>9, <1>10 DEF FlightFits

\* Steps that touch nobody's hands.
LEMMA HandsFrame ==
    ASSUME UNCHANGED <<hkEmployees, hkTaken>>, HkPool!Receiving' = HkPool!Receiving
    PROVE  Held' = Held /\ Entered' = Entered
BY DEF Held, Entered, Busy, HkRequest

\* In particular those of other goroutines.
LEMMA FlightFrame ==
    ASSUME UNCHANGED <<cleaningCh, hkEmployees, hkPhase, hkTaken>>
    PROVE  InFlight' = InFlight
<1>1. HkPool!Receiving' = HkPool!Receiving
  BY DEF HkPool!Receiving
<1> QED
  BY <1>1, HandsFrame, InFlightParts

\* The manager's send.
LEMMA FlightSend ==
    ASSUME ChannelsTypeOK, NEW request \in CleaningRequests, SendCleaning(request),
           UNCHANGED <<hkEmployees, hkPhase, hkTaken>>
    PROVE  InFlight' = InFlight \cup {request}
<1>1. Range(cleaningCh') = Range(cleaningCh) \cup {request}
  BY RangeAppend DEF ChannelsTypeOK, SendCleaning
<1>2. HkPool!Receiving' = HkPool!Receiving
  BY DEF HkPool!Receiving
<1> QED
  BY <1>1, <1>2, HandsFrame, InFlightParts

\* Nothing is in flight.
FlightNone == InFlight = {}

\* So it is at a start of the process, first or later.
LEMMA FlightStart == ProcessInit => FlightNone
<1> SUFFICES ASSUME ProcessInit PROVE FlightNone
  OBVIOUS
<1>1. /\ cleaningCh = <<>>
      /\ \A h \in Housekeepers : hkEmployees[h].isIdle /\ hkPhase[h] = "select"
  BY DEF ProcessInit, ChannelsInit, HkInit, HkPool!WorkInit, HkPool!NewEmployees
<1>2. Held = {} /\ Entered = {}
  BY <1>1 DEF Held, Entered, Busy, HkPool!Receiving
<1> QED
  BY <1>1, <1>2, RangeSmall, InFlightParts DEF FlightNone

\* Housekeeper h takes a request from the channel into its hands.
LEMMA FlightReceive ==
    ASSUME ChannelsTypeOK, HkTypeOK, NEW h \in Housekeepers, HkReceive(h)
    PROVE  InFlight' = InFlight /\ UNCHANGED hkEmployees
<1>1. /\ hkPhase[h] = "select" /\ cleaningCh # <<>> /\ cleaningCh' = Tail(cleaningCh)
      /\ hkTaken' = [hkTaken EXCEPT ![h] = Head(cleaningCh)]
      /\ hkPhase' = [hkPhase EXCEPT ![h] = "received"]
      /\ UNCHANGED hkEmployees
  BY DEF HkReceive, HkPool!ReceiveRequest
<1>2. Range(cleaningCh) = {Head(cleaningCh)} \cup Range(cleaningCh')
  BY <1>1, RangeTail DEF ChannelsTypeOK
<1>3. HkPool!Receiving' = HkPool!Receiving \cup {h} /\ h \notin HkPool!Receiving
  BY <1>1 DEF HkPool!Receiving, HkTypeOK
<1>4. hkTaken'[h] = Head(cleaningCh) /\ \A k \in HkPool!Receiving : hkTaken'[k] = hkTaken[k]
  BY <1>1, <1>3 DEF HkTypeOK, HkPool!Receiving
<1>5. Held' = {Head(cleaningCh)} \cup Held
  BY <1>3, <1>4 DEF Held
<1>6. Entered' = Entered
  BY <1>1 DEF Entered, Busy, HkRequest
<1> QED
  BY <1>1, <1>2, <1>5, <1>6, InFlightParts

\* Housekeeper h enters the request it has received in the table.
LEMMA FlightStartWork ==
    ASSUME HkTypeOK, HkTable, NEW h \in Housekeepers, HkStartWork(h)
    PROVE  InFlight' = InFlight /\ hkEmployees[h].isIdle
<1>1. /\ hkPhase[h] = "received" /\ UNCHANGED cleaningCh
      /\ hkTaken' = [hkTaken EXCEPT ![h] = NoRequest]
      /\ hkPhase' = [hkPhase EXCEPT ![h] = "clock"]
      /\ hkEmployees' = [hkEmployees EXCEPT ![h] =
            [isIdle |-> FALSE, handledRequests |-> @.handledRequests + 1, currentRequest |-> hkTaken[h]]]
  BY DEF HkStartWork, HkPool!StartWork, HkPool!setEmployeeWorkingStatus
<1>2. hkEmployees[h].isIdle
  BY <1>1 DEF HkTable
<1>3. h \in HkPool!Receiving /\ HkPool!Receiving' = HkPool!Receiving \ {h}
  BY <1>1 DEF HkPool!Receiving, HkTypeOK
<1>4. \A k \in HkPool!Receiving \ {h} : hkTaken'[k] = hkTaken[k]
  BY <1>1 DEF HkTypeOK, HkPool!Receiving
<1>5. Held = Held' \cup {hkTaken[h]}
  BY <1>3, <1>4 DEF Held
<1>6. Busy' = Busy \cup {h} /\ h \notin Busy
  BY <1>1, <1>2 DEF Busy, HkTypeOK
<1>7. HkRequest(h)' = hkTaken[h] /\ \A k \in Busy : HkRequest(k)' = HkRequest(k)
  BY <1>1, <1>6 DEF HkRequest, HkTypeOK, Busy
<1>8. Entered' = {hkTaken[h]} \cup Entered
  BY <1>6, <1>7 DEF Entered
<1> QED
  BY <1>1, <1>2, <1>5, <1>8, InFlightParts

\* The work of housekeeper h returns: its request is in nobody's hands, unless it
\* was delivered twice.
LEMMA FlightReturn ==
    ASSUME HkTypeOK, HkLocals, HkTable,
           NEW h \in Housekeepers, hkPhase[h] \notin {"select", "received", "stopped"},
           HkPool!WorkReturns(h), UNCHANGED cleaningCh
    PROVE  /\ hkEmployees[h].isIdle = FALSE /\ hkEmployees'[h].isIdle
           /\ HkRequest(h) \in InFlight /\ HkRequest(h) \in CleaningRequests
           /\ InFlight' \in {InFlight, InFlight \ {HkRequest(h)}}
<1>1. hkEmployees' = [hkEmployees EXCEPT ![h] =
            [isIdle |-> TRUE, handledRequests |-> @.handledRequests, currentRequest |-> NoRequest]]
  BY DEF HkPool!WorkReturns, HkPool!setEmployeeIdleStatus
<1>2. hkEmployees[h].isIdle \in BOOLEAN
  BY DEF HkTypeOK, HkPool!EmployeeStatus
<1>3. ~hkEmployees[h].isIdle
  BY DEF HkTable
<1>4. hkEmployees[h].isIdle = FALSE
  BY <1>2, <1>3
<1>5. hkEmployees'[h].isIdle
  BY <1>1 DEF HkTypeOK
<1>6. h \in Busy /\ Busy' = Busy \ {h}
  BY <1>1, <1>3, <1>5 DEF Busy, HkTypeOK
<1>7. \A k \in Busy \ {h} : HkRequest(k)' = HkRequest(k)
  BY <1>1 DEF HkRequest, HkTypeOK, Busy
<1>8. Entered' = {HkRequest(k) : k \in Busy \ {h}}
  BY <1>6, <1>7 DEF Entered
<1>9. Held' = Held
  <2>1. hkPhase' = [hkPhase EXCEPT ![h] = "select"] /\ UNCHANGED hkTaken
    BY DEF HkPool!WorkReturns
  <2>2. HkPool!Receiving' = HkPool!Receiving
    BY <2>1 DEF HkPool!Receiving, HkTypeOK
  <2> QED
    BY <2>1, <2>2 DEF Held
<1>10. InFlight' \in {InFlight, InFlight \ {HkRequest(h)}}
  <2>1. Entered = Entered' \cup {HkRequest(h)}
    BY <1>6, <1>8 DEF Entered
  <2> QED
    BY <1>9, <2>1, InFlightParts
<1>11. HkRequest(h) \in InFlight /\ HkRequest(h) \in CleaningRequests
  BY <1>6, InFlightParts DEF HkLocals, Entered
<1> QED
  BY <1>4, <1>5, <1>10, <1>11

\* What a housekeeper's step does to the requests in flight and to the history of
\* those worked on.
LEMMA HousekeeperFlight ==
    ASSUME ChannelsTypeOK, HkTypeOK, HkLocals, HkTable, NEW h \in Housekeepers, SysHousekeeperStep(h)
    PROVE  \/ UNCHANGED <<InFlight, worked>>
           \/ /\ HkRequest(h) \in InFlight /\ HkRequest(h) \in CleaningRequests
              /\ InFlight' \in {InFlight, InFlight \ {HkRequest(h)}}
              /\ worked' = worked \cup {HkRequest(h)}
<1>1. /\ HkStepOf(h)
      /\ worked' = IF hkEmployees[h].isIdle = FALSE /\ hkEmployees'[h].isIdle
                     THEN worked \cup {HkRequest(h)} ELSE worked
  BY DEF SysHousekeeperStep, HousekeeperStep
<1>2. CASE HkReceive(h)
  <2>1. InFlight' = InFlight /\ UNCHANGED hkEmployees
    BY <1>2, FlightReceive
  <2>2. ~(hkEmployees[h].isIdle = FALSE /\ hkEmployees'[h].isIdle)
    BY <2>1
  <2> QED
    BY <1>1, <2>1, <2>2
<1>3. ASSUME UNCHANGED <<cleaningCh, hkEmployees, hkTaken>>, hkPhase[h] # "received",
             \E p \in {"work", "restock", "retry", "stopped"} : hkPhase' = [hkPhase EXCEPT ![h] = p]
      PROVE  UNCHANGED <<InFlight, worked>>
  <2>1. ~(hkEmployees[h].isIdle = FALSE /\ hkEmployees'[h].isIdle)
    BY <1>3
  <2>2. HkPool!Receiving' = HkPool!Receiving
    BY <1>3 DEF HkPool!Receiving, HkTypeOK
  <2>3. InFlight' = InFlight
    BY <1>3, <2>2, HandsFrame, InFlightParts
  <2> QED
    BY <1>1, <2>1, <2>3
<1>4. ASSUME HkPool!WorkReturns(h), UNCHANGED cleaningCh,
             hkPhase[h] \notin {"select", "received", "stopped"}
      PROVE  /\ HkRequest(h) \in InFlight /\ HkRequest(h) \in CleaningRequests
             /\ InFlight' \in {InFlight, InFlight \ {HkRequest(h)}}
             /\ worked' = worked \cup {HkRequest(h)}
  BY <1>1, <1>4, FlightReturn
<1>5. CASE HkStop(h) \/ HkConsume(h) \/ HkRestock(h) \/ HkRetry(h) \/ HkLaundry(h) \/ HkUpdateStatus(h)
  <2>1. /\ UNCHANGED <<cleaningCh, hkEmployees, hkTaken>> /\ hkPhase[h] # "received"
        /\ \E p \in {"work", "restock", "retry", "stopped"} : hkPhase' = [hkPhase EXCEPT ![h] = p]
    BY <1>5 DEF HkStop, HkConsume, HkRestock, HkRetry, HkLaundry, HkUpdateStatus, HkPool!StopOnCancel,
                HkAt, HkGoto, HkNextStep, channelVars
  <2> QED
    BY <1>3, <2>1
<1>6. CASE HkClock(h)
  BY <1>3, <1>4, <1>6 DEF HkClock, channelVars
<1>7. CASE HkFinish(h)
  BY <1>4, <1>7 DEF HkFinish, channelVars
<1>8. CASE HkStartWork(h)
  <2>1. InFlight' = InFlight /\ hkEmployees[h].isIdle
    BY <1>8, FlightStartWork
  <2>2. ~(hkEmployees[h].isIdle = FALSE /\ hkEmployees'[h].isIdle)
    BY <2>1
  <2> QED
    BY <1>1, <2>1, <2>2
<1> QED
  BY <1>1, <1>2, <1>5, <1>6, <1>7, <1>8 DEF HkStepOf

-----------------------------------------------------------------------------
\* The process hands requests over as RequestHandover promises.

\* Nothing that RequestHandover speaks of changes.
HandoverQuiet == UNCHANGED <<Accepted, dispatched, InFlight, worked, crashes>>

\* RequestHandover's variables, in the terms of this module.
LEMMA HandoverStutters ==
    ASSUME HandoverQuiet
    PROVE  UNCHANGED Handover!handoverVars
BY DEF HandoverQuiet, Accepted, Handover!handoverVars

\* RequestHandover counts as this module does.
LEMMA HandoverCardinality == \A S : Handover!Cardinality(S) = Cardinality(S)
BY DEF Handover!Cardinality, Cardinality

\* A valid message is published.
LEMMA PublishHandover ==
    ASSUME NEW body \in Bodies, PublishCleaning(body)
    PROVE  HandoverQuiet \/ \E request \in CleaningRequests : Handover!Accept(request)
<1>1. /\ published' = published \cup {body} /\ UNCHANGED <<dispatched, worked, crashes>>
      /\ UNCHANGED <<cleaningCh, hkEmployees, hkPhase, hkTaken>>
  BY DEF PublishCleaning, historyVars, vars, channelVars, hkVars, envVars
<1>2. InFlight' = InFlight
  BY <1>1, FlightFrame
<1>3. CASE Unmarshals(body)
  <2>1. RequestOf(body) \in CleaningRequests
    BY <1>3, BodiesAssumption DEF Unmarshals, RequestOf, CleaningRequests
  <2>2. Accepted' = Accepted \cup {RequestOf(body)}
    BY <1>1, <1>3 DEF Accepted
  <2> QED
    BY <1>1, <1>2, <2>1, <2>2 DEF Handover!Accept, Accepted
<1>4. CASE ~Unmarshals(body)
  <2>1. Accepted' = Accepted
    BY <1>1, <1>4 DEF Accepted
  <2> QED
    BY <1>1, <1>2, <2>1 DEF HandoverQuiet
<1> QED
  BY <1>3, <1>4

\* The manager dispatches.
LEMMA ManagerHandover ==
    ASSUME ChannelsTypeOK, ChannelsTypeOK', HkTable', CleaningSide, ManagerStep
    PROVE  HandoverQuiet \/ \E request \in CleaningRequests : Handover!HandOver(request)
<1>1. /\ UNCHANGED <<hkEmployees, hkPhase, hkTaken, crashes, published, worked>>
      /\ Accepted' = Accepted
  BY DEF ManagerStep, hkVars, sysEnvVars, Accepted
<1>2. CASE MgrDispatch
  <2>1. mgrPhase = "dispatch" /\ SendCleaning(mgrDelivery)
    BY <1>2 DEF MgrDispatch
  <2>2. dispatched' = dispatched \cup {mgrDelivery}
    BY <2>1 DEF ManagerStep
  <2>3. mgrDelivery \in Accepted /\ mgrDelivery \in CleaningRequests
    BY <2>1, AcceptedType DEF CleaningSide, DeliveryHeld, Holding
  <2>4. InFlight' = InFlight \cup {mgrDelivery}
    BY <1>1, <2>1, <2>3, FlightSend
  <2>5. FlightFits'
    BY FlightBounded, PTL
  <2>6. Handover!Cardinality(InFlight') <= CleaningCap + Cardinality(Housekeepers)
    BY <2>5, HandoverCardinality DEF FlightFits
  <2> QED
    BY <1>1, <2>2, <2>3, <2>4, <2>6 DEF Handover!HandOver, Accepted
<1>3. CASE ~MgrDispatch
  <2>1. mgrPhase # "dispatch" /\ UNCHANGED cleaningCh
    BY <1>3 DEF ManagerStep, MgrStep, MgrStart, MgrReturn, MgrReject, MgrReceive, MgrAck, MgrDayChange,
                MgrRestock, channelVars
  <2>2. dispatched' = dispatched
    BY <2>1 DEF ManagerStep
  <2> QED
    BY <1>1, <2>1, <2>2, FlightFrame DEF HandoverQuiet
<1> QED
  BY <1>2, <1>3

\* Every step is a step of RequestHandover, or none.
LEMMA HandoverRefines ==
    ASSUME IInv, IInv', HkTable, HkTable', CleaningSide, [SysNext]_sysVars
    PROVE  [Handover!HandoverNext]_(Handover!handoverVars)
<1>1. ChannelsTypeOK /\ ChannelsTypeOK' /\ HkTypeOK /\ HkLocals
  BY DEF IInv, TypeOK
<1>2. (\E body \in Bodies : PublishCleaning(body)) => HandoverQuiet \/ Handover!HandoverNext
  BY PublishHandover DEF Handover!HandoverNext
<1>3. ManagerStep => HandoverQuiet \/ Handover!HandoverNext
  BY <1>1, ManagerHandover DEF Handover!HandoverNext
<1>4. ASSUME NEW h \in Housekeepers, SysHousekeeperStep(h)
      PROVE  HandoverQuiet \/ Handover!HandoverNext
  <2>1. UNCHANGED <<published, dispatched, crashes>> /\ Accepted' = Accepted
    BY <1>4 DEF SysHousekeeperStep, HousekeeperStep, sysEnvVars, envVars, Accepted
  <2>2. CASE UNCHANGED <<InFlight, worked>>
    BY <2>1, <2>2 DEF HandoverQuiet
  <2>3. CASE /\ HkRequest(h) \in InFlight /\ HkRequest(h) \in CleaningRequests
             /\ InFlight' \in {InFlight, InFlight \ {HkRequest(h)}}
             /\ worked' = worked \cup {HkRequest(h)}
    <3>1. Handover!Complete(HkRequest(h))
      BY <2>1, <2>3 DEF Handover!Complete, Accepted
    <3> QED
      BY <2>3, <3>1 DEF Handover!HandoverNext
  <2> QED
    BY <1>1, <1>4, <2>2, <2>3, HousekeeperFlight
<1>5. SysCrash => Handover!HandoverNext
  <2> SUFFICES ASSUME SysCrash PROVE Handover!Restart
    BY DEF Handover!HandoverNext
  <2>1. /\ crashes' = crashes + 1 /\ UNCHANGED <<published, dispatched, worked>>
        /\ Accepted' = Accepted
    BY DEF SysCrash, Crash, sysEnvVars, historyVars, Accepted
  <2>2. ProcessInit'
    BY RestartIsStart DEF SysCrash, Crash
  <2>3. FlightNone'
    BY <2>2, FlightStart, PTL
  <2> QED
    BY <2>1, <2>3 DEF FlightNone, Handover!Restart, Accepted
<1> DEFINE quiet == UNCHANGED <<published, dispatched, worked, crashes, cleaningCh,
                                hkEmployees, hkPhase, hkTaken>>
<1>6. quiet => HandoverQuiet
  BY FlightFrame DEF HandoverQuiet, Accepted
<1>7. (\E message : PublishDay(message)) \/ (\E queues : BrokerLost(queues)) => quiet
  BY DEF PublishDay, BrokerLost, historyVars, vars, channelVars, hkVars, envVars
<1>8. (\E message : PublishHour(message)) => quiet
  BY DEF PublishHour, HourPasses, historyVars, channelVars, hkVars, envVars
<1>9. SysShutdown => quiet
  BY DEF SysShutdown, Shutdown, sysEnvVars, historyVars, channelVars, hkVars, envVars
<1>10. TimeEventStep => quiet
  BY DEF TimeEventStep, sysEnvVars, historyVars, channelVars, hkVars, envVars
<1>11. (\E s \in Stockers : SysStockerStep(s)) => quiet
  BY DEF SysStockerStep, StockerStep, StStepOf, StReceive, StStartWork, StStop, StGetStock, StNextItem,
         StFinish, sysEnvVars, historyVars, channelVars, hkVars, envVars
<1>12. (\E l \in Launderers : SysLaundererStep(l)) => quiet
  BY DEF SysLaundererStep, LaundererStep, LdStepOf, LdReceive, LdStartWork, LdStop, LdClock, LdWash,
         LdRestock, LdRegister, LdHourChange, LdCycleCancelled, sysEnvVars, historyVars, channelVars, hkVars, envVars
<1>13. UNCHANGED sysVars => quiet
  BY DEF sysVars, vars, sysEnvVars, historyVars, channelVars, hkVars, envVars
<1> HIDE DEF quiet
<1>14. HandoverQuiet \/ Handover!HandoverNext
  BY <1>2, <1>3, <1>4, <1>5, <1>6, <1>7, <1>8, <1>9, <1>10, <1>11, <1>12, <1>13 DEF SysNext
<1> QED
  BY <1>14, HandoverStutters

\* What has been handed over stays so, and what is in hand has been.
LEMMA FlightStep ==
    ASSUME FlightDispatched, worked \subseteq CleaningRequests,
           [Handover!HandoverNext]_(Handover!handoverVars)
    PROVE  FlightDispatched' /\ worked' \subseteq CleaningRequests /\ dispatched \subseteq dispatched'
<1>1. ASSUME NEW request \in CleaningRequests,
             Handover!Accept(request) \/ Handover!HandOver(request) \/ Handover!Complete(request)
      PROVE  FlightDispatched' /\ worked' \subseteq CleaningRequests /\ dispatched \subseteq dispatched'
  BY <1>1 DEF FlightDispatched, Handover!Accept, Handover!HandOver, Handover!Complete
<1>2. CASE Handover!Restart \/ UNCHANGED Handover!handoverVars
  BY <1>2 DEF FlightDispatched, Handover!Restart, Handover!handoverVars
<1> QED
  BY <1>1, <1>2 DEF Handover!HandoverNext

\* A cottage gets the status of the request of the housekeeper that is in it.
LEMMA StatusStep ==
    ASSUME IInv, HkTable, FlightDispatched, StatusWasRequested, dispatched \subseteq dispatched',
           [Next]_vars
    PROVE  StatusWasRequested'
<1>1. HkTypeOK /\ HkLocals /\ CottageTypeOK
  BY DEF IInv, TypeOK
<1>2. CASE UNCHANGED cleaningStatus
  BY <1>2 DEF StatusWasRequested, StatusFor
<1>3. ASSUME NEW h \in Housekeepers, HkUpdateStatus(h)
      PROVE  StatusWasRequested'
  <2> DEFINE request == HkRequest(h)
             status == HkCurrentStep(h).arg
  <2>1. /\ hkPhase[h] = "work" /\ hkStep[h] <= Len(HkSteps(h)) /\ HkCurrentStep(h).kind = "status"
        /\ UNCHANGED cleaningStatus \/ cleaningStatus' = [cleaningStatus EXCEPT ![request.RoomName] = status]
    BY <1>3 DEF HkUpdateStatus, HkAt, UpdateCleaningStatus
  <2>2. hkStep[h] \in 1..Len(HkSteps(h))
    BY <1>1, <2>1, HkStepCount DEF HkTypeOK, HkLocals
  <2>3. status \in StatusFor(request.RequestType)
    BY <2>1, <2>2 DEF StatusFor, HkCurrentStep, HkSteps
  <2>4. request \in dispatched
    BY <2>1, InFlightParts DEF HkTable, Busy, Entered, FlightDispatched
  <2>5. CASE UNCHANGED cleaningStatus
    BY <1>2, <2>5
  <2>6. CASE cleaningStatus' = [cleaningStatus EXCEPT ![request.RoomName] = status]
    <3> SUFFICES ASSUME NEW room \in Cottages, cleaningStatus'[room] # "initial"
                 PROVE  \E r \in dispatched' :
                           r.RoomName = room /\ cleaningStatus'[room] \in StatusFor(r.RequestType)
      BY DEF StatusWasRequested, StatusFor
    <3> HIDE DEF request, status
    <3>1. CASE room = request.RoomName
      BY <1>1, <2>3, <2>4, <2>6, <3>1 DEF CottageTypeOK
    <3>2. CASE room # request.RoomName
      <4>1. cleaningStatus'[room] = cleaningStatus[room]
        BY <1>1, <2>6, <3>2 DEF CottageTypeOK
      <4> QED
        BY <4>1 DEF StatusWasRequested
    <3> QED
      BY <3>1, <3>2
  <2> QED
    BY <2>1, <2>5, <2>6
<1>4. ASSUME NEW h \in Housekeepers, HousekeeperStep(h), ~HkUpdateStatus(h)
      PROVE  UNCHANGED cleaningStatus
  BY <1>4 DEF HousekeeperStep, HkStepOf, HkReceive, HkStartWork, HkStop, HkClock, HkConsume,
              HkRestock, HkRetry, HkLaundry, HkFinish
<1>5. EnvironmentStep \/ Crash \/ UNCHANGED vars => UNCHANGED cleaningStatus
  BY DEF EnvironmentStep, CleaningArrives, RestockArrives, HourPasses, HourOffered, Shutdown, Crash, vars
<1>6. (\E s \in Stockers : StockerStep(s)) \/ (\E l \in Launderers : LaundererStep(l))
         => UNCHANGED cleaningStatus
  BY DEF StockerStep, LaundererStep
<1> QED
  BY <1>2, <1>3, <1>4, <1>5, <1>6 DEF Next, EnvironmentStep

-----------------------------------------------------------------------------
\* The theorems.

\* The invariant and its parts.
LEMMA SysInvParts ==
    SysInv <=> /\ IInv /\ HkTable /\ CleaningSide /\ EventSide /\ CountersOK
               /\ HoursExact /\ DaysExact
               /\ FlightDispatched /\ worked \subseteq CleaningRequests
               /\ StatusWasRequested
BY RegistriesHalves
   DEF SysInv, FrontTypeOK, MgrTypeOK, CleaningSide, EventSide, CountersOK

\* The invariant holds initially.
LEMMA InitSysInv ==
    ASSUME SysInit
    PROVE  SysInv
<1>1. Init /\ ProcessInit
  BY DEF SysInit, Init
<1>2. IInv /\ HkTable /\ FlightNone
  BY <1>1, InitIInv, InitHkTable, FlightStart
<1>3. \A S : <<>> \in Seq(S)
  BY EmptySeq
<1>4. CleaningSide
  <2>1. /\ mgrPhase = "starting" /\ mgrDelivery = NoRequest
        /\ cleaningReady = Backlog /\ cleaningUnacked = <<>>
        /\ published = Range(Backlog) /\ dispatched = {}
    BY DEF SysInit, MgrInit, CleaningQueue!QueueInit
  <2>2. cleaningOpen \in BOOLEAN
    BY DEF SysInit, CleaningQueue!QueueInit
  <2>3. DeliveryHeld /\ NoRequestLostUndispatched
    BY <2>1 DEF DeliveryHeld, Holding, NoRequestLostUndispatched
  <2>4. Backlog \in Seq(Bodies) /\ Range(Backlog) \subseteq Bodies
    BY BacklogAssumption, RangeOfSeq
  <2> QED
    BY <1>3, <2>1, <2>2, <2>3, <2>4 DEF CleaningSide
<1>5. EventSide
  <2>1. /\ tensPhase = "starting" /\ tensPending = {} /\ tensAge = 0
        /\ hourReady = <<>> /\ hourUnacked = <<>> /\ dayReady = <<>> /\ dayUnacked = <<>>
    BY DEF SysInit, TensInit, HourQueue!QueueInit, DayQueue!QueueInit
  <2>2. hourOpen \in BOOLEAN /\ dayOpen \in BOOLEAN
    BY DEF SysInit, HourQueue!QueueInit, DayQueue!QueueInit
  <2>3. 0 \in 0..MaxLag
    BY ChansAssumption
  <2>4. TensTypeOK /\ EventHeld
    BY <1>3, <2>1, <2>2, <2>3 DEF TensTypeOK, EventHeld
  <2>5. Days!RegistryTypeOK
    BY DEF SysInit, MgrInit, Days!RegistryInit, Days!RegistryTypeOK
  <2> QED
    BY <2>4, <2>5 DEF EventSide
<1>6. CountersOK
  BY SystemBoundsAssumption DEF SysInit, CountersOK
<1>7. HoursExact /\ DaysExact
  <2>1. /\ hourChangeChannels = {} /\ ldPhase = [l \in Launderers |-> "select"]
        /\ dayChangeChannels = {} /\ mgrPhase = "starting"
    BY <1>1 DEF ProcessInit, Hours!RegistryInit, LdInit, LdPool!WorkInit, SysInit, MgrInit, Days!RegistryInit
  <2>2. Cycling = {}
    BY <2>1 DEF Cycling
  <2> QED
    BY <2>1, <2>2 DEF HoursExact, DaysExact
<1>8. FlightDispatched /\ worked \subseteq CleaningRequests
  BY <1>2 DEF FlightDispatched, FlightNone, SysInit
<1>9. StatusWasRequested
  BY <1>1 DEF Init, CottageInit, StatusWasRequested
<1> QED
  BY <1>2, <1>4, <1>5, <1>6, <1>7, <1>8, <1>9, SysInvParts

\* Every step preserves the invariant.
LEMMA NextSysInv ==
    ASSUME SysInv, [SysNext]_sysVars
    PROVE  SysInv'
<1>1. /\ IInv /\ HkTable /\ CleaningSide /\ EventSide /\ CountersOK /\ HoursExact /\ DaysExact
      /\ FlightDispatched /\ worked \subseteq CleaningRequests /\ StatusWasRequested
  BY SysInvParts
<1>2. HkTypeOK /\ HkLocals /\ LdTypeOK /\ Hours!RegistryTypeOK
  BY <1>1 DEF IInv, TypeOK
<1>3. [Next]_vars
  BY StepRefines
<1>4. IInv' /\ HkTable'
  BY <1>1, <1>2, <1>3, NextIInv, NextHkTable
<1>5. CleaningSide' /\ EventSide' /\ CountersOK' /\ DaysExact'
  BY <1>1, <1>2, CleaningStep, EventStep, CountersStep, DaysStep
<1>6. HoursExact'
  BY <1>1, <1>2, <1>3, HoursStep
<1>7. [Handover!HandoverNext]_(Handover!handoverVars)
  BY <1>1, <1>4, HandoverRefines
<1>8. FlightDispatched' /\ worked' \subseteq CleaningRequests /\ dispatched \subseteq dispatched'
  BY <1>1, <1>7, FlightStep
<1>9. StatusWasRequested'
  BY <1>1, <1>3, <1>8, StatusStep
<1>10. RegistriesExact'
  BY <1>5, <1>6, RegistriesHalves, PTL
<1> QED
  BY <1>4, <1>5, <1>8, <1>9, <1>10
     DEF SysInv, FrontTypeOK, MgrTypeOK, CleaningSide, EventSide, CountersOK

\* SysInv holds in every reachable state.
THEOREM SysInvariance == SysSpec => []SysInv
BY InitSysInv, NextSysInv, PTL DEF SysSpec

\* The process implements StaffStock: the manager's sends are its arrivals, and
\* the offers of notify its hour offers.
THEOREM SysImplementsStaffStock == SysSpec => ImplementsStaffStock
<1>1. SysInit => Init
  BY DEF SysInit
<1>2. SysInv /\ [SysNext]_sysVars => [Next]_vars
  BY StepRefines
<1> QED
  BY <1>1, <1>2, SysInvariance, PTL DEF SysSpec, ImplementsStaffStock, Spec

\* So the stock of the whole process is never negative and stays within its
\* limits, whatever the broker, the clock and the manager do.
THEOREM SysStock == SysSpec => [](StockNeverNegative /\ StockBounded)
BY SysImplementsStaffStock, NeverNegative, Bounded, PTL DEF ImplementsStaffStock

\* In the whole process too, a housekeeper's retry finds what it needs, and every
\* request that arrived is in its channel, just received, or in the metrics report.
THEOREM SysWork == SysSpec => [](RetryFindsStock /\ MetricsExact)
BY SysImplementsStaffStock, RetryFinds, MetricsAreExact, PTL DEF ImplementsStaffStock

\* Every variable keeps its type; in particular nothing older than MaxLag is
\* ever in a queue, and no delivery is settled that was not made.
THEOREM SysTypeCorrect == SysSpec => []SysTypeOK
<1>1. SysInv => SysTypeOK
  BY DEF SysInv, FrontTypeOK, SysTypeOK, IInv
<1> QED
  BY <1>1, SysInvariance, PTL

\* A valid message is with the broker until its request is in the channel, across
\* crashes, lost channels and shutdown.
THEOREM NothingLostUndispatched == SysSpec => []NoRequestLostUndispatched
<1>1. SysInv => NoRequestLostUndispatched
  BY DEF SysInv
<1> QED
  BY <1>1, SysInvariance, PTL

\* The registries hold exactly the channels somebody reads.
THEOREM RegistriesAreExact == SysSpec => []RegistriesExact
<1>1. SysInv => RegistriesExact
  BY DEF SysInv
<1> QED
  BY <1>1, SysInvariance, PTL

\* A cottage never shows a status that was not requested for it.
THEOREM StatusesWereRequested == SysSpec => []StatusWasRequested
<1>1. SysInv => StatusWasRequested
  BY DEF SysInv
<1> QED
  BY <1>1, SysInvariance, PTL

\* The process hands requests over as RequestHandover promises.
THEOREM SysImplementsHandover == SysSpec => ImplementsHandover
<1>1. SysInit => Handover!HandoverInit
  <2> SUFFICES ASSUME SysInit PROVE Handover!HandoverInit
    OBVIOUS
  <2>1. FlightNone
    BY FlightStart DEF SysInit, Init
  <2>2. published \subseteq Bodies
    BY BacklogAssumption, RangeOfSeq DEF SysInit
  <2>3. Accepted \subseteq CleaningRequests
    BY <2>2, AcceptedType
  <2> QED
    BY <2>1, <2>3 DEF SysInit, Init, FlightNone, Accepted, Handover!HandoverInit
<1>2. SysInv /\ SysInv' /\ [SysNext]_sysVars => [Handover!HandoverNext]_(Handover!handoverVars)
  BY HandoverRefines, SysInvParts DEF SysInv
<1> QED
  BY <1>1, <1>2, SysInvariance, PTL DEF SysSpec, ImplementsHandover, Handover!HandoverSpec

\* The theorems about RequestHandover, for its implementation here.
LossProofs == INSTANCE RequestHandoverProofs WITH
    Requests <- CleaningRequests,
    MaxInHand <- CleaningCap + Cardinality(Housekeepers),
    accepted <- {RequestOf(body) : body \in {b \in published : Unmarshals(b)}},
    handedOver <- dispatched,
    inHand <- InFlight,
    done <- worked,
    restarts <- crashes

\* Only crashes lose dispatched requests, and each at most as many as the channel
\* holds and the housekeepers have in hand.
THEOREM RequestsAreAccountedFor == SysSpec => []RequestsAccountedFor
<1>1. CleaningCap + Cardinality(Housekeepers) \in Nat
  BY CapAssumption, EmployeesFinite
<1>2. Handover!HandoverInit => LossProofs!HandoverInit
  BY DEF Handover!HandoverInit, LossProofs!HandoverInit
<1>3. [Handover!HandoverNext]_(Handover!handoverVars) => [LossProofs!HandoverNext]_(LossProofs!handoverVars)
  BY DEF Handover!HandoverNext, LossProofs!HandoverNext, Handover!handoverVars, LossProofs!handoverVars,
         Handover!Accept, LossProofs!Accept, Handover!HandOver, LossProofs!HandOver,
         Handover!Complete, LossProofs!Complete, Handover!Restart, LossProofs!Restart,
         Handover!Cardinality, LossProofs!Cardinality
<1>4. LossProofs!HandoverSpec => []LossProofs!LossBounded
  BY <1>1, LossProofs!LossesBounded
<1>5. LossProofs!LossBounded => RequestsAccountedFor
  BY DEF LossProofs!LossBounded, LossProofs!Lost, RequestsAccountedFor, LossProofs!Cardinality, Cardinality
<1> QED
  BY <1>2, <1>3, <1>4, <1>5, SysImplementsHandover, PTL
     DEF ImplementsHandover, Handover!HandoverSpec, LossProofs!HandoverSpec
=============================================================================
