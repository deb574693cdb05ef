---------------------------- MODULE ManagerService ----------------------------
(***************************************************************************)
(* The manager (internal/app/manager_service.go), one goroutine:           *)
(*   starting  before Consume and Register    select    in the select      *)
(*   dispatch  blocked on the cleaning channel, holding a delivery         *)
(*   ack       the request is sent, the delivery not acknowledged yet      *)
(*   restock   blocked on the stocker channel  returned  Start has returned*)
(***************************************************************************)
EXTENDS StaffChannels

CONSTANTS
    Bodies         \* the bodies of the messages that may be published

\* A body that does not decode, or the protobuf fields of one that does.
BlankRoom == ""
ASSUME BodiesAssumption ==
    Bodies \subseteq [decodes: BOOLEAN, RoomName: Rooms \cup {BlankRoom},
                      RequestType: RequestTypes \cup {"UNSPECIFIED"}]
ASSUME BlankAssumption == BlankRoom \notin Rooms /\ "UNSPECIFIED" \notin RequestTypes

VARIABLES
    cleaningReady, cleaningUnacked, cleaningOpen,   \* the cleaning queue
    dayChangeChannels,   \* the registered day-change channels
    dayBuffer,           \* dayChangeCh of Start
    mgrPhase,            \* the goroutine's program counter
    mgrDelivery          \* the delivery in hand, NoRequest outside dispatch and ack

mgrVars == <<mgrPhase, mgrDelivery>>
cleaningQueueVars == <<cleaningReady, cleaningUnacked, cleaningOpen>>
dayVars == <<dayChangeChannels, dayBuffer>>

CleaningQueue == INSTANCE BrokerQueue WITH
    ready <- cleaningReady, unacked <- cleaningUnacked, open <- cleaningOpen

\* The manager's channel is the only day-change channel.
DayChan == "dayChangeCh"

Days == INSTANCE TimeEventRegistry WITH
    Chans <- {DayChan}, MaxLag <- 0, channels <- dayChangeChannels, buffer <- dayBuffer

\* UnmarshalCleaningRequest: an error for bytes that do not decode, a blank
\* room name and UNSPECIFIED; every other enum value passes.
Unmarshals(body) ==
    /\ body.decodes
    /\ body.RoomName # BlankRoom
    /\ body.RequestType # "UNSPECIFIED"

RequestOf(body) == [RoomName |-> body.RoomName, RequestType |-> body.RequestType]

MgrInit ==
    /\ mgrPhase = "starting"
    /\ mgrDelivery = NoRequest
    /\ Days!RegistryInit

MgrRestart ==
    /\ mgrPhase' = "starting"
    /\ mgrDelivery' = NoRequest
    /\ Days!RegistryRestart

MgrGoto(phase) == mgrPhase' = phase /\ UNCHANGED mgrDelivery

\* Consume, then Register; a failing Consume ends Start.
MgrStart ==
    /\ mgrPhase = "starting"
    /\ IF cleaningOpen
         THEN MgrGoto("select") /\ Days!Register(DayChan)
         ELSE MgrGoto("returned") /\ UNCHANGED dayChangeChannels
    /\ UNCHANGED <<dayBuffer, channelVars, cleaningQueueVars>>

\* Mutant: Start returns without Unregister.
MgrReturnLeaking ==
    /\ mgrPhase = "select"
    /\ ctxDone \/ ~cleaningOpen
    /\ MgrGoto("returned")
    /\ UNCHANGED <<dayVars, channelVars, cleaningQueueVars>>

\* ctx.Done, or the delivery channel is closed: return and Unregister.
MgrReturn ==
    /\ mgrPhase = "select"
    /\ ctxDone \/ ~cleaningOpen
    /\ MgrGoto("returned")
    /\ Days!Unregister(DayChan)
    /\ UNCHANGED <<dayBuffer, channelVars, cleaningQueueVars>>

\* A delivery that does not unmarshal is nacked without requeue.
MgrReject ==
    /\ mgrPhase = "select"
    /\ cleaningReady # <<>> /\ ~Unmarshals(Head(cleaningReady))
    /\ CleaningQueue!DeliverAndSettle
    /\ UNCHANGED <<mgrVars, dayVars, channelVars>>

\* Mutant: the delivery is acknowledged before it is dispatched.
MgrReceiveAcking ==
    /\ mgrPhase = "select"
    /\ cleaningReady # <<>> /\ Unmarshals(Head(cleaningReady))
    /\ CleaningQueue!DeliverAndSettle
    /\ mgrPhase' = "dispatch"
    /\ mgrDelivery' = RequestOf(Head(cleaningReady))
    /\ UNCHANGED <<dayVars, channelVars>>

\* A delivery that unmarshals is in hand, unsettled.
MgrReceive ==
    /\ mgrPhase = "select"
    /\ cleaningReady # <<>> /\ Unmarshals(Head(cleaningReady))
    /\ CleaningQueue!Deliver
    /\ mgrPhase' = "dispatch"
    /\ mgrDelivery' = RequestOf(Head(cleaningReady))
    /\ UNCHANGED <<dayVars, channelVars>>

\* s.cleaningCh <- cleaningRequest: blocks, and does not watch the context.
MgrDispatch ==
    /\ mgrPhase = "dispatch"
    /\ SendCleaning(mgrDelivery)
    /\ MgrGoto("ack")
    /\ UNCHANGED <<dayVars, cleaningQueueVars, laundererCh, stockerCh>>

MgrAck ==
    /\ mgrPhase = "ack"
    /\ CleaningQueue!Settle
    /\ mgrPhase' = "select"
    /\ mgrDelivery' = NoRequest
    /\ UNCHANGED <<dayVars, channelVars>>

\* Mutant: a day change is dropped while the stocker channel is full.
MgrDayChangeDropping ==
    /\ mgrPhase = "select"
    /\ dayBuffer[DayChan] # <<>>
    /\ dayBuffer' = [dayBuffer EXCEPT ![DayChan] = <<>>]
    /\ MgrGoto(IF Len(stockerCh) < StockerCap THEN "restock" ELSE "select")
    /\ UNCHANGED <<dayChangeChannels, channelVars, cleaningQueueVars>>

\* A day-change event: the items are drawn, then sent.
MgrDayChange ==
    /\ mgrPhase = "select"
    /\ dayBuffer[DayChan] # <<>>
    /\ dayBuffer' = [dayBuffer EXCEPT ![DayChan] = <<>>]
    /\ MgrGoto("restock")
    /\ UNCHANGED <<dayChangeChannels, channelVars, cleaningQueueVars>>

MgrRestock ==
    /\ mgrPhase = "restock"
    /\ \E items \in RestockRequests : SendRestock(items)
    /\ MgrGoto("select")
    /\ UNCHANGED <<dayVars, cleaningQueueVars, cleaningCh, laundererCh>>

MgrStep ==
    \/ MgrStart \/ MgrReturn \/ MgrReject \/ MgrReceive \/ MgrDispatch \/ MgrAck
    \/ MgrDayChange \/ MgrRestock

MgrTypeOK ==
    /\ mgrPhase \in {"starting", "select", "dispatch", "ack", "restock", "returned"}
    /\ mgrDelivery \in CleaningRequests \cup {NoRequest}
    /\ Days!RegistryTypeOK
    /\ cleaningReady \in Seq(Bodies) /\ cleaningUnacked \in Seq(Bodies)
    /\ cleaningOpen \in BOOLEAN
=============================================================================
