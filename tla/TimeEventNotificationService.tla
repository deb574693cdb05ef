-------------------- MODULE TimeEventNotificationService --------------------
(***************************************************************************)
(* The goroutine of internal/app/time_event_notification_service.go that   *)
(* takes hour- and day-change messages from their queues and offers them   *)
(* to the subscribers registered with it (see TimeEventRegistry).          *)
(*   starting  before Consume      select   in the select                  *)
(*   hourAck, dayAck  holding a message it has still to acknowledge        *)
(*   notify    offering an event to the channels it has read from the      *)
(*             registry, without the lock             returned             *)
(***************************************************************************)
EXTENDS LaundererService, ManagerService

VARIABLES
    hourReady, hourUnacked, hourOpen,   \* the hour-change queue
    dayReady, dayUnacked, dayOpen,      \* the day-change queue
    tensPhase,      \* the goroutine's program counter
    tensPending,    \* the channels notify has still to offer the event to
    tensAge         \* the age of the hour event in hand, 0 without one

tensVars == <<tensPhase, tensPending, tensAge>>
hourQueueVars == <<hourReady, hourUnacked, hourOpen>>
dayQueueVars == <<dayReady, dayUnacked, dayOpen>>

HourQueue == INSTANCE BrokerQueue WITH
    ready <- hourReady, unacked <- hourUnacked, open <- hourOpen
DayQueue == INSTANCE BrokerQueue WITH
    ready <- dayReady, unacked <- dayUnacked, open <- dayOpen

\* A message that unmarshalTimeEvent rejects; the others are represented by
\* the age of the time they carry.
BadEvent == -1

TensInit ==
    /\ tensPhase = "starting"
    /\ tensPending = {}
    /\ tensAge = 0

TensRestart ==
    /\ tensPhase' = "starting"
    /\ tensPending' = {}
    /\ tensAge' = 0

\* The two Consume calls; Start returns if one fails.
TensStart ==
    /\ tensPhase = "starting"
    /\ tensPhase' = IF hourOpen /\ dayOpen THEN "select" ELSE "returned"
    /\ UNCHANGED <<tensPending, tensAge, hourVars, dayVars, hourQueueVars, dayQueueVars>>

\* ctx.Done, or one of the two delivery channels is closed.
TensReturn ==
    /\ tensPhase = "select"
    /\ ctxDone \/ ~hourOpen \/ ~dayOpen
    /\ tensPhase' = "returned"
    /\ UNCHANGED <<tensPending, tensAge, hourVars, dayVars, hourQueueVars, dayQueueVars>>

\* Read the registry: notify goes through the channels it finds there.
StartNotify(age, subscribers) ==
    /\ tensPhase' = IF subscribers = {} THEN "select" ELSE "notify"
    /\ tensPending' = subscribers
    /\ tensAge' = IF subscribers = {} THEN 0 ELSE age

\* A message that does not unmarshal is nacked without requeue.
TensHourEvent ==
    /\ tensPhase = "select"
    /\ hourReady # <<>>
    /\ IF Head(hourReady) = BadEvent
         THEN HourQueue!DeliverAndSettle /\ UNCHANGED <<tensPhase, tensAge>>
         ELSE /\ HourQueue!Deliver
              /\ tensPhase' = "hourAck"
              /\ tensAge' = Head(hourReady)
    /\ UNCHANGED <<tensPending, hourVars, dayVars, dayQueueVars>>

\* The acknowledgement comes before notifyHourChange.
TensHourAck ==
    /\ tensPhase = "hourAck"
    /\ HourQueue!Settle
    /\ StartNotify(tensAge, hourChangeChannels)
    /\ UNCHANGED <<hourVars, dayVars, dayQueueVars>>

TensDayEvent ==
    /\ tensPhase = "select"
    /\ dayReady # <<>>
    /\ IF Head(dayReady) = BadEvent
         THEN DayQueue!DeliverAndSettle /\ UNCHANGED tensPhase
         ELSE DayQueue!Deliver /\ tensPhase' = "dayAck"
    /\ UNCHANGED <<tensPending, tensAge, hourVars, dayVars, hourQueueVars>>

TensDayAck ==
    /\ tensPhase = "dayAck"
    /\ DayQueue!Settle
    /\ StartNotify(0, dayChangeChannels)
    /\ UNCHANGED <<hourVars, dayVars, hourQueueVars>>

\* Mutant: the event replaces one the subscriber has not read.
TensOfferOverwriting(c) ==
    /\ tensPhase = "notify"
    /\ c \in tensPending
    /\ IF c = DayChan
         THEN dayBuffer' = [dayBuffer EXCEPT ![c] = <<0>>] /\ UNCHANGED hourBuffer
         ELSE hourBuffer' = [hourBuffer EXCEPT ![c] = <<tensAge>>] /\ UNCHANGED dayBuffer
    /\ StartNotify(tensAge, tensPending \ {c})
    /\ UNCHANGED <<hourChangeChannels, dayChangeChannels, hourQueueVars, dayQueueVars>>

\* notify: one non-blocking send, in any order.
TensOffer(c) ==
    /\ tensPhase = "notify"
    /\ c \in tensPending
    /\ IF c = DayChan
         THEN Days!Offer(c, 0) /\ UNCHANGED hourBuffer
         ELSE Hours!Offer(c, tensAge) /\ UNCHANGED dayBuffer
    /\ StartNotify(tensAge, tensPending \ {c})
    /\ UNCHANGED <<hourChangeChannels, dayChangeChannels, hourQueueVars, dayQueueVars>>

TensStep ==
    \/ TensStart \/ TensReturn \/ TensHourEvent \/ TensHourAck \/ TensDayEvent \/ TensDayAck
    \/ \E c \in tensPending : TensOffer(c)

\* An hour event is in the goroutine's hands.
HourInHand == tensPhase \in {"hourAck", "notify"} /\ DayChan \notin tensPending

\* Hour events that wait in the queue or in the goroutine grow older too, and
\* none grows older than MaxLag.
TensMayAge ==
    /\ \A n \in 1..Len(hourReady) : hourReady[n] < MaxLag
    /\ \A n \in 1..Len(hourUnacked) : hourUnacked[n] < MaxLag
    /\ HourInHand => tensAge < MaxLag

OlderMessages(queue) ==
    [n \in 1..Len(queue) |-> IF queue[n] = BadEvent THEN BadEvent ELSE queue[n] + 1]

\* An hour passes and its message is published.
AgeTens(message) ==
    /\ hourReady' = Append(OlderMessages(hourReady), message)
    /\ hourUnacked' = OlderMessages(hourUnacked)
    /\ tensAge' = IF HourInHand THEN tensAge + 1 ELSE tensAge
    /\ UNCHANGED <<hourOpen, tensPhase, tensPending>>

TensTypeOK ==
    /\ tensPhase \in {"starting", "select", "hourAck", "dayAck", "notify", "returned"}
    /\ tensPending \subseteq Chans \cup {DayChan}
    /\ tensAge \in 0..MaxLag
    /\ hourReady \in Seq({BadEvent} \cup 0..MaxLag)
    /\ hourUnacked \in Seq(0..MaxLag) /\ hourOpen \in BOOLEAN
    /\ dayReady \in Seq({BadEvent, 0}) /\ dayUnacked \in Seq({0}) /\ dayOpen \in BOOLEAN
=============================================================================
