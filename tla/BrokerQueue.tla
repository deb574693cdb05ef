----------------------------- MODULE BrokerQueue -----------------------------
(***************************************************************************)
(* One RabbitMQ queue and the consumer this program keeps on it, as the    *)
(* code uses them: deliveries come in queue order, a delivery that is not  *)
(* settled when its channel goes away is put back at the head, and the     *)
(* client library drops deliveries it has not handed over by then.  The    *)
(* consumer's Go channel is closed with the AMQP channel and the program   *)
(* never consumes again (Consume is called once, by Start).                *)
(***************************************************************************)
EXTENDS Naturals, Sequences

VARIABLES
    ready,       \* messages in the queue, oldest first
    unacked,     \* messages delivered and not settled, oldest first
    open         \* the AMQP channel is open

\* A durable queue may hold messages from before the consumer's process starts.
QueueInit(backlog) ==
    /\ ready = backlog
    /\ unacked = <<>>
    /\ open = TRUE

Publish(message) ==
    /\ ready' = Append(ready, message)
    /\ UNCHANGED <<unacked, open>>

\* The consumer takes a delivery and leaves it unsettled.
Deliver ==
    /\ open
    /\ ready # <<>>
    /\ ready' = Tail(ready)
    /\ unacked' = Append(unacked, Head(ready))
    /\ UNCHANGED open

\* The consumer takes a delivery and settles it at once.
DeliverAndSettle ==
    /\ open
    /\ ready # <<>>
    /\ ready' = Tail(ready)
    /\ UNCHANGED <<unacked, open>>

\* Ack or Nack(requeue = false) of the oldest delivery.  On a closed channel
\* the call fails, which the callers only log.
Settle ==
    /\ unacked' = IF open THEN Tail(unacked) ELSE unacked
    /\ UNCHANGED <<ready, open>>

\* The AMQP channel or its connection is lost.
ChannelLost ==
    /\ open
    /\ open' = FALSE
    /\ ready' = unacked \o ready
    /\ unacked' = <<>>

\* A new process consumes the queue; the broker has requeued.
ConsumerRestarted ==
    /\ open' = TRUE
    /\ ready' = unacked \o ready
    /\ unacked' = <<>>
=============================================================================
