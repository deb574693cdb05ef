--------------------------- MODULE RabbitMqConsumer ---------------------------
(***************************************************************************)
(* The three consumers and their channels                                  *)
(* (internal/infra/mq/rabbitmq_channel.go and rabbitmq_consumer.go), and   *)
(* what they leave at the broker: durable queues and their bindings.       *)
(* NewRabbitmqConsumer, DeclareQueue and BindQueue are called one at a     *)
(* time, by NewRabbitmq; opStep is where the call in progress is:          *)
(*   check    before it looks at its channel                               *)
(*   connect  in openConnection       channel  in conn.Channel()           *)
(*   call     at the call the channel was needed for                       *)
(***************************************************************************)
EXTENDS RabbitMqConnection

VARIABLES
    channel,    \* per consumer: the connection its channel is on, 0 for nil
    chanOpen,   \* per consumer: the channel is not closed
    queue,      \* the consumers whose c.queue is set
    bound,      \* at the broker: the consumers whose queue is declared and bound
    opStep,
    retried     \* openChannel is at its second try

chanVars == <<channel, chanOpen, queue, bound>>
opVars == <<opStep, retried>>

Consumers == {"cleaning", "day", "hour"}

ConsumerInit ==
    /\ ConnInit
    /\ channel = [c \in Consumers |-> 0]
    /\ chanOpen = [c \in Consumers |-> FALSE]
    /\ queue = {}
    /\ bound = {}
    /\ opStep = "check"
    /\ retried = FALSE

\* A new consumer opens its channel; declare and bind reopen a closed one.
CheckChannel(op, c, result) ==
    /\ opStep = "check"
    /\ result = "going"
    /\ opStep' = IF op # "new" /\ chanOpen[c] THEN "call" ELSE "connect"
    /\ retried' = FALSE
    /\ UNCHANGED <<connVars, refused, chanVars>>

\* openConnection, at the first or the second try of openChannel.
Connect(result) ==
    /\ opStep = "connect"
    /\ \E answer \in {"connected", "dialling", "failed"} :
          /\ openConnection(answer)
          /\ opStep' = IF answer = "connected" THEN "channel" ELSE "connect"
          /\ result = IF answer = "failed" THEN "failed" ELSE "going"
    /\ UNCHANGED <<retried, chanVars>>

\* Mutant: an error of conn.Channel() is final.
OpenChannelOnce(c, result) ==
    /\ opStep = "channel"
    /\ IF IsConnectionOpen
         THEN /\ result = "going"
              /\ opStep' = "call"
              /\ channel' = [channel EXCEPT ![c] = conn]
              /\ chanOpen' = [chanOpen EXCEPT ![c] = TRUE]
         ELSE result = "failed" /\ UNCHANGED <<channel, chanOpen, opStep>>
    /\ UNCHANGED <<retried, connVars, refused, queue, bound>>

\* conn.Channel(): if it fails because the connection has died, it is tried
\* once more on a new connection.
OpenChannel(c, result) ==
    /\ opStep = "channel"
    /\ \/ /\ IsConnectionOpen
          /\ result = "going"
          /\ opStep' = "call"
          /\ channel' = [channel EXCEPT ![c] = conn]
          /\ chanOpen' = [chanOpen EXCEPT ![c] = TRUE]
          /\ UNCHANGED <<retried, refused>>
       \/ /\ IsConnectionOpen
          /\ result = "failed"
          /\ refused' = TRUE
          /\ UNCHANGED <<channel, chanOpen, opVars>>
       \/ /\ ~IsConnectionOpen
          /\ result = IF retried THEN "failed" ELSE "going"
          /\ opStep' = IF retried THEN "channel" ELSE "connect"
          /\ retried' = TRUE
          /\ UNCHANGED <<channel, chanOpen, refused>>
    /\ UNCHANGED <<connVars, queue, bound>>

\* The broker refuses the call on c's channel, and closes the channel for it.
CallRefused(c) ==
    /\ chanOpen[c]
    /\ chanOpen' = [chanOpen EXCEPT ![c] = FALSE]
    /\ refused' = TRUE
    /\ UNCHANGED <<channel, queue, bound>>

CallFails(c) ==
    \/ CallRefused(c)
    \/ ~chanOpen[c] /\ UNCHANGED <<chanVars, refused>>

DeclareQueue(c, result) ==
    \/ /\ chanOpen[c]
       /\ result = "done"
       /\ queue' = queue \cup {c}
       /\ UNCHANGED <<channel, chanOpen, bound, refused>>
    \/ /\ result = "failed"
       /\ CallFails(c)

\* Mutant: an error of QueueBind is only logged.
BindQueueLogging(c, result) ==
    /\ result = "done"
    /\ \/ /\ chanOpen[c]
          /\ bound' = bound \cup {c}
          /\ UNCHANGED <<channel, chanOpen, queue, refused>>
       \/ CallFails(c)

BindQueue(c, result) ==
    \/ /\ chanOpen[c]
       /\ c \in queue
       /\ result = "done"
       /\ bound' = bound \cup {c}
       /\ UNCHANGED <<channel, chanOpen, queue, refused>>
    \/ /\ result = "failed"
       /\ IF c \in queue THEN CallFails(c) ELSE UNCHANGED <<chanVars, refused>>

\* What the channel was needed for; a new consumer is just returned.
Call(op, c, result) ==
    /\ opStep = "call"
    /\ CASE op = "new"     -> result = "done" /\ UNCHANGED <<chanVars, refused>>
         [] op = "declare" -> DeclareQueue(c, result)
         [] op = "bind"    -> BindQueue(c, result)
    /\ opStep' = IF result = "done" THEN "check" ELSE "call"
    /\ UNCHANGED <<retried, connVars>>

\* One step of the operation op of consumer c.
ConsumerOp(op, c, result) ==
    \/ CheckChannel(op, c, result)
    \/ Connect(result)
    \/ OpenChannel(c, result)
    \/ Call(op, c, result)

\* Consume opens a channel only where there is none, and there always is one by
\* now: on a channel that is closed, or with the context done, it fails.
Consume(c, ctxDone, err) ==
    /\ \/ /\ err = "nil"
          /\ chanOpen[c] /\ ~ctxDone
          /\ UNCHANGED <<chanVars, refused>>
       \/ /\ err = "failed"
          /\ \/ CallFails(c)
             \/ ctxDone /\ UNCHANGED <<chanVars, refused>>
    /\ UNCHANGED <<connVars, opVars>>

\* Mutant: the call waits for the broker to confirm, also on a closed channel.
CloseChannelConfirmed(c) ==
    /\ chanOpen[c]
    /\ chanOpen' = [chanOpen EXCEPT ![c] = FALSE]
    /\ UNCHANGED <<channel, queue, bound>>

\* Nothing to do without a channel or on a closed one.
CloseChannel(c) ==
    /\ chanOpen' = [chanOpen EXCEPT ![c] = FALSE]
    /\ UNCHANGED <<channel, queue, bound>>

\* The connection dies, and with it every channel on it.
ConnectionLost ==
    /\ IsConnectionOpen
    /\ live' = live \ {conn}
    /\ chanOpen' = [c \in Consumers |-> chanOpen[c] /\ channel[c] # conn]
    /\ UNCHANGED <<conn, closed, attempt, refused, channel, queue, bound, opVars>>

\* The broker closes one channel, for instance because a delivery on it has
\* been left unacknowledged for too long.
ChannelLost(c) ==
    /\ CallRefused(c)
    /\ UNCHANGED <<connVars, opVars>>

ConsumerTypeOK ==
    /\ ConnTypeOK
    /\ channel \in [Consumers -> 0..conn]
    /\ chanOpen \in [Consumers -> BOOLEAN]
    /\ queue \subseteq Consumers
    /\ bound \subseteq Consumers
    /\ opStep \in {"check", "connect", "channel", "call"}
    /\ retried \in BOOLEAN
=============================================================================
