-------------------------- MODULE RabbitMqConnection --------------------------
(***************************************************************************)
(* The connection the consumers share                                      *)
(* (internal/infra/mq/rabbitmq_connection.go).  Connections are numbered   *)
(* in the order they were dialled; the broker or the network may end one   *)
(* at any time.  A call that dials is made again, as long as it answers    *)
(* "dialling", until it answers "connected" or "failed".                   *)
(***************************************************************************)
EXTENDS Naturals

CONSTANT DialAttempts     \* rabbitDialAttempts (5 in the code)

ASSUME DialAttemptsAssumption == DialAttempts \in Nat \ {0}

VARIABLES
    conn,       \* c.conn: the latest connection, 0 for nil
    live,       \* the connections that are open
    closed,     \* c.closed
    attempt,    \* dials that have failed in the current reconnectLocked
    refused     \* history: the broker has refused a dial, a channel or a call,
                \* or has closed a single channel

connVars == <<conn, live, closed, attempt>>

ConnInit ==
    /\ conn = 0
    /\ live = {}
    /\ closed = FALSE
    /\ attempt = 0
    /\ refused = FALSE

IsConnectionOpen == conn \in live

\* Mutant: the attempts are counted past the last one.
reconnectUnbounded(result) ==
    /\ result = "dialling"
    /\ attempt' = attempt + 1
    /\ refused' = TRUE
    /\ UNCHANGED <<conn, live, closed>>

\* Mutant: the loop starts again after the last attempt.
reconnectForever(result) ==
    \/ /\ result = "connected"
       /\ conn' = conn + 1
       /\ live' = live \cup {conn + 1}
       /\ attempt' = 0
       /\ UNCHANGED <<closed, refused>>
    \/ /\ result = "dialling"
       /\ attempt' = (attempt + 1) % DialAttempts
       /\ refused' = TRUE
       /\ UNCHANGED <<conn, live, closed>>

\* One dial of the loop; after the last one the error is returned.
reconnectLocked(result) ==
    \/ /\ result = "connected"
       /\ conn' = conn + 1
       /\ live' = live \cup {conn + 1}
       /\ attempt' = 0
       /\ UNCHANGED <<closed, refused>>
    \/ /\ result = IF attempt + 1 < DialAttempts THEN "dialling" ELSE "failed"
       /\ attempt' = (attempt + 1) % DialAttempts
       /\ refused' = TRUE
       /\ UNCHANGED <<conn, live, closed>>

\* Mutant: dial although the connection is open.
openConnectionAnew(result) ==
    IF closed
      THEN result = "failed" /\ UNCHANGED <<connVars, refused>>
      ELSE reconnectLocked(result)

\* The mutex is held from the check to the last dial.
openConnection(result) ==
    IF closed
      THEN result = "failed" /\ UNCHANGED <<connVars, refused>>
      ELSE IF IsConnectionOpen
        THEN result = "connected" /\ UNCHANGED <<connVars, refused>>
        ELSE reconnectLocked(result)

\* Close ends the connection in hand and forbids another one.
Close ==
    /\ closed' = TRUE
    /\ live' = live \ {conn}
    /\ UNCHANGED <<conn, attempt, refused>>

ConnTypeOK ==
    /\ conn \in Nat
    /\ live \subseteq 1..conn
    /\ closed \in BOOLEAN
    /\ attempt \in 0..DialAttempts - 1
    /\ refused \in BOOLEAN
=============================================================================
