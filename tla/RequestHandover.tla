--------------------------- MODULE RequestHandover ---------------------------
(***************************************************************************)
(* What the process promises the publishers of cleaning requests: a        *)
(* request that the broker has accepted is handed over to the staff at     *)
(* least once, and is in hand from then on until its work is over.  Only   *)
(* the end of the process takes requests out of hand, and no more than the *)
(* staff can hold.  StaffSystem implements this.                           *)
(***************************************************************************)
EXTENDS Naturals, FiniteSets

CONSTANTS
    Requests,
    MaxInHand      \* requests in hand at a time

VARIABLES
    accepted,      \* requests the broker has taken
    handedOver,    \* requests that have been in hand
    inHand,
    done,          \* requests whose work is over
    restarts       \* times the process has ended

handoverVars == <<accepted, handedOver, inHand, done, restarts>>

\* The broker may have taken requests before the process first starts.
HandoverInit ==
    /\ accepted \subseteq Requests
    /\ handedOver = {}
    /\ inHand = {}
    /\ done = {}
    /\ restarts = 0

Accept(request) ==
    /\ accepted' = accepted \cup {request}
    /\ UNCHANGED <<handedOver, inHand, done, restarts>>

\* Also of a request that was handed over before: the broker may redeliver it.
HandOver(request) ==
    /\ request \in accepted
    /\ inHand' = inHand \cup {request}
    /\ Cardinality(inHand') <= MaxInHand
    /\ handedOver' = handedOver \cup {request}
    /\ UNCHANGED <<accepted, done, restarts>>

\* A request that was redelivered may be in hand a second time.
Complete(request) ==
    /\ request \in inHand
    /\ inHand' \in {inHand, inHand \ {request}}
    /\ done' = done \cup {request}
    /\ UNCHANGED <<accepted, handedOver, restarts>>

Restart ==
    /\ inHand' = {}
    /\ restarts' = restarts + 1
    /\ UNCHANGED <<accepted, handedOver, done>>

HandoverNext ==
    \/ \E request \in Requests : Accept(request) \/ HandOver(request) \/ Complete(request)
    \/ Restart

HandoverSpec == HandoverInit /\ [][HandoverNext]_handoverVars
=============================================================================
