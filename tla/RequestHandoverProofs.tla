------------------------ MODULE RequestHandoverProofs ------------------------
(***************************************************************************)
(* What RequestHandover promises about losses, for every set of requests   *)
(* and every number of requests in hand at a time.                         *)
(***************************************************************************)
EXTENDS RequestHandover, FiniteSetTheorems, TLAPS

\* Requests handed over that are neither in hand nor done.
Lost == handedOver \ (done \cup inHand)

\* Each end of the process loses at most what was in hand.
LossBounded == Cardinality(Lost) <= restarts * MaxInHand

\* The inductive invariant.
LossInv ==
    /\ restarts \in Nat
    /\ IsFiniteSet(inHand) /\ Cardinality(inHand) <= MaxInHand
    /\ IsFiniteSet(Lost) /\ LossBounded

\* Losses only shrink.
LEMMA LossShrinks ==
    ASSUME MaxInHand \in Nat, LossInv, Lost' \subseteq Lost, restarts' = restarts
    PROVE  IsFiniteSet(Lost)' /\ LossBounded'
<1>1. IsFiniteSet(Lost') /\ Cardinality(Lost') <= Cardinality(Lost)
  BY FS_Subset DEF LossInv
<1>2. Cardinality(Lost') \in Nat /\ Cardinality(Lost) \in Nat
  BY <1>1, FS_CardinalityType DEF LossInv
<1>3. Cardinality(Lost) <= restarts * MaxInHand
  BY DEF LossInv, LossBounded
<1>4. \A n, m, r \in Nat : n <= m /\ m <= r * MaxInHand => n <= r * MaxInHand
  OBVIOUS
<1>5. Cardinality(Lost') <= restarts * MaxInHand
  BY <1>1, <1>2, <1>3, <1>4 DEF LossInv
<1> QED
  BY <1>1, <1>5 DEF LossBounded

\* Every step keeps the invariant.
LEMMA LossStep ==
    ASSUME MaxInHand \in Nat, LossInv, [HandoverNext]_handoverVars
    PROVE  LossInv'
<1>1. restarts \in Nat /\ IsFiniteSet(inHand) /\ Cardinality(inHand) <= MaxInHand /\ IsFiniteSet(Lost)
  BY DEF LossInv
<1>2. CASE \E request \in Requests : Accept(request)
  <2>1. UNCHANGED <<handedOver, inHand, done, restarts>>
    BY <1>2 DEF Accept
  <2> QED
    BY <2>1 DEF LossInv, LossBounded, Lost
<1>3. ASSUME NEW request \in Requests, HandOver(request)
      PROVE  LossInv'
  <2>1. /\ inHand' = inHand \cup {request} /\ Cardinality(inHand') <= MaxInHand
        /\ handedOver' = handedOver \cup {request} /\ done' = done /\ restarts' = restarts
    BY <1>3 DEF HandOver
  <2>2. Lost' \subseteq Lost
    BY <2>1 DEF Lost
  <2>3. IsFiniteSet(inHand')
    BY <1>1, <2>1, FS_AddElement
  <2> QED
    BY <1>1, <2>1, <2>2, <2>3, LossShrinks DEF LossInv
<1>4. ASSUME NEW request \in Requests, Complete(request)
      PROVE  LossInv'
  <2>1. /\ request \in inHand /\ inHand' \in {inHand, inHand \ {request}}
        /\ done' = done \cup {request} /\ handedOver' = handedOver /\ restarts' = restarts
    BY <1>4 DEF Complete
  <2>2. Lost' \subseteq Lost
    BY <2>1 DEF Lost
  <2>3. IsFiniteSet(inHand') /\ Cardinality(inHand') <= Cardinality(inHand)
    BY <1>1, <2>1, FS_Subset
  <2>4. Cardinality(inHand') \in Nat /\ Cardinality(inHand) \in Nat
    BY <1>1, <2>3, FS_CardinalityType
  <2>5. \A n, m \in Nat : n <= m /\ m <= MaxInHand => n <= MaxInHand
    OBVIOUS
  <2>6. Cardinality(inHand') <= MaxInHand
    BY <1>1, <2>3, <2>4, <2>5
  <2> QED
    BY <1>1, <2>1, <2>2, <2>3, <2>6, LossShrinks DEF LossInv
<1>5. CASE Restart
  <2>1. inHand' = {} /\ restarts' = restarts + 1 /\ handedOver' = handedOver /\ done' = done
    BY <1>5 DEF Restart
  <2>2. IsFiniteSet(inHand') /\ Cardinality(inHand') = 0
    BY <2>1, FS_EmptySet
  <2>3. Lost' \subseteq Lost \cup inHand
    BY <2>1 DEF Lost
  <2>4. /\ IsFiniteSet(Lost \cup inHand)
        /\ Cardinality(Lost \cup inHand) = Cardinality(Lost) + Cardinality(inHand) - Cardinality(Lost \cap inHand)
    BY <1>1, FS_Union
  <2>5. IsFiniteSet(Lost') /\ Cardinality(Lost') <= Cardinality(Lost \cup inHand)
    BY <2>3, <2>4, FS_Subset
  <2>6. IsFiniteSet(Lost \cap inHand)
    BY <1>1, FS_Subset
  <2>7. /\ Cardinality(Lost') \in Nat /\ Cardinality(Lost) \in Nat /\ Cardinality(inHand) \in Nat
        /\ Cardinality(Lost \cap inHand) \in Nat
    BY <1>1, <2>5, <2>6, FS_CardinalityType
  <2>8. Cardinality(Lost') <= Cardinality(Lost) + MaxInHand
    BY <1>1, <2>4, <2>5, <2>7
  <2>9. Cardinality(Lost) <= restarts * MaxInHand
    BY DEF LossInv, LossBounded
  <2>10. \A n, m, r \in Nat :
            n <= m + MaxInHand /\ m <= r * MaxInHand => n <= (r + 1) * MaxInHand
    OBVIOUS
  <2>11. Cardinality(Lost') <= (restarts + 1) * MaxInHand
    BY <1>1, <2>7, <2>8, <2>9, <2>10
  <2> QED
    BY <1>1, <2>1, <2>2, <2>5, <2>11 DEF LossInv, LossBounded
<1>6. CASE UNCHANGED handoverVars
  BY <1>6 DEF handoverVars, LossInv, LossBounded, Lost
<1> QED
  BY <1>2, <1>3, <1>4, <1>5, <1>6 DEF HandoverNext

\* The invariant holds initially.
LEMMA LossInit ==
    ASSUME MaxInHand \in Nat, HandoverInit
    PROVE  LossInv
<1>1. Lost = {} /\ inHand = {} /\ restarts = 0
  BY DEF HandoverInit, Lost
<1> QED
  BY <1>1, FS_EmptySet DEF LossInv, LossBounded

\* However often requests are redelivered or completed twice, a request is lost
\* only by an end of the process, and each loses at most MaxInHand of them.
THEOREM LossesBounded ==
    ASSUME MaxInHand \in Nat
    PROVE  HandoverSpec => []LossBounded
<1>1. LossInv => LossBounded
  BY DEF LossInv
<1> QED
  BY <1>1, LossInit, LossStep, PTL DEF HandoverSpec
=============================================================================
