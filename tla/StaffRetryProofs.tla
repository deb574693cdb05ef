-------------------------- MODULE StaffRetryProofs --------------------------
(***************************************************************************)
(* The second attempt of a housekeeper finds what it needs: the proof of   *)
(* RetryFindsStock, for every number of employees.                         *)
(*                                                                         *)
(* A replenishment of 50 covers five consumptions of at most ten, a        *)
(* request consumes an item at most once, and while no more than five      *)
(* requests have arrived, those that may still consume the item (not yet   *)
(* arrived, waiting in the channel, received, or in work before that step) *)
(* were five at most when the housekeeper restocked.  Each consumption of  *)
(* the item takes one of them away.                                        *)
(***************************************************************************)
EXTENDS StaffStockProofs

\* The requests one replenishment covers.
Replenished == 5

\* The housekeepers that hold a request.
Working == {h \in Housekeepers : hkPhase[h] \notin {"select", "stopped"}}

\* Step n of a request type consumes item i.
Consumes(t, n, i) == CleaningSteps(t)[n].kind = "consume" /\ CleaningSteps(t)[n].arg = i

\* Those of them that have still to consume item i; one that has only received
\* its request may be about to consume anything.
Yet(i) ==
    {h \in Working : hkPhase[h] = "received" \/
        \E n \in 1..Len(HkSteps(h)) :
            /\ hkPhase[h] = "clock" \/ n >= hkStep[h]
            /\ Consumes(HkRequest(h).RequestType, n, i)}

\* The requests, of the first five, that may still consume item i.
ToCome(i) == Replenished - cleaningCount + Len(cleaningCh) + Cardinality(Yet(i))

\* A housekeeper has restocked item i and not tried again yet.
RetryAt(i) == \E h \in Housekeepers : hkPhase[h] = "retry" /\ HkCurrentStep(h).arg = i

\* There is enough of item i for all of them.
CoveredAt(i) ==
    cleaningCount <= Replenished /\ RetryAt(i) => stock[i] >= LargestConsumption * ToCome(i)

\* What is waiting or in work has arrived.
ArrivedFirst == Len(cleaningCh) + Cardinality(Working) <= cleaningCount

\* The inductive invariant, to be taken with IInv.
RetryInv ==
    /\ ArrivedFirst
    /\ \A i \in Items : CoveredAt(i)

-----------------------------------------------------------------------------
\* Counting.

\* A request consumes an item at most once.
LEMMA ConsumesOnce ==
    ASSUME NEW t, NEW i, NEW m \in 1..Len(CleaningSteps(t)), NEW n \in 1..Len(CleaningSteps(t)),
           Consumes(t, m, i), Consumes(t, n, i)
    PROVE  m = n
<1> USE DEF CleaningSteps, consume, laundry, setStatus, Consumes
<1>1. CASE t = "PREPARE_FOR_GUEST"
  BY <1>1
<1>2. CASE t = "DAILY_CLEANING"
  BY <1>2
<1>3. CASE t = "FULL_CLEANING"
  BY <1>3
<1>4. CASE t = "PREPARE_FOR_SLEEP"
  BY <1>4
<1>5. CASE t \notin KnownTypes
  BY <1>5 DEF KnownTypes
<1> QED
  BY <1>1, <1>2, <1>3, <1>4, <1>5 DEF KnownTypes

\* Sets of housekeepers are finite.
LEMMA HousekeepersCounted ==
    ASSUME NEW S, S \subseteq Housekeepers
    PROVE  IsFiniteSet(S) /\ Cardinality(S) \in Nat
BY EmployeesAssumption, FS_Subset, FS_CardinalityType

\* Working and Yet(i) are sets of housekeepers, before and after a step.
LEMMA YetCounted ==
    ASSUME NEW i
    PROVE  /\ Yet(i) \subseteq Working /\ Working \subseteq Housekeepers
           /\ Yet(i)' \subseteq Working' /\ Working' \subseteq Housekeepers
           /\ IsFiniteSet(Working) /\ IsFiniteSet(Yet(i)) /\ IsFiniteSet(Working') /\ IsFiniteSet(Yet(i)')
           /\ Cardinality(Working) \in Nat /\ Cardinality(Yet(i)) \in Nat
           /\ Cardinality(Working') \in Nat /\ Cardinality(Yet(i)') \in Nat
           /\ Cardinality(Yet(i)) <= Cardinality(Working)
<1>1. /\ Yet(i) \subseteq Working /\ Working \subseteq Housekeepers
      /\ Yet(i)' \subseteq Working' /\ Working' \subseteq Housekeepers
  BY DEF Yet, Working
<1>2. Yet(i) \subseteq Housekeepers /\ Yet(i)' \subseteq Housekeepers
  BY <1>1
<1>3. /\ IsFiniteSet(Working) /\ IsFiniteSet(Yet(i)) /\ IsFiniteSet(Working') /\ IsFiniteSet(Yet(i)')
      /\ Cardinality(Working) \in Nat /\ Cardinality(Yet(i)) \in Nat
      /\ Cardinality(Working') \in Nat /\ Cardinality(Yet(i)') \in Nat
  BY <1>1, <1>2, HousekeepersCounted
<1>4. Cardinality(Yet(i)) <= Cardinality(Working)
  BY <1>1, <1>3, FS_Subset
<1> QED
  BY <1>1, <1>3, <1>4

\* One more at most.
LEMMA CountedOneMore ==
    ASSUME NEW S, NEW T, NEW x, IsFiniteSet(S), T \subseteq S \cup {x}
    PROVE  Cardinality(T) <= Cardinality(S) + 1
<1>1. /\ IsFiniteSet(S \cup {x}) /\ Cardinality(S) \in Nat
      /\ Cardinality(S \cup {x}) = IF x \in S THEN Cardinality(S) ELSE Cardinality(S) + 1
  BY FS_AddElement, FS_CardinalityType
<1>2. IsFiniteSet(T) /\ Cardinality(T) <= Cardinality(S \cup {x})
  BY <1>1, FS_Subset
<1>3. Cardinality(T) \in Nat
  BY <1>2, FS_CardinalityType
<1> QED
  BY <1>1, <1>2, <1>3

\* The numbers the invariant is about.
NumbersOK ==
    /\ cleaningCount \in Nat /\ Len(cleaningCh) \in Nat
    /\ \A i \in Items : stock[i] \in Int /\ stock[i] >= 0

\* IInv makes them natural.
LEMMA NumbersNatural == IInv => NumbersOK
BY BoundsAssumption, LenProperties
   DEF IInv, TypeOK, ChannelsTypeOK, StockTypeOK, StockNeverNegative, NumbersOK

\* So is the number of requests to come an integer, before and after a step.
LEMMA ToComeCounted ==
    ASSUME NumbersOK, NumbersOK', NEW i
    PROVE  ToCome(i) \in Int /\ ToCome(i)' \in Int
<1>1. /\ Cardinality(Yet(i)) \in Nat /\ Cardinality(Yet(i)') \in Nat
      /\ cleaningCount \in Nat /\ Len(cleaningCh) \in Nat
      /\ cleaningCount' \in Nat /\ Len(cleaningCh') \in Nat
  BY YetCounted DEF NumbersOK
<1>2. ToCome(i) \in Int
  BY <1>1 DEF ToCome, Replenished
<1>3. ToCome(i)' \in Int
  BY <1>1 DEF ToCome, Replenished
<1> QED
  BY <1>2, <1>3

\* The stock of an item may fall by ten for each request that is no longer to
\* come.
LEMMA CoverStep ==
    ASSUME NumbersOK, NumbersOK', NEW i \in Items, CoveredAt(i),
           cleaningCount' <= Replenished => cleaningCount <= Replenished,
           RetryAt(i)' => RetryAt(i),
           NEW less \in {0, 1},
           stock'[i] >= stock[i] - LargestConsumption * less,
           ToCome(i)' <= ToCome(i) - less
    PROVE  CoveredAt(i)'
<1> DEFINE a == ToCome(i)  b == ToCome(i)'
<1>1. a \in Int /\ b \in Int
  BY ToComeCounted
<1>2. b <= a - less
  OBVIOUS
<1>3. stock[i] \in Int /\ stock'[i] \in Int
  BY DEF NumbersOK
<1>4. cleaningCount' <= Replenished /\ RetryAt(i)' => stock[i] >= 10 * a
  BY DEF CoveredAt, LargestConsumption
<1>5. stock'[i] >= stock[i] - 10 * less
  BY DEF LargestConsumption
<1> HIDE DEF a, b
<1>6. cleaningCount' <= Replenished /\ RetryAt(i)' => stock'[i] >= 10 * b
  BY <1>1, <1>2, <1>3, <1>4, <1>5
<1> QED
  BY <1>6 DEF CoveredAt, LargestConsumption, b

\* Neither a request nor the stock of the item goes.
LEMMA CoverKept ==
    ASSUME NumbersOK, NumbersOK', NEW i \in Items, CoveredAt(i), RetryAt(i)' => RetryAt(i),
           UNCHANGED <<cleaningCount, cleaningCh>>, Yet(i)' \subseteq Yet(i), stock'[i] >= stock[i]
    PROVE  CoveredAt(i)'
<1>1. Cardinality(Yet(i)') <= Cardinality(Yet(i))
  BY YetCounted, FS_Subset
<1>2. ToCome(i)' <= ToCome(i) - 0
  BY <1>1, YetCounted DEF ToCome, Replenished, NumbersOK
<1>3. stock'[i] >= stock[i] - LargestConsumption * 0
  BY DEF LargestConsumption, NumbersOK
<1> QED
  BY <1>2, <1>3, CoverStep

\* A request consumes the item.
LEMMA CoverConsumed ==
    ASSUME NumbersOK, NumbersOK', NEW i \in Items, CoveredAt(i), RetryAt(i)' => RetryAt(i),
           UNCHANGED <<cleaningCount, cleaningCh>>, NEW h \in Yet(i), Yet(i)' \subseteq Yet(i) \ {h},
           stock'[i] >= stock[i] - LargestConsumption
    PROVE  CoveredAt(i)'
<1>1. Cardinality(Yet(i)') <= Cardinality(Yet(i)) - 1
  BY YetCounted, CardLess
<1>2. ToCome(i)' <= ToCome(i) - 1
  BY <1>1, YetCounted DEF ToCome, Replenished, NumbersOK
<1>3. stock'[i] >= stock[i] - LargestConsumption * 1
  BY DEF LargestConsumption, NumbersOK
<1> QED
  BY <1>2, <1>3, CoverStep

\* After a replenishment there is enough for all that may come.
LEMMA CoverReplenished ==
    ASSUME NumbersOK, NumbersOK', ArrivedFirst, NEW i \in Items, UNCHANGED <<cleaningCount, cleaningCh>>,
           Yet(i)' \subseteq Yet(i), stock'[i] >= stock[i] + stockReplenishmentQuantity
    PROVE  CoveredAt(i)'
<1>1. Cardinality(Yet(i)') <= Cardinality(Yet(i))
  BY YetCounted, FS_Subset
<1>2. ToCome(i)' <= Replenished
  <2> DEFINE y == Cardinality(Yet(i)')  u == Cardinality(Yet(i))  w == Cardinality(Working)
             c == cleaningCount  n == Len(cleaningCh)
  <2>1. /\ y \in Nat /\ u \in Nat /\ w \in Nat /\ c \in Nat /\ n \in Nat
        /\ y <= u /\ u <= w /\ n + w <= c
    BY <1>1, YetCounted DEF NumbersOK, ArrivedFirst
  <2>2. ToCome(i)' = 5 - c + n + y
    BY DEF ToCome, Replenished
  <2> HIDE DEF y, u, w, c, n
  <2> QED
    BY <2>1, <2>2 DEF Replenished
<1>3. ToCome(i)' \in Int
  BY ToComeCounted
<1>4. stock'[i] >= 50
  BY DEF NumbersOK, stockReplenishmentQuantity
<1>5. \A k \in Int : k <= 5 => 10 * k <= 50
  OBVIOUS
<1>6. 10 * ToCome(i)' <= 50
  BY <1>2, <1>3, <1>5 DEF Replenished
<1>7. stock'[i] >= 10 * ToCome(i)'
  <2> DEFINE k == ToCome(i)'
  <2>1. k \in Int /\ 10 * k <= 50 /\ stock'[i] >= 50 /\ stock'[i] \in Int
    BY <1>3, <1>4, <1>6 DEF NumbersOK
  <2> HIDE DEF k
  <2>2. stock'[i] >= 10 * k
    BY <2>1
  <2> QED
    BY <2>2 DEF k
<1> QED
  BY <1>7 DEF CoveredAt, LargestConsumption

-----------------------------------------------------------------------------
\* The steps of the housekeepers.

\* The goroutines but h's stand still.
OthersStand(h) ==
    \A k \in Housekeepers \ {h} :
        hkEmployees'[k] = hkEmployees[k] /\ hkPhase'[k] = hkPhase[k] /\ hkStep'[k] = hkStep[k]

\* Then only h can enter or leave the sets.
LEMMA OthersKept ==
    ASSUME NEW h \in Housekeepers, OthersStand(h)
    PROVE  /\ Working' \subseteq Working \cup {h} /\ Working \subseteq Working' \cup {h}
           /\ \A i : Yet(i)' \subseteq Yet(i) \cup {h}
           /\ \A i : RetryAt(i)' => RetryAt(i) \/ (hkPhase'[h] = "retry" /\ HkCurrentStep(h)'.arg = i)
<1>1. Working' \subseteq Working \cup {h} /\ Working \subseteq Working' \cup {h}
  BY DEF OthersStand, Working
<1>2. \A k \in Housekeepers \ {h} :
         /\ HkRequest(k)' = HkRequest(k) /\ HkSteps(k)' = HkSteps(k)
         /\ HkCurrentStep(k)' = HkCurrentStep(k)
         /\ hkPhase'[k] = hkPhase[k] /\ hkStep'[k] = hkStep[k]
  BY DEF OthersStand, HkRequest, HkSteps, HkCurrentStep
<1>3. \A i : Yet(i)' \subseteq Yet(i) \cup {h}
  <2> SUFFICES ASSUME NEW i, NEW k \in Housekeepers \ {h}, k \in Yet(i)' PROVE k \in Yet(i)
    BY DEF Yet, Working
  <2>1. k \in Working
    BY <1>2 DEF Yet, Working
  <2>2. CASE hkPhase[k] = "received"
    BY <2>1, <2>2 DEF Yet
  <2>3. CASE hkPhase[k] # "received"
    <3>1. PICK n \in 1..Len(HkSteps(k)) :
             /\ hkPhase[k] = "clock" \/ n >= hkStep[k]
             /\ Consumes(HkRequest(k).RequestType, n, i)
      BY <1>2, <2>3 DEF Yet, Consumes
    <3> QED
      BY <2>1, <3>1 DEF Yet
  <2> QED
    BY <2>2, <2>3
<1>4. \A i : RetryAt(i)' => RetryAt(i) \/ (hkPhase'[h] = "retry" /\ HkCurrentStep(h)'.arg = i)
  <2> SUFFICES ASSUME NEW i, NEW k \in Housekeepers, hkPhase'[k] = "retry", HkCurrentStep(k)'.arg = i
               PROVE  RetryAt(i) \/ (hkPhase'[h] = "retry" /\ HkCurrentStep(h)'.arg = i)
    BY DEF RetryAt
  <2>1. CASE k = h
    BY <2>1
  <2>2. CASE k # h
    BY <1>2, <2>2 DEF RetryAt
  <2> QED
    BY <2>1, <2>2
<1> QED
  BY <1>1, <1>3, <1>4

\* Housekeeper h goes on in its work: nothing it has consumed comes back.
LEMMA WorkGoesOn ==
    ASSUME HkTypeOK, NEW h \in Working, OthersStand(h), UNCHANGED hkEmployees,
           hkPhase'[h] \in {"work", "restock", "retry"},
           hkPhase[h] = "clock" \/ hkStep'[h] >= hkStep[h],
           hkStep'[h] \in Nat
    PROVE  /\ Working' = Working
           /\ \A i : Yet(i)' \subseteq Yet(i)
           /\ \A i : hkPhase'[h] # "retry" => (RetryAt(i)' => RetryAt(i))
<1>0. h \in Housekeepers
  BY DEF Working
<1>1. h \in Working'
  BY <1>0 DEF Working
<1>2. \A i : h \in Yet(i)' => h \in Yet(i)
  <2> SUFFICES ASSUME NEW i, h \in Yet(i)' PROVE h \in Yet(i)
    OBVIOUS
  <2>1. PICK n \in 1..Len(HkSteps(h)) : n >= hkStep'[h] /\ Consumes(HkRequest(h).RequestType, n, i)
    BY DEF Yet, HkRequest, HkSteps, Consumes
  <2>2. Len(HkSteps(h)) \in Nat /\ hkStep[h] \in Nat
    BY <1>0, HkStepCount DEF HkTypeOK
  <2>3. hkPhase[h] = "clock" \/ n >= hkStep[h]
    BY <2>1, <2>2
  <2> QED
    BY <2>1, <2>3 DEF Yet
<1> QED
  BY <1>0, <1>1, <1>2, OthersKept

\* The work of housekeeper h is over.
LEMMA WorkEnds ==
    ASSUME NEW h \in Housekeepers, OthersStand(h), hkPhase'[h] \in {"select", "stopped"}
    PROVE  /\ Working' \subseteq Working
           /\ \A i : Yet(i)' \subseteq Yet(i)
           /\ \A i : RetryAt(i)' => RetryAt(i)
<1>1. h \notin Working' /\ \A i : h \notin Yet(i)'
  BY DEF Working, Yet
<1> QED
  BY <1>1, OthersKept

\* A consuming step that is over is behind housekeeper h.
LEMMA StepDone ==
    ASSUME HkTypeOK, NEW h \in Working, HkNextStep(h),
           hkStep[h] \in 1..Len(HkSteps(h)), hkPhase[h] # "clock",
           HkCurrentStep(h).kind = "consume", NEW i, i = HkCurrentStep(h).arg
    PROVE  h \in Yet(i) /\ h \notin Yet(i)'
<1> DEFINE t == HkRequest(h).RequestType
           m == hkStep[h]
<1>0. h \in Housekeepers /\ m \in Nat
  BY DEF Working, HkTypeOK
<1>1. Consumes(t, m, i)
  BY DEF Consumes, HkCurrentStep, HkSteps
<1>2. h \in Yet(i)
  BY <1>0, <1>1 DEF Yet
<1>3. /\ HkRequest(h)' = HkRequest(h) /\ HkSteps(h)' = HkSteps(h)
      /\ hkStep'[h] = m + 1 /\ hkPhase'[h] = "work"
  BY <1>0 DEF HkNextStep, HkRequest, HkSteps, HkTypeOK
<1>4. ASSUME NEW n \in 1..Len(HkSteps(h)), n >= m + 1, Consumes(t, n, i)
      PROVE  FALSE
  <2>1. m = n
    BY <1>1, <1>4, ConsumesOnce DEF HkSteps
  <2> QED
    BY <1>0, <1>4, <2>1
<1>5. h \in Yet(i)' => \E n \in 1..Len(HkSteps(h)) : n >= m + 1 /\ Consumes(t, n, i)
  BY <1>3 DEF Yet, Consumes
<1> QED
  BY <1>2, <1>4, <1>5

\* Nobody starts to work: no more wait or work than before.
LEMMA ArrivedKept ==
    ASSUME NumbersOK, NumbersOK', ArrivedFirst, UNCHANGED <<cleaningCount, cleaningCh>>,
           Working' \subseteq Working
    PROVE  ArrivedFirst'
<1>1. Cardinality(Working') <= Cardinality(Working)
  BY YetCounted, FS_Subset
<1>2. Cardinality(Working') \in Nat /\ Cardinality(Working) \in Nat
  BY YetCounted
<1> QED
  BY <1>1, <1>2 DEF ArrivedFirst, NumbersOK

\* No stock goes, no request comes back, and nobody has just restocked.
LEMMA QuietCovers ==
    ASSUME NumbersOK, NumbersOK', RetryInv, UNCHANGED <<cleaningCount, cleaningCh>>,
           Working' \subseteq Working,
           \A i \in Items : Yet(i)' \subseteq Yet(i) /\ (RetryAt(i)' => RetryAt(i))
                            /\ (RetryAt(i) => stock'[i] >= stock[i])
    PROVE  RetryInv'
<1>1. ArrivedFirst'
  BY ArrivedKept DEF RetryInv
<1>2. ASSUME NEW i \in Items PROVE CoveredAt(i)'
  <2>1. CASE RetryAt(i)
    BY <2>1, CoverKept DEF RetryInv
  <2>2. CASE ~RetryAt(i)
    BY <2>2 DEF CoveredAt
  <2> QED
    BY <2>1, <2>2
<1> QED
  BY <1>1, <1>2 DEF RetryInv

\* A consuming step is over: the stock falls by what one request takes.
LEMMA ConsumeCovers ==
    ASSUME IInv, NumbersOK, NumbersOK', RetryInv, NEW h \in Housekeepers,
           hkPhase[h] = "retry" \/ HkAt(h, "consume"),
           NEW err, ConsumeItem(HkCurrentStep(h).arg, HkCurrentStep(h).quantity, err),
           HkNextStep(h), UNCHANGED <<cleaningCount, cleaningCh>>
    PROVE  RetryInv'
<1>1. HkTypeOK /\ HkLocals /\ StockTypeOK /\ StockNeverNegative
  BY DEF IInv, TypeOK
<1>2. /\ hkStep[h] \in 1..Len(HkSteps(h))
      /\ HkCurrentStep(h).kind = "consume"
      /\ HkCurrentStep(h).arg \in Items \ {"soap"}
      /\ HkCurrentStep(h).quantity \in 1..10
  BY <1>1, HkConsumingStep
<1>3. PICK j \in Items : j = HkCurrentStep(h).arg
  BY <1>2
<1>4. h \in Working /\ hkPhase[h] # "clock"
  BY DEF Working, HkAt
<1>5. OthersStand(h) /\ UNCHANGED hkEmployees /\ hkPhase'[h] = "work"
  BY <1>1 DEF HkNextStep, OthersStand, HkTypeOK
<1>6. hkStep'[h] \in Nat /\ hkStep'[h] >= hkStep[h]
  BY <1>1 DEF HkNextStep, HkTypeOK
<1>7. /\ Working' = Working
      /\ \A i : Yet(i)' \subseteq Yet(i)
      /\ \A i : RetryAt(i)' => RetryAt(i)
  BY <1>1, <1>4, <1>5, <1>6, WorkGoesOn
<1>8. h \in Yet(j) /\ h \notin Yet(j)'
  BY <1>1, <1>2, <1>3, <1>4, StepDone
<1>9. /\ stock'[j] >= stock[j] - LargestConsumption
      /\ \A i \in Items \ {j} : stock'[i] = stock[i]
  BY <1>1, <1>2, <1>3
     DEF ConsumeItem, DecrementIfEnough, StockTypeOK, LargestConsumption
<1>10. ASSUME NEW i \in Items PROVE CoveredAt(i)'
  <2>0. CoveredAt(i)
    BY DEF RetryInv
  <2>1. CASE i = j
    BY <1>7, <1>8, <1>9, <2>0, <2>1, CoverConsumed
  <2>2. CASE i # j
    <3>1. stock'[i] >= stock[i]
      BY <1>1, <1>9, <2>2 DEF StockTypeOK
    <3> QED
      BY <1>7, <2>0, <3>1, CoverKept
  <2> QED
    BY <2>1, <2>2
<1>11. ArrivedFirst'
  BY <1>7, ArrivedKept DEF RetryInv
<1> QED
  BY <1>10, <1>11 DEF RetryInv

\* Housekeeper h has restocked: there is enough for all that may still come.
LEMMA RestockCovers ==
    ASSUME IInv, NumbersOK, NumbersOK', RetryInv, NEW h \in Housekeepers,
           hkPhase[h] = "restock", ImmediateRestock(HkCurrentStep(h).arg, "nil"),
           HkGoto(h, "retry"), UNCHANGED <<cleaningCount, cleaningCh>>
    PROVE  RetryInv'
<1>1. HkTypeOK /\ HkLocals /\ StockTypeOK /\ StockNeverNegative
  BY DEF IInv, TypeOK
<1>2. HkCurrentStep(h).arg \in Items
  BY <1>1, HkConsumingStep
<1>3. PICK j \in Items : j = HkCurrentStep(h).arg
  BY <1>2
<1>4. h \in Working /\ hkPhase[h] # "clock"
  BY DEF Working
<1>5. OthersStand(h) /\ UNCHANGED hkEmployees /\ hkPhase'[h] = "retry"
  BY <1>1 DEF HkGoto, OthersStand, HkTypeOK
<1>6. hkStep'[h] \in Nat /\ hkStep'[h] >= hkStep[h]
  BY <1>1 DEF HkGoto, HkTypeOK
<1>7. Working' = Working /\ \A i : Yet(i)' \subseteq Yet(i)
  BY <1>1, <1>4, <1>5, <1>6, WorkGoesOn
<1>8. HkCurrentStep(h)' = HkCurrentStep(h)
  BY DEF HkGoto, HkCurrentStep, HkSteps, HkRequest
<1>9. \A i : i # j => (RetryAt(i)' => RetryAt(i))
  BY <1>3, <1>5, <1>8, OthersKept
<1>10. /\ stock'[j] >= stock[j] + stockReplenishmentQuantity
       /\ \A i \in Items \ {j} : stock'[i] = stock[i]
  BY <1>1, <1>3 DEF ImmediateRestock, RestockItem, Increment, StockTypeOK, stockReplenishmentQuantity
<1>11. ASSUME NEW i \in Items PROVE CoveredAt(i)'
  <2>0. CoveredAt(i) /\ ArrivedFirst
    BY DEF RetryInv
  <2>1. CASE i = j
    BY <1>7, <1>10, <2>0, <2>1, CoverReplenished
  <2>2. CASE i # j
    <3>1. stock'[i] >= stock[i]
      BY <1>1, <1>10, <2>2 DEF StockTypeOK
    <3> QED
      BY <1>7, <1>9, <2>0, <2>2, <3>1, CoverKept
  <2> QED
    BY <2>1, <2>2
<1>12. ArrivedFirst'
  BY <1>7, ArrivedKept DEF RetryInv
<1> QED
  BY <1>11, <1>12 DEF RetryInv

\* A request is received: one fewer waits, one more is held.
LEMMA ReceiveCovers ==
    ASSUME IInv, NumbersOK, NumbersOK', RetryInv, NEW h \in Housekeepers, HkReceive(h),
           UNCHANGED cleaningCount
    PROVE  RetryInv'
<1>1. HkTypeOK /\ cleaningCh \in Seq(CleaningRequests)
  BY DEF IInv, TypeOK, ChannelsTypeOK
<1>2. OthersStand(h) /\ hkPhase'[h] = "received" /\ stock' = stock
  BY <1>1 DEF HkReceive, HkPool!ReceiveRequest, OthersStand, HkTypeOK
<1>3. Len(cleaningCh') = Len(cleaningCh) - 1
  BY <1>1, ReceiveType DEF HkReceive, HkPool!ReceiveRequest
<1>4. /\ Working' \subseteq Working \cup {h}
      /\ \A i : Yet(i)' \subseteq Yet(i) \cup {h}
      /\ \A i : RetryAt(i)' => RetryAt(i)
  BY <1>2, OthersKept
<1>5. ArrivedFirst'
  <2>1. Cardinality(Working') <= Cardinality(Working) + 1
    BY <1>4, YetCounted, CountedOneMore
  <2>2. Cardinality(Working') \in Nat /\ Cardinality(Working) \in Nat
    BY YetCounted
  <2> QED
    BY <1>3, <2>1, <2>2 DEF ArrivedFirst, NumbersOK, RetryInv
<1>6. ASSUME NEW i \in Items PROVE CoveredAt(i)'
  <2>1. Cardinality(Yet(i)') <= Cardinality(Yet(i)) + 1
    BY <1>4, YetCounted, CountedOneMore
  <2>2. Cardinality(Yet(i)') \in Nat /\ Cardinality(Yet(i)) \in Nat
    BY YetCounted
  <2>3. ToCome(i)' <= ToCome(i) - 0
    BY <1>3, <2>1, <2>2 DEF ToCome, Replenished, NumbersOK
  <2>4. stock'[i] >= stock[i] - LargestConsumption * 0
    BY <1>2 DEF LargestConsumption, NumbersOK
  <2>5. CoveredAt(i)
    BY DEF RetryInv
  <2> QED
    BY <1>4, <2>3, <2>4, <2>5, CoverStep
<1> QED
  BY <1>5, <1>6 DEF RetryInv

\* A request received is entered in the table: what it may consume is known now.
LEMMA StartWorkCovers ==
    ASSUME IInv, NumbersOK, NumbersOK', RetryInv, NEW h \in Housekeepers, HkStartWork(h),
           UNCHANGED cleaningCount
    PROVE  RetryInv'
<1>1. HkTypeOK
  BY DEF IInv, TypeOK
<1>2. /\ OthersStand(h) /\ hkPhase[h] = "received" /\ hkPhase'[h] = "clock"
      /\ UNCHANGED <<cleaningCh, stock>>
  BY <1>1
     DEF HkStartWork, HkPool!StartWork, HkPool!setEmployeeWorkingStatus, OthersStand, HkTypeOK
<1>3. h \in Working /\ \A i : h \in Yet(i)
  BY <1>2 DEF Working, Yet
<1>4. /\ Working' \subseteq Working
      /\ \A i : Yet(i)' \subseteq Yet(i)
      /\ \A i : RetryAt(i)' => RetryAt(i)
  BY <1>2, <1>3, OthersKept
<1>5. \A i \in Items : stock'[i] >= stock[i]
  BY <1>2 DEF NumbersOK
<1> QED
  BY <1>2, <1>4, <1>5, QuietCovers

\* Housekeeper h goes on, and the stock has not fallen.
LEMMA GoesOnCovers ==
    ASSUME IInv, NumbersOK, NumbersOK', RetryInv, NEW h \in Housekeepers,
           hkPhase[h] \in {"clock", "work", "restock"},
           OthersStand(h), UNCHANGED hkEmployees, hkPhase'[h] \in {"work", "restock"},
           hkPhase[h] = "clock" \/ hkStep'[h] >= hkStep[h], hkStep'[h] \in Nat,
           UNCHANGED <<cleaningCount, cleaningCh>>, \A i \in Items : stock'[i] >= stock[i]
    PROVE  RetryInv'
<1>1. HkTypeOK
  BY DEF IInv, TypeOK
<1>2. h \in Working
  BY DEF Working
<1>3. /\ Working' = Working
      /\ \A i : Yet(i)' \subseteq Yet(i)
      /\ \A i : RetryAt(i)' => RetryAt(i)
  BY <1>1, <1>2, WorkGoesOn
<1> QED
  BY <1>3, QuietCovers

\* Housekeeper h leaves its request, and the stock stays.
LEMMA EndCovers ==
    ASSUME IInv, NumbersOK, NumbersOK', RetryInv, NEW h \in Housekeepers,
           OthersStand(h), hkPhase'[h] \in {"select", "stopped"},
           UNCHANGED <<cleaningCount, cleaningCh, stock>>
    PROVE  RetryInv'
<1>1. \A i \in Items : stock'[i] >= stock[i]
  BY DEF NumbersOK
<1> QED
  BY <1>1, WorkEnds, QuietCovers

\* Every step of a housekeeper keeps the invariant.
LEMMA HousekeeperCovers ==
    ASSUME IInv, NumbersOK, NumbersOK', RetryInv, NEW h \in Housekeepers, HousekeeperStep(h)
    PROVE  RetryInv'
<1> USE DEF channelVars
<1>1. HkTypeOK /\ StockTypeOK
  BY DEF IInv, TypeOK
<1>2. UNCHANGED cleaningCount /\ HkStepOf(h)
  BY DEF HousekeeperStep, envVars
<1>3. UNCHANGED stock => \A i \in Items : stock'[i] >= stock[i]
  BY DEF NumbersOK
<1>4. HkNextStep(h) => /\ OthersStand(h) /\ UNCHANGED hkEmployees /\ hkPhase'[h] = "work"
                       /\ hkStep'[h] \in Nat /\ hkStep'[h] >= hkStep[h]
  BY <1>1 DEF HkNextStep, OthersStand, HkTypeOK
<1>5. HkPool!WorkReturns(h) /\ (\A k \in Housekeepers \ {h} : hkStep'[k] = hkStep[k])
        => OthersStand(h) /\ hkPhase'[h] = "select"
  BY <1>1 DEF HkPool!WorkReturns, HkPool!setEmployeeIdleStatus, OthersStand, HkTypeOK
<1>6. CASE HkReceive(h)
  BY <1>2, <1>6, ReceiveCovers
<1>7. CASE HkStop(h)
  <2>1. OthersStand(h) /\ hkPhase'[h] = "stopped" /\ UNCHANGED <<cleaningCh, stock>>
    BY <1>1, <1>7 DEF HkStop, HkPool!StopOnCancel, OthersStand, HkTypeOK
  <2> QED
    BY <1>2, <2>1, EndCovers
<1>8. CASE HkClock(h)
  <2>1. UNCHANGED <<cleaningCh, stock>> /\ hkPhase[h] = "clock"
    BY <1>8 DEF HkClock
  <2>2. CASE /\ hkPhase' = [hkPhase EXCEPT ![h] = "work"]
             /\ hkStep' = [hkStep EXCEPT ![h] = 1]
             /\ UNCHANGED hkEmployees
    <3>1. OthersStand(h) /\ hkPhase'[h] = "work" /\ hkStep'[h] \in Nat
      BY <1>1, <2>2 DEF OthersStand, HkTypeOK
    <3> QED
      BY <1>2, <1>3, <2>1, <2>2, <3>1, GoesOnCovers
  <2>3. CASE HkPool!WorkReturns(h) /\ UNCHANGED hkStep
    BY <1>2, <1>5, <2>1, <2>3, EndCovers
  <2> QED
    BY <1>8, <2>2, <2>3 DEF HkClock
<1>9. CASE HkConsume(h)
  <2>1. PICK err \in {"nil", "insufficient", "failed"} :
           /\ ConsumeItem(HkCurrentStep(h).arg, HkCurrentStep(h).quantity, err)
           /\ IF err = "insufficient" THEN HkGoto(h, "restock") ELSE HkNextStep(h)
    BY <1>9 DEF HkConsume
  <2>2. UNCHANGED cleaningCh /\ HkAt(h, "consume")
    BY <1>9 DEF HkConsume
  <2>3. CASE err = "insufficient"
    <3>1. UNCHANGED stock /\ HkGoto(h, "restock")
      BY <2>1, <2>3 DEF ConsumeItem
    <3>2. /\ OthersStand(h) /\ UNCHANGED hkEmployees /\ hkPhase'[h] = "restock"
          /\ hkStep'[h] \in Nat /\ hkStep'[h] >= hkStep[h]
      BY <1>1, <3>1 DEF HkGoto, OthersStand, HkTypeOK
    <3>3. hkPhase[h] = "work"
      BY <2>2 DEF HkAt
    <3> QED
      BY <1>2, <1>3, <2>2, <3>1, <3>2, <3>3, GoesOnCovers
  <2>4. CASE err # "insufficient"
    BY <1>2, <2>1, <2>2, <2>4, ConsumeCovers
  <2> QED
    BY <2>3, <2>4
<1>10. CASE HkRestock(h)
  <2>1. PICK err \in {"nil", "failed"} :
           /\ ImmediateRestock(HkCurrentStep(h).arg, err)
           /\ IF err = "nil" THEN HkGoto(h, "retry") ELSE HkNextStep(h)
    BY <1>10 DEF HkRestock
  <2>2. UNCHANGED cleaningCh /\ hkPhase[h] = "restock"
    BY <1>10 DEF HkRestock
  <2>3. CASE err = "nil"
    BY <1>2, <2>1, <2>2, <2>3, RestockCovers
  <2>4. CASE err # "nil"
    <3>1. \A i \in Items : stock'[i] >= stock[i]
      BY <1>1, <2>1
         DEF ImmediateRestock, RestockItem, Increment, stockReplenishmentQuantity, StockTypeOK
    <3> QED
      BY <1>2, <1>4, <2>1, <2>2, <2>4, <3>1, GoesOnCovers
  <2> QED
    BY <2>3, <2>4
<1>11. CASE HkRetry(h)
  <2>1. PICK err \in {"nil", "insufficient", "failed"} :
           ConsumeItem(HkCurrentStep(h).arg, HkCurrentStep(h).quantity, err)
    BY <1>11 DEF HkRetry
  <2>2. UNCHANGED cleaningCh /\ hkPhase[h] = "retry" /\ HkNextStep(h)
    BY <1>11 DEF HkRetry
  <2> QED
    BY <1>2, <2>1, <2>2, ConsumeCovers
<1>12. CASE HkLaundry(h) \/ HkUpdateStatus(h)
  <2>1. UNCHANGED <<cleaningCh, stock>> /\ hkPhase[h] = "work" /\ HkNextStep(h)
    BY <1>12 DEF HkLaundry, HkUpdateStatus, HkAt
  <2> QED
    BY <1>2, <1>3, <1>4, <2>1, GoesOnCovers
<1>13. CASE HkFinish(h)
  <2>1. /\ HkPool!WorkReturns(h) /\ UNCHANGED <<cleaningCh, stock>>
        /\ \A k \in Housekeepers \ {h} : hkStep'[k] = hkStep[k]
    BY <1>1, <1>13 DEF HkFinish, HkTypeOK
  <2> QED
    BY <1>2, <1>5, <2>1, EndCovers
<1>14. CASE HkStartWork(h)
  BY <1>2, <1>14, StartWorkCovers
<1> QED
  BY <1>2, <1>6, <1>7, <1>8, <1>9, <1>10, <1>11, <1>12, <1>13, <1>14 DEF HkStepOf

-----------------------------------------------------------------------------
\* The steps of everyone else.

\* While the housekeepers stand still, so do the sets.
LEMMA StandingStill ==
    ASSUME UNCHANGED hkVars
    PROVE  /\ Working' = Working
           /\ \A i : Yet(i)' = Yet(i) /\ (RetryAt(i)' <=> RetryAt(i))
<1>1. Working' = Working
  BY DEF hkVars, Working
<1>2. \A h : HkRequest(h)' = HkRequest(h) /\ HkSteps(h)' = HkSteps(h) /\ HkCurrentStep(h)' = HkCurrentStep(h)
  BY DEF hkVars, HkRequest, HkSteps, HkCurrentStep
<1>3. \A i : Yet(i)' = Yet(i)
  BY <1>1, <1>2 DEF hkVars, Yet, Consumes
<1>4. \A i : RetryAt(i)' <=> RetryAt(i)
  BY <1>2 DEF hkVars, RetryAt
<1> QED
  BY <1>1, <1>3, <1>4

\* No housekeeper ever restocks soap.
LEMMA NoSoapRetry ==
    ASSUME IInv
    PROVE  ~RetryAt("soap")
<1>1. HkTypeOK /\ HkLocals
  BY DEF IInv, TypeOK
<1> QED
  BY <1>1, HkConsumingStep DEF RetryAt

\* A request arrives: one more has arrived, one more waits.
LEMMA ArrivalCovers ==
    ASSUME IInv, NumbersOK, NumbersOK', RetryInv, CleaningArrives
    PROVE  RetryInv'
<1>1. cleaningCh \in Seq(CleaningRequests)
  BY DEF IInv, TypeOK, ChannelsTypeOK
<1>2. PICK request \in CleaningRequests : SendCleaning(request)
  BY DEF CleaningArrives
<1>3. Len(cleaningCh') = Len(cleaningCh) + 1
  BY <1>1, <1>2, SendType DEF SendCleaning
<1>4. cleaningCount' = cleaningCount + 1 /\ stock' = stock /\ UNCHANGED hkVars
  BY DEF CleaningArrives
<1>5. /\ Working' = Working
      /\ \A i : Yet(i)' = Yet(i) /\ (RetryAt(i)' <=> RetryAt(i))
  BY <1>4, StandingStill
<1>6. ArrivedFirst'
  <2>1. Cardinality(Working') = Cardinality(Working) /\ Cardinality(Working) \in Nat
    BY <1>5, YetCounted
  <2> QED
    BY <1>3, <1>4, <2>1 DEF ArrivedFirst, NumbersOK, RetryInv
<1>7. ASSUME NEW i \in Items PROVE CoveredAt(i)'
  <2>1. Cardinality(Yet(i)') = Cardinality(Yet(i)) /\ Cardinality(Yet(i)) \in Nat
    BY <1>5, YetCounted
  <2>2. ToCome(i)' <= ToCome(i) - 0
    BY <1>3, <1>4, <2>1 DEF ToCome, Replenished, NumbersOK
  <2>3. stock'[i] >= stock[i] - LargestConsumption * 0
    BY <1>4 DEF LargestConsumption, NumbersOK
  <2>4. CoveredAt(i)
    BY DEF RetryInv
  <2>5. cleaningCount' <= Replenished => cleaningCount <= Replenished
    BY <1>4 DEF Replenished, NumbersOK
  <2> QED
    BY <1>5, <2>2, <2>3, <2>4, <2>5, CoverStep
<1> QED
  BY <1>6, <1>7 DEF RetryInv

\* Neither the housekeepers nor their requests are concerned, and only soap is
\* consumed.
LEMMA ElsewhereCovers ==
    ASSUME IInv, NumbersOK, NumbersOK', RetryInv, UNCHANGED <<cleaningCount, cleaningCh>>,
           UNCHANGED hkVars, \A i \in Items \ {"soap"} : stock'[i] >= stock[i]
    PROVE  RetryInv'
<1>1. /\ Working' = Working
      /\ \A i : Yet(i)' = Yet(i) /\ (RetryAt(i)' <=> RetryAt(i))
  BY StandingStill
<1>2. \A i \in Items : RetryAt(i) => stock'[i] >= stock[i]
  BY NoSoapRetry
<1>3. Working' \subseteq Working
  BY <1>1
<1>4. \A i \in Items : /\ Yet(i)' \subseteq Yet(i)
                       /\ RetryAt(i)' => RetryAt(i)
                       /\ RetryAt(i) => stock'[i] >= stock[i]
  BY <1>1, <1>2
<1> QED
  BY <1>3, <1>4, QuietCovers

\* A stocker's step only adds to the stock.
LEMMA StockerCovers ==
    ASSUME IInv, NumbersOK, NumbersOK', RetryInv, NEW s \in Stockers, StockerStep(s)
    PROVE  RetryInv'
<1> USE DEF channelVars
<1>1. UNCHANGED cleaningCount /\ UNCHANGED hkVars /\ StStepOf(s)
  BY DEF StockerStep, envVars
<1>2. UNCHANGED cleaningCh
  BY <1>1 DEF StStepOf, StReceive, StStartWork, StStop, StGetStock, StNextItem, StFinish
<1>3. \A i \in Items : stock'[i] >= stock[i]
  <2>1. CASE UNCHANGED stock
    BY <2>1 DEF NumbersOK
  <2>2. CASE ~UNCHANGED stock
    <3>1. PICK item, err : RestockItem(item, stockReplenishmentQuantity, err)
      BY <1>1, <2>2 DEF StStepOf, StReceive, StStartWork, StStop, StGetStock, StNextItem, StFinish
    <3>2. StockTypeOK
      BY DEF IInv, TypeOK
    <3> QED
      BY <3>1, <3>2 DEF RestockItem, Increment, StockTypeOK, stockReplenishmentQuantity
  <2> QED
    BY <2>1, <2>2
<1> QED
  BY <1>1, <1>2, <1>3, ElsewhereCovers

\* A launderer's step changes the stock of soap alone.
LEMMA LaundererCovers ==
    ASSUME IInv, NumbersOK, NumbersOK', RetryInv, NEW l \in Launderers, LaundererStep(l)
    PROVE  RetryInv'
<1> USE DEF channelVars
<1>1. UNCHANGED cleaningCount /\ UNCHANGED hkVars /\ LdStepOf(l, ChansInUse)
  BY DEF LaundererStep, envVars
<1>2. UNCHANGED cleaningCh
  BY <1>1 DEF LdStepOf, LdReceive, LdStartWork, LdStop, LdClock, LdWash, LdRestock, LdRegister, LdHourChange,
              LdCycleCancelled
<1>3. \A i \in Items \ {"soap"} : stock'[i] >= stock[i]
  <2>1. CASE UNCHANGED stock
    BY <2>1 DEF NumbersOK
  <2>2. CASE ~UNCHANGED stock
    <3>1. \E quantity, err : ConsumeItem("soap", quantity, err) \/ RestockItem("soap", quantity, err)
      BY <1>1, <2>2
         DEF LdStepOf, LdReceive, LdStartWork, LdStop, LdClock, LdWash, LdRestock, LdRegister, LdHourChange,
             LdCycleCancelled, ImmediateRestock
    <3>2. PICK quantity, err : ConsumeItem("soap", quantity, err) \/ RestockItem("soap", quantity, err)
      BY <3>1
    <3>3. \A i \in Items \ {"soap"} : stock'[i] = stock[i]
      BY <3>2 DEF IInv, TypeOK, StockTypeOK, ConsumeItem, DecrementIfEnough, RestockItem, Increment
    <3> QED
      BY <3>3 DEF NumbersOK
  <2> QED
    BY <2>1, <2>2
<1> QED
  BY <1>1, <1>2, <1>3, ElsewhereCovers

\* A process that has just started has no request and no housekeeper at work.
LEMMA StartCovers == ProcessInit => RetryInv
<1> SUFFICES ASSUME ProcessInit PROVE RetryInv
  OBVIOUS
<1>1. /\ \A h \in Housekeepers : hkPhase[h] = "select"
      /\ cleaningCh = <<>> /\ cleaningCount = 0
  BY DEF ProcessInit, HkInit, HkPool!WorkInit, ChannelsInit
<1>2. Working = {} /\ \A i : ~RetryAt(i)
  BY <1>1 DEF Working, RetryAt
<1>3. Cardinality(Working) = 0 /\ Len(cleaningCh) = 0
  BY <1>1, <1>2, FS_EmptySet
<1> QED
  BY <1>1, <1>2, <1>3 DEF RetryInv, ArrivedFirst, CoveredAt

\* Every step keeps RetryInv where IInv holds before and after it.
LEMMA NextRetryInv ==
    ASSUME IInv, IInv', RetryInv, [Next]_vars
    PROVE  RetryInv'
<1> USE DEF channelVars
<1>1. NumbersOK /\ NumbersOK'
  <2>1. IInv' => NumbersOK'
    BY NumbersNatural, PTL
  <2> QED
    BY <2>1, NumbersNatural
<1>2. UNCHANGED stock => \A i \in Items \ {"soap"} : stock'[i] >= stock[i]
  BY <1>1 DEF NumbersOK
<1>3. CASE CleaningArrives
  BY <1>1, <1>3, ArrivalCovers
<1>4. CASE \/ RestockArrives \/ HourPasses \/ Shutdown \/ UNCHANGED vars
           \/ \E c \in Chans : HourOffered(c)
  <2>1. UNCHANGED <<cleaningCount, cleaningCh, stock>> /\ UNCHANGED hkVars
    BY <1>4 DEF RestockArrives, HourPasses, Shutdown, HourOffered, vars, envVars, hkVars
  <2> QED
    BY <1>1, <1>2, <2>1, ElsewhereCovers
<1>5. CASE Crash
  <2>1. ProcessInit' => RetryInv'
    BY StartCovers, PTL
  <2> QED
    BY <1>5, <2>1, RestartIsStart DEF Crash
<1>6. ASSUME NEW h \in Housekeepers, HousekeeperStep(h) PROVE RetryInv'
  BY <1>1, <1>6, HousekeeperCovers
<1>7. ASSUME NEW s \in Stockers, StockerStep(s) PROVE RetryInv'
  BY <1>1, <1>7, StockerCovers
<1>8. ASSUME NEW l \in Launderers, LaundererStep(l) PROVE RetryInv'
  BY <1>1, <1>8, LaundererCovers
<1> QED
  BY <1>3, <1>4, <1>5, <1>6, <1>7, <1>8 DEF Next

-----------------------------------------------------------------------------
\* The theorem.

\* RetryInv implies the property: who tries again has yet to consume.
LEMMA CoveredRetry ==
    ASSUME IInv, RetryInv
    PROVE  RetryFindsStock
<1> SUFFICES ASSUME cleaningCount * LargestConsumption <= stockReplenishmentQuantity,
                    NEW h \in Housekeepers, hkPhase[h] = "retry"
             PROVE  stock[HkCurrentStep(h).arg] >= HkCurrentStep(h).quantity
  BY DEF RetryFindsStock
<1>1. HkTypeOK /\ HkLocals /\ NumbersOK
  BY NumbersNatural DEF IInv, TypeOK
<1>2. /\ hkStep[h] \in 1..Len(HkSteps(h))
      /\ HkCurrentStep(h).kind = "consume"
      /\ HkCurrentStep(h).arg \in Items
      /\ HkCurrentStep(h).quantity \in 1..10
  BY <1>1, HkConsumingStep
<1>3. PICK i \in Items : i = HkCurrentStep(h).arg
  BY <1>2
<1>4. cleaningCount <= Replenished
  BY <1>1 DEF LargestConsumption, stockReplenishmentQuantity, Replenished, NumbersOK
<1>5. h \in Yet(i)
  <2>1. h \in Working
    BY DEF Working
  <2>2. Consumes(HkRequest(h).RequestType, hkStep[h], i)
    BY <1>2, <1>3 DEF Consumes, HkCurrentStep, HkSteps
  <2>3. hkStep[h] >= hkStep[h]
    BY <1>1 DEF HkTypeOK
  <2> QED
    BY <1>2, <2>1, <2>2, <2>3 DEF Yet
<1>6. Cardinality(Yet(i)) >= 1
  <2>1. Cardinality(Yet(i)) \in Nat /\ Cardinality(Yet(i)) # 0
    BY <1>5, YetCounted, FS_EmptySet
  <2> QED
    BY <2>1
<1>7. stock[i] >= 10
  <2> DEFINE a == ToCome(i)
  <2>1. a \in Int /\ a >= 1
    BY <1>1, <1>4, <1>6, YetCounted DEF ToCome, Replenished, NumbersOK
  <2>2. stock[i] >= 10 * a
    BY <1>3, <1>4 DEF RetryInv, CoveredAt, RetryAt, LargestConsumption
  <2>3. stock[i] \in Int
    BY <1>1 DEF NumbersOK
  <2> HIDE DEF a
  <2> QED
    BY <2>1, <2>2, <2>3
<1> QED
  BY <1>1, <1>2, <1>3, <1>7 DEF NumbersOK

\* The retry of actionConsumeItemRetry, after its one restock, never finds the
\* item short again while the requests that have arrived since the start are no
\* more than one replenishment covers, however the other housekeepers' consuming
\* steps fall between the restock and the retry.
THEOREM RetryFinds == Spec => []RetryFindsStock
<1>1. Init => RetryInv
  BY StartCovers DEF Init
<1>2. IInv /\ IInv' /\ RetryInv /\ [Next]_vars => RetryInv'
  BY NextRetryInv
<1>3. IInv /\ RetryInv => RetryFindsStock
  BY CoveredRetry
<1> QED
  BY <1>1, <1>2, <1>3, Invariance, PTL DEF Spec
=============================================================================
