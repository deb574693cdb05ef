-------------------------- MODULE StaffStockProofs --------------------------
(***************************************************************************)
(* Proofs about StaffStock for every number of employees, every initial    *)
(* stock, every channel capacity and every bound: the inductive invariant  *)
(* IInv, and from it the invariants the runs check.                        *)
(***************************************************************************)
EXTENDS StaffStock, SequenceTheorems, FiniteSetTheorems, TLAPS

-----------------------------------------------------------------------------
\* What the steps of the housekeeper's switch look like: how many there are,
\* and what each kind of step refers to.  No step consumes soap or more than
\* ten of an item.
LEMMA StepShape ==
    ASSUME NEW t
    PROVE  /\ Len(CleaningSteps(t)) \in 0..4
           /\ \A n \in 1..Len(CleaningSteps(t)) :
                /\ CleaningSteps(t)[n].kind = "consume" =>
                     /\ CleaningSteps(t)[n].arg \in Items \ {"soap"}
                     /\ CleaningSteps(t)[n].quantity \in 1..10
                /\ CleaningSteps(t)[n].kind = "laundry" =>
                     CleaningSteps(t)[n].arg \in {"towels", "linens"}
                /\ CleaningSteps(t)[n].kind = "status" =>
                     CleaningSteps(t)[n].arg \in CleaningStatuses
<1> USE DEF CleaningSteps, consume, laundry, setStatus, CleaningStatuses
<1>1. CASE t = "PREPARE_FOR_GUEST"
  BY <1>1, ItemsAssumption
<1>2. CASE t = "DAILY_CLEANING"
  BY <1>2, ItemsAssumption
<1>3. CASE t = "FULL_CLEANING"
  BY <1>3, ItemsAssumption
<1>4. CASE t = "PREPARE_FOR_SLEEP"
  BY <1>4, ItemsAssumption
<1>5. CASE t \notin KnownTypes
  BY <1>5 DEF KnownTypes
<1> QED
  BY <1>1, <1>2, <1>3, <1>4, <1>5 DEF KnownTypes

\* Taking the first request of a channel.
LEMMA ReceiveType ==
    ASSUME NEW S, NEW q \in Seq(S), q # <<>>
    PROVE  Head(q) \in S /\ Tail(q) \in Seq(S) /\ Len(Tail(q)) = Len(q) - 1 /\ Len(q) \in Nat
BY HeadTailProperties, LenProperties

\* Sending a request keeps the channel a sequence of requests, one longer.
LEMMA SendType ==
    ASSUME NEW S, NEW q \in Seq(S), NEW x \in S
    PROVE  Append(q, x) \in Seq(S) /\ Len(Append(q, x)) = Len(q) + 1 /\ Len(q) \in Nat
BY AppendProperties, LenProperties

\* ConsumeItem keeps every quantity natural and raises none; the insufficient
\* error is returned only on a real shortage.
LEMMA ConsumeFacts ==
    ASSUME StockTypeOK, StockNeverNegative,
           NEW item \in Items, NEW quantity \in Nat, NEW err, ConsumeItem(item, quantity, err)
    PROVE  /\ StockTypeOK' /\ StockNeverNegative'
           /\ \A i \in Items : stock'[i] <= stock[i]
           /\ err = "insufficient" => stock' = stock /\ stock[item] < quantity
BY DEF StockTypeOK, StockNeverNegative, ConsumeItem, DecrementIfEnough

\* RestockItem raises the one item by at most the quantity.
LEMMA RestockFacts ==
    ASSUME StockTypeOK, StockNeverNegative,
           NEW item \in Items, NEW quantity \in Nat, NEW err, RestockItem(item, quantity, err)
    PROVE  /\ StockTypeOK' /\ StockNeverNegative'
           /\ stock'[item] <= stock[item] + quantity
           /\ \A i \in Items \ {item} : stock'[i] = stock[i]
BY DEF StockTypeOK, StockNeverNegative, RestockItem, Increment

\* UpdateCleaningStatus keeps the documents' type.
LEMMA StatusFacts ==
    ASSUME CottageTypeOK, NEW room, NEW status \in CleaningStatuses, NEW err,
           UpdateCleaningStatus(room, status, err)
    PROVE  CottageTypeOK'
BY DEF CottageTypeOK, UpdateCleaningStatus

-----------------------------------------------------------------------------
\* The three ways a step may treat one item's budget of replenishments.

\* The replenishments of item i already decided fit in its limit.
FitsAt(i) == stock[i] + stockReplenishmentQuantity * PendingRestocks(i) <= StockLimit(i)

\* Pending restockers are employees, so there are finitely many.
PendingOK(i) ==
    /\ IsFiniteSet(HkPending(i)) /\ IsFiniteSet(LdPending(i)) /\ IsFiniteSet(StPending(i))
    /\ Cardinality(HkPending(i)) \in 0..Cardinality(Housekeepers)
    /\ Cardinality(LdPending(i)) \in 0..Cardinality(Launderers)
    /\ Cardinality(StPending(i)) \in 0..Cardinality(Stockers)

\* The numbers of employees are natural numbers.
LEMMA EmployeesFinite ==
    /\ Cardinality(Housekeepers) \in Nat
    /\ Cardinality(Launderers) \in Nat
    /\ Cardinality(Stockers) \in Nat
BY EmployeesAssumption, FS_CardinalityType

\* There are never more pending restocks than employees.
LEMMA PendingFinite ==
    ASSUME NEW i
    PROVE  PendingOK(i) /\ PendingOK(i)'
<1>1. /\ HkPending(i) \subseteq Housekeepers
      /\ LdPending(i) \subseteq Launderers
      /\ StPending(i) \subseteq Stockers
  BY DEF HkPending, LdPending, StPending
<1>2. /\ HkPending(i)' \subseteq Housekeepers
      /\ LdPending(i)' \subseteq Launderers
      /\ StPending(i)' \subseteq Stockers
  BY DEF HkPending, LdPending, StPending
<1>3. PendingOK(i)
  BY <1>1, EmployeesAssumption, FS_Subset, FS_CardinalityType DEF PendingOK
<1>4. PendingOK(i)'
  BY <1>2, EmployeesAssumption, FS_Subset, FS_CardinalityType DEF PendingOK
<1> QED
  BY <1>3, <1>4

\* Every limit is at least one replenishment per restocker above the level.
LEMMA LimitFacts ==
    ASSUME NEW i \in Items
    PROVE  /\ StockLimit(i) \in Nat
           /\ Restockers(i) \in Nat
           /\ DecisionLevel(i) - 1 + 50 * Restockers(i) <= StockLimit(i)
           /\ InitialStock[i] <= StockLimit(i)
BY EmployeesFinite, InitialStockAssumption
   DEF StockLimit, Restockers, DecisionLevel, stockReplenishmentQuantity

\* (1) The stock does not grow and nobody new decides.
LEMMA FitLess ==
    ASSUME NEW i \in Items, FitsAt(i), stock[i] \in Int, stock'[i] \in Int,
           stock'[i] <= stock[i],
           HkPending(i)' \subseteq HkPending(i),
           LdPending(i)' \subseteq LdPending(i),
           StPending(i)' \subseteq StPending(i)
    PROVE  FitsAt(i)'
<1>1. /\ Cardinality(HkPending(i))' <= Cardinality(HkPending(i))
      /\ Cardinality(LdPending(i))' <= Cardinality(LdPending(i))
      /\ Cardinality(StPending(i))' <= Cardinality(StPending(i))
  BY PendingFinite, FS_Subset DEF PendingOK
<1>2. PendingRestocks(i)' <= PendingRestocks(i) /\ PendingRestocks(i) \in Nat /\ PendingRestocks(i)' \in Nat
  BY <1>1, PendingFinite, EmployeesFinite DEF PendingOK, PendingRestocks
<1>3. StockLimit(i)' = StockLimit(i)
  BY DEF StockLimit, Restockers, DecisionLevel, stockReplenishmentQuantity
<1> QED
  BY <1>2, <1>3, LimitFacts DEF FitsAt, stockReplenishmentQuantity

\* (2) The stock is below the decision level, whoever decides.
LEMMA FitDecide ==
    ASSUME NEW i \in Items, stock'[i] \in Int, stock'[i] < DecisionLevel(i),
           i = "soap" => HkPending(i)' = {}
    PROVE  FitsAt(i)'
<1>1. PendingRestocks(i)' <= Restockers(i) /\ PendingRestocks(i)' \in Nat
  <2>1. CASE i = "soap"
    <3>1. Cardinality(HkPending(i))' = 0
      BY <2>1, FS_EmptySet
    <3> QED
      BY <2>1, <3>1, PendingFinite, EmployeesFinite DEF PendingOK, PendingRestocks, Restockers
  <2>2. CASE i # "soap"
    <3>1. LdPending(i)' = {}
      BY <2>2 DEF LdPending
    <3>2. Cardinality(LdPending(i))' = 0
      BY <3>1, FS_EmptySet
    <3> QED
      BY <2>2, <3>2, PendingFinite, EmployeesFinite DEF PendingOK, PendingRestocks, Restockers
  <2> QED
    BY <2>1, <2>2
<1>2. StockLimit(i)' = StockLimit(i)
  BY DEF StockLimit, Restockers, DecisionLevel, stockReplenishmentQuantity
<1>3. DecisionLevel(i) \in Nat
  BY DEF DecisionLevel
<1> QED
  BY <1>1, <1>2, <1>3, LimitFacts DEF FitsAt, stockReplenishmentQuantity

\* One pending restocker fewer.
OneLess(i) ==
    \/ /\ \E w \in HkPending(i) : HkPending(i)' \subseteq HkPending(i) \ {w}
       /\ LdPending(i)' \subseteq LdPending(i)
       /\ StPending(i)' \subseteq StPending(i)
    \/ /\ \E w \in LdPending(i) : LdPending(i)' \subseteq LdPending(i) \ {w}
       /\ HkPending(i)' \subseteq HkPending(i)
       /\ StPending(i)' \subseteq StPending(i)
    \/ /\ \E w \in StPending(i) : StPending(i)' \subseteq StPending(i) \ {w}
       /\ HkPending(i)' \subseteq HkPending(i)
       /\ LdPending(i)' \subseteq LdPending(i)

\* A subset that misses an element is smaller.
LEMMA CardLess ==
    ASSUME NEW S, NEW T, IsFiniteSet(S), NEW w \in S, T \subseteq S \ {w}
    PROVE  Cardinality(T) <= Cardinality(S) - 1
<1>1. IsFiniteSet(S \ {w}) /\ Cardinality(S \ {w}) = Cardinality(S) - 1
  BY FS_RemoveElement
<1> QED
  BY <1>1, FS_Subset

\* (3) A pending restock is carried out: the stock rises, the pending ones fall.
LEMMA FitRestock ==
    ASSUME NEW i \in Items, FitsAt(i), stock[i] \in Int, stock'[i] \in Int,
           stock'[i] <= stock[i] + stockReplenishmentQuantity, OneLess(i)
    PROVE  FitsAt(i)'
<1>1. PendingRestocks(i)' <= PendingRestocks(i) - 1 /\ PendingRestocks(i) \in Nat
      /\ PendingRestocks(i)' \in Nat
  <2>1. CASE /\ \E w \in HkPending(i) : HkPending(i)' \subseteq HkPending(i) \ {w}
             /\ LdPending(i)' \subseteq LdPending(i)
             /\ StPending(i)' \subseteq StPending(i)
    <3>1. /\ Cardinality(HkPending(i))' <= Cardinality(HkPending(i)) - 1
          /\ Cardinality(LdPending(i))' <= Cardinality(LdPending(i))
          /\ Cardinality(StPending(i))' <= Cardinality(StPending(i))
      BY <2>1, PendingFinite, FS_Subset, CardLess DEF PendingOK
    <3> QED
      BY <3>1, PendingFinite, EmployeesFinite DEF PendingOK, PendingRestocks
  <2>2. CASE /\ \E w \in LdPending(i) : LdPending(i)' \subseteq LdPending(i) \ {w}
             /\ HkPending(i)' \subseteq HkPending(i)
             /\ StPending(i)' \subseteq StPending(i)
    <3>1. /\ Cardinality(LdPending(i))' <= Cardinality(LdPending(i)) - 1
          /\ Cardinality(HkPending(i))' <= Cardinality(HkPending(i))
          /\ Cardinality(StPending(i))' <= Cardinality(StPending(i))
      BY <2>2, PendingFinite, FS_Subset, CardLess DEF PendingOK
    <3> QED
      BY <3>1, PendingFinite, EmployeesFinite DEF PendingOK, PendingRestocks
  <2>3. CASE /\ \E w \in StPending(i) : StPending(i)' \subseteq StPending(i) \ {w}
             /\ HkPending(i)' \subseteq HkPending(i)
             /\ LdPending(i)' \subseteq LdPending(i)
    <3>1. /\ Cardinality(StPending(i))' <= Cardinality(StPending(i)) - 1
          /\ Cardinality(HkPending(i))' <= Cardinality(HkPending(i))
          /\ Cardinality(LdPending(i))' <= Cardinality(LdPending(i))
      BY <2>3, PendingFinite, FS_Subset, CardLess DEF PendingOK
    <3> QED
      BY <3>1, PendingFinite, EmployeesFinite DEF PendingOK, PendingRestocks
  <2> QED
    BY <2>1, <2>2, <2>3 DEF OneLess
<1>2. StockLimit(i)' = StockLimit(i)
  BY DEF StockLimit, Restockers, DecisionLevel, stockReplenishmentQuantity
<1> QED
  BY <1>1, <1>2, LimitFacts DEF FitsAt, stockReplenishmentQuantity

-----------------------------------------------------------------------------
\* The initial state.

\* What holds of the memory of a process that has just started.
Started ==
    /\ ChannelsTypeOK /\ Hours!RegistryTypeOK
    /\ HkTypeOK /\ StTypeOK /\ LdTypeOK
    /\ HkLocals /\ StLocals /\ LdLocals
    /\ cleaningCount \in 0..MaxCleaning /\ restockCount \in 0..MaxRestock
    /\ \A i : HkPending(i) = {} /\ LdPending(i) = {} /\ StPending(i) = {}

\* A started process has that memory.
LEMMA ProcessStart == ProcessInit => Started
<1> SUFFICES ASSUME ProcessInit PROVE Started
  OBVIOUS
<1>1. ChannelsTypeOK
  <2>1. \A S : <<>> \in Seq(S) /\ Len(<<>>) = 0
    BY EmptySeq
  <2>2. ctxDone \in BOOLEAN
    BY DEF ProcessInit
  <2>3. cleaningCh = <<>> /\ laundererCh = <<>> /\ stockerCh = <<>>
    BY DEF ProcessInit, ChannelsInit
  <2> QED
    BY <2>1, <2>2, <2>3, CapAssumption DEF ChannelsTypeOK
<1>2. Hours!RegistryTypeOK
  BY DEF ProcessInit, Hours!RegistryInit, Hours!RegistryTypeOK
<1>3. HkTypeOK
  BY DEF ProcessInit, HkInit, HkPool!WorkInit, HkPool!NewEmployees, HkTypeOK, HkPool!EmployeeStatus
<1>4. StTypeOK
  BY DEF ProcessInit, StInit, StPool!WorkInit, StPool!NewEmployees, StTypeOK, StPool!EmployeeStatus, NoSnapshot
<1>5. LdTypeOK
  BY ChansAssumption
     DEF ProcessInit, LdInit, LdPool!WorkInit, LdPool!NewEmployees, LdTypeOK, LdPool!EmployeeStatus, ElapsedCap, washTable
<1>6. HkLocals /\ StLocals /\ LdLocals
  BY DEF ProcessInit, HkInit, StInit, LdInit, HkPool!WorkInit, StPool!WorkInit, LdPool!WorkInit,
         HkPool!NewEmployees, StPool!NewEmployees, LdPool!NewEmployees,
         HkLocals, StLocals, LdLocals
<1>7. \A i : HkPending(i) = {} /\ LdPending(i) = {} /\ StPending(i) = {}
  BY DEF ProcessInit, HkInit, StInit, LdInit, HkPool!WorkInit, StPool!WorkInit, LdPool!WorkInit,
         HkPool!NewEmployees, StPool!NewEmployees, LdPool!NewEmployees,
         HkPending, LdPending, StPending
<1>8. cleaningCount \in 0..MaxCleaning /\ restockCount \in 0..MaxRestock
  BY BoundsAssumption DEF ProcessInit
<1> QED
  BY <1>1, <1>2, <1>3, <1>4, <1>5, <1>6, <1>7, <1>8 DEF Started

\* A restart leaves the memory as a first start does.
LEMMA RestartIsStart == ProcessRestart => ProcessInit'
<1> SUFFICES ASSUME ProcessRestart PROVE ProcessInit'
  OBVIOUS
<1>1. ChannelsInit' /\ Hours!RegistryInit'
  BY DEF ProcessRestart, ChannelsRestart, Hours!RegistryRestart, ChannelsInit, Hours!RegistryInit
<1>2. HkInit'
  BY DEF ProcessRestart, HkRestart, HkPool!WorkRestart, HkInit, HkPool!WorkInit, HkPool!NewEmployees
<1>3. StInit'
  BY DEF ProcessRestart, StRestart, StPool!WorkRestart, StInit, StPool!WorkInit, StPool!NewEmployees,
         NoSnapshot
<1>4. LdInit'
  BY DEF ProcessRestart, LdRestart, LdPool!WorkRestart, LdInit, LdPool!WorkInit, LdPool!NewEmployees
<1> QED
  BY <1>1, <1>2, <1>3, <1>4 DEF ProcessRestart, ProcessInit

\* So the same holds of a process that is started again.
LEMMA RestartStarted == ProcessRestart => Started'
<1>1. ProcessInit' => Started'
  BY ProcessStart, PTL
<1> QED
  BY <1>1, RestartIsStart

\* The invariant holds initially.
LEMMA InitIInv == Init => IInv
<1> SUFFICES ASSUME Init PROVE IInv
  OBVIOUS
<1>1. Started
  BY ProcessStart DEF Init
<1>2. StockTypeOK /\ CottageTypeOK /\ StockNeverNegative /\ crashes \in 0..MaxCrashes
  BY InitialStockAssumption, BoundsAssumption
     DEF Init, StockInit, CottageInit, StockTypeOK, CottageTypeOK, StockNeverNegative
<1>3. ReplenishmentsFit
  <2> SUFFICES ASSUME NEW i \in Items
               PROVE  stock[i] + stockReplenishmentQuantity * PendingRestocks(i) <= StockLimit(i)
    BY DEF ReplenishmentsFit
  <2>1. PendingRestocks(i) = 0
    BY <1>1, FS_EmptySet DEF Started, PendingRestocks
  <2> QED
    BY <2>1, LimitFacts, InitialStockAssumption DEF Init, StockInit, stockReplenishmentQuantity
<1> QED
  BY <1>1, <1>2, <1>3 DEF Started, IInv, TypeOK

-----------------------------------------------------------------------------
\* Frames: a step that leaves a component's variables alone keeps its part of
\* the invariant, and its pending restocks.

\* The housekeepers' part.
LEMMA HkFrame ==
    ASSUME HkTypeOK, HkLocals, UNCHANGED hkVars
    PROVE  HkTypeOK' /\ HkLocals' /\ \A i : HkPending(i)' = HkPending(i)
BY DEF hkVars, HkTypeOK, HkLocals, HkPending, HkCurrentStep, HkSteps, HkRequest

\* The stockers' part.
LEMMA StFrame ==
    ASSUME StTypeOK, StLocals, UNCHANGED stVars
    PROVE  StTypeOK' /\ StLocals' /\ \A i : StPending(i)' = StPending(i)
BY DEF stVars, StTypeOK, StLocals, StPending, StItems

\* The launderers' part.
LEMMA LdFrame ==
    ASSUME LdTypeOK, LdLocals, UNCHANGED ldVars
    PROVE  LdTypeOK' /\ LdLocals' /\ \A i : LdPending(i)' = LdPending(i)
BY DEF ldVars, LdTypeOK, LdLocals, LdPending

-----------------------------------------------------------------------------
\* The housekeepers.

\* A request's steps number at most four.
LEMMA HkStepCount == \A h : Len(HkSteps(h)) \in 0..4
BY StepShape DEF HkSteps

\* Where an attempt to consume is under way, the step is a consuming one.
LEMMA HkConsumingStep ==
    ASSUME HkTypeOK, HkLocals, NEW h \in Housekeepers,
           hkPhase[h] \in {"restock", "retry"} \/ HkAt(h, "consume")
    PROVE  /\ hkStep[h] \in 1..Len(HkSteps(h))
           /\ HkCurrentStep(h).kind = "consume"
           /\ HkCurrentStep(h).arg \in Items \ {"soap"}
           /\ HkCurrentStep(h).quantity \in 1..10
<1>1. hkStep[h] \in 1..Len(HkSteps(h)) /\ HkCurrentStep(h).kind = "consume"
  BY HkStepCount DEF HkTypeOK, HkLocals, HkAt
<1> QED
  BY <1>1, StepShape DEF HkCurrentStep, HkSteps

\* Going on to the next step keeps the housekeepers' part of the invariant and
\* ends a pending restock of h.
LEMMA HkNextStepFacts ==
    ASSUME HkTypeOK, HkLocals, NEW h \in Housekeepers, HkNextStep(h),
           hkPhase[h] \in {"work", "restock", "retry"}, hkStep[h] <= Len(HkSteps(h))
    PROVE  /\ HkTypeOK' /\ HkLocals'
           /\ \A i : HkPending(i)' = HkPending(i) \ {h}
<1>1. HkTypeOK'
  <2>1. hkStep[h] + 1 \in 0..5
    <3> DEFINE count == Len(HkSteps(h))
    <3>1. count \in 0..4
      BY HkStepCount
    <3>2. hkStep[h] \in 0..5
      BY DEF HkTypeOK
    <3>3. hkStep[h] <= count
      OBVIOUS
    <3> HIDE DEF count
    <3> QED
      BY <3>1, <3>2, <3>3
  <2> QED
    BY <2>1 DEF HkTypeOK, HkNextStep
<1>2. HkLocals'
  BY DEF HkTypeOK, HkLocals, HkNextStep, HkCurrentStep, HkSteps, HkRequest
<1>3. \A i : HkPending(i)' = HkPending(i) \ {h}
  BY DEF HkTypeOK, HkNextStep, HkPending, HkCurrentStep, HkSteps, HkRequest
<1> QED
  BY <1>1, <1>2, <1>3

\* So does a move between the attempts of a consuming step; only the item of
\* that step can get a new pending restock.
LEMMA HkGotoFacts ==
    ASSUME HkTypeOK, HkLocals, NEW h \in Housekeepers, NEW p \in {"restock", "retry"}, HkGoto(h, p),
           hkPhase[h] \in {"work", "restock", "retry"},
           hkStep[h] \in 1..Len(HkSteps(h)), HkCurrentStep(h).kind = "consume"
    PROVE  /\ HkTypeOK' /\ HkLocals'
           /\ p = "retry" => \A i : HkPending(i)' = HkPending(i) \ {h}
           /\ \A i : i # HkCurrentStep(h).arg => HkPending(i)' \subseteq HkPending(i)
<1>1. HkTypeOK'
  BY DEF HkTypeOK, HkGoto
<1>2. HkLocals'
  BY DEF HkTypeOK, HkLocals, HkGoto, HkCurrentStep, HkSteps, HkRequest
<1>3. p = "retry" => \A i : HkPending(i)' = HkPending(i) \ {h}
  BY DEF HkTypeOK, HkGoto, HkPending, HkCurrentStep, HkSteps, HkRequest
<1>4. \A i : i # HkCurrentStep(h).arg => HkPending(i)' \subseteq HkPending(i)
  BY DEF HkTypeOK, HkGoto, HkPending, HkCurrentStep, HkSteps, HkRequest
<1> QED
  BY <1>1, <1>2, <1>3, <1>4

\* The return of work.
LEMMA HkReturnFacts ==
    ASSUME HkTypeOK, HkLocals, NEW h \in Housekeepers, HkPool!WorkReturns(h),
           hkStep' = [hkStep EXCEPT ![h] = 0] \/ UNCHANGED hkStep
    PROVE  /\ HkTypeOK' /\ HkLocals'
           /\ \A i : HkPending(i)' \subseteq HkPending(i)
<1> USE DEF HkPool!WorkReturns, HkPool!setEmployeeIdleStatus
<1>1. HkTypeOK'
  BY DEF HkTypeOK, HkPool!EmployeeStatus
<1>2. HkLocals'
  BY DEF HkTypeOK, HkLocals, HkCurrentStep, HkSteps, HkRequest
<1>3. \A i : HkPending(i)' \subseteq HkPending(i)
  BY DEF HkTypeOK, HkPending, HkCurrentStep, HkSteps, HkRequest
<1> QED
  BY <1>1, <1>2, <1>3

\* No housekeeper ever has soap to restock.
LEMMA HkNoSoap ==
    ASSUME HkTypeOK, HkLocals
    PROVE  HkPending("soap") = {}
BY HkConsumingStep DEF HkPending

\* Every step of a housekeeper preserves the invariant.
LEMMA HousekeeperPreserves ==
    ASSUME IInv, NEW h \in Housekeepers, HousekeeperStep(h)
    PROVE  IInv'
<1> USE DEF channelVars
<1>1. /\ ChannelsTypeOK /\ StockTypeOK /\ CottageTypeOK /\ Hours!RegistryTypeOK
      /\ HkTypeOK /\ HkLocals /\ StTypeOK /\ StLocals /\ LdTypeOK /\ LdLocals
      /\ StockNeverNegative
      /\ cleaningCount \in 0..MaxCleaning /\ restockCount \in 0..MaxRestock
      /\ crashes \in 0..MaxCrashes
      /\ ctxDone \in BOOLEAN
      /\ \A i \in Items : FitsAt(i)
  BY DEF IInv, TypeOK, ChannelsTypeOK, ReplenishmentsFit, FitsAt
<1>2. UNCHANGED <<ctxDone, hourVars, stVars, ldVars, envVars>> /\ HkStepOf(h)
  BY DEF HousekeeperStep
<1>3. /\ StTypeOK' /\ StLocals' /\ (\A i : StPending(i)' = StPending(i))
      /\ LdTypeOK' /\ LdLocals' /\ (\A i : LdPending(i)' = LdPending(i))
  BY <1>1, <1>2, StFrame, LdFrame
<1>4. /\ Hours!RegistryTypeOK' /\ ctxDone' \in BOOLEAN
      /\ cleaningCount' \in 0..MaxCleaning /\ restockCount' \in 0..MaxRestock
      /\ crashes' \in 0..MaxCrashes
  BY <1>1, <1>2 DEF Hours!RegistryTypeOK, hourVars, envVars
<1> DEFINE Others == /\ ChannelsTypeOK' /\ StockTypeOK' /\ CottageTypeOK'
                     /\ StockNeverNegative' /\ HkTypeOK' /\ HkLocals'
           Goal == Others /\ ReplenishmentsFit'
\* A step that consumes or leaves the stock, and decides nothing.
<1>5. /\ Others
      /\ \A i \in Items : stock'[i] <= stock[i]
      /\ \A i \in Items : HkPending(i)' \subseteq HkPending(i)
      => Goal
  <2> SUFFICES ASSUME Others, NEW i \in Items, stock'[i] <= stock[i],
                      HkPending(i)' \subseteq HkPending(i)
               PROVE  FitsAt(i)'
    BY DEF ReplenishmentsFit, FitsAt
  <2>1. stock[i] \in Int /\ stock'[i] \in Int
    BY <1>1 DEF StockTypeOK
  <2> QED
    BY <1>1, <1>3, <2>1, FitLess
\* The stock is untouched by most steps.
<1>6. stock' = stock =>
        StockTypeOK' /\ StockNeverNegative' /\ \A i \in Items : stock'[i] <= stock[i]
  BY <1>1 DEF StockTypeOK, StockNeverNegative
<1>7. cleaningStatus' = cleaningStatus => CottageTypeOK'
  BY <1>1 DEF CottageTypeOK
<1>8. cleaningCh' = cleaningCh /\ laundererCh' = laundererCh /\ stockerCh' = stockerCh
        => ChannelsTypeOK'
  BY <1>1, <1>2 DEF ChannelsTypeOK
<1>9. SUFFICES Goal
  BY <1>3, <1>4 DEF IInv, TypeOK
<1>10. CASE HkReceive(h)
  <2>1. /\ HkPool!ReceiveRequest(h)
        /\ UNCHANGED <<hkStep, laundererCh, stockerCh, stock, cleaningStatus>>
    BY <1>10 DEF HkReceive
  <2>2. /\ Head(cleaningCh) \in CleaningRequests /\ Tail(cleaningCh) \in Seq(CleaningRequests)
        /\ Len(Tail(cleaningCh)) = Len(cleaningCh) - 1 /\ Len(cleaningCh) \in Nat
    BY <1>1, <2>1, ReceiveType DEF ChannelsTypeOK, HkPool!ReceiveRequest
  <2>3. ChannelsTypeOK'
    BY <1>1, <1>2, <2>1, <2>2, CapAssumption DEF ChannelsTypeOK, HkPool!ReceiveRequest
  <2>4. HkTypeOK'
    BY <1>1, <2>1, <2>2
       DEF HkTypeOK, HkPool!ReceiveRequest
  <2>5. HkLocals'
    BY <1>1, <2>1, <2>2
       DEF HkTypeOK, HkLocals, HkCurrentStep, HkSteps, HkRequest, HkPool!ReceiveRequest
  <2>6. \A i \in Items : HkPending(i)' \subseteq HkPending(i)
    BY <1>1, <2>1
       DEF HkTypeOK, HkPending, HkCurrentStep, HkSteps, HkRequest, HkPool!ReceiveRequest
  <2> QED
    BY <2>1, <2>3, <2>4, <2>5, <2>6, <1>5, <1>6, <1>7
<1>11. CASE HkStop(h)
  <2>1. /\ HkPool!StopOnCancel(h)
        /\ UNCHANGED <<cleaningCh, laundererCh, stockerCh, stock, cleaningStatus,
                       hkStep, hkTaken, hkEmployees>>
    BY <1>11 DEF HkStop, HkPool!StopOnCancel
  <2>2. HkTypeOK'
    BY <1>1, <2>1 DEF HkTypeOK, HkPool!StopOnCancel
  <2>3. HkLocals'
    BY <1>1, <2>1 DEF HkTypeOK, HkLocals, HkCurrentStep, HkSteps, HkRequest, HkPool!StopOnCancel
  <2>4. \A i \in Items : HkPending(i)' \subseteq HkPending(i)
    BY <1>1, <2>1 DEF HkTypeOK, HkPending, HkCurrentStep, HkSteps, HkRequest, HkPool!StopOnCancel
  <2> QED
    BY <2>1, <2>2, <2>3, <2>4, <1>5, <1>6, <1>7, <1>8
<1>12. CASE HkClock(h)
  <2>1. UNCHANGED <<cleaningCh, laundererCh, stockerCh, stock, cleaningStatus>>
    BY <1>12 DEF HkClock
  <2>2. CASE /\ hkPhase' = [hkPhase EXCEPT ![h] = "work"]
             /\ hkStep' = [hkStep EXCEPT ![h] = 1]
             /\ UNCHANGED <<hkEmployees, hkTaken>>
    <3>1. HkTypeOK'
      BY <1>1, <2>2 DEF HkTypeOK
    <3>2. HkLocals'
      BY <1>1, <1>12, <2>2 DEF HkTypeOK, HkLocals, HkClock, HkCurrentStep, HkSteps, HkRequest
    <3>3. \A i \in Items : HkPending(i)' \subseteq HkPending(i)
      BY <1>1, <2>2 DEF HkTypeOK, HkPending, HkCurrentStep, HkSteps, HkRequest
    <3> QED
      BY <2>1, <3>1, <3>2, <3>3, <1>5, <1>6, <1>7, <1>8
  <2>3. CASE HkPool!WorkReturns(h) /\ UNCHANGED hkStep
    <3>1. HkTypeOK' /\ HkLocals' /\ \A i : HkPending(i)' \subseteq HkPending(i)
      BY <1>1, <2>3, HkReturnFacts
    <3> QED
      BY <2>1, <3>1, <1>5, <1>6, <1>7, <1>8
  <2> QED
    BY <1>12, <2>2, <2>3 DEF HkClock
<1>13. CASE HkConsume(h)
  <2>1. UNCHANGED <<cleaningCh, laundererCh, stockerCh, cleaningStatus>> /\ HkAt(h, "consume")
    BY <1>13 DEF HkConsume
  <2>2. /\ hkStep[h] \in 1..Len(HkSteps(h)) /\ HkCurrentStep(h).kind = "consume"
        /\ HkCurrentStep(h).arg \in Items \ {"soap"} /\ HkCurrentStep(h).quantity \in 1..10
    BY <1>1, <2>1, HkConsumingStep
  <2>3. PICK err \in {"nil", "insufficient", "failed"} :
           /\ ConsumeItem(HkCurrentStep(h).arg, HkCurrentStep(h).quantity, err)
           /\ IF err = "insufficient" THEN HkGoto(h, "restock") ELSE HkNextStep(h)
    BY <1>13 DEF HkConsume
  <2>4. /\ StockTypeOK' /\ StockNeverNegative'
        /\ \A i \in Items : stock'[i] <= stock[i]
        /\ err = "insufficient" => stock' = stock /\ stock[HkCurrentStep(h).arg] < HkCurrentStep(h).quantity
    <3>1. HkCurrentStep(h).arg \in Items /\ HkCurrentStep(h).quantity \in Nat
      BY <2>2
    <3> QED
      BY <1>1, <2>3, <3>1, ConsumeFacts
  <2>5. hkPhase[h] = "work" /\ hkStep[h] <= Len(HkSteps(h))
    BY <2>1 DEF HkAt
  <2>6. CASE err = "insufficient"
    <3>1. /\ HkTypeOK' /\ HkLocals'
          /\ \A i : i # HkCurrentStep(h).arg => HkPending(i)' \subseteq HkPending(i)
      BY <1>1, <2>2, <2>3, <2>5, <2>6, HkGotoFacts
    <3>2. Others
      BY <2>1, <2>4, <3>1, <1>7, <1>8
    <3>3. ASSUME NEW i \in Items PROVE FitsAt(i)'
      <4>1. stock[i] \in Int /\ stock'[i] \in Int
        BY <1>1, <2>4 DEF StockTypeOK
      <4>2. CASE i = HkCurrentStep(h).arg
        <5>1. i # "soap" /\ stock'[i] < 10
          BY <2>2, <2>4, <2>6, <4>1, <4>2
        <5> QED
          BY <4>1, <5>1, FitDecide DEF DecisionLevel
      <4>3. CASE i # HkCurrentStep(h).arg
        BY <1>1, <1>3, <2>4, <3>1, <4>1, <4>3, FitLess
      <4> QED
        BY <4>2, <4>3
    <3> QED
      BY <3>2, <3>3 DEF ReplenishmentsFit, FitsAt
  <2>7. CASE err # "insufficient"
    <3>1. /\ HkTypeOK' /\ HkLocals' /\ \A i : HkPending(i)' = HkPending(i) \ {h}
      BY <1>1, <2>3, <2>5, <2>7, HkNextStepFacts
    <3> QED
      BY <2>1, <2>4, <3>1, <1>5, <1>7, <1>8
  <2> QED
    BY <2>6, <2>7
<1>14. CASE HkRestock(h)
  <2>1. UNCHANGED <<cleaningCh, laundererCh, stockerCh, cleaningStatus>> /\ hkPhase[h] = "restock"
    BY <1>14 DEF HkRestock
  <2>2. /\ hkStep[h] \in 1..Len(HkSteps(h)) /\ HkCurrentStep(h).kind = "consume"
        /\ HkCurrentStep(h).arg \in Items \ {"soap"}
    BY <1>1, <2>1, HkConsumingStep
  <2>3. PICK err \in {"nil", "failed"} :
           /\ RestockItem(HkCurrentStep(h).arg, stockReplenishmentQuantity, err)
           /\ IF err = "nil" THEN HkGoto(h, "retry") ELSE HkNextStep(h)
    BY <1>14 DEF HkRestock, ImmediateRestock
  <2>4. stockReplenishmentQuantity \in Nat
    BY DEF stockReplenishmentQuantity
  <2>5. /\ StockTypeOK' /\ StockNeverNegative'
        /\ stock'[HkCurrentStep(h).arg] <= stock[HkCurrentStep(h).arg] + stockReplenishmentQuantity
        /\ \A i \in Items \ {HkCurrentStep(h).arg} : stock'[i] = stock[i]
    BY <1>1, <2>2, <2>3, <2>4, RestockFacts
  <2>6. hkStep[h] <= Len(HkSteps(h))
    BY <1>1, <2>1 DEF HkLocals
  <2>7. HkTypeOK' /\ HkLocals' /\ \A i : HkPending(i)' = HkPending(i) \ {h}
    BY <1>1, <2>1, <2>2, <2>3, <2>6, HkGotoFacts, HkNextStepFacts
  <2>8. Others
    BY <2>1, <2>5, <2>7, <1>7, <1>8
  <2>9. ASSUME NEW i \in Items PROVE FitsAt(i)'
    <3>1. stock[i] \in Int /\ stock'[i] \in Int
      BY <1>1, <2>5 DEF StockTypeOK
    <3>2. CASE i = HkCurrentStep(h).arg
      <4>1. h \in HkPending(i)
        BY <2>1, <3>2 DEF HkPending
      <4>2. OneLess(i)
        BY <1>3, <2>7, <4>1 DEF OneLess
      <4> QED
        BY <1>1, <2>5, <3>1, <3>2, <4>2, FitRestock
    <3>3. CASE i # HkCurrentStep(h).arg
      BY <1>1, <1>3, <2>5, <2>7, <3>1, <3>3, FitLess
    <3> QED
      BY <3>2, <3>3
  <2> QED
    BY <2>8, <2>9 DEF ReplenishmentsFit, FitsAt
<1>15. CASE HkRetry(h)
  <2>1. UNCHANGED <<cleaningCh, laundererCh, stockerCh, cleaningStatus>> /\ hkPhase[h] = "retry" /\ HkNextStep(h)
    BY <1>15 DEF HkRetry
  <2>2. /\ HkCurrentStep(h).arg \in Items \ {"soap"} /\ HkCurrentStep(h).quantity \in 1..10
    BY <1>1, <2>1, HkConsumingStep
  <2>3. /\ StockTypeOK' /\ StockNeverNegative' /\ \A i \in Items : stock'[i] <= stock[i]
    BY <1>1, <1>15, <2>2, ConsumeFacts DEF HkRetry
  <2>4. hkStep[h] <= Len(HkSteps(h))
    BY <1>1, <2>1 DEF HkLocals
  <2>5. HkTypeOK' /\ HkLocals' /\ \A i : HkPending(i)' = HkPending(i) \ {h}
    BY <1>1, <2>1, <2>4, HkNextStepFacts
  <2> QED
    BY <2>1, <2>3, <2>5, <1>5, <1>7, <1>8
<1>16. CASE HkLaundry(h)
  <2>1. /\ UNCHANGED <<cleaningCh, stockerCh, stock, cleaningStatus>> /\ HkAt(h, "laundry") /\ HkNextStep(h)
        /\ SendWash([RoomName |-> HkRequest(h).RoomName, Item |-> HkCurrentStep(h).arg])
    BY <1>16 DEF HkLaundry
  <2>2. hkPhase[h] = "work" /\ hkStep[h] <= Len(HkSteps(h)) /\ HkCurrentStep(h).kind = "laundry"
    BY <2>1 DEF HkAt
  <2>3. hkStep[h] \in 1..Len(HkSteps(h))
    BY <1>1, <2>2, HkStepCount DEF HkTypeOK, HkLocals
  <2>4. HkCurrentStep(h).arg \in {"towels", "linens"}
    BY <2>2, <2>3, StepShape DEF HkCurrentStep, HkSteps
  <2>5. [RoomName |-> HkRequest(h).RoomName, Item |-> HkCurrentStep(h).arg] \in WashRequests
    BY <1>1, <2>2, <2>4 DEF HkLocals, CleaningRequests, WashRequests
  <2>6. ChannelsTypeOK'
    BY <1>1, <1>2, <2>1, <2>5, SendType, CapAssumption DEF ChannelsTypeOK, SendWash
  <2>7. HkTypeOK' /\ HkLocals' /\ \A i : HkPending(i)' = HkPending(i) \ {h}
    BY <1>1, <2>1, <2>2, HkNextStepFacts
  <2> QED
    BY <2>1, <2>6, <2>7, <1>5, <1>6, <1>7
<1>17. CASE HkUpdateStatus(h)
  <2>1. UNCHANGED <<cleaningCh, laundererCh, stockerCh, stock>> /\ HkAt(h, "status") /\ HkNextStep(h)
    BY <1>17 DEF HkUpdateStatus
  <2>2. hkPhase[h] = "work" /\ hkStep[h] <= Len(HkSteps(h)) /\ HkCurrentStep(h).kind = "status"
    BY <2>1 DEF HkAt
  <2>3. hkStep[h] \in 1..Len(HkSteps(h))
    BY <1>1, <2>2, HkStepCount DEF HkTypeOK, HkLocals
  <2>4. HkCurrentStep(h).arg \in CleaningStatuses
    BY <2>2, <2>3, StepShape DEF HkCurrentStep, HkSteps
  <2>5. CottageTypeOK'
    BY <1>1, <1>17, <2>4, StatusFacts DEF HkUpdateStatus
  <2>6. HkTypeOK' /\ HkLocals' /\ \A i : HkPending(i)' = HkPending(i) \ {h}
    BY <1>1, <2>1, <2>2, HkNextStepFacts
  <2> QED
    BY <2>1, <2>5, <2>6, <1>5, <1>6, <1>8
<1>18. CASE HkFinish(h)
  <2>1. /\ UNCHANGED <<cleaningCh, laundererCh, stockerCh, stock, cleaningStatus>>
        /\ HkPool!WorkReturns(h) /\ hkStep' = [hkStep EXCEPT ![h] = 0]
    BY <1>18 DEF HkFinish
  <2>2. HkTypeOK' /\ HkLocals' /\ \A i : HkPending(i)' \subseteq HkPending(i)
    BY <1>1, <2>1, HkReturnFacts
  <2> QED
    BY <2>1, <2>2, <1>5, <1>6, <1>7, <1>8
<1>19. CASE HkStartWork(h)
  <2>1. /\ HkPool!StartWork(h, "clock")
        /\ UNCHANGED <<hkStep, cleaningCh, laundererCh, stockerCh, stock, cleaningStatus>>
    BY <1>19 DEF HkStartWork, HkPool!StartWork
  <2>2. hkTaken[h] \in CleaningRequests
    BY <1>1, <2>1 DEF HkLocals, HkPool!StartWork
  <2>3. HkTypeOK'
    <3>1. hkEmployees' \in [Housekeepers -> HkPool!EmployeeStatus(CleaningRequests)]
      BY <1>1, <2>1, <2>2
         DEF HkTypeOK, HkPool!StartWork, HkPool!setEmployeeWorkingStatus, HkPool!EmployeeStatus
    <3> QED
      BY <1>1, <2>1, <3>1 DEF HkTypeOK, HkPool!StartWork
  <2>4. HkLocals'
    BY <1>1, <2>1, <2>2
       DEF HkTypeOK, HkLocals, HkCurrentStep, HkSteps, HkRequest,
           HkPool!StartWork, HkPool!setEmployeeWorkingStatus
  <2>5. \A i \in Items : HkPending(i)' \subseteq HkPending(i)
    BY <1>1, <2>1
       DEF HkTypeOK, HkPending, HkCurrentStep, HkSteps, HkRequest,
           HkPool!StartWork, HkPool!setEmployeeWorkingStatus
  <2> QED
    BY <2>1, <2>3, <2>4, <2>5, <1>5, <1>6, <1>7, <1>8
<1> QED
  BY <1>2, <1>10, <1>11, <1>12, <1>13, <1>14, <1>15, <1>16, <1>17, <1>18, <1>19 DEF HkStepOf

-----------------------------------------------------------------------------
\* The stockers.

\* The return of work.
LEMMA StReturnFacts ==
    ASSUME StTypeOK, StLocals, NEW s \in Stockers, StPool!WorkReturns(s),
           \/ UNCHANGED <<stSnapshot, stNext>>
           \/ /\ stSnapshot' = [stSnapshot EXCEPT ![s] = NoSnapshot]
              /\ stNext' = [stNext EXCEPT ![s] = 0]
    PROVE  /\ StTypeOK' /\ StLocals'
           /\ \A i : StPending(i)' \subseteq StPending(i)
<1> USE DEF StPool!WorkReturns, StPool!setEmployeeIdleStatus
<1>1. StTypeOK'
  <2>1. NoSnapshot \in [Items -> Int]
    BY DEF NoSnapshot
  <2>2. stEmployees' \in [Stockers -> StPool!EmployeeStatus(RestockRequests)]
    BY DEF StTypeOK, StPool!EmployeeStatus
  <2>3. stSnapshot' \in [Stockers -> [Items -> Int]]
    BY <2>1 DEF StTypeOK
  <2> QED
    BY <2>2, <2>3, SMTT(30) DEF StTypeOK
<1>2. StLocals'
  BY DEF StTypeOK, StLocals, StItems
<1>3. \A i : StPending(i)' \subseteq StPending(i)
  BY DEF StTypeOK, StPending, StItems
<1> QED
  BY <1>1, <1>2, <1>3

\* Every step of a stocker preserves the invariant.
LEMMA StockerPreserves ==
    ASSUME IInv, NEW s \in Stockers, StockerStep(s)
    PROVE  IInv'
<1> USE DEF channelVars
<1>1. /\ ChannelsTypeOK /\ StockTypeOK /\ CottageTypeOK /\ Hours!RegistryTypeOK
      /\ HkTypeOK /\ HkLocals /\ StTypeOK /\ StLocals /\ LdTypeOK /\ LdLocals
      /\ StockNeverNegative
      /\ cleaningCount \in 0..MaxCleaning /\ restockCount \in 0..MaxRestock
      /\ crashes \in 0..MaxCrashes
      /\ ctxDone \in BOOLEAN
      /\ \A i \in Items : FitsAt(i)
  BY DEF IInv, TypeOK, ChannelsTypeOK, ReplenishmentsFit, FitsAt
<1>2. UNCHANGED <<ctxDone, cleaningStatus, hourVars, hkVars, ldVars, envVars>> /\ StStepOf(s)
  BY DEF StockerStep
<1>3. /\ HkTypeOK' /\ HkLocals' /\ (\A i : HkPending(i)' = HkPending(i))
      /\ LdTypeOK' /\ LdLocals' /\ (\A i : LdPending(i)' = LdPending(i))
  BY <1>1, <1>2, HkFrame, LdFrame
<1>4. /\ Hours!RegistryTypeOK' /\ CottageTypeOK' /\ ctxDone' \in BOOLEAN
      /\ cleaningCount' \in 0..MaxCleaning /\ restockCount' \in 0..MaxRestock
      /\ crashes' \in 0..MaxCrashes
  BY <1>1, <1>2 DEF Hours!RegistryTypeOK, CottageTypeOK, hourVars, envVars
<1> DEFINE Others == /\ ChannelsTypeOK' /\ StockTypeOK' /\ StockNeverNegative'
                     /\ StTypeOK' /\ StLocals'
           Goal == Others /\ ReplenishmentsFit'
<1>5. /\ Others
      /\ \A i \in Items : stock'[i] <= stock[i]
      /\ \A i \in Items : StPending(i)' \subseteq StPending(i)
      => Goal
  <2> SUFFICES ASSUME Others, NEW i \in Items, stock'[i] <= stock[i],
                      StPending(i)' \subseteq StPending(i)
               PROVE  FitsAt(i)'
    BY DEF ReplenishmentsFit, FitsAt
  <2>1. stock[i] \in Int /\ stock'[i] \in Int
    BY <1>1 DEF StockTypeOK
  <2> QED
    BY <1>1, <1>3, <2>1, FitLess
<1>6. stock' = stock => StockTypeOK' /\ StockNeverNegative' /\ \A i \in Items : stock'[i] <= stock[i]
  BY <1>1 DEF StockTypeOK, StockNeverNegative
<1>7. cleaningCh' = cleaningCh /\ laundererCh' = laundererCh /\ stockerCh' = stockerCh
        => ChannelsTypeOK'
  BY <1>1, <1>2 DEF ChannelsTypeOK
<1>8. \A r \in RestockRequests : r \in Seq(Items) /\ Len(r) \in Nat
  BY RestockRequestsAssumption, LenProperties
<1>9. SUFFICES Goal
  BY <1>3, <1>4 DEF IInv, TypeOK
<1>10. CASE StReceive(s)
  <2>1. /\ StPool!ReceiveRequest(s)
        /\ UNCHANGED <<stSnapshot, stNext, cleaningCh, laundererCh, stock>>
    BY <1>10 DEF StReceive
  <2>2. /\ Head(stockerCh) \in RestockRequests /\ Tail(stockerCh) \in Seq(RestockRequests)
        /\ Len(Tail(stockerCh)) = Len(stockerCh) - 1 /\ Len(stockerCh) \in Nat
    BY <1>1, <2>1, ReceiveType DEF ChannelsTypeOK, StPool!ReceiveRequest
  <2>3. ChannelsTypeOK'
    BY <1>1, <1>2, <2>1, <2>2, CapAssumption DEF ChannelsTypeOK, StPool!ReceiveRequest
  <2>4. StTypeOK'
    BY <1>1, <2>1, <2>2
       DEF StTypeOK, StPool!ReceiveRequest
  <2>5. StLocals'
    BY <1>1, <2>1, <2>2
       DEF StTypeOK, StLocals, StItems, StPool!ReceiveRequest
  <2>6. \A i \in Items : StPending(i)' \subseteq StPending(i)
    BY <1>1, <2>1
       DEF StTypeOK, StPending, StItems, StPool!ReceiveRequest
  <2> QED
    BY <2>1, <2>3, <2>4, <2>5, <2>6, <1>5, <1>6
<1>11. CASE StStop(s)
  <2>1. /\ StPool!StopOnCancel(s)
        /\ UNCHANGED <<cleaningCh, laundererCh, stockerCh, stock, stSnapshot, stNext, stTaken,
                       stEmployees>>
    BY <1>11 DEF StStop, StPool!StopOnCancel
  <2>2. StTypeOK'
    BY <1>1, <2>1 DEF StTypeOK, StPool!StopOnCancel
  <2>3. StLocals'
    BY <1>1, <2>1 DEF StTypeOK, StLocals, StItems, StPool!StopOnCancel
  <2>4. \A i \in Items : StPending(i)' \subseteq StPending(i)
    BY <1>1, <2>1 DEF StTypeOK, StPending, StItems, StPool!StopOnCancel
  <2> QED
    BY <2>1, <2>2, <2>3, <2>4, <1>5, <1>6, <1>7
<1>12. CASE StGetStock(s)
  <2>1. UNCHANGED <<cleaningCh, laundererCh, stockerCh, stock>> /\ stPhase[s] = "snapshot"
    BY <1>12 DEF StGetStock
  <2>2. CASE /\ stSnapshot' = [stSnapshot EXCEPT ![s] = stock]
             /\ stNext' = [stNext EXCEPT ![s] = 1]
             /\ stPhase' = [stPhase EXCEPT ![s] = "items"]
             /\ UNCHANGED <<stEmployees, stTaken>>
    <3>1. StTypeOK'
      BY <1>1, <2>2 DEF StTypeOK, StockTypeOK
    <3>2. StLocals'
      BY <1>1, <2>1, <2>2 DEF StTypeOK, StLocals, StItems
    <3>3. Others
      BY <2>1, <3>1, <3>2, <1>6, <1>7
    \* The decisions are taken on the stock as it is now.
    <3>4. ASSUME NEW i \in Items PROVE FitsAt(i)'
      <4>1. stock[i] \in Int /\ stock'[i] = stock[i]
        BY <1>1, <2>1 DEF StockTypeOK
      <4>2. CASE stock[i] < minimumStockQuantity
        <5>1. stock'[i] < DecisionLevel(i)
          BY <4>1, <4>2 DEF DecisionLevel, minimumStockQuantity
        <5>2. i = "soap" => HkPending(i)' = {}
          BY <1>1, <1>3, HkNoSoap
        <5> QED
          BY <4>1, <5>1, <5>2, FitDecide
      <4>3. CASE ~(stock[i] < minimumStockQuantity)
        <5>1. StPending(i)' \subseteq StPending(i)
          BY <1>1, <2>2, <4>3 DEF StTypeOK, StPending, StItems
        <5> QED
          BY <1>1, <1>3, <4>1, <5>1, FitLess
      <4> QED
        BY <4>2, <4>3
    <3> QED
      BY <3>3, <3>4 DEF ReplenishmentsFit, FitsAt
  <2>3. CASE StPool!WorkReturns(s) /\ UNCHANGED <<stSnapshot, stNext>>
    <3>1. StTypeOK' /\ StLocals' /\ \A i : StPending(i)' \subseteq StPending(i)
      BY <1>1, <2>3, StReturnFacts
    <3> QED
      BY <2>1, <3>1, <1>5, <1>6, <1>7
  <2> QED
    BY <1>12, <2>2, <2>3 DEF StGetStock
<1>13. CASE StNextItem(s)
  <2> DEFINE item == StItems(s)[stNext[s]]
  <2>1. /\ UNCHANGED <<cleaningCh, laundererCh, stockerCh, stEmployees, stPhase, stTaken,
                       stSnapshot>>
        /\ stPhase[s] = "items" /\ stNext[s] <= Len(StItems(s))
        /\ stNext' = [stNext EXCEPT ![s] = @ + 1]
    BY <1>13 DEF StNextItem
  <2>2. StItems(s) \in RestockRequests /\ stNext[s] \in 1..Len(StItems(s))
    <3>1. StItems(s) \in RestockRequests /\ stNext[s] >= 1
      BY <1>1, <2>1 DEF StLocals
    <3>2. stNext[s] \in Nat
      BY <1>1 DEF StTypeOK
    <3> QED
      BY <1>8, <2>1, <3>1, <3>2
  <2>3. item \in Items
    BY <1>8, <2>2
  <2>4. StTypeOK'
    BY <1>1, <2>1 DEF StTypeOK
  <2>5. StLocals'
    BY <1>1, <2>1 DEF StTypeOK, StLocals, StItems
  <2>6. \A i \in Items : StPending(i)' \subseteq StPending(i)
    BY <1>1, <2>1 DEF StTypeOK, StPending, StItems
  <2>7. CASE ~StIsShort(s)
    <3>1. UNCHANGED stock
      BY <1>13, <2>7 DEF StNextItem
    <3> QED
      BY <2>1, <2>4, <2>5, <2>6, <3>1, <1>5, <1>6, <1>7
  <2>8. CASE StIsShort(s)
    <3>1. \E err \in {"nil", "failed"} : RestockItem(item, stockReplenishmentQuantity, err)
      BY <1>13, <2>8 DEF StNextItem
    <3>2. stockReplenishmentQuantity \in Nat
      BY DEF stockReplenishmentQuantity
    <3>3. /\ StockTypeOK' /\ StockNeverNegative'
          /\ stock'[item] <= stock[item] + stockReplenishmentQuantity
          /\ \A i \in Items \ {item} : stock'[i] = stock[i]
      <4> HIDE DEF item
      <4> QED
        BY <1>1, <2>3, <3>1, <3>2, RestockFacts
    <3>4. Others
      BY <2>1, <2>4, <2>5, <3>3, <1>7
    <3>5. ASSUME NEW i \in Items PROVE FitsAt(i)'
      <4>1. stock[i] \in Int /\ stock'[i] \in Int
        BY <1>1, <3>3 DEF StockTypeOK
      <4>2. CASE i = item
        <5>1. s \in StPending(i)
          BY <2>1, <2>2, <2>8, <4>2, <1>1, <1>8 DEF StTypeOK, StPending, StIsShort
        \* No item is requested twice, so s is done with this one.
        <5>2. \A n \in 1..Len(StItems(s)) : n >= stNext[s] + 1 => StItems(s)[n] # i
          BY <2>2, <4>2, <1>8, RestockRequestsAssumption
        <5>3. s \notin StPending(i)'
          BY <1>1, <2>1, <5>2 DEF StTypeOK, StPending, StItems
        <5>4. OneLess(i)
          BY <1>3, <2>6, <5>1, <5>3 DEF OneLess
        <5> QED
          BY <1>1, <3>3, <4>1, <4>2, <5>4, FitRestock
      <4>3. CASE i # item
        <5>1. stock'[i] <= stock[i]
          BY <3>3, <4>1, <4>3
        <5> QED
          BY <1>1, <1>3, <2>6, <4>1, <5>1, FitLess
      <4> QED
        BY <4>2, <4>3
    <3> QED
      BY <3>4, <3>5 DEF ReplenishmentsFit, FitsAt
  <2> QED
    BY <2>7, <2>8
<1>14. CASE StFinish(s)
  <2>1. /\ UNCHANGED <<cleaningCh, laundererCh, stockerCh, stock>>
        /\ StPool!WorkReturns(s)
        /\ stSnapshot' = [stSnapshot EXCEPT ![s] = NoSnapshot]
        /\ stNext' = [stNext EXCEPT ![s] = 0]
    BY <1>14 DEF StFinish
  <2>2. StTypeOK' /\ StLocals' /\ \A i : StPending(i)' \subseteq StPending(i)
    BY <1>1, <2>1, StReturnFacts
  <2> QED
    BY <2>1, <2>2, <1>5, <1>6, <1>7
<1>15. CASE StStartWork(s)
  <2>1. /\ StPool!StartWork(s, "snapshot")
        /\ UNCHANGED <<stSnapshot, stNext, cleaningCh, laundererCh, stockerCh, stock>>
    BY <1>15 DEF StStartWork, StPool!StartWork
  <2>2. stTaken[s] \in RestockRequests
    BY <1>1, <2>1 DEF StLocals, StPool!StartWork
  <2>3. StTypeOK'
    <3>1. stEmployees' \in [Stockers -> StPool!EmployeeStatus(RestockRequests)]
      BY <1>1, <2>1, <2>2
         DEF StTypeOK, StPool!StartWork, StPool!setEmployeeWorkingStatus, StPool!EmployeeStatus
    <3> QED
      BY <1>1, <2>1, <3>1 DEF StTypeOK, StPool!StartWork
  <2>4. StLocals'
    BY <1>1, <2>1, <2>2
       DEF StTypeOK, StLocals, StItems, StPool!StartWork, StPool!setEmployeeWorkingStatus
  <2>5. \A i \in Items : StPending(i)' \subseteq StPending(i)
    BY <1>1, <2>1
       DEF StTypeOK, StPending, StItems, StPool!StartWork, StPool!setEmployeeWorkingStatus
  <2> QED
    BY <2>1, <2>3, <2>4, <2>5, <1>5, <1>6, <1>7
<1> QED
  BY <1>2, <1>10, <1>11, <1>12, <1>13, <1>14, <1>15 DEF StStepOf

-----------------------------------------------------------------------------
\* The launderers.

\* Entries of the wash table.
LEMMA WashFacts ==
    ASSUME LdLocals, NEW l \in Launderers, ldPhase[l] \notin {"select", "received", "stopped"}
    PROVE  WashConfig(l).soap \in 1..20
<1>1. ldEmployees[l].currentRequest.Item \in {"towels", "linens"}
  BY DEF LdLocals, WashRequests
<1> QED
  BY <1>1 DEF WashConfig, washTable

\* The return of work.
LEMMA LdReturnFacts ==
    ASSUME LdTypeOK, LdLocals, NEW l \in Launderers, LdReturn(l)
    PROVE  /\ LdTypeOK' /\ LdLocals'
           /\ \A i : LdPending(i)' = LdPending(i) \ {l}
<1> USE DEF LdReturn, LdPool!WorkReturns, LdPool!setEmployeeIdleStatus
<1>1. LdTypeOK'
  <2>1. 0 \in -1..ElapsedCap
    BY ChansAssumption DEF ElapsedCap, washTable
  <2>2. ldEmployees' \in [Launderers -> LdPool!EmployeeStatus(WashRequests)]
    BY DEF LdTypeOK, LdPool!EmployeeStatus
  <2> QED
    BY <2>1, <2>2 DEF LdTypeOK
<1>2. LdLocals'
  BY DEF LdTypeOK, LdLocals
<1>3. \A i : LdPending(i)' = LdPending(i) \ {l}
  BY DEF LdTypeOK, LdPending
<1> QED
  BY <1>1, <1>2, <1>3

\* A move between the phases of a wash.
LEMMA LdGotoFacts ==
    ASSUME LdTypeOK, LdLocals,
           NEW l \in Launderers, ldPhase[l] \notin {"select", "received", "stopped"},
           NEW p \in {"wash", "restock", "rewash", "register"}, LdGoto(l, p),
           ldElapsed' \in [Launderers -> -1..ElapsedCap], UNCHANGED ldChan
    PROVE  /\ LdTypeOK' /\ LdLocals'
           /\ p # "restock" => \A i : LdPending(i)' = LdPending(i) \ {l}
           /\ \A i : i # "soap" => LdPending(i)' \subseteq LdPending(i)
<1> USE DEF LdGoto
<1>1. LdTypeOK'
  BY DEF LdTypeOK
<1>2. LdLocals'
  BY DEF LdTypeOK, LdLocals
<1>3. /\ p # "restock" => \A i : LdPending(i)' = LdPending(i) \ {l}
      /\ \A i : i # "soap" => LdPending(i)' \subseteq LdPending(i)
  BY DEF LdTypeOK, LdPending
<1> QED
  BY <1>1, <1>2, <1>3

\* Every step of a launderer preserves the invariant.
LEMMA LaundererPreserves ==
    ASSUME IInv, NEW l \in Launderers, LaundererStep(l)
    PROVE  IInv'
<1> USE DEF channelVars, hourVars
<1>1. /\ ChannelsTypeOK /\ StockTypeOK /\ CottageTypeOK /\ Hours!RegistryTypeOK
      /\ HkTypeOK /\ HkLocals /\ StTypeOK /\ StLocals /\ LdTypeOK /\ LdLocals
      /\ StockNeverNegative
      /\ cleaningCount \in 0..MaxCleaning /\ restockCount \in 0..MaxRestock
      /\ crashes \in 0..MaxCrashes
      /\ ctxDone \in BOOLEAN
      /\ \A i \in Items : FitsAt(i)
  BY DEF IInv, TypeOK, ChannelsTypeOK, ReplenishmentsFit, FitsAt
<1>2. /\ UNCHANGED <<ctxDone, cleaningStatus, hkVars, stVars, envVars>>
      /\ LdStepOf(l, ChansInUse)
  BY DEF LaundererStep
<1>3. /\ HkTypeOK' /\ HkLocals' /\ (\A i : HkPending(i)' = HkPending(i))
      /\ StTypeOK' /\ StLocals' /\ (\A i : StPending(i)' = StPending(i))
  BY <1>1, <1>2, HkFrame, StFrame
<1>4. /\ CottageTypeOK' /\ ctxDone' \in BOOLEAN
      /\ cleaningCount' \in 0..MaxCleaning /\ restockCount' \in 0..MaxRestock
      /\ crashes' \in 0..MaxCrashes
  BY <1>1, <1>2 DEF CottageTypeOK, envVars
<1> DEFINE Others == /\ ChannelsTypeOK' /\ StockTypeOK' /\ StockNeverNegative'
                     /\ Hours!RegistryTypeOK' /\ LdTypeOK' /\ LdLocals'
           Goal == Others /\ ReplenishmentsFit'
<1>5. /\ Others
      /\ \A i \in Items : stock'[i] <= stock[i]
      /\ \A i \in Items : LdPending(i)' \subseteq LdPending(i)
      => Goal
  <2> SUFFICES ASSUME Others, NEW i \in Items, stock'[i] <= stock[i],
                      LdPending(i)' \subseteq LdPending(i)
               PROVE  FitsAt(i)'
    BY DEF ReplenishmentsFit, FitsAt
  <2>1. stock[i] \in Int /\ stock'[i] \in Int
    BY <1>1 DEF StockTypeOK
  <2> QED
    BY <1>1, <1>3, <2>1, FitLess
<1>6. stock' = stock => StockTypeOK' /\ StockNeverNegative' /\ \A i \in Items : stock'[i] <= stock[i]
  BY <1>1 DEF StockTypeOK, StockNeverNegative
<1>7. cleaningCh' = cleaningCh /\ laundererCh' = laundererCh /\ stockerCh' = stockerCh
        => ChannelsTypeOK'
  BY <1>1, <1>2 DEF ChannelsTypeOK
<1>8. hourChangeChannels' = hourChangeChannels /\ hourBuffer' = hourBuffer => Hours!RegistryTypeOK'
  BY <1>1 DEF Hours!RegistryTypeOK
<1>9. SUFFICES Goal
  BY <1>3, <1>4 DEF IInv, TypeOK
<1>10. CASE LdReceive(l)
  <2>1. /\ LdPool!ReceiveRequest(l)
        /\ UNCHANGED <<ldElapsed, ldChan, cleaningCh, stockerCh, stock, hourChangeChannels, hourBuffer>>
    BY <1>10 DEF LdReceive
  <2>2. /\ Head(laundererCh) \in WashRequests /\ Tail(laundererCh) \in Seq(WashRequests)
        /\ Len(Tail(laundererCh)) = Len(laundererCh) - 1 /\ Len(laundererCh) \in Nat
    BY <1>1, <2>1, ReceiveType DEF ChannelsTypeOK, LdPool!ReceiveRequest
  <2>3. ChannelsTypeOK'
    BY <1>1, <1>2, <2>1, <2>2, CapAssumption DEF ChannelsTypeOK, LdPool!ReceiveRequest
  <2>4. LdTypeOK'
    BY <1>1, <2>1, <2>2
       DEF LdTypeOK, LdPool!ReceiveRequest
  <2>5. LdLocals'
    BY <1>1, <2>1, <2>2
       DEF LdTypeOK, LdLocals, LdPool!ReceiveRequest
  <2>6. \A i \in Items : LdPending(i)' \subseteq LdPending(i)
    BY <1>1, <2>1 DEF LdTypeOK, LdPending, LdPool!ReceiveRequest
  <2> QED
    BY <2>1, <2>3, <2>4, <2>5, <2>6, <1>5, <1>6, <1>8
<1>11. CASE LdStop(l)
  <2>1. /\ LdPool!StopOnCancel(l)
        /\ UNCHANGED <<cleaningCh, laundererCh, stockerCh, stock, hourChangeChannels, hourBuffer,
                       ldElapsed, ldChan, ldTaken, ldEmployees>>
    BY <1>11 DEF LdStop, LdPool!StopOnCancel
  <2>2. LdTypeOK'
    BY <1>1, <2>1 DEF LdTypeOK, LdPool!StopOnCancel
  <2>3. LdLocals'
    BY <1>1, <2>1 DEF LdTypeOK, LdLocals, LdPool!StopOnCancel
  <2>4. \A i \in Items : LdPending(i)' \subseteq LdPending(i)
    BY <1>1, <2>1 DEF LdTypeOK, LdPending, LdPool!StopOnCancel
  <2> QED
    BY <2>1, <2>2, <2>3, <2>4, <1>5, <1>6, <1>7, <1>8
<1>12. CASE LdClock(l)
  <2>1. /\ UNCHANGED <<cleaningCh, laundererCh, stockerCh, stock, hourChangeChannels, hourBuffer>>
        /\ ldPhase[l] = "clock"
    BY <1>12 DEF LdClock
  <2>2. CASE /\ \E elapsed \in {-1, 0} : ldElapsed' = [ldElapsed EXCEPT ![l] = elapsed]
             /\ LdGoto(l, "wash")
             /\ UNCHANGED ldChan
    <3>1. ldElapsed' \in [Launderers -> -1..ElapsedCap]
      BY <1>1, <2>2, ChansAssumption DEF LdTypeOK, ElapsedCap, washTable
    <3>2. LdTypeOK' /\ LdLocals' /\ \A i : LdPending(i)' = LdPending(i) \ {l}
      BY <1>1, <2>1, <2>2, <3>1, LdGotoFacts
    <3> QED
      BY <2>1, <3>2, <1>5, <1>6, <1>7, <1>8
  <2>3. CASE LdReturn(l)
    <3>1. LdTypeOK' /\ LdLocals' /\ \A i : LdPending(i)' = LdPending(i) \ {l}
      BY <1>1, <2>3, LdReturnFacts
    <3> QED
      BY <2>1, <3>1, <1>5, <1>6, <1>7, <1>8
  <2> QED
    BY <1>12, <2>2, <2>3 DEF LdClock
<1>13. CASE LdWash(l)
  <2>1. /\ UNCHANGED <<cleaningCh, laundererCh, stockerCh, hourChangeChannels, hourBuffer>>
        /\ ldPhase[l] \in {"wash", "rewash"}
    BY <1>13 DEF LdWash
  <2>2. WashConfig(l).soap \in 1..20 /\ "soap" \in Items
    BY <1>1, <2>1, WashFacts, ItemsAssumption
  <2>3. PICK err \in {"nil", "insufficient", "failed"} :
          /\ ConsumeItem("soap", WashConfig(l).soap, err)
          /\ CASE err = "nil" ->
                    LdGoto(l, "register") /\ UNCHANGED <<ldElapsed, ldChan>>
               [] err = "insufficient" /\ ldPhase[l] = "wash" ->
                    LdGoto(l, "restock") /\ UNCHANGED <<ldElapsed, ldChan>>
               [] OTHER -> LdReturn(l)
    BY <1>13 DEF LdWash
  <2>4. /\ StockTypeOK' /\ StockNeverNegative'
        /\ \A i \in Items : stock'[i] <= stock[i]
        /\ err = "insufficient" => stock' = stock /\ stock["soap"] < WashConfig(l).soap
    <3>1. ConsumeItem("soap", WashConfig(l).soap, err)
      BY <2>3
    <3>2. WashConfig(l).soap \in Nat
      BY <2>2
    <3> QED
      BY <1>1, <2>2, <3>1, <3>2, ConsumeFacts
  <2>5. CASE err = "insufficient" /\ ldPhase[l] = "wash"
    <3>1. LdGoto(l, "restock") /\ UNCHANGED <<ldElapsed, ldChan>>
      BY <2>3, <2>5
    <3>2. ldElapsed' \in [Launderers -> -1..ElapsedCap]
      BY <1>1, <3>1 DEF LdTypeOK
    <3>3. LdTypeOK' /\ LdLocals' /\ \A i : i # "soap" => LdPending(i)' \subseteq LdPending(i)
      BY <1>1, <2>1, <3>1, <3>2, LdGotoFacts
    <3>4. Others
      BY <2>1, <2>4, <3>3, <1>7, <1>8
    <3>5. ASSUME NEW i \in Items PROVE FitsAt(i)'
      <4>1. stock[i] \in Int /\ stock'[i] \in Int
        BY <1>1, <2>4 DEF StockTypeOK
      <4>2. CASE i = "soap"
        <5>1. stock'[i] < DecisionLevel(i)
          BY <2>2, <2>4, <2>5, <4>1, <4>2 DEF DecisionLevel
        <5>2. HkPending(i)' = {}
          BY <1>1, <1>3, <4>2, HkNoSoap
        <5> QED
          BY <4>1, <5>1, <5>2, FitDecide
      <4>3. CASE i # "soap"
        BY <1>1, <1>3, <2>4, <3>3, <4>1, <4>3, FitLess
      <4> QED
        BY <4>2, <4>3
    <3> QED
      BY <3>4, <3>5 DEF ReplenishmentsFit, FitsAt
  <2>6. CASE err = "nil"
    <3>1. LdGoto(l, "register") /\ UNCHANGED <<ldElapsed, ldChan>>
      BY <2>3, <2>6
    <3>2. ldElapsed' \in [Launderers -> -1..ElapsedCap]
      BY <1>1, <3>1 DEF LdTypeOK
    <3>3. LdTypeOK' /\ LdLocals' /\ \A i : LdPending(i)' = LdPending(i) \ {l}
      BY <1>1, <2>1, <3>1, <3>2, LdGotoFacts
    <3> QED
      BY <2>1, <2>4, <3>3, <1>5, <1>7, <1>8
  <2>7. CASE err # "nil" /\ ~(err = "insufficient" /\ ldPhase[l] = "wash")
    <3>1. LdReturn(l)
      BY <2>3, <2>7
    <3>2. LdTypeOK' /\ LdLocals' /\ \A i : LdPending(i)' = LdPending(i) \ {l}
      BY <1>1, <3>1, LdReturnFacts
    <3> QED
      BY <2>1, <2>4, <3>2, <1>5, <1>7, <1>8
  <2> QED
    BY <2>5, <2>6, <2>7
<1>14. CASE LdRestock(l)
  <2>1. /\ UNCHANGED <<cleaningCh, laundererCh, stockerCh, hourChangeChannels, hourBuffer>>
        /\ ldPhase[l] = "restock"
    BY <1>14 DEF LdRestock
  <2>2. PICK err \in {"nil", "failed"} :
          /\ RestockItem("soap", stockReplenishmentQuantity, err)
          /\ IF err = "nil"
               THEN LdGoto(l, "rewash") /\ UNCHANGED <<ldElapsed, ldChan>>
               ELSE LdReturn(l)
    BY <1>14 DEF LdRestock, ImmediateRestock
  <2>3. stockReplenishmentQuantity \in Nat /\ "soap" \in Items
    BY ItemsAssumption DEF stockReplenishmentQuantity
  <2>4. /\ StockTypeOK' /\ StockNeverNegative'
        /\ stock'["soap"] <= stock["soap"] + stockReplenishmentQuantity
        /\ \A i \in Items \ {"soap"} : stock'[i] = stock[i]
    BY <1>1, <2>2, <2>3, RestockFacts
  <2>5. LdTypeOK' /\ LdLocals' /\ \A i : LdPending(i)' = LdPending(i) \ {l}
    <3>1. CASE err = "nil"
      <4>1. LdGoto(l, "rewash") /\ UNCHANGED <<ldElapsed, ldChan>>
        BY <2>2, <3>1
      <4>2. ldElapsed' \in [Launderers -> -1..ElapsedCap]
        BY <1>1, <4>1 DEF LdTypeOK
      <4> QED
        BY <1>1, <2>1, <4>1, <4>2, LdGotoFacts
    <3>2. CASE err # "nil"
      BY <1>1, <2>2, <3>2, LdReturnFacts
    <3> QED
      BY <3>1, <3>2
  <2>6. Others
    BY <2>1, <2>4, <2>5, <1>7, <1>8
  <2>7. ASSUME NEW i \in Items PROVE FitsAt(i)'
    <3>1. stock[i] \in Int /\ stock'[i] \in Int
      BY <1>1, <2>4 DEF StockTypeOK
    <3>2. CASE i = "soap"
      <4>1. l \in LdPending(i)
        BY <2>1, <3>2 DEF LdPending
      <4>2. OneLess(i)
        BY <1>3, <2>5, <4>1 DEF OneLess
      <4> QED
        BY <1>1, <2>4, <3>1, <3>2, <4>2, FitRestock
    <3>3. CASE i # "soap"
      <4>1. stock'[i] <= stock[i]
        BY <2>4, <3>1, <3>3
      <4> QED
        BY <1>1, <1>3, <2>5, <3>1, <4>1, FitLess
    <3> QED
      BY <3>2, <3>3
  <2> QED
    BY <2>6, <2>7 DEF ReplenishmentsFit, FitsAt
<1>15. CASE LdRegister(l, ChansInUse)
  <2>1. /\ UNCHANGED <<ldElapsed, cleaningCh, laundererCh, stockerCh, stock>>
        /\ ldPhase[l] = "register" /\ LdGoto(l, "cycle")
    BY <1>15 DEF LdRegister
  <2>2. PICK c \in Chans :
          /\ Hours!Register(c)
          /\ hourBuffer' = [hourBuffer EXCEPT ![c] = <<>>]
          /\ ldChan' = [ldChan EXCEPT ![l] = c]
    BY <1>15 DEF LdRegister
  <2>3. Hours!RegistryTypeOK'
    BY <1>1, <2>2 DEF Hours!RegistryTypeOK, Hours!Register
  <2>4. LdTypeOK'
    BY <1>1, <2>1, <2>2 DEF LdTypeOK, LdGoto
  <2>5. LdLocals'
    BY <1>1, <2>1, <2>2 DEF LdTypeOK, LdLocals, LdGoto
  <2>6. \A i \in Items : LdPending(i)' \subseteq LdPending(i)
    BY <1>1, <2>1 DEF LdTypeOK, LdPending, LdGoto
  <2> QED
    BY <2>1, <2>3, <2>4, <2>5, <2>6, <1>5, <1>6, <1>7
<1>16. CASE LdHourChange(l)
  <2>1. /\ UNCHANGED <<cleaningCh, laundererCh, stockerCh, stock>>
        /\ ldPhase[l] = "cycle"
        /\ hourBuffer' = [hourBuffer EXCEPT ![ldChan[l]] = <<>>]
        /\ \/ Hours!Unregister(ldChan[l]) /\ LdReturn(l)
           \/ UNCHANGED <<hourChangeChannels, ldVars>>
    BY <1>16 DEF LdHourChange
  <2>2. Hours!RegistryTypeOK'
    BY <1>1, <2>1 DEF Hours!RegistryTypeOK, Hours!Unregister
  <2>3. LdTypeOK' /\ LdLocals' /\ \A i : LdPending(i)' \subseteq LdPending(i)
    BY <1>1, <2>1, LdReturnFacts, LdFrame
  <2> QED
    BY <2>1, <2>2, <2>3, <1>5, <1>6, <1>7
<1>17. CASE LdCycleCancelled(l)
  <2>1. /\ UNCHANGED <<cleaningCh, laundererCh, stockerCh, stock>>
        /\ hourBuffer' = [hourBuffer EXCEPT ![ldChan[l]] = <<>>]
        /\ Hours!Unregister(ldChan[l]) /\ LdReturn(l)
    BY <1>17 DEF LdCycleCancelled
  <2>2. Hours!RegistryTypeOK'
    BY <1>1, <2>1 DEF Hours!RegistryTypeOK, Hours!Unregister
  <2>3. LdTypeOK' /\ LdLocals' /\ \A i : LdPending(i)' = LdPending(i) \ {l}
    BY <1>1, <2>1, LdReturnFacts
  <2> QED
    BY <2>1, <2>2, <2>3, <1>5, <1>6, <1>7
<1>18. CASE LdStartWork(l)
  <2>1. /\ LdPool!StartWork(l, "clock")
        /\ UNCHANGED <<ldElapsed, ldChan, cleaningCh, laundererCh, stockerCh, stock,
                       hourChangeChannels, hourBuffer>>
    BY <1>18 DEF LdStartWork, LdPool!StartWork
  <2>2. ldTaken[l] \in WashRequests
    BY <1>1, <2>1 DEF LdLocals, LdPool!StartWork
  <2>3. LdTypeOK'
    <3>1. ldEmployees' \in [Launderers -> LdPool!EmployeeStatus(WashRequests)]
      BY <1>1, <2>1, <2>2
         DEF LdTypeOK, LdPool!StartWork, LdPool!setEmployeeWorkingStatus, LdPool!EmployeeStatus
    <3> QED
      BY <1>1, <2>1, <3>1 DEF LdTypeOK, LdPool!StartWork
  <2>4. LdLocals'
    BY <1>1, <2>1, <2>2
       DEF LdTypeOK, LdLocals, LdPool!StartWork, LdPool!setEmployeeWorkingStatus
  <2>5. \A i \in Items : LdPending(i)' \subseteq LdPending(i)
    BY <1>1, <2>1 DEF LdTypeOK, LdPending, LdPool!StartWork
  <2> QED
    BY <2>1, <2>3, <2>4, <2>5, <1>5, <1>6, <1>7, <1>8
<1> QED
  BY <1>2, <1>10, <1>11, <1>12, <1>13, <1>14, <1>15, <1>16, <1>17, <1>18 DEF LdStepOf

-----------------------------------------------------------------------------
\* The environment.

\* A crash ends every pending decision and leaves the stock.
LEMMA CrashPreserves ==
    ASSUME IInv, Crash
    PROVE  IInv'
<1>1. Started'
  BY RestartStarted DEF Crash
<1>2. StockTypeOK /\ CottageTypeOK /\ StockNeverNegative /\ crashes \in 0..MaxCrashes
      /\ \A i \in Items : FitsAt(i)
  BY DEF IInv, TypeOK, ReplenishmentsFit, FitsAt
<1>3. StockTypeOK' /\ CottageTypeOK' /\ StockNeverNegative' /\ crashes' \in 0..MaxCrashes
  BY <1>2, BoundsAssumption DEF Crash, StockTypeOK, CottageTypeOK, StockNeverNegative
<1>4. ReplenishmentsFit'
  <2> SUFFICES ASSUME NEW i \in Items PROVE FitsAt(i)'
    BY DEF ReplenishmentsFit, FitsAt
  <2>1. stock[i] \in Int /\ stock'[i] = stock[i]
    BY <1>2 DEF Crash, StockTypeOK
  <2>2. HkPending(i)' = {} /\ LdPending(i)' = {} /\ StPending(i)' = {}
    BY <1>1 DEF Started
  <2> QED
    BY <1>2, <2>1, <2>2, FitLess
<1> QED
  BY <1>1, <1>3, <1>4 DEF Started, IInv, TypeOK

\* The other steps of the environment touch neither the stock nor a decision.
EnvironmentStep ==
    CleaningArrives \/ RestockArrives \/ HourPasses \/ (\E c \in Chans : HourOffered(c)) \/ Shutdown

\* Every step of the environment preserves the invariant.
LEMMA EnvironmentPreserves ==
    ASSUME IInv, EnvironmentStep \/ UNCHANGED vars
    PROVE  IInv'
<1> USE DEF channelVars, hourVars, envVars
<1>1. /\ ChannelsTypeOK /\ StockTypeOK /\ CottageTypeOK /\ Hours!RegistryTypeOK
      /\ HkTypeOK /\ HkLocals /\ StTypeOK /\ StLocals /\ LdTypeOK /\ LdLocals
      /\ StockNeverNegative
      /\ cleaningCount \in 0..MaxCleaning /\ restockCount \in 0..MaxRestock
      /\ crashes \in 0..MaxCrashes
      /\ ctxDone \in BOOLEAN
      /\ \A i \in Items : FitsAt(i)
  BY DEF IInv, TypeOK, ChannelsTypeOK, ReplenishmentsFit, FitsAt
<1>2. UNCHANGED <<stock, cleaningStatus, hkVars, stVars, crashes>>
  BY DEF EnvironmentStep, CleaningArrives, RestockArrives, HourPasses, HourOffered, Shutdown, vars
<1>3. UNCHANGED <<ldEmployees, ldPhase, ldTaken, ldChan>>
  BY DEF EnvironmentStep, CleaningArrives, RestockArrives, HourPasses, HourOffered, Shutdown, vars, ldVars
<1>4. /\ HkTypeOK' /\ HkLocals' /\ (\A i : HkPending(i)' = HkPending(i))
      /\ StTypeOK' /\ StLocals' /\ (\A i : StPending(i)' = StPending(i))
  BY <1>1, <1>2, HkFrame, StFrame
<1>5. LdLocals' /\ \A i : LdPending(i)' = LdPending(i)
  BY <1>1, <1>3 DEF LdLocals, LdPending
<1>6. StockTypeOK' /\ StockNeverNegative' /\ CottageTypeOK' /\ crashes' \in 0..MaxCrashes
  BY <1>1, <1>2 DEF StockTypeOK, StockNeverNegative, CottageTypeOK
<1>7. ReplenishmentsFit'
  <2> SUFFICES ASSUME NEW i \in Items PROVE FitsAt(i)'
    BY DEF ReplenishmentsFit, FitsAt
  <2>1. stock[i] \in Int /\ stock'[i] = stock[i]
    BY <1>1, <1>2 DEF StockTypeOK
  <2> QED
    BY <1>1, <1>4, <1>5, <2>1, FitLess
<1> DEFINE Goal == /\ ChannelsTypeOK' /\ Hours!RegistryTypeOK' /\ LdTypeOK'
                   /\ cleaningCount' \in 0..MaxCleaning /\ restockCount' \in 0..MaxRestock
<1>8. SUFFICES Goal
  BY <1>4, <1>5, <1>6, <1>7 DEF IInv, TypeOK
<1>9. UNCHANGED ldElapsed => LdTypeOK'
  BY <1>1, <1>3 DEF LdTypeOK
<1>10. UNCHANGED <<hourChangeChannels, hourBuffer>> => Hours!RegistryTypeOK'
  BY <1>1 DEF Hours!RegistryTypeOK
<1>11. CASE CleaningArrives
  <2>1. /\ UNCHANGED <<laundererCh, stockerCh, ctxDone, hourChangeChannels, hourBuffer, ldElapsed, restockCount>>
        /\ cleaningCount < MaxCleaning /\ cleaningCount' = cleaningCount + 1
    BY <1>11 DEF CleaningArrives, ldVars
  <2>2. PICK request \in CleaningRequests : SendCleaning(request)
    BY <1>11 DEF CleaningArrives
  <2>3. ChannelsTypeOK'
    BY <1>1, <2>1, <2>2, SendType, CapAssumption DEF ChannelsTypeOK, SendCleaning
  <2>4. cleaningCount' \in 0..MaxCleaning
    BY <1>1, <2>1, BoundsAssumption
  <2> QED
    BY <1>1, <1>9, <1>10, <2>1, <2>3, <2>4
<1>12. CASE RestockArrives
  <2>1. /\ UNCHANGED <<cleaningCh, laundererCh, ctxDone, hourChangeChannels, hourBuffer, ldElapsed, cleaningCount>>
        /\ restockCount < MaxRestock /\ restockCount' = restockCount + 1
    BY <1>12 DEF RestockArrives, ldVars
  <2>2. PICK request \in RestockRequests : SendRestock(request)
    BY <1>12 DEF RestockArrives
  <2>3. ChannelsTypeOK'
    BY <1>1, <2>1, <2>2, SendType, CapAssumption DEF ChannelsTypeOK, SendRestock
  <2>4. restockCount' \in 0..MaxRestock
    BY <1>1, <2>1, BoundsAssumption
  <2> QED
    BY <1>1, <1>9, <1>10, <2>1, <2>3, <2>4
<1>13. CASE HourPasses
  <2>1. UNCHANGED <<hourChangeChannels, cleaningCh, laundererCh, stockerCh, ctxDone, cleaningCount, restockCount>>
    BY <1>13 DEF HourPasses
  <2>2. LdTypeOK'
    <3>1. ldElapsed' \in [Launderers -> -1..ElapsedCap]
      BY <1>1, <1>13, ChansAssumption DEF HourPasses, AgeWashes, LdTypeOK, ElapsedCap, washTable
    <3> QED
      BY <1>1, <1>3, <3>1 DEF LdTypeOK
  <2>3. Hours!RegistryTypeOK'
    <3>1. \A c \in Chans : hourBuffer[c] = <<>> \/ \E a \in 0..MaxLag : hourBuffer[c] = <<a>>
      BY <1>1 DEF Hours!RegistryTypeOK
    <3>2. \A c \in Chans : Hours!Aged(hourBuffer[c]) \in {<<>>} \cup {<<a>> : a \in 0..MaxLag}
      <4> SUFFICES ASSUME NEW c \in Chans
                   PROVE  Hours!Aged(hourBuffer[c]) \in {<<>>} \cup {<<a>> : a \in 0..MaxLag}
        OBVIOUS
      <4>1. CASE hourBuffer[c] = <<>>
        BY <4>1 DEF Hours!Aged
      <4>2. CASE \E a \in 0..MaxLag : hourBuffer[c] = <<a>>
        <5>1. PICK a \in 0..MaxLag : hourBuffer[c] = <<a>>
          BY <4>2
        <5>2. Hours!Aged(hourBuffer[c]) = IF a < MaxLag THEN <<a + 1>> ELSE <<a>>
          BY <5>1 DEF Hours!Aged
        <5>3. a < MaxLag => a + 1 \in 0..MaxLag
          BY ChansAssumption
        <5> QED
          BY <5>2, <5>3
      <4> QED
        BY <3>1, <4>1, <4>2
    <3>3. hourBuffer' \in [Chans -> {<<>>} \cup {<<a>> : a \in 0..MaxLag}]
      BY <1>13, <3>2 DEF HourPasses, Hours!AgeEvents
    <3> QED
      BY <1>1, <2>1, <3>3 DEF Hours!RegistryTypeOK
  <2>4. ChannelsTypeOK'
    BY <1>1, <2>1 DEF ChannelsTypeOK
  <2> QED
    BY <1>1, <2>1, <2>2, <2>3, <2>4
<1>14. CASE \E c \in Chans : HourOffered(c)
  <2>1. PICK c \in Chans : HourOffered(c)
    BY <1>14
  <2>2. UNCHANGED <<hourChangeChannels, cleaningCh, laundererCh, stockerCh, ctxDone, ldElapsed,
                    cleaningCount, restockCount>>
    BY <2>1 DEF HourOffered, ldVars
  <2>3. Hours!RegistryTypeOK'
    <3>1. PICK age \in 0..MaxLag : Hours!Offer(c, age)
      BY <2>1 DEF HourOffered
    <3> QED
      BY <1>1, <2>2, <3>1 DEF Hours!RegistryTypeOK, Hours!Offer
  <2>4. ChannelsTypeOK'
    BY <1>1, <2>2 DEF ChannelsTypeOK
  <2> QED
    BY <1>1, <1>9, <2>2, <2>3, <2>4
<1>15. CASE Shutdown
  <2>1. /\ UNCHANGED <<cleaningCh, laundererCh, stockerCh, hourChangeChannels, hourBuffer, ldElapsed,
                       cleaningCount, restockCount>>
        /\ ctxDone' = TRUE
    BY <1>15 DEF Shutdown, Cancel, ldVars
  <2>2. ctxDone' \in BOOLEAN
    BY <2>1
  <2>3. ChannelsTypeOK'
    BY <1>1, <2>1, <2>2 DEF ChannelsTypeOK
  <2> QED
    BY <1>1, <1>9, <1>10, <2>1, <2>3
<1>16. CASE UNCHANGED vars
  <2>1. UNCHANGED <<cleaningCh, laundererCh, stockerCh, ctxDone, hourChangeChannels, hourBuffer, ldElapsed,
                    cleaningCount, restockCount>>
    BY <1>16 DEF vars, ldVars
  <2>2. ChannelsTypeOK'
    BY <1>1, <2>1 DEF ChannelsTypeOK
  <2> QED
    BY <1>1, <1>9, <1>10, <2>1, <2>2
<1> QED
  BY <1>11, <1>12, <1>13, <1>14, <1>15, <1>16 DEF EnvironmentStep

-----------------------------------------------------------------------------
\* The employee table of the housekeepers.

\* An employee is shown as idle exactly while it waits at its select or has
\* received a request that it has not entered in the table.
HkTable ==
    \A h \in Housekeepers :
        hkEmployees[h].isIdle <=> hkPhase[h] \in {"select", "received", "stopped"}

\* The table is right from the start.
LEMMA InitHkTable == ProcessInit => HkTable
BY DEF ProcessInit, HkInit, HkPool!WorkInit, HkPool!NewEmployees, HkTable

\* Every step keeps the table right.
LEMMA NextHkTable ==
    ASSUME HkTypeOK, HkLocals, HkTable, [Next]_vars
    PROVE  HkTable'
<1>1. CASE UNCHANGED hkVars
  BY <1>1 DEF HkTable, hkVars
<1>2. CASE Crash
  <2>1. ProcessInit'
    BY <1>2, RestartIsStart DEF Crash
  <2> QED
    BY <2>1, InitHkTable, PTL
<1>3. ASSUME NEW h \in Housekeepers, HousekeeperStep(h)
      PROVE  HkTable'
  <2> DEFINE waiting == {"select", "received", "stopped"}
  <2>1. SUFFICES /\ hkEmployees'[h].isIdle <=> hkPhase'[h] \in waiting
                 /\ \A k \in Housekeepers \ {h} :
                       hkEmployees'[k] = hkEmployees[k] /\ hkPhase'[k] = hkPhase[k]
    BY DEF HkTable
  <2> USE DEF HkTypeOK
  <2>2. CASE HkReceive(h)
    BY <2>2 DEF HkReceive, HkPool!ReceiveRequest, HkTable
  <2>3. CASE HkStop(h)
    BY <2>3 DEF HkStop, HkPool!StopOnCancel, HkTable
  <2>4. CASE HkPool!WorkReturns(h)
    BY <2>4 DEF HkPool!WorkReturns, HkPool!setEmployeeIdleStatus
  <2>5. ASSUME hkPhase[h] \notin waiting, UNCHANGED hkEmployees,
               NEW p \in {"work", "restock", "retry"}, hkPhase' = [hkPhase EXCEPT ![h] = p]
        PROVE  /\ hkEmployees'[h].isIdle <=> hkPhase'[h] \in waiting
               /\ \A k \in Housekeepers \ {h} :
                     hkEmployees'[k] = hkEmployees[k] /\ hkPhase'[k] = hkPhase[k]
    BY <2>5 DEF HkTable
  <2> HIDE DEF HkTypeOK
  <2>6. CASE HkClock(h)
    BY <2>4, <2>5, <2>6 DEF HkClock
  <2>7. CASE HkConsume(h)
    BY <2>5, <2>7 DEF HkConsume, HkAt, HkGoto, HkNextStep
  <2>8. CASE HkRestock(h)
    BY <2>5, <2>8 DEF HkRestock, HkGoto, HkNextStep
  <2>9. CASE HkRetry(h) \/ HkLaundry(h) \/ HkUpdateStatus(h)
    BY <2>5, <2>9 DEF HkRetry, HkLaundry, HkUpdateStatus, HkAt, HkNextStep
  <2>10. CASE HkFinish(h)
    BY <2>4, <2>10 DEF HkFinish
  <2>11. CASE HkStartWork(h)
    BY <2>11 DEF HkStartWork, HkPool!StartWork, HkPool!setEmployeeWorkingStatus, HkTypeOK
  <2> QED
    BY <1>3, <2>2, <2>3, <2>6, <2>7, <2>8, <2>9, <2>10, <2>11 DEF HousekeeperStep, HkStepOf
<1>4. CASE EnvironmentStep \/ UNCHANGED vars
  BY <1>1, <1>4 DEF EnvironmentStep, CleaningArrives, RestockArrives, HourPasses, HourOffered, Shutdown, vars
<1>5. CASE \E s \in Stockers : StockerStep(s)
  BY <1>1, <1>5 DEF StockerStep
<1>6. CASE \E l \in Launderers : LaundererStep(l)
  BY <1>1, <1>6 DEF LaundererStep
<1> QED
  BY <1>2, <1>3, <1>4, <1>5, <1>6 DEF Next, EnvironmentStep

-----------------------------------------------------------------------------
\* The theorems.

\* Every step preserves the invariant, and so does one of something else.
LEMMA NextIInv ==
    ASSUME IInv, [Next]_vars
    PROVE  IInv'
BY HousekeeperPreserves, StockerPreserves, LaundererPreserves, EnvironmentPreserves,
   CrashPreserves DEF Next, EnvironmentStep

\* IInv holds in every reachable state.
THEOREM Invariance == Spec => []IInv
BY NextIInv, InitIInv, PTL DEF Spec

\* Every variable keeps its type, in particular no channel ever holds more than
\* its capacity or a request of another kind.
THEOREM TypeCorrect == Spec => []TypeOK
<1>1. IInv => TypeOK
  BY DEF IInv
<1> QED
  BY <1>1, Invariance, PTL

\* ConsumeItem never drives the quantity of an item below zero, however many
\* housekeepers and launderers consume at once.
THEOREM NeverNegative == Spec => []StockNeverNegative
<1>1. IInv => StockNeverNegative
  BY DEF IInv
<1> QED
  BY <1>1, Invariance, PTL

\* Stale decisions to restock overshoot by at most one replenishment per
\* employee that may restock the item.
THEOREM Bounded == Spec => []StockBounded
<1>1. IInv => StockBounded
  <2> SUFFICES ASSUME IInv, NEW i \in Items PROVE stock[i] <= StockLimit(i)
    BY DEF StockBounded
  <2>1. PendingRestocks(i) \in Nat
    BY PendingFinite, EmployeesFinite DEF PendingOK, PendingRestocks
  <2>2. stock[i] \in Int
    BY DEF IInv, TypeOK, StockTypeOK
  <2>3. stock[i] + stockReplenishmentQuantity * PendingRestocks(i) <= StockLimit(i)
    BY DEF IInv, ReplenishmentsFit
  <2> QED
    BY <2>1, <2>2, <2>3, LimitFacts DEF stockReplenishmentQuantity
<1> QED
  BY <1>1, Invariance, PTL
=============================================================================
