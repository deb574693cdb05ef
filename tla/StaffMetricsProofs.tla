-------------------------- MODULE StaffMetricsProofs --------------------------
(***************************************************************************)
(* What the metrics report adds up is exact: the proof of MetricsExact,    *)
(* for every number of employees and of requests.                          *)
(*                                                                         *)
(* HandledRequests is a fold over the employee table, which the library    *)
(* defines by recursion over the subsets of the table's domain.  That the  *)
(* recursion defines a function, and that the sum rises by one with one of *)
(* its terms, is proved first, each by looking at a least counterexample;  *)
(* then a request that arrives raises both sides of the equations, and one *)
(* that is received or entered in the table moves between the terms of one *)
(* side: from the channel to its receiver, from there to the count.        *)
(***************************************************************************)
EXTENDS StaffStockProofs, Functions, WellFoundedInduction

-----------------------------------------------------------------------------
\* Sums over a finite domain.

\* The element a fold takes first.
Pick(s) == CHOOSE x \in s : TRUE

\* g sums up f over every set of a family D of subsets of its domain.
Sums(g, f, D) == g = [s \in D |-> IF s = {} THEN 0 ELSE f[Pick(s)] + g[s \ {Pick(s)}]]

\* A non-empty set of natural numbers has a least element.
LEMMA LeastNumber ==
    ASSUME NEW S, S \subseteq Nat, S # {}
    PROVE  \E n \in S : \A m \in S : n <= m
<1> DEFINE less == {p \in Nat \X Nat : p[1] < p[2]}
<1>1. IsWellFoundedOn(less, Nat)
  BY NatLessThanWellFounded, Zenon DEF OpToRel
<1> HIDE DEF less
<1>2. \E n \in S : \A m \in S : ~(<<m, n>> \in less)
  BY <1>1, WFMin
<1>3. \A m, n \in Nat : <<m, n>> \in less <=> m < n
  BY DEF less
<1>4. PICK n \in S : \A m \in S : ~(<<m, n>> \in less)
  BY <1>2
<1>5. \A m \in S : ~(m < n)
  BY <1>3, <1>4
<1> QED
  BY <1>5

\* SumFunction is such a sum, where there is one.
LEMMA SumIsFold ==
    ASSUME NEW f, \E g : Sums(g, f, SUBSET DOMAIN f)
    PROVE  \E g : Sums(g, f, SUBSET DOMAIN f) /\ SumFunction(f) = g[DOMAIN f]
<1> DEFINE body(g, s) == IF s = {} THEN 0 ELSE LET x == CHOOSE x \in s : TRUE IN f[x] + g[s \ {x}]
           iter == CHOOSE g : g = [s \in SUBSET DOMAIN f |-> body(g, s)]
<1>1. SumFunction(f) = iter[DOMAIN f]
  BY DEF SumFunction, SumFunctionOnSet, FoldFunctionOnSet, MapThenFoldSet
<1>2. \E g : g = [s \in SUBSET DOMAIN f |-> body(g, s)]
  BY DEF Sums, Pick
<1>3. iter = [s \in SUBSET DOMAIN f |-> body(iter, s)]
  BY <1>2
<1> QED
  BY <1>1, <1>3 DEF Sums, Pick

\* Taking the first element away.
LEMMA PickFacts ==
    ASSUME NEW E, IsFiniteSet(E), NEW s \in SUBSET E, s # {}
    PROVE  /\ Pick(s) \in s /\ s \ {Pick(s)} \in SUBSET E
           /\ Cardinality(s) \in Nat \ {0}
           /\ Cardinality(s \ {Pick(s)}) = Cardinality(s) - 1
<1>1. Pick(s) \in s
  BY DEF Pick
<1>2. IsFiniteSet(s)
  BY FS_Subset
<1>3. Cardinality(s) \in Nat /\ Cardinality(s) # 0
  BY <1>2, FS_CardinalityType, FS_EmptySet
<1> QED
  BY <1>1, <1>2, <1>3, FS_RemoveElement

\* There is one over a finite domain.
LEMMA SumsExist ==
    ASSUME NEW f, IsFiniteSet(DOMAIN f)
    PROVE  \E g : Sums(g, f, SUBSET DOMAIN f)
<1> DEFINE E == DOMAIN f
           level(n) == {s \in SUBSET E : Cardinality(s) <= n}
           bad == {n \in Nat : ~ \E g : Sums(g, f, level(n))}
<1> HIDE DEF E
<1>1. ASSUME bad # {} PROVE FALSE
  <2>1. PICK n \in bad : \A m \in bad : n <= m
    BY <1>1, LeastNumber
  <2>2. CASE n = 0
    <3> DEFINE g == [s \in level(0) |-> 0]
    <3>1. \A s \in level(0) : s = {}
      <4> SUFFICES ASSUME NEW s \in SUBSET E, Cardinality(s) <= 0, s # {} PROVE FALSE
        OBVIOUS
      <4>1. Cardinality(s) \in Nat \ {0}
        BY PickFacts DEF E
      <4> QED
        BY <4>1
    <3>2. Sums(g, f, level(0))
      BY <3>1 DEF Sums
    <3> QED
      BY <2>2, <3>2
  <2>3. CASE n # 0
    <3>0. bad \subseteq Nat
      OBVIOUS
    <3>1. n - 1 \in Nat /\ n \in Nat /\ n - 1 \notin bad
      <4> HIDE DEF bad
      <4> QED
        BY <2>1, <2>3, <3>0
    <3>2. PICK h : Sums(h, f, level(n - 1))
      BY <3>1
    <3> DEFINE g == [s \in level(n) |-> IF s = {} THEN 0 ELSE f[Pick(s)] + h[s \ {Pick(s)}]]
    <3>3. \A s \in level(n) : s # {} => s \ {Pick(s)} \in level(n - 1) /\ s \ {Pick(s)} \in level(n)
      BY <3>1, PickFacts DEF E
    <3>4. \A u \in level(n - 1) : u \in level(n) => g[u] = h[u]
      BY <3>2 DEF Sums
    <3>5. \A s \in level(n) : s # {} => g[s \ {Pick(s)}] = h[s \ {Pick(s)}]
      BY <3>3, <3>4
    <3> HIDE DEF level
    <3>6. Sums(g, f, level(n))
      BY <3>5 DEF Sums
    <3> QED
      BY <2>1, <3>6
  <2> QED
    BY <2>2, <2>3
<1>2. Cardinality(E) \in Nat
  BY FS_CardinalityType DEF E
<1>3. level(Cardinality(E)) = SUBSET E
  BY FS_Subset DEF E
<1> QED
  BY <1>1, <1>2, <1>3 DEF E

\* One value is raised by one, and so are the sums it is in.
LEMMA SumsRaised ==
    ASSUME NEW E, IsFiniteSet(E), NEW e \in E, NEW f \in [E -> Nat], NEW r \in [E -> Nat],
           r[e] = f[e] + 1, \A x \in E \ {e} : r[x] = f[x],
           NEW g, Sums(g, f, SUBSET E), NEW h, Sums(h, r, SUBSET E)
    PROVE  \A s \in SUBSET E : g[s] \in Nat /\ h[s] = g[s] + (IF e \in s THEN 1 ELSE 0)
<1> DEFINE right(s) == g[s] \in Nat /\ h[s] = g[s] + (IF e \in s THEN 1 ELSE 0)
           bad == {n \in Nat : \E s \in SUBSET E : Cardinality(s) = n /\ ~right(s)}
<1>1. ASSUME bad # {} PROVE FALSE
  <2>1. PICK n \in bad : \A m \in bad : n <= m
    BY <1>1, LeastNumber
  <2>2. PICK s \in SUBSET E : Cardinality(s) = n /\ ~right(s)
    BY <2>1
  <2>3. s # {}
    BY <2>2 DEF Sums
  <2> DEFINE x == Pick(s)  u == s \ {x}
  <2>4. x \in s /\ u \in SUBSET E /\ Cardinality(u) = n - 1 /\ n - 1 \in Nat
    <3>1. /\ Pick(s) \in s /\ s \ {Pick(s)} \in SUBSET E
          /\ Cardinality(s) \in Nat \ {0}
          /\ Cardinality(s \ {Pick(s)}) = Cardinality(s) - 1
      BY <2>3, PickFacts
    <3> QED
      BY <2>2, <3>1
  <2>5. n - 1 \notin bad
    BY <2>1, <2>4
  <2>6. right(u)
    BY <2>4, <2>5
  <2>7. g[s] = f[x] + g[u] /\ h[s] = r[x] + h[u]
    BY <2>3 DEF Sums
  <2>8. e \in s <=> x = e \/ e \in u
    BY <2>4
  <2>9. x = e => e \notin u
    OBVIOUS
  <2>10. r[x] = f[x] + (IF x = e THEN 1 ELSE 0) /\ f[x] \in Nat
    BY <2>4
  <2> HIDE DEF x, u
  <2>11. right(s)
    BY <2>6, <2>7, <2>8, <2>9, <2>10
  <2> QED
    BY <2>2, <2>11
<1>2. \A s \in SUBSET E : Cardinality(s) \in Nat
  BY FS_Subset, FS_CardinalityType
<1> QED
  BY <1>1, <1>2

\* The sum of a function grows with its values.
LEMMA SumRaised ==
    ASSUME NEW E, IsFiniteSet(E), NEW e \in E, NEW f \in [E -> Nat], NEW r \in [E -> Nat],
           r[e] = f[e] + 1, \A x \in E \ {e} : r[x] = f[x]
    PROVE  SumFunction(f) \in Nat /\ SumFunction(r) = SumFunction(f) + 1
<1>1. DOMAIN f = E /\ DOMAIN r = E
  OBVIOUS
<1>2. PICK g : Sums(g, f, SUBSET E) /\ SumFunction(f) = g[E]
  BY <1>1, SumsExist, SumIsFold
<1>3. PICK h : Sums(h, r, SUBSET E) /\ SumFunction(r) = h[E]
  BY <1>1, SumsExist, SumIsFold
<1>4. \A s \in SUBSET E : g[s] \in Nat /\ h[s] = g[s] + (IF e \in s THEN 1 ELSE 0)
  <2>1. Sums(g, f, SUBSET E) /\ Sums(h, r, SUBSET E)
    BY <1>2, <1>3
  <2> QED
    BY <2>1, SumsRaised, SMTT(40)
<1> QED
  BY <1>2, <1>3, <1>4

\* A sum of natural numbers is one.
LEMMA SumNatural ==
    ASSUME NEW E, IsFiniteSet(E), NEW f \in [E -> Nat]
    PROVE  SumFunction(f) \in Nat
<1>1. CASE E = {}
  <2>1. PICK g : Sums(g, f, SUBSET DOMAIN f) /\ SumFunction(f) = g[DOMAIN f]
    BY SumsExist, SumIsFold
  <2> QED
    BY <1>1, <2>1 DEF Sums
<1>2. CASE E # {}
  <2>1. PICK e : e \in E
    BY <1>2
  <2>2. [f EXCEPT ![e] = @ + 1] \in [E -> Nat]
    BY <2>1
  <2> QED
    BY <2>1, <2>2, SumRaised
<1> QED
  BY <1>1, <1>2

\* The sum of nothing but zeros is zero.
LEMMA SumOfZeros ==
    ASSUME NEW E, IsFiniteSet(E)
    PROVE  SumFunction([x \in E |-> 0]) = 0
<1> DEFINE f == [x \in E |-> 0]
<1>1. DOMAIN f = E /\ \A x \in E : f[x] = 0
  OBVIOUS
<1> HIDE DEF f
<1>2. PICK g : Sums(g, f, SUBSET E) /\ SumFunction(f) = g[E]
  BY <1>1, SumsExist, SumIsFold
<1> DEFINE bad == {n \in Nat : \E s \in SUBSET E : Cardinality(s) = n /\ g[s] # 0}
<1>3. ASSUME bad # {} PROVE FALSE
  <2>1. PICK n \in bad : \A m \in bad : n <= m
    BY <1>3, LeastNumber
  <2>2. PICK s \in SUBSET E : Cardinality(s) = n /\ g[s] # 0
    BY <2>1
  <2>3. s # {}
    BY <1>2, <2>2 DEF Sums
  <2> DEFINE x == Pick(s)  u == s \ {x}
  <2>4. x \in s /\ u \in SUBSET E /\ Cardinality(u) = n - 1 /\ n - 1 \in Nat
    <3>1. /\ Pick(s) \in s /\ s \ {Pick(s)} \in SUBSET E
          /\ Cardinality(s) \in Nat \ {0}
          /\ Cardinality(s \ {Pick(s)}) = Cardinality(s) - 1
      BY <2>3, PickFacts
    <3> QED
      BY <2>2, <3>1
  <2>5. n - 1 \notin bad
    BY <2>1, <2>4
  <2>6. g[u] = 0
    BY <2>4, <2>5
  <2>7. g[s] = f[x] + g[u]
    BY <1>2, <2>3 DEF Sums
  <2> QED
    BY <1>1, <2>2, <2>4, <2>6, <2>7
<1>4. Cardinality(E) \in Nat
  BY FS_CardinalityType
<1> QED
  BY <1>2, <1>3, <1>4 DEF f

-----------------------------------------------------------------------------
\* What the report adds up.

\* The handledRequests of the housekeepers' table.
HkHandled == [h \in Housekeepers |-> hkEmployees[h].handledRequests]

\* And of the stockers'.
StHandled == [s \in Stockers |-> stEmployees[s].handledRequests]

\* Every cleaning request that has arrived waits, has been received or is counted.
HkCounted ==
    SumFunction(HkHandled) + Cardinality(HkPool!Receiving) + Len(cleaningCh) = cleaningCount

\* So does every restock request.
StCounted ==
    SumFunction(StHandled) + Cardinality(StPool!Receiving) + Len(stockerCh) = restockCount

\* The inductive invariant, to be taken with IInv.
MetricsInv == HkCounted /\ StCounted /\ HkTable

\* The tables hold natural numbers.
LEMMA HandledType ==
    /\ HkTypeOK => HkHandled \in [Housekeepers -> Nat]
    /\ StTypeOK => StHandled \in [Stockers -> Nat]
BY DEF HkTypeOK, StTypeOK, HkHandled, StHandled, HkPool!EmployeeStatus, StPool!EmployeeStatus

\* The employees with a request that the table does not show are finitely many.
LEMMA ReceivingFinite ==
    /\ IsFiniteSet(HkPool!Receiving) /\ Cardinality(HkPool!Receiving) \in Nat
    /\ IsFiniteSet(StPool!Receiving) /\ Cardinality(StPool!Receiving) \in Nat
<1>1. HkPool!Receiving \subseteq Housekeepers /\ StPool!Receiving \subseteq Stockers
  BY DEF HkPool!Receiving, StPool!Receiving
<1> QED
  BY <1>1, EmployeesAssumption, FS_Subset, FS_CardinalityType

\* A process that has just started has handled nothing.
LEMMA StartCounted == ProcessInit => MetricsInv
<1> SUFFICES ASSUME ProcessInit PROVE MetricsInv
  OBVIOUS
<1>1. HkHandled = [h \in Housekeepers |-> 0] /\ StHandled = [s \in Stockers |-> 0]
  BY DEF ProcessInit, HkInit, StInit, HkPool!WorkInit, StPool!WorkInit, HkPool!NewEmployees,
         StPool!NewEmployees, HkHandled, StHandled
<1>2. SumFunction(HkHandled) = 0 /\ SumFunction(StHandled) = 0
  BY <1>1, SumOfZeros, EmployeesAssumption
<1>3. Len(cleaningCh) = 0 /\ Len(stockerCh) = 0 /\ cleaningCount = 0 /\ restockCount = 0
  BY EmptySeq DEF ProcessInit, ChannelsInit
<1>4. HkPool!Receiving = {} /\ StPool!Receiving = {}
  BY DEF ProcessInit, HkInit, StInit, HkPool!WorkInit, StPool!WorkInit, HkPool!Receiving,
         StPool!Receiving
<1>5. Cardinality(HkPool!Receiving) = 0 /\ Cardinality(StPool!Receiving) = 0
  BY <1>4, FS_EmptySet
<1> QED
  BY <1>2, <1>3, <1>5, InitHkTable DEF MetricsInv, HkCounted, StCounted

\* A housekeeper's step moves a request from the channel to its receiver, or
\* from there to the count, and leaves all three alone otherwise.
LEMMA HousekeeperCounted ==
    ASSUME IInv, IInv', HkCounted, NEW h \in Housekeepers, HousekeeperStep(h)
    PROVE  HkCounted'
<1> USE DEF channelVars
<1>1. HkTypeOK /\ HkTypeOK' /\ cleaningCh \in Seq(CleaningRequests)
  BY DEF IInv, TypeOK, ChannelsTypeOK
<1>2. UNCHANGED cleaningCount /\ HkStepOf(h)
  BY DEF HousekeeperStep, envVars
<1>3. /\ SumFunction(HkHandled) \in Nat /\ Len(cleaningCh) \in Nat
      /\ IsFiniteSet(HkPool!Receiving) /\ Cardinality(HkPool!Receiving) \in Nat
      /\ SumFunction(HkHandled) + Cardinality(HkPool!Receiving) + Len(cleaningCh) = cleaningCount
  BY <1>1, SumNatural, HandledType, EmployeesAssumption, ReceivingFinite, LenProperties DEF HkCounted
<1>4. CASE HkReceive(h)
  <2>1. Len(cleaningCh') = Len(cleaningCh) - 1
    BY <1>1, <1>4, ReceiveType DEF HkReceive, HkPool!ReceiveRequest
  <2>2. HkHandled' = HkHandled
    BY <1>4 DEF HkReceive, HkPool!ReceiveRequest, HkHandled
  <2>3. h \notin HkPool!Receiving /\ HkPool!Receiving' = HkPool!Receiving \cup {h}
    BY <1>1, <1>4 DEF HkReceive, HkPool!ReceiveRequest, HkPool!Receiving, HkTypeOK
  <2>4. Cardinality(HkPool!Receiving') = Cardinality(HkPool!Receiving) + 1
    BY <1>3, <2>3, FS_AddElement
  <2> QED
    BY <1>2, <1>3, <2>1, <2>2, <2>4 DEF HkCounted
<1>5. CASE HkStartWork(h)
  <2>1. UNCHANGED cleaningCh
    BY <1>5 DEF HkStartWork, HkPool!StartWork
  <2>2. DOMAIN hkEmployees = Housekeepers /\ DOMAIN hkPhase = Housekeepers
    BY <1>1 DEF HkTypeOK
  <2>3. /\ HkHandled'[h] = HkHandled[h] + 1
        /\ \A k \in Housekeepers \ {h} : HkHandled'[k] = HkHandled[k]
    BY <1>5, <2>2
       DEF HkStartWork, HkPool!StartWork, HkPool!setEmployeeWorkingStatus, HkHandled
  <2>4. HkHandled \in [Housekeepers -> Nat] /\ HkHandled' \in [Housekeepers -> Nat]
    BY <1>1 DEF HkTypeOK, HkHandled, HkPool!EmployeeStatus
  <2>5. SumFunction(HkHandled') = SumFunction(HkHandled) + 1
    BY <2>3, <2>4, SumRaised, EmployeesAssumption
  <2>6. h \in HkPool!Receiving /\ HkPool!Receiving' = HkPool!Receiving \ {h}
    BY <1>5, <2>2 DEF HkStartWork, HkPool!StartWork, HkPool!Receiving
  <2>7. Cardinality(HkPool!Receiving') = Cardinality(HkPool!Receiving) - 1
    BY <1>3, <2>6, FS_RemoveElement
  <2> QED
    BY <1>2, <1>3, <2>1, <2>5, <2>7 DEF HkCounted
<1>6. CASE ~HkReceive(h) /\ ~HkStartWork(h)
  <2>1. UNCHANGED cleaningCh
    BY <1>2, <1>6 DEF HkStepOf, HkStop, HkPool!StopOnCancel, HkClock, HkConsume, HkRestock, HkRetry,
                      HkLaundry, HkUpdateStatus, HkFinish
  <2>2. UNCHANGED hkEmployees \/ HkPool!setEmployeeIdleStatus(h)
    BY <1>2, <1>6 DEF HkStepOf, HkStop, HkPool!StopOnCancel, HkClock, HkConsume, HkRestock, HkRetry,
                      HkLaundry, HkUpdateStatus, HkFinish, HkPool!WorkReturns, HkNextStep, HkGoto
  <2>3. HkHandled' = HkHandled
    <3>1. \A k \in Housekeepers : hkEmployees'[k].handledRequests = hkEmployees[k].handledRequests
      BY <1>1, <2>2 DEF HkPool!setEmployeeIdleStatus, HkTypeOK
    <3> QED
      BY <3>1 DEF HkHandled
  <2>4. /\ hkPhase[h] # "received"
        /\ \E p \in {"select", "work", "restock", "retry", "stopped"} :
              hkPhase' = [hkPhase EXCEPT ![h] = p]
    BY <1>2, <1>6 DEF HkStepOf, HkStop, HkPool!StopOnCancel, HkClock, HkConsume, HkRestock, HkRetry,
                      HkLaundry, HkUpdateStatus, HkFinish, HkPool!WorkReturns, HkNextStep, HkGoto, HkAt
  <2>5. HkPool!Receiving' = HkPool!Receiving
    BY <1>1, <2>4 DEF HkPool!Receiving, HkTypeOK
  <2> QED
    BY <1>2, <1>3, <2>1, <2>3, <2>5 DEF HkCounted
<1> QED
  BY <1>4, <1>5, <1>6

\* So does a stocker's step.
LEMMA StockerCounted ==
    ASSUME IInv, IInv', StCounted, NEW s \in Stockers, StockerStep(s)
    PROVE  StCounted'
<1> USE DEF channelVars
<1>1. StTypeOK /\ StTypeOK' /\ stockerCh \in Seq(RestockRequests)
  BY DEF IInv, TypeOK, ChannelsTypeOK
<1>2. UNCHANGED restockCount /\ StStepOf(s)
  BY DEF StockerStep, envVars
<1>3. /\ SumFunction(StHandled) \in Nat /\ Len(stockerCh) \in Nat
      /\ IsFiniteSet(StPool!Receiving) /\ Cardinality(StPool!Receiving) \in Nat
      /\ SumFunction(StHandled) + Cardinality(StPool!Receiving) + Len(stockerCh) = restockCount
  BY <1>1, SumNatural, HandledType, EmployeesAssumption, ReceivingFinite, LenProperties DEF StCounted
<1>4. CASE StReceive(s)
  <2>1. Len(stockerCh') = Len(stockerCh) - 1
    BY <1>1, <1>4, ReceiveType DEF StReceive, StPool!ReceiveRequest
  <2>2. StHandled' = StHandled
    BY <1>4 DEF StReceive, StPool!ReceiveRequest, StHandled
  <2>3. s \notin StPool!Receiving /\ StPool!Receiving' = StPool!Receiving \cup {s}
    BY <1>1, <1>4 DEF StReceive, StPool!ReceiveRequest, StPool!Receiving, StTypeOK
  <2>4. Cardinality(StPool!Receiving') = Cardinality(StPool!Receiving) + 1
    BY <1>3, <2>3, FS_AddElement
  <2> QED
    BY <1>2, <1>3, <2>1, <2>2, <2>4 DEF StCounted
<1>5. CASE StStartWork(s)
  <2>1. UNCHANGED stockerCh
    BY <1>5 DEF StStartWork, StPool!StartWork
  <2>2. DOMAIN stEmployees = Stockers /\ DOMAIN stPhase = Stockers
    BY <1>1 DEF StTypeOK
  <2>3. /\ StHandled'[s] = StHandled[s] + 1
        /\ \A k \in Stockers \ {s} : StHandled'[k] = StHandled[k]
    BY <1>5, <2>2
       DEF StStartWork, StPool!StartWork, StPool!setEmployeeWorkingStatus, StHandled
  <2>4. StHandled \in [Stockers -> Nat] /\ StHandled' \in [Stockers -> Nat]
    BY <1>1 DEF StTypeOK, StHandled, StPool!EmployeeStatus
  <2>5. SumFunction(StHandled') = SumFunction(StHandled) + 1
    BY <2>3, <2>4, SumRaised, EmployeesAssumption
  <2>6. s \in StPool!Receiving /\ StPool!Receiving' = StPool!Receiving \ {s}
    BY <1>5, <2>2 DEF StStartWork, StPool!StartWork, StPool!Receiving
  <2>7. Cardinality(StPool!Receiving') = Cardinality(StPool!Receiving) - 1
    BY <1>3, <2>6, FS_RemoveElement
  <2> QED
    BY <1>2, <1>3, <2>1, <2>5, <2>7 DEF StCounted
<1>6. CASE ~StReceive(s) /\ ~StStartWork(s)
  <2>1. UNCHANGED stockerCh
    BY <1>2, <1>6 DEF StStepOf, StStop, StPool!StopOnCancel, StGetStock, StNextItem, StFinish
  <2>2. UNCHANGED stEmployees \/ StPool!setEmployeeIdleStatus(s)
    BY <1>2, <1>6 DEF StStepOf, StStop, StPool!StopOnCancel, StGetStock, StNextItem, StFinish,
                      StPool!WorkReturns
  <2>3. StHandled' = StHandled
    <3>1. \A k \in Stockers : stEmployees'[k].handledRequests = stEmployees[k].handledRequests
      <4>1. DOMAIN stEmployees = Stockers
        BY <1>1 DEF StTypeOK
      <4> QED
        BY <2>2, <4>1 DEF StPool!setEmployeeIdleStatus
    <3> QED
      BY <3>1 DEF StHandled
  <2>4. /\ stPhase[s] # "received"
        /\ \/ UNCHANGED stPhase
           \/ \E p \in {"select", "items", "stopped"} : stPhase' = [stPhase EXCEPT ![s] = p]
    BY <1>2, <1>6 DEF StStepOf, StStop, StPool!StopOnCancel, StGetStock, StNextItem, StFinish,
                      StPool!WorkReturns
  <2>5. StPool!Receiving' = StPool!Receiving
    <3>1. DOMAIN stPhase = Stockers
      BY <1>1 DEF StTypeOK
    <3> QED
      BY <2>4, <3>1 DEF StPool!Receiving
  <2> QED
    BY <1>2, <1>3, <2>1, <2>3, <2>5 DEF StCounted
<1> QED
  BY <1>4, <1>5, <1>6

\* A request that arrives is counted as arrived and waits.
LEMMA ArrivalCounted ==
    ASSUME IInv, MetricsInv
    PROVE  (CleaningArrives => HkCounted') /\ (RestockArrives => StCounted')
<1>0. /\ cleaningCh \in Seq(CleaningRequests) /\ stockerCh \in Seq(RestockRequests)
      /\ HkTypeOK /\ StTypeOK
  BY DEF IInv, TypeOK, ChannelsTypeOK
<1>1. ASSUME CleaningArrives PROVE HkCounted'
  <2>1. Len(cleaningCh') = Len(cleaningCh) + 1 /\ Len(cleaningCh) \in Nat
    BY <1>0, <1>1, SendType DEF CleaningArrives, SendCleaning
  <2>2. /\ cleaningCount' = cleaningCount + 1
        /\ HkHandled' = HkHandled /\ HkPool!Receiving' = HkPool!Receiving
    BY <1>1 DEF CleaningArrives, hkVars, HkHandled, HkPool!Receiving
  <2>3. SumFunction(HkHandled) + Cardinality(HkPool!Receiving) + Len(cleaningCh) = cleaningCount
    BY DEF MetricsInv, HkCounted
  <2>4. SumFunction(HkHandled) \in Nat /\ Cardinality(HkPool!Receiving) \in Nat
    BY <1>0, SumNatural, HandledType, EmployeesAssumption, ReceivingFinite
  <2> QED
    BY <2>1, <2>2, <2>3, <2>4 DEF HkCounted
<1>2. ASSUME RestockArrives PROVE StCounted'
  <2>1. Len(stockerCh') = Len(stockerCh) + 1 /\ Len(stockerCh) \in Nat
    BY <1>0, <1>2, SendType DEF RestockArrives, SendRestock
  <2>2. /\ restockCount' = restockCount + 1
        /\ StHandled' = StHandled /\ StPool!Receiving' = StPool!Receiving
    BY <1>2 DEF RestockArrives, stVars, StHandled, StPool!Receiving
  <2>3. SumFunction(StHandled) + Cardinality(StPool!Receiving) + Len(stockerCh) = restockCount
    BY DEF MetricsInv, StCounted
  <2>4. SumFunction(StHandled) \in Nat /\ Cardinality(StPool!Receiving) \in Nat
    BY <1>0, SumNatural, HandledType, EmployeesAssumption, ReceivingFinite
  <2> QED
    BY <2>1, <2>2, <2>3, <2>4 DEF StCounted
<1> QED
  BY <1>1, <1>2

\* Every step keeps MetricsInv where IInv holds before and after it.
LEMMA NextMetricsInv ==
    ASSUME IInv, IInv', MetricsInv, [Next]_vars
    PROVE  MetricsInv'
<1> USE DEF channelVars
<1>1. HkTable'
  BY NextHkTable DEF IInv, TypeOK, MetricsInv
<1>2. UNCHANGED <<hkEmployees, hkPhase, cleaningCh, cleaningCount>> => HkCounted'
  BY DEF MetricsInv, HkCounted, HkHandled, HkPool!Receiving
<1>3. UNCHANGED <<stEmployees, stPhase, stockerCh, restockCount>> => StCounted'
  BY DEF MetricsInv, StCounted, StHandled, StPool!Receiving
<1>4. CASE CleaningArrives
  <2>1. UNCHANGED <<stEmployees, stPhase, stockerCh, restockCount>>
    BY <1>4 DEF CleaningArrives, stVars
  <2> QED
    BY <1>1, <1>3, <1>4, <2>1, ArrivalCounted DEF MetricsInv
<1>5. CASE RestockArrives
  <2>1. UNCHANGED <<hkEmployees, hkPhase, cleaningCh, cleaningCount>>
    BY <1>5 DEF RestockArrives, hkVars
  <2> QED
    BY <1>1, <1>2, <1>5, <2>1, ArrivalCounted DEF MetricsInv
<1>6. CASE HourPasses \/ Shutdown \/ UNCHANGED vars \/ \E c \in Chans : HourOffered(c)
  <2>1. UNCHANGED <<hkEmployees, hkPhase, cleaningCh, cleaningCount, stEmployees, stPhase, stockerCh, restockCount>>
    BY <1>6 DEF HourPasses, Shutdown, HourOffered, vars, envVars, hkVars, stVars
  <2> QED
    BY <1>1, <1>2, <1>3, <2>1 DEF MetricsInv
<1>7. CASE Crash
  <2>1. ProcessInit' => MetricsInv'
    BY StartCounted, PTL
  <2> QED
    BY <1>7, <2>1, RestartIsStart DEF Crash
<1>8. ASSUME NEW h \in Housekeepers, HousekeeperStep(h) PROVE MetricsInv'
  <2>1. HkStepOf(h) /\ UNCHANGED <<stEmployees, stPhase, restockCount>>
    BY <1>8 DEF HousekeeperStep, stVars, envVars
  <2>2. UNCHANGED stockerCh
    BY <2>1 DEF HkStepOf, HkReceive, HkStartWork, HkStop, HkClock, HkConsume, HkRestock, HkRetry, HkLaundry,
                HkUpdateStatus, HkFinish
  <2>3. HkCounted'
    BY <1>8, HousekeeperCounted DEF MetricsInv
  <2> QED
    BY <1>1, <1>3, <2>1, <2>2, <2>3 DEF MetricsInv
<1>9. ASSUME NEW s \in Stockers, StockerStep(s) PROVE MetricsInv'
  <2>1. StStepOf(s) /\ UNCHANGED <<hkEmployees, hkPhase, cleaningCount>>
    BY <1>9 DEF StockerStep, hkVars, envVars
  <2>2. UNCHANGED cleaningCh
    BY <2>1 DEF StStepOf, StReceive, StStartWork, StStop, StGetStock, StNextItem, StFinish
  <2>3. StCounted'
    BY <1>9, StockerCounted DEF MetricsInv
  <2> QED
    BY <1>1, <1>2, <2>1, <2>2, <2>3 DEF MetricsInv
<1>10. ASSUME NEW l \in Launderers, LaundererStep(l) PROVE MetricsInv'
  <2>1. LdStepOf(l, ChansInUse) /\ UNCHANGED <<hkEmployees, hkPhase, cleaningCount, stEmployees, stPhase, restockCount>>
    BY <1>10 DEF LaundererStep, hkVars, stVars, envVars
  <2>2. UNCHANGED <<cleaningCh, stockerCh>>
    BY <2>1 DEF LdStepOf, LdReceive, LdStartWork, LdStop, LdClock, LdWash, LdRestock, LdRegister, LdHourChange,
                LdCycleCancelled
  <2> QED
    BY <1>1, <1>2, <1>3, <2>1, <2>2 DEF MetricsInv
<1> QED
  BY <1>4, <1>5, <1>6, <1>7, <1>8, <1>9, <1>10 DEF Next

-----------------------------------------------------------------------------
\* The theorem.

\* The folds of the report are the sums of the tables.
LEMMA ReportedSums ==
    /\ HkPool!HandledRequests = SumFunction(HkHandled)
    /\ StPool!HandledRequests = SumFunction(StHandled)
<1>1. HkPool!HandledRequests = SumFunction(HkHandled)
  BY DEF HkPool!HandledRequests, HkHandled, SumFunction, SumFunctionOnSet, FoldFunctionOnSet,
         MapThenFoldSet, HkPool!SumFunction, HkPool!SumFunctionOnSet, HkPool!FoldFunctionOnSet,
         HkPool!MapThenFoldSet
<1>2. StPool!HandledRequests = SumFunction(StHandled)
  BY DEF StPool!HandledRequests, StHandled, SumFunction, SumFunctionOnSet, FoldFunctionOnSet,
         MapThenFoldSet, StPool!SumFunction, StPool!SumFunctionOnSet, StPool!FoldFunctionOnSet,
         StPool!MapThenFoldSet
<1> QED
  BY <1>1, <1>2

\* HandledRequests and IdleEmployeeCount, read at any moment, account for every
\* request that has arrived and for every employee outside work, although the
\* channels and the tables are changed by different goroutines in steps of their
\* own: they lag by exactly the requests received and not yet entered.
THEOREM MetricsAreExact == Spec => []MetricsExact
<1>1. Init => MetricsInv
  BY StartCounted DEF Init
<1>2. IInv /\ IInv' /\ MetricsInv /\ [Next]_vars => MetricsInv'
  BY NextMetricsInv
<1>3. MetricsInv => MetricsExact
  <2> SUFFICES ASSUME MetricsInv PROVE MetricsExact
    OBVIOUS
  <2>1. HkPool!IdleEmployeeCount = Cardinality({h \in Housekeepers : hkEmployees[h].isIdle})
    BY DEF HkPool!IdleEmployeeCount, HkPool!Cardinality, Cardinality
  <2>2. {h \in Housekeepers : hkEmployees[h].isIdle} =
          {h \in Housekeepers : hkPhase[h] \in {"select", "received", "stopped"}}
    BY DEF MetricsInv, HkTable
  <2> QED
    BY <2>1, <2>2, ReportedSums DEF MetricsInv, HkCounted, StCounted, MetricsExact
<1> QED
  BY <1>1, <1>2, <1>3, Invariance, PTL DEF Spec
=============================================================================
