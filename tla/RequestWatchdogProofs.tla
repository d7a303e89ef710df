------------------------ MODULE RequestWatchdogProofs ------------------------
(* Proofs about RequestWatchdog, for any number of jobs and executors.     *)
EXTENDS RequestWatchdog, FiniteSetTheorems, SequenceTheorems, TLAPS

(* The inductive invariant. *)
IInv == /\ TypeOK
        /\ BudgetExact
        /\ OneWinner
        /\ QueueConsistent
        /\ HoldersConsistent

States == {"idle", "refused", "delivered", "released", "dropped", "reserved",
           "extracted", "retired", "queued", "running", "armed", "retry",
           "popped", "held", "bounced"}

LEMMA EntryStates == EntryState = States
  BY DEF EntryState, States, Budgeted, InMap, WithTimer

(* What one entry entering or leaving the accepted ones does to the count. *)
LEMMA CountUp ==
  ASSUME BudgetExact, NEW j \in Jobs, entry[j] \notin Budgeted,
         Outstanding' = Outstanding \cup {j}, pending' = pending + 1,
         pending < MaxPendingEntries
  PROVE  BudgetExact' /\ pending' \in Nat
<1>1. IsFiniteSet(Outstanding)
  BY FiniteAssumption, FS_Subset DEF Outstanding
<1>2. Cardinality(Outstanding) \in Nat
  BY <1>1, FS_CardinalityType
<1>3. j \notin Outstanding
  BY DEF Outstanding
<1>4. Cardinality(Outstanding') = Cardinality(Outstanding) + 1
  BY <1>1, <1>3, FS_AddElement
<1> QED  BY <1>2, <1>4, BoundsAssumption DEF BudgetExact

LEMMA CountDown ==
  ASSUME BudgetExact, NEW j \in Jobs, entry[j] \in Budgeted,
         Outstanding' = Outstanding \ {j}, pending' = pending - 1
  PROVE  BudgetExact' /\ pending' \in Nat
<1>1. IsFiniteSet(Outstanding)
  BY FiniteAssumption, FS_Subset DEF Outstanding
<1>2. Cardinality(Outstanding) \in Nat
  BY <1>1, FS_CardinalityType
<1>3. j \in Outstanding
  BY DEF Outstanding
<1>4. /\ IsFiniteSet(Outstanding')
      /\ Cardinality(Outstanding') = Cardinality(Outstanding) - 1
  BY <1>1, <1>3, FS_RemoveElement
<1>5. Cardinality(Outstanding') \in Nat
  BY <1>4, FS_CardinalityType
<1> QED  BY <1>2, <1>4, <1>5, BoundsAssumption DEF BudgetExact

LEMMA CountSame ==
  ASSUME TypeOK, BudgetExact, Outstanding' = Outstanding, pending' = pending
  PROVE  BudgetExact' /\ pending' \in Nat
  BY DEF BudgetExact, TypeOK

LEMMA InitInvariant == Init => IInv
<1> SUFFICES ASSUME Init PROVE IInv
  OBVIOUS
<1>1. TypeOK
  <2>1. queue \in Seq(Jobs)
    BY EmptySeq DEF Init
  <2> QED BY <2>1, EntryStates DEF Init, TypeOK, States, OwnerState, Jobs0
<1>2. Outstanding = {}
  BY DEF Init, Outstanding, Budgeted, InMap, WithTimer
<1>3. BudgetExact
  BY <1>2, FS_EmptySet, BoundsAssumption DEF Init, BudgetExact
<1>4. OneWinner /\ QueueConsistent
  BY BoundsAssumption DEF Init, OneWinner, QueueConsistent
<1>5. HoldersConsistent
  BY NoneAssumption DEF Init, HoldersConsistent, WithTimer, Expired
<1> QED  BY <1>1, <1>3, <1>4, <1>5 DEF IInv

LEMMA ArmReservePreserves ==
  ASSUME IInv, NEW j \in Jobs, ArmReserve(j)
  PROVE  IInv'
<1> USE DEF IInv, Put
<1>1. BudgetExact' /\ pending' \in Nat
  <2>1. CASE pending < MaxPendingEntries
    <3>1. Outstanding' = Outstanding \cup {j}
      BY <2>1 DEF ArmReserve, Outstanding, TypeOK, Budgeted, InMap, WithTimer
    <3> QED BY <2>1, <3>1, CountUp DEF ArmReserve, Budgeted, InMap, WithTimer
  <2>2. CASE ~(pending < MaxPendingEntries)
    <3>1. Outstanding' = Outstanding
      BY <2>2 DEF ArmReserve, Outstanding, TypeOK, Budgeted, InMap, WithTimer
    <3> QED BY <2>2, <3>1, CountSame DEF ArmReserve
  <2> QED BY <2>1, <2>2
<1>2. TypeOK'
  BY <1>1, EntryStates DEF ArmReserve, TypeOK, States
<1>3. OneWinner' /\ QueueConsistent'
  BY DEF ArmReserve, TypeOK, OneWinner, QueueConsistent, Expired
<1>4. HoldersConsistent'
  BY DEF ArmReserve, TypeOK, HoldersConsistent, WithTimer, Expired
<1> QED BY <1>1, <1>2, <1>3, <1>4

LEMMA ArmInsertPreserves ==
  ASSUME IInv, NEW j \in Jobs, ArmInsert(j)
  PROVE  IInv'
<1> USE DEF IInv, Put
<1>1. BudgetExact' /\ pending' \in Nat
  <2>1. CASE entry'[j] = "armed" /\ pending' = pending
    <3>1. Outstanding' = Outstanding
      BY <2>1 DEF ArmInsert, Outstanding, TypeOK, Budgeted, InMap, WithTimer
    <3> QED BY <2>1, <3>1, CountSame
  <2>2. CASE entry' = [entry EXCEPT ![j] = "refused"] /\ pending' = pending - 1
    <3>1. Outstanding' = Outstanding \ {j}
      BY <2>2 DEF ArmInsert, Outstanding, TypeOK, Budgeted, InMap, WithTimer
    <3> QED BY <2>2, <3>1, CountDown DEF ArmInsert, Budgeted
  <2> QED BY <2>1, <2>2 DEF ArmInsert, TypeOK
<1>2. TypeOK'
  BY <1>1, EntryStates DEF ArmInsert, TypeOK, States
<1>3. OneWinner' /\ QueueConsistent'
  BY DEF ArmInsert, TypeOK, OneWinner, QueueConsistent, Expired
<1>4. HoldersConsistent'
  BY DEF ArmInsert, TypeOK, HoldersConsistent, WithTimer, Expired
<1> QED BY <1>1, <1>2, <1>3, <1>4

LEMMA OwnerClaimPreserves ==
  ASSUME IInv, NEW j \in Jobs, OwnerClaim(j)
  PROVE  IInv'
<1> USE DEF IInv, CasSucceeds
<1>1. BudgetExact' /\ pending' \in Nat
  BY CountSame DEF OwnerClaim, Outstanding
<1>2. TypeOK'
  BY DEF OwnerClaim, TypeOK, OwnerState
<1>3. OneWinner' /\ QueueConsistent'
  BY DEF OwnerClaim, TypeOK, OneWinner, QueueConsistent, HoldersConsistent
<1>4. HoldersConsistent'
  BY DEF OwnerClaim, TypeOK, HoldersConsistent
<1> QED BY <1>1, <1>2, <1>3, <1>4

LEMMA CancelPreserves ==
  ASSUME IInv, NEW j \in Jobs, CancelExtract(j) \/ CancelRelease(j)
  PROVE  IInv'
<1> USE DEF IInv, Put
<1>1. BudgetExact' /\ pending' \in Nat
  <2>1. CASE CancelExtract(j)
    <3>1. Outstanding' = Outstanding
      BY <2>1 DEF CancelExtract, Outstanding, TypeOK, Budgeted, InMap, WithTimer
    <3> QED BY <2>1, <3>1, CountSame DEF CancelExtract
  <2>2. CASE CancelRelease(j)
    <3>1. entry[j] = "extracted"
      BY <2>2 DEF CancelRelease, HoldersConsistent
    <3>2. Outstanding' = Outstanding \ {j}
      BY <2>2 DEF CancelRelease, Outstanding, TypeOK, Budgeted, InMap, WithTimer
    <3> QED BY <2>2, <3>1, <3>2, CountDown DEF CancelRelease, Budgeted
  <2> QED BY <2>1, <2>2
<1>2. TypeOK'
  BY <1>1, EntryStates DEF CancelExtract, CancelRelease, TypeOK, States, OwnerState
<1>3. OneWinner' /\ QueueConsistent'
  BY DEF CancelExtract, CancelRelease, TypeOK, OneWinner, QueueConsistent, HoldersConsistent,
         Expired, InMap
<1>4. HoldersConsistent'
  BY DEF CancelExtract, CancelRelease, TypeOK, HoldersConsistent, WithTimer, Expired, InMap
<1> QED BY <1>1, <1>2, <1>3, <1>4

LEMMA TimerHandsPreserves ==
  ASSUME IInv, NEW j \in Jobs, TimerPop(j) \/ TimerClaim(j) \/ TimerRetry(j)
  PROVE  IInv'
<1> USE DEF IInv, Put, CasSucceeds, Owned
<1>1. BudgetExact' /\ pending' \in Nat
  <2>1. CASE pending' = pending
    <3>1. Outstanding' = Outstanding
      BY <2>1 DEF TimerPop, TimerClaim, TimerRetry, Outstanding, TypeOK, Budgeted, InMap, WithTimer
    <3> QED BY <2>1, <3>1, CountSame
  <2>2. CASE pending' = pending - 1
    <3>1. Outstanding' = Outstanding \ {j} /\ entry[j] \in Budgeted
      BY <2>2 DEF TimerPop, TimerClaim, TimerRetry, Outstanding, TypeOK, Budgeted, InMap, WithTimer
    <3> QED BY <2>2, <3>1, CountDown
  <2> QED BY <2>1, <2>2 DEF TimerPop, TimerClaim, TimerRetry
<1>2. TypeOK'
  BY <1>1, EntryStates DEF TimerPop, TimerClaim, TimerRetry, TypeOK, States, Jobs0
<1>3. OneWinner' /\ QueueConsistent'
  BY DEF TimerPop, TimerClaim, TimerRetry, TypeOK, OneWinner, QueueConsistent,
         HoldersConsistent, Expired, InMap
<1>4. HoldersConsistent'
  <2>1. CASE TimerPop(j)
    BY <2>1, NoneAssumption DEF TimerPop, TypeOK, OneWinner, HoldersConsistent, WithTimer,
                                Expired, InMap
  <2>2. CASE TimerClaim(j)
    BY <2>2, NoneAssumption DEF TimerClaim, TypeOK, OneWinner, HoldersConsistent, WithTimer,
                                Expired, InMap
  <2>3. CASE TimerRetry(j)
    BY <2>3, NoneAssumption DEF TimerRetry, TypeOK, OneWinner, HoldersConsistent, WithTimer,
                                Expired, InMap
  <2> QED BY <2>1, <2>2, <2>3
<1> QED BY <1>1, <1>2, <1>3, <1>4
LEMMA TimerDeliverPreserves ==
  ASSUME IInv, NEW j \in Jobs, TimerDeliver(j)
  PROVE  IInv'
<1> USE DEF IInv, Put
<1>1. BudgetExact' /\ pending' \in Nat
  <2>1. Outstanding' = Outstanding
    BY DEF TimerDeliver, Outstanding, TypeOK, Budgeted, InMap, WithTimer
  <2> QED BY <2>1, CountSame DEF TimerDeliver
<1>2. CASE queue' = queue
  <2>1. TypeOK'
    BY <1>1, <1>2, EntryStates DEF TimerDeliver, TypeOK, States, Jobs0
  <2>2. entry' = [entry EXCEPT ![j] = "bounced"]
    <3>1. Append(queue, j) # queue
      BY AppendProperties DEF TypeOK
    <3> QED BY <1>2, <3>1 DEF TimerDeliver
  <2>3. OneWinner' /\ QueueConsistent'
    BY <1>2, <2>2 DEF TimerDeliver, TypeOK, OneWinner, QueueConsistent, Expired
  <2>4. HoldersConsistent'
    BY <1>2, <2>2, NoneAssumption DEF TimerDeliver, TypeOK, HoldersConsistent, WithTimer, Expired
  <2> QED BY <1>1, <2>1, <2>3, <2>4
<1>3. CASE /\ QueueHasRoom /\ queue' = Append(queue, j)
           /\ entry' = [entry EXCEPT ![j] = "queued"] /\ timer' = None
  <2>1. /\ queue' \in Seq(Jobs) /\ Len(queue') = Len(queue) + 1
        /\ \A i \in 1..Len(queue) : queue'[i] = queue[i]
        /\ queue'[Len(queue) + 1] = j
        /\ Len(queue) \in Nat
    BY <1>3, AppendProperties DEF TypeOK
  <2>2. TypeOK'
    BY <1>1, <1>3, <2>1, EntryStates DEF TimerDeliver, TypeOK, States, Jobs0
  <2>3. \A i \in 1..Len(queue) : queue[i] # j
    BY DEF TimerDeliver, QueueConsistent
  <2>4. Len(queue') <= ExecutorQueueCap
    BY <1>3, <2>1, BoundsAssumption DEF QueueHasRoom
  <2>5. \A k \in Jobs : entry'[k] = "queued" <=> \E i \in 1..Len(queue') : queue'[i] = k
    BY <1>3, <2>1 DEF QueueConsistent, TypeOK
  <2>6. \A i, k \in 1..Len(queue') : queue'[i] = queue'[k] => i = k
    <3> SUFFICES ASSUME NEW i \in 1..Len(queue'), NEW k \in 1..Len(queue'),
                        queue'[i] = queue'[k]
                 PROVE  i = k
      OBVIOUS
    <3>1. \A n \in 1..Len(queue') : n \in 1..Len(queue) \/ n = Len(queue) + 1
      BY <2>1
    <3>2. CASE i \in 1..Len(queue) /\ k \in 1..Len(queue)
      BY <2>1, <3>2 DEF QueueConsistent
    <3>3. CASE i = Len(queue) + 1 /\ k \in 1..Len(queue)
      BY <2>1, <2>3, <3>3
    <3>4. CASE k = Len(queue) + 1 /\ i \in 1..Len(queue)
      BY <2>1, <2>3, <3>4
    <3> QED BY <3>1, <3>2, <3>3, <3>4
  <2>7. OneWinner'
    BY <1>3 DEF TimerDeliver, TypeOK, OneWinner, Expired
  <2>8. HoldersConsistent'
    BY <1>3, NoneAssumption DEF TimerDeliver, TypeOK, HoldersConsistent, WithTimer, Expired
  <2> QED BY <1>1, <2>2, <2>4, <2>5, <2>6, <2>7, <2>8 DEF QueueConsistent
<1> QED BY <1>2, <1>3 DEF TimerDeliver

LEMMA ExecutorTakePreserves ==
  ASSUME IInv, NEW e \in Executors, ExecutorTake(e)
  PROVE  IInv'
<1> USE DEF IInv, Put
<1> DEFINE j == Head(queue)
<1>1. /\ j \in Jobs /\ queue' \in Seq(Jobs)
      /\ Len(queue') = Len(queue) - 1
      /\ \A i \in 1..Len(queue') : queue'[i] = queue[i + 1]
      /\ Len(queue) \in Nat \ {0} /\ Len(queue') \in Nat
      /\ j = queue[1]
  BY HeadTailProperties DEF ExecutorTake, TypeOK
<1>2. entry[j] = "queued" /\ entry' = [entry EXCEPT ![j] = "running"]
  BY <1>1 DEF ExecutorTake, QueueConsistent
<1> HIDE DEF j
<1>3. BudgetExact' /\ pending' \in Nat
  <2>1. Outstanding' = Outstanding
    BY <1>1, <1>2 DEF Outstanding, TypeOK, Budgeted, InMap, WithTimer
  <2> QED BY <2>1, CountSame DEF ExecutorTake
<1>4. executor' = [executor EXCEPT ![e] = j]
  BY DEF ExecutorTake, j
<1>5. TypeOK'
  BY <1>1, <1>2, <1>3, <1>4, EntryStates DEF ExecutorTake, TypeOK, States, Jobs0
<1>6. OneWinner'
  BY <1>1, <1>2 DEF ExecutorTake, TypeOK, OneWinner, Expired
<1>7. QueueConsistent'
  <2>1. Len(queue') <= ExecutorQueueCap
    BY <1>1, BoundsAssumption DEF QueueConsistent
  <2>2. \A i, k \in 1..Len(queue') : queue'[i] = queue'[k] => i = k
    BY <1>1 DEF QueueConsistent
  <2>3. ASSUME NEW k \in Jobs
        PROVE  entry'[k] = "queued" <=> \E i \in 1..Len(queue') : queue'[i] = k
    <3>1. CASE k = j
      <4>1. \A i \in 1..Len(queue') : queue'[i] # j
        BY <1>1 DEF QueueConsistent
      <4> QED BY <1>1, <1>2, <3>1, <4>1 DEF TypeOK
    <3>2. CASE k # j
      <4>1. entry'[k] = entry[k]
        BY <1>1, <1>2, <3>2 DEF TypeOK
      <4>2. (\E i \in 1..Len(queue) : queue[i] = k) => \E i \in 1..Len(queue') : queue'[i] = k
        <5> SUFFICES ASSUME NEW i \in 1..Len(queue), queue[i] = k
                     PROVE  \E n \in 1..Len(queue') : queue'[n] = k
          OBVIOUS
        <5>1. i # 1 /\ i - 1 \in 1..Len(queue')
          BY <1>1, <3>2
        <5>2. queue'[i - 1] = queue[i]
          BY <1>1, <5>1
        <5> QED BY <5>1, <5>2
      <4>3. (\E i \in 1..Len(queue') : queue'[i] = k) => \E i \in 1..Len(queue) : queue[i] = k
        BY <1>1
      <4> QED BY <4>1, <4>2, <4>3 DEF QueueConsistent
    <3> QED BY <3>1, <3>2
  <2> QED BY <2>1, <2>2, <2>3 DEF QueueConsistent
<1>8. HoldersConsistent'
  BY <1>1, <1>2, <1>4, NoneAssumption
     DEF ExecutorTake, TypeOK, HoldersConsistent, WithTimer, Expired
<1> QED BY <1>3, <1>5, <1>6, <1>7, <1>8

LEMMA ExecutorEndsPreserves ==
  ASSUME IInv, NEW e \in Executors, ExecutorDone(e) \/ ExecutorExit(e)
  PROVE  IInv'
<1> USE DEF IInv, Put
<1>1. CASE ExecutorDone(e)
  <2>1. PICK j \in Jobs : /\ executor[e] = j
                          /\ executor' = [executor EXCEPT ![e] = None]
                          /\ entry' = [entry EXCEPT ![j] = "delivered"]
                          /\ pending' = pending - 1
                          /\ UNCHANGED <<claimed, owner, queue, timer, timerStop, execStop, dtor>>
    BY <1>1 DEF ExecutorDone
  <2>2. entry[j] = "running"
    BY <2>1 DEF HoldersConsistent
  <2>3. BudgetExact' /\ pending' \in Nat
    <3>1. Outstanding' = Outstanding \ {j} /\ entry[j] \in Budgeted
      BY <2>1, <2>2 DEF Outstanding, TypeOK, Budgeted, InMap, WithTimer
    <3> QED BY <2>1, <3>1, CountDown
  <2>4. TypeOK'
    BY <2>1, <2>3, EntryStates DEF TypeOK, States, Jobs0
  <2>5. OneWinner' /\ QueueConsistent'
    BY <2>1, <2>2 DEF TypeOK, OneWinner, QueueConsistent, Expired
  <2>6. HoldersConsistent'
    BY <2>1, <2>2, NoneAssumption DEF TypeOK, HoldersConsistent, WithTimer, Expired
  <2> QED BY <2>3, <2>4, <2>5, <2>6
<1>2. CASE ExecutorExit(e)
  <2>1. BudgetExact' /\ pending' \in Nat
    BY <1>2, CountSame DEF ExecutorExit, Outstanding
  <2>2. TypeOK' /\ OneWinner' /\ QueueConsistent'
    BY <1>2 DEF ExecutorExit, TypeOK, Jobs0, OneWinner, QueueConsistent
  <2>3. HoldersConsistent'
    BY <1>2, NoneAssumption DEF ExecutorExit, TypeOK, HoldersConsistent
  <2> QED BY <2>1, <2>2, <2>3
<1> QED BY <1>1, <1>2

LEMMA StopPreserves ==
  ASSUME IInv, TimerExit \/ DestroyHeap \/ DestroyExec
  PROVE  IInv'
<1> USE DEF IInv
<1>1. BudgetExact' /\ pending' \in Nat
  <2>1. Outstanding' = Outstanding
    BY DEF TimerExit, DestroyHeap, DestroyExec, Outstanding, TypeOK, Budgeted, InMap, WithTimer
  <2> QED BY <2>1, CountSame DEF TimerExit, DestroyHeap, DestroyExec
<1>2. TypeOK'
  BY <1>1, EntryStates DEF TimerExit, DestroyHeap, DestroyExec, TypeOK, States, Jobs0
<1>3. OneWinner' /\ QueueConsistent'
  BY DEF TimerExit, DestroyHeap, DestroyExec, TypeOK, OneWinner, QueueConsistent, Expired, InMap
<1>4. HoldersConsistent'
  <2>1. CASE TimerExit
    BY <2>1, NoneAssumption DEF TimerExit, TypeOK, HoldersConsistent, WithTimer, Expired
  <2>2. CASE DestroyHeap
    <3>1. \A k \in Jobs : entry'[k] = IF entry[k] \in InMap THEN "retired" ELSE entry[k]
      BY <2>2 DEF DestroyHeap
    <3> QED BY <2>2, <3>1 DEF DestroyHeap, HoldersConsistent, WithTimer, Expired, InMap
  <2>3. CASE DestroyExec
    BY <2>3 DEF DestroyExec, HoldersConsistent
  <2> QED BY <2>1, <2>2, <2>3
<1> QED BY <1>1, <1>2, <1>3, <1>4

LEMMA DestroyBudgetPreserves ==
  ASSUME IInv, DestroyBudget
  PROVE  IInv'
<1> USE DEF IInv
<1>1. IsFiniteSet(Outstanding) /\ IsFiniteSet(Outstanding')
  BY FiniteAssumption, FS_Subset DEF Outstanding
<1>2. Outstanding' = Outstanding \ Retired /\ Retired \subseteq Outstanding
  BY DEF DestroyBudget, Outstanding, Retired, TypeOK, Budgeted, InMap, WithTimer
<1>3. Cardinality(Outstanding') = Cardinality(Outstanding) - Cardinality(Retired)
  <2>1. Outstanding \cap Retired = Retired
    BY <1>2
  <2> QED BY <1>1, <1>2, <2>1, FS_Difference
<1>4. /\ Cardinality(Outstanding) \in Nat /\ Cardinality(Outstanding') \in Nat
      /\ Cardinality(Outstanding') <= Cardinality(Outstanding)
  BY <1>1, <1>2, FS_CardinalityType, FS_Subset
<1>5. BudgetExact' /\ pending' \in Nat
  BY <1>3, <1>4, BoundsAssumption DEF DestroyBudget, BudgetExact
<1>6. TypeOK'
  BY <1>5, EntryStates DEF DestroyBudget, TypeOK, States
<1>7. OneWinner' /\ QueueConsistent'
  BY DEF DestroyBudget, TypeOK, OneWinner, QueueConsistent, Expired
<1>8. HoldersConsistent'
  BY DEF DestroyBudget, TypeOK, HoldersConsistent, WithTimer, Expired
<1> QED BY <1>5, <1>6, <1>7, <1>8

LEMMA StutterPreserves ==
  ASSUME IInv, UNCHANGED vars
  PROVE  IInv'
  BY CountSame DEF vars, IInv, TypeOK, BudgetExact, Outstanding, OneWinner, QueueConsistent,
                   HoldersConsistent

(* The strengthened invariant holds in every reachable state, for every    *)
(* number of jobs and executors and every capacity.                        *)
THEOREM Invariance == Spec => []IInv
<1>1. IInv /\ [Next]_vars => IInv'
  <2> SUFFICES ASSUME IInv, [Next]_vars PROVE IInv'
    OBVIOUS
  <2>1. ASSUME NEW j \in Jobs, OwnerStep(j) PROVE IInv'
    BY <2>1, ArmReservePreserves, ArmInsertPreserves, OwnerClaimPreserves, CancelPreserves
       DEF OwnerStep
  <2>2. ASSUME NEW j \in Jobs, TimerStep(j) PROVE IInv'
    BY <2>2, TimerHandsPreserves, TimerDeliverPreserves DEF TimerStep
  <2>3. ASSUME NEW e \in Executors, ExecutorStep(e) PROVE IInv'
    BY <2>3, ExecutorTakePreserves, ExecutorEndsPreserves DEF ExecutorStep
  <2>4. CASE TimerExit \/ Destroy
    BY <2>4, StopPreserves, DestroyBudgetPreserves DEF Destroy
  <2> QED BY <2>1, <2>2, <2>3, <2>4, StutterPreserves DEF Next
<1> QED BY <1>1, InitInvariant, PTL DEF Spec

(* The watchdog's variables keep their types; in particular the unsigned   *)
(* budget counter never wraps around below zero.                           *)
THEOREM TypeCorrect == Spec => []TypeOK
  BY Invariance, PTL DEF IInv

(* Exactly one side releases the budget of each accepted deadline.         *)
THEOREM BudgetCorrect == Spec => []BudgetExact
  BY Invariance, PTL DEF IInv

(* A request that finished first never has its deadline action delivered.  *)
THEOREM OneWinnerCorrect == Spec => []OneWinner
  BY Invariance, PTL DEF IInv

(* The executor queue is bounded and loses or repeats no action.           *)
THEOREM QueueCorrect == Spec => []QueueConsistent
  BY Invariance, PTL DEF IInv
-----------------------------------------------------------------------------
(* The watchdog implements the abstract deadline service: every step of    *)
(* its threads is a step of the service or leaves the service unchanged.   *)
LEMMA AlarmMoves ==
  ASSUME TypeOK, NEW j \in Jobs, NEW to, Put(j, to)
  PROVE  Alarm' = [Alarm EXCEPT ![j] = AlarmOf(to)] /\ Alarm[j] = AlarmOf(entry[j])
  BY DEF TypeOK, Put, Alarm

LEMMA AlarmSame ==
  ASSUME TypeOK, NEW j \in Jobs, NEW to, Put(j, to), AlarmOf(to) = AlarmOf(entry[j])
  PROVE  Alarm' = Alarm
  BY DEF TypeOK, Put, Alarm

LEMMA AlarmNames ==
  /\ \A e \in {"idle", "reserved", "refused"}  : AlarmOf(e) = "idle"
  /\ \A e \in {"armed", "popped", "extracted"} : AlarmOf(e) = "armed"
  /\ \A e \in Expired                          : AlarmOf(e) = "fired"
  /\ \A e \in {"retired", "dropped"}           : AlarmOf(e) = "dropped"
  /\ AlarmOf("delivered") = "delivered" /\ AlarmOf("released") = "released"
  BY DEF AlarmOf, Expired

LEMMA OwnerRefines ==
  ASSUME IInv, NEW j \in Jobs, OwnerStep(j)
  PROVE  [DS!Next]_(DS!serviceVars)
<1> USE DEF IInv, DS!serviceVars
<1>1. CASE ArmReserve(j)
  <2>1. PICK to \in {"reserved", "refused"} : Put(j, to)
    BY <1>1 DEF ArmReserve
  <2> QED BY <1>1, <2>1, AlarmSame, AlarmNames DEF ArmReserve
<1>2. CASE ArmInsert(j)
  <2>1. CASE Put(j, "armed")
    <3>1. DS!Arm(j)
      BY <1>2, <2>1, AlarmMoves, AlarmNames DEF ArmInsert, DS!Arm, DS!Move
    <3> QED BY <3>1 DEF DS!Next
  <2>2. CASE Put(j, "refused")
    BY <1>2, <2>2, AlarmSame, AlarmNames DEF ArmInsert
  <2> QED BY <1>2, <2>1, <2>2 DEF ArmInsert
<1>3. CASE OwnerClaim(j)
  <2>1. AlarmOf(entry[j]) \in {"armed", "dropped"}
    <3>1. entry[j] \in {"armed", "popped", "extracted", "retired", "dropped"}
      BY <1>3, EntryStates
         DEF OwnerClaim, CasSucceeds, TypeOK, HoldersConsistent, States, Expired
    <3> QED BY <3>1, AlarmNames
  <2>2. DS!OwnerWins(j)
    BY <1>3, <2>1 DEF OwnerClaim, CasSucceeds, DS!OwnerWins, DS!Win, Alarm
  <2> QED BY <2>2 DEF DS!Next
<1>4. CASE CancelExtract(j)
  <2>1. CASE entry[j] \in InMap
    <3>1. entry[j] = "armed" /\ Put(j, "extracted")
      BY <1>4, <2>1 DEF CancelExtract, OneWinner, InMap, Expired
    <3> QED BY <1>4, <3>1, AlarmSame, AlarmNames DEF CancelExtract
  <2>2. CASE entry[j] \notin InMap
    BY <1>4, <2>2 DEF CancelExtract, Alarm
  <2> QED BY <2>1, <2>2
<1>5. CASE CancelRelease(j)
  <2>1. entry[j] = "extracted" /\ claimed[j]
    BY <1>5 DEF CancelRelease, HoldersConsistent
  <2>2. DS!Release(j)
    BY <1>5, <2>1, AlarmMoves, AlarmNames DEF CancelRelease, DS!Release, DS!Move
  <2> QED BY <2>2 DEF DS!Next
<1> QED BY <1>1, <1>2, <1>3, <1>4, <1>5 DEF OwnerStep
LEMMA TimerRefines ==
  ASSUME IInv, NEW j \in Jobs, TimerStep(j)
  PROVE  [DS!Next]_(DS!serviceVars)
<1> USE DEF IInv, DS!serviceVars
<1>1. CASE TimerPop(j)
  <2>1. CASE Owned(j)
    BY <1>1, <2>1, AlarmSame, AlarmNames DEF TimerPop, Owned, Expired
  <2>2. CASE ~Owned(j)
    BY <1>1, <2>2, AlarmSame, AlarmNames DEF TimerPop, Owned, InMap
  <2> QED BY <2>1, <2>2
<1>2. CASE TimerClaim(j)
  <2>1. CASE CasSucceeds(j)
    <3>1. DS!Fire(j)
      BY <1>2, <2>1, AlarmMoves, AlarmNames
         DEF TimerClaim, CasSucceeds, DS!Fire, DS!Move, DS!Win, Expired
    <3> QED BY <3>1 DEF DS!Next
  <2>2. CASE ~CasSucceeds(j)
    <3>1. DS!Release(j)
      BY <1>2, <2>2, AlarmMoves, AlarmNames DEF TimerClaim, CasSucceeds, DS!Release, DS!Move
    <3> QED BY <3>1 DEF DS!Next
  <2> QED BY <2>1, <2>2
<1>3. CASE TimerDeliver(j)
  <2>1. PICK to \in {"queued", "bounced"} : Put(j, to)
    BY <1>3 DEF TimerDeliver
  <2>2. AlarmOf(to) = AlarmOf(entry[j])
    BY <1>3, <2>1, AlarmNames DEF TimerDeliver, Expired
  <2> QED BY <1>3, <2>1, <2>2, AlarmSame DEF TimerDeliver
<1>4. CASE TimerRetry(j)
  <2>1. CASE timerStop
    <3>1. Alarm[j] = "fired" /\ Alarm' = [Alarm EXCEPT ![j] = "dropped"]
      BY <1>4, <2>1, AlarmMoves, AlarmNames DEF TimerRetry, Expired
    <3>2. DS!Drop({j})
      BY <1>4, <3>1 DEF TimerRetry, DS!Drop, Alarm
    <3> QED BY <3>2 DEF DS!Next
  <2>2. CASE ~timerStop
    BY <1>4, <2>2, AlarmSame, AlarmNames DEF TimerRetry, Expired
  <2> QED BY <2>1, <2>2
<1> QED BY <1>1, <1>2, <1>3, <1>4 DEF TimerStep

LEMMA ExecutorRefines ==
  ASSUME IInv, NEW e \in Executors, ExecutorStep(e)
  PROVE  [DS!Next]_(DS!serviceVars)
<1> USE DEF IInv, DS!serviceVars
<1>1. CASE ExecutorTake(e)
  <2>1. Head(queue) \in Jobs /\ entry[Head(queue)] = "queued"
    <3>1. Head(queue) \in Jobs /\ Head(queue) = queue[1] /\ 1 \in 1..Len(queue)
      BY <1>1, HeadTailProperties DEF ExecutorTake, TypeOK
    <3> QED BY <3>1 DEF QueueConsistent
  <2> QED BY <1>1, <2>1, AlarmSame, AlarmNames DEF ExecutorTake, Expired
<1>2. CASE ExecutorDone(e)
  <2>1. PICK j \in Jobs : executor[e] = j /\ Put(j, "delivered") /\ UNCHANGED claimed
    BY <1>2 DEF ExecutorDone
  <2>2. entry[j] = "running"
    BY <2>1 DEF HoldersConsistent
  <2>3. DS!Deliver(j)
    BY <2>1, <2>2, AlarmMoves, AlarmNames DEF DS!Deliver, DS!Move, Expired
  <2> QED BY <2>3 DEF DS!Next
<1>3. CASE ExecutorExit(e)
  BY <1>3 DEF ExecutorExit, Alarm
<1> QED BY <1>1, <1>2, <1>3 DEF ExecutorStep

LEMMA DestroyRefines ==
  ASSUME IInv, TimerExit \/ Destroy
  PROVE  [DS!Next]_(DS!serviceVars)
<1> USE DEF IInv, DS!serviceVars
<1>1. CASE TimerExit \/ DestroyExec
  BY <1>1 DEF TimerExit, DestroyExec, Alarm
<1>2. CASE DestroyHeap
  <2> DEFINE S == {j \in Jobs : entry[j] \in InMap}
  <2>1. \A j \in S : Alarm[j] \in {"armed", "fired"}
    BY AlarmNames DEF InMap, Expired, Alarm
  <2>2. Alarm' = [j \in Jobs |-> IF j \in S THEN "dropped" ELSE Alarm[j]]
    <3>1. \A j \in Jobs : AlarmOf(entry'[j]) = IF j \in S THEN "dropped" ELSE AlarmOf(entry[j])
      BY <1>2, AlarmNames DEF DestroyHeap, TypeOK
    <3> QED BY <3>1 DEF Alarm
  <2>3. DS!Drop(S) /\ S \in SUBSET Jobs
    BY <1>2, <2>1, <2>2 DEF DestroyHeap, DS!Drop
  <2> QED BY <2>3 DEF DS!Next
<1>3. CASE DestroyBudget
  <2>1. \A j \in Jobs : AlarmOf(entry'[j]) = AlarmOf(entry[j])
    BY <1>3, AlarmNames DEF DestroyBudget, TypeOK
  <2> QED BY <1>3, <2>1 DEF DestroyBudget, Alarm
<1> QED BY <1>1, <1>2, <1>3 DEF Destroy

(* Whatever the number of threads, the watchdog behaves as the abstract   *)
(* service: one winner per claim flag, one delivery per fired deadline.    *)
THEOREM ImplementsDeadlineService == Spec => DS!SafeSpec
<1>1. Init => DS!Init
  <2> SUFFICES ASSUME Init PROVE DS!Init
    OBVIOUS
  <2> QED BY AlarmNames DEF Init, DS!Init, Alarm
<1>2. IInv /\ [Next]_vars => [DS!Next]_(DS!serviceVars)
  <2> SUFFICES ASSUME IInv, [Next]_vars PROVE [DS!Next]_(DS!serviceVars)
    OBVIOUS
  <2>1. CASE UNCHANGED vars
    BY <2>1 DEF vars, Alarm, DS!serviceVars
  <2> QED BY <2>1, OwnerRefines, TimerRefines, ExecutorRefines, DestroyRefines DEF Next
<1> QED BY <1>1, <1>2, Invariance, PTL DEF Spec, DS!SafeSpec
=============================================================================
