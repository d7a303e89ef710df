--------------------------- MODULE RequestWatchdog ---------------------------
(***************************************************************************)
(* The process-wide deadline watchdog of native/async/RequestWatchdog.cpp: *)
(* an indexed map of deadlines served by one timer thread, a bounded FIFO  *)
(* of expired actions served by executor threads, and one atomic budget    *)
(* (pending) that admission, cancellation, the timer, the executors and    *)
(* the destructor all adjust without a common lock.                        *)
(*                                                                         *)
(* Every request owns one claim flag and arms at most one deadline.  Time  *)
(* is abstract: the timer may take any entry of the map, as if it were the *)
(* earliest expired one.  Each action below is one critical section or one *)
(* atomic operation of the code.                                           *)
(***************************************************************************)
EXTENDS Integers, Sequences, FiniteSets

CONSTANTS
  Jobs,               \* requests that use the watchdog
  Executors,          \* the kExecutorThreads executor threads
  ExecutorQueueCap,   \* kExecutorQueueCap
  MaxPendingEntries,  \* kMaxPendingEntries
  None                \* no job

ASSUME BoundsAssumption == /\ ExecutorQueueCap \in Nat \ {0}
                           /\ MaxPendingEntries \in Nat \ {0}
ASSUME NoneAssumption   == /\ {None, "exited"} \cap Jobs = {}
                           /\ None # "exited"
ASSUME FiniteAssumption == IsFiniteSet(Jobs)

VARIABLES
  claimed,     \* claimed[j]: the claim flag shared by owner and watchdog
  entry,       \* entry[j]: which thread or container holds the entry of j
  owner,       \* owner[j]: how far the thread that completes j has come
  queue,       \* State::queue, the actions handed to the executors
  pending,     \* State::pending
  timer,       \* the entry the timer thread holds, None, or "exited"
  executor,    \* executor[e]: the job whose action e runs, None or "exited"
  timerStop, execStop,
  dtor         \* progress of ~RequestWatchdog

vars == <<claimed, entry, owner, queue, pending, timer, executor, timerStop,
          execStop, dtor>>

-----------------------------------------------------------------------------
(* An entry is in the deadline map while "armed" or, after a failed        *)
(* delivery, "retry".  "popped", "held" and "bounced" are in the hands of  *)
(* the timer: before its CAS, after it, and after the queue was full.      *)
(* "extracted" and "retired" have been taken out by Cancel and by the      *)
(* destructor, which return the budget later.                              *)
InMap      == {"armed", "retry"}
WithTimer  == {"popped", "held", "bounced"}
Expired    == {"held", "bounced", "retry", "queued", "running"}
Budgeted   == {"reserved", "extracted", "retired", "queued", "running"}
                 \cup InMap \cup WithTimer
EntryState == {"idle", "refused", "delivered", "released", "dropped"} \cup Budgeted
OwnerState == {"working", "won", "cancelling", "finished"}

Jobs0 == Jobs \cup {None, "exited"}

TypeOK ==
  /\ claimed   \in [Jobs -> BOOLEAN]
  /\ entry     \in [Jobs -> EntryState]
  /\ owner     \in [Jobs -> OwnerState]
  /\ queue     \in Seq(Jobs)
  /\ pending   \in Nat
  /\ timer     \in Jobs0
  /\ executor  \in [Executors -> Jobs0]
  /\ timerStop \in BOOLEAN
  /\ execStop  \in BOOLEAN
  /\ dtor      \in {"alive", "retiring", "stopping", "done"}

Init ==
  /\ claimed   = [j \in Jobs |-> FALSE]
  /\ entry     = [j \in Jobs |-> "idle"]
  /\ owner     = [j \in Jobs |-> "working"]
  /\ queue     = << >>
  /\ pending   = 0
  /\ timer     = None
  /\ executor  = [e \in Executors |-> None]
  /\ timerStop = FALSE
  /\ execStop  = FALSE
  /\ dtor      = "alive"

Put(j, to) == entry' = [entry EXCEPT ![j] = to]

(* compare_exchange(false -> true) on the claim flag of j succeeds. *)
ClaimUnchecked(j) == TRUE
CasSucceeds(j)    == ~claimed[j]

-----------------------------------------------------------------------------
(* Arm: admission is a CAS loop on the budget; the insertion follows under *)
(* heapMu and gives the budget back when the watchdog is stopping, or when *)
(* starting a thread or allocating the entry throws.                       *)
ArmReserve(j) ==
  /\ entry[j] = "idle" /\ dtor = "alive"
  /\ IF pending < MaxPendingEntries
       THEN Put(j, "reserved") /\ pending' = pending + 1
       ELSE Put(j, "refused")  /\ UNCHANGED pending
  /\ UNCHANGED <<claimed, owner, queue, timer, executor, timerStop, execStop, dtor>>

ArmInsert(j) ==
  /\ entry[j] = "reserved"
  /\ \/ ~timerStop /\ Put(j, "armed") /\ UNCHANGED pending
     \/ Put(j, "refused") /\ pending' = pending - 1
  /\ UNCHANGED <<claimed, owner, queue, timer, executor, timerStop, execStop, dtor>>

(* The owner of j wins the claim (rule R of the scheduler) once Arm has    *)
(* answered, and must then cancel the deadline.                            *)
OwnerClaim(j) ==
  /\ owner[j] = "working" /\ entry[j] \notin {"idle", "reserved", "refused"}
  /\ CasSucceeds(j)
  /\ claimed' = [claimed EXCEPT ![j] = TRUE]
  /\ owner'   = [owner EXCEPT ![j] = "won"]
  /\ UNCHANGED <<entry, queue, pending, timer, executor, timerStop, execStop, dtor>>



(* Cancel, first part: under heapMu, take the entry out if the map has it. *)
CancelExtract(j) ==
  /\ owner[j] = "won"
  /\ IF entry[j] \in InMap
       THEN Put(j, "extracted") /\ owner' = [owner EXCEPT ![j] = "cancelling"]
       ELSE UNCHANGED entry     /\ owner' = [owner EXCEPT ![j] = "finished"]
  /\ UNCHANGED <<claimed, queue, pending, timer, executor, timerStop, execStop, dtor>>


(* Cancel, second part: return the budget after unlocking. *)
CancelRelease(j) ==
  /\ owner[j] = "cancelling"
  /\ Put(j, "released")
  /\ pending' = pending - 1
  /\ owner'   = [owner EXCEPT ![j] = "finished"]
  /\ UNCHANGED <<claimed, queue, timer, executor, timerStop, execStop, dtor>>

-----------------------------------------------------------------------------
(* TimerProc. *)
TimerExit ==
  /\ timer = None /\ timerStop
  /\ timer' = "exited"
  /\ UNCHANGED <<claimed, entry, owner, queue, pending, executor, timerStop, execStop, dtor>>

(* Extract an expired entry; one that is owned has already won its claim.  *)
OwnershipLost(j) == FALSE
Owned(j)         == entry[j] = "retry"

TimerPop(j) ==
  /\ timer = None /\ ~timerStop
  /\ entry[j] \in InMap
  /\ timer' = j
  /\ Put(j, IF Owned(j) THEN "held" ELSE "popped")
  /\ UNCHANGED <<claimed, owner, queue, pending, executor, timerStop, execStop, dtor>>

(* CAS on the claim flag: a lost one is a dead entry, dropped lazily. *)
TimerClaim(j) ==
  /\ timer = j /\ entry[j] = "popped"
  /\ IF CasSucceeds(j)
       THEN /\ Put(j, "held")
            /\ claimed' = [claimed EXCEPT ![j] = TRUE]
            /\ UNCHANGED <<pending, timer>>
       ELSE /\ Put(j, "released")
            /\ pending' = pending - 1
            /\ timer' = None
            /\ UNCHANGED claimed
  /\ UNCHANGED <<owner, queue, executor, timerStop, execStop, dtor>>

QueueHasRoom      == Len(queue) < ExecutorQueueCap

(* Hand the action over under execMu, or notice that this is impossible. *)
TimerDeliver(j) ==
  /\ timer = j /\ entry[j] = "held"
  /\ IF ~execStop /\ QueueHasRoom
       THEN queue' = Append(queue, j) /\ Put(j, "queued") /\ timer' = None
       ELSE Put(j, "bounced") /\ UNCHANGED <<queue, timer>>
  /\ UNCHANGED <<claimed, owner, pending, executor, timerStop, execStop, dtor>>


(* Saturation: back into the map with its ownership, never dropped unless  *)
(* the watchdog has been stopped meanwhile, which also ends the thread.    *)
TimerRetry(j) ==
  /\ timer = j /\ entry[j] = "bounced"
  /\ IF timerStop
       THEN Put(j, "dropped") /\ pending' = pending - 1 /\ timer' = "exited"
       ELSE Put(j, "retry")   /\ timer' = None          /\ UNCHANGED pending
  /\ UNCHANGED <<claimed, owner, queue, executor, timerStop, execStop, dtor>>

-----------------------------------------------------------------------------
(* ExecutorProc. *)
ExecutorTake(e) ==
  /\ executor[e] = None /\ queue # << >>
  /\ executor' = [executor EXCEPT ![e] = Head(queue)]
  /\ queue'    = Tail(queue)
  /\ Put(Head(queue), "running")
  /\ UNCHANGED <<claimed, owner, pending, timer, timerStop, execStop, dtor>>

ExecutorDone(e) ==
  \E j \in Jobs :
    /\ executor[e] = j
    /\ executor' = [executor EXCEPT ![e] = None]
    /\ Put(j, "delivered")
    /\ pending' = pending - 1
    /\ UNCHANGED <<claimed, owner, queue, timer, timerStop, execStop, dtor>>

ExitWithoutDraining(e) ==
  /\ executor[e] = None /\ execStop
  /\ executor' = [executor EXCEPT ![e] = "exited"]
  /\ UNCHANGED <<claimed, entry, owner, queue, pending, timer, timerStop, execStop, dtor>>

ExecutorExit(e) ==
  /\ executor[e] = None /\ execStop /\ queue = << >>
  /\ executor' = [executor EXCEPT ![e] = "exited"]
  /\ UNCHANGED <<claimed, entry, owner, queue, pending, timer, timerStop, execStop, dtor>>

-----------------------------------------------------------------------------
(* ~RequestWatchdog: stop the timer and swap the map out under heapMu,     *)
(* return the budget of what was swapped out, then stop the executors,     *)
(* which drain the queue first.                                            *)
DestroyHeap ==
  /\ dtor = "alive"
  /\ timerStop' = TRUE
  /\ entry' = [j \in Jobs |-> IF entry[j] \in InMap THEN "retired" ELSE entry[j]]
  /\ dtor' = "retiring"
  /\ UNCHANGED <<claimed, owner, queue, pending, timer, executor, execStop>>

Retired == {j \in Jobs : entry[j] = "retired"}

DestroyBudget ==
  /\ dtor = "retiring"
  /\ pending' = pending - Cardinality(Retired)
  /\ entry' = [j \in Jobs |-> IF entry[j] = "retired" THEN "dropped" ELSE entry[j]]
  /\ dtor' = "stopping"
  /\ UNCHANGED <<claimed, owner, queue, timer, executor, timerStop, execStop>>

DestroyExec ==
  /\ dtor = "stopping"
  /\ execStop' = TRUE
  /\ dtor' = "done"
  /\ UNCHANGED <<claimed, entry, owner, queue, pending, timer, executor, timerStop>>

-----------------------------------------------------------------------------
OwnerStep(j) == \/ ArmReserve(j) \/ ArmInsert(j) \/ OwnerClaim(j)
                \/ CancelExtract(j) \/ CancelRelease(j)
TimerStep(j) == \/ TimerPop(j) \/ TimerClaim(j) \/ TimerDeliver(j) \/ TimerRetry(j)
ExecutorStep(e) == ExecutorTake(e) \/ ExecutorDone(e) \/ ExecutorExit(e)
Destroy == DestroyHeap \/ DestroyBudget \/ DestroyExec

Next == \/ \E j \in Jobs : OwnerStep(j) \/ TimerStep(j)
        \/ TimerExit
        \/ \E e \in Executors : ExecutorStep(e)
        \/ Destroy

(* The threads run, and an action comes to an end ("actions MUST be        *)
(* interruptible or bounded"); a caller finishes Arm and Cancel once it    *)
(* has entered them, but nobody has to arm, to win a claim, or to destroy  *)
(* the service.  Strong fairness of TimerPop(j): the map is ordered by     *)
(* deadline and a retry is re-inserted later than now, so an expired entry *)
(* cannot be overtaken for ever.                                           *)
Fairness ==
  /\ \A j \in Jobs :
       /\ SF_vars(TimerPop(j))
       /\ WF_vars(TimerClaim(j) \/ TimerDeliver(j) \/ TimerRetry(j))
       /\ WF_vars(ArmInsert(j))
       /\ WF_vars(CancelExtract(j))
       /\ WF_vars(CancelRelease(j))
  /\ WF_vars(TimerExit)
  /\ \A e \in Executors : WF_vars(ExecutorStep(e))
  /\ WF_vars(DestroyBudget)
  /\ WF_vars(DestroyExec)

Spec     == Init /\ [][Next]_vars
FairSpec == Spec /\ Fairness

-----------------------------------------------------------------------------
(* The budget is exact: four kinds of thread adjust pending without a      *)
(* common lock, and it still counts each accepted and unfinished entry     *)
(* once, whichever of Cancel, the timer, an executor or the destructor     *)
(* ends it ("exactly one side releases the budget").                       *)
Outstanding == {j \in Jobs : entry[j] \in Budgeted}
BudgetExact == /\ pending = Cardinality(Outstanding)
               /\ pending <= MaxPendingEntries

(* One winner: when the owner of a job has won its claim, the deadline of  *)
(* that job is in no stage that leads to its action, and never will be.    *)
OneWinner == \A j \in Jobs :
  owner[j] # "working" => entry[j] \notin Expired \cup {"delivered"}

(* An action sits in the executor queue at most once, and the bounded      *)
(* queue holds exactly the entries handed over and not yet taken; so an    *)
(* action can neither be lost nor run twice on the retry path.             *)
QueueConsistent ==
  /\ Len(queue) <= ExecutorQueueCap
  /\ \A j \in Jobs : entry[j] = "queued"
                       <=> \E i \in 1..Len(queue) : queue[i] = j
  /\ \A i, k \in 1..Len(queue) : queue[i] = queue[k] => i = k

(* After the destructor nothing that was accepted is left behind in the    *)
(* map, and an executor leaves only when no action can be queued any more. *)
ShutdownDrains ==
  /\ timerStop => \A j \in Jobs : entry[j] \notin InMap
  /\ (\E e \in Executors : executor[e] = "exited") => queue = << >> /\ execStop

(* Exactly the entries the timer and the executors hold are in their       *)
(* hands: needed, with the parts above, for an inductive invariant.        *)
HoldersConsistent ==
  /\ \A j \in Jobs : entry[j] \in WithTimer <=> timer = j
  /\ \A j \in Jobs : entry[j] = "running" <=> \E e \in Executors : executor[e] = j
  /\ \A d, e \in Executors : executor[d] = executor[e] /\ executor[d] \in Jobs => d = e
  /\ \A j \in Jobs : entry[j] \in Expired \cup {"delivered", "released"} => claimed[j]
  /\ \A j \in Jobs : owner[j] # "working" => claimed[j]
  /\ \A j \in Jobs : owner[j] = "cancelling" <=> entry[j] = "extracted"

(* What the watchdog promises, as the abstract service states it. *)
AlarmOf(e) ==
  CASE e \in {"idle", "reserved", "refused"}  -> "idle"
    [] e \in {"armed", "popped", "extracted"} -> "armed"
    [] e \in Expired                          -> "fired"
    [] e \in {"retired", "dropped"}           -> "dropped"
    [] OTHER                                  -> e
Alarm == [j \in Jobs |-> AlarmOf(entry[j])]
DS == INSTANCE DeadlineService WITH alarm <- Alarm

(* Every step of the threads is a step of the abstract service or none,    *)
(* and the threads' fairness yields the service's promises.                *)
ImplementsService == DS!Spec

(* The admission budget is not leaked: it is given back completely when    *)
(* every armed request has been resolved.                                  *)
BudgetReturns == \A j \in Jobs : entry[j] \in Budgeted ~> entry[j] \notin Budgeted
=============================================================================
