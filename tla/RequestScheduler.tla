--------------------------- MODULE RequestScheduler ---------------------------
(***************************************************************************)
(* The bounded worker pool of native/async/RequestScheduler.{h,cpp}: jobs  *)
(* are submitted from any thread, wait in one queue, and each settles one  *)
(* promise.  Workers, submitters, the deadline actions of the watchdog and *)
(* the lifecycle calls (Shutdown, Shutdown(maxWait), Restart) interleave;  *)
(* an action below is one critical section, one atomic operation, one call *)
(* of the condition variable, or one call of user code.                    *)
(*                                                                         *)
(* The watchdog is the abstract DeadlineService, which RequestWatchdog     *)
(* implements; here it is the process singleton and is never torn down.    *)
(***************************************************************************)
EXTENDS Integers, FiniteSets, Sequences, SequencesExt

CONSTANTS
  Jobs, Workers,
  Workloads,          \* what the jobs may be, see Requests
  MaxQueueSize,       \* four jobs per worker in the program
  None

Apis == {"plain", "deadline", "noDeadline", "latest", "detached", "latestDetached"}

(* A request: the submit call it comes from, its RequestKind, and whether  *)
(* its function may run for ever: never, unless cancelled, in any case.    *)
Functions == {"returns", "cooperative", "stubborn"}
Requests  == [Jobs -> [api : Apis, kind : {"Image", "Generic"}, fn : Functions]]

ASSUME ConstantsAssumption ==
  /\ IsFiniteSet(Jobs) /\ IsFiniteSet(Workers) /\ Workers # {}
  /\ Workloads \subseteq Requests
  /\ MaxQueueSize \in Nat /\ MaxQueueSize >= Cardinality(Workers)
  /\ None \notin Jobs

VARIABLES
  claimed, alarm,     \* the claim flags and the watchdog (DeadlineService)
  request,            \* request[j]: what is submitted as job j
  submitter,          \* submitter[j]: how far the submit call of j has come
  token,              \* token[j]: the cancellation flag of j
  latest,             \* cancelledFlags_, by kind: the newest "latest" job
  promise,            \* promise[j]: what the future of j holds
  queue, activeImageCount, shutdown, abandonedWorkers,   \* State
  workerDone,         \* the set of workers whose workerDone[i] is set
  worker, job,        \* where each worker stands and which job it holds
  action,             \* progress of the deadline action of each job
  lifecycle,          \* the lifecycle call in progress (lifecycleMutex_)
  rejected,           \* the queue Shutdown(maxWait) has swapped out
  handles             \* workers_: the threads that can still be joined

tokenVars  == <<request, token, latest>>
poolVars   == <<queue, activeImageCount>>
workerVars == <<workerDone, worker, job>>
stopVars   == <<shutdown, abandonedWorkers, lifecycle, rejected, handles>>
schedVars  == <<submitter, promise, action, tokenVars, poolVars, workerVars, stopVars>>
vars       == <<claimed, alarm, schedVars>>

Service == INSTANCE DeadlineService

WorkerCount        == Cardinality(Workers)
MaxImageConcurrent == IF WorkerCount > 1 THEN WorkerCount \div 2 ELSE 1

Api(j)         == request[j].api
Kind(j)        == request[j].kind
Image(j)       == Kind(j) = "Image"
MayHang(j)     == \/ request[j].fn = "stubborn"
                  \/ request[j].fn = "cooperative" /\ ~token[j]
HasPromise(j)  == Api(j) \notin {"detached", "latestDetached"}
Claims(j)      == Api(j) \in {"deadline", "noDeadline"}
Armed(j)       == alarm[j] # "idle"

-----------------------------------------------------------------------------
SubmitterState == {"new", "enqueue", "notify", "refused", "settle", "done"}
WorkerState == {"awake", "asleep", "start", "fn", "claim", "settle", "release",
                "notify", "exited"}
PromiseState == {"pending", "result", "job_deadline", "queue_full", "watchdog_overload",
                 "scheduler_shutdown", "settled twice"}
LifecycleState == {"idle", "notify", "join", "notifyBounded", "reject", "reap", "start"}

TypeOK ==
  /\ Service!TypeOK
  /\ request \in Requests
  /\ submitter \in [Jobs -> SubmitterState]
  /\ token \in [Jobs -> BOOLEAN]
  /\ latest \in [{"Image", "Generic"} -> Jobs \cup {None}]
  /\ promise \in [Jobs -> PromiseState]
  /\ queue \in Seq(Jobs)
  /\ activeImageCount \in Nat
  /\ shutdown \in BOOLEAN
  /\ abandonedWorkers \in Nat
  /\ workerDone \subseteq Workers
  /\ worker \in [Workers -> WorkerState]
  /\ job \in [Workers -> Jobs \cup {None}]
  /\ action \in [Jobs -> {"cancel", "retire", "notify"}]
  /\ lifecycle \in LifecycleState
  /\ rejected \in Seq(Jobs)
  /\ handles \subseteq Workers

Init ==
  /\ Service!Init
  /\ request \in Workloads
  /\ submitter = [j \in Jobs |-> "new"]
  /\ token = [j \in Jobs |-> FALSE]
  /\ latest = [k \in {"Image", "Generic"} |-> None]
  /\ promise = [j \in Jobs |-> "pending"]
  /\ queue = << >>
  /\ activeImageCount = 0
  /\ shutdown = FALSE
  /\ abandonedWorkers = 0
  /\ workerDone = {}
  /\ worker = [w \in Workers |-> "awake"]
  /\ job = [w \in Workers |-> None]
  /\ action = [j \in Jobs |-> "cancel"]
  /\ lifecycle = "idle"
  /\ rejected = << >>
  /\ handles = Workers

-----------------------------------------------------------------------------
(* set_value or set_exception; a second attempt on a promise throws.  The  *)
(* two detached calls have no promise.                                     *)
Settle(j, outcome) ==
  promise' = [promise EXCEPT ![j] = IF ~HasPromise(j) THEN @
                                    ELSE IF @ = "pending" THEN outcome
                                    ELSE "settled twice"]

Asleep == {w \in Workers : worker[w] = "asleep"}

NotifyOne  == IF Asleep = {} THEN UNCHANGED worker
              ELSE \E w \in Asleep : worker' = [worker EXCEPT ![w] = "awake"]
NotifyAll  == worker' = [w \in Workers |-> IF w \in Asleep THEN "awake" ELSE worker[w]]

At(j, from, to)     == submitter[j] = from /\ submitter' = [submitter EXCEPT ![j] = to]
Step(w, from, to)   == worker[w] = from    /\ worker' = [worker EXCEPT ![w] = to]
Doing(from, to)     == lifecycle = from    /\ lifecycle' = to
NoService           == UNCHANGED <<claimed, alarm>>

-----------------------------------------------------------------------------
(* Submitting.  SubmitWithDeadline first arms the watchdog, unless the     *)
(* deadline is not positive ("noDeadline"); a deadline the watchdog cannot *)
(* accept fails the request at once.                                       *)
SubmitWithDeadline(j) ==
  /\ Api(j) = "deadline"
  /\ \/ Service!Arm(j) /\ At(j, "new", "enqueue") /\ UNCHANGED promise
     \/ NoService /\ At(j, "new", "done") /\ Settle(j, "watchdog_overload")
  /\ UNCHANGED <<action, tokenVars, poolVars, workerVars, stopVars>>

(* The other calls have no deadline; the two "latest" calls replace, and   *)
(* cancel, the newest token of their kind (PrepareLatestToken).            *)
Superseded(j)     == {latest[Kind(j)]}

Submit(j) ==
  /\ Api(j) # "deadline"
  /\ At(j, "new", "enqueue")
  /\ IF Api(j) \in {"latest", "latestDetached"}
       THEN /\ latest' = [latest EXCEPT ![Kind(j)] = j]
            /\ token' = [k \in Jobs |-> token[k] \/ k \in Superseded(j)]
       ELSE UNCHANGED <<latest, token>>
  /\ NoService
  /\ UNCHANGED <<request, promise, action, poolVars, workerVars, stopVars>>

(* EnqueueJob.  An expired job is accepted but not kept: its deadline      *)
(* action settles it.  Images leave one queue slot per worker free.        *)
Expired(j)          == Claims(j) /\ claimed[j]
RoomForAll(j)       == Len(queue) < MaxQueueSize
Room(j)             == /\ Len(queue) < MaxQueueSize
                       /\ Image(j) => Len(queue) < MaxQueueSize - WorkerCount
Open                == ~shutdown

EnqueueJob(j) ==
  /\ \/ Expired(j) /\ At(j, "enqueue", "done") /\ UNCHANGED queue
     \/ /\ ~Expired(j) /\ Open /\ Room(j)
        /\ At(j, "enqueue", "notify")
        /\ queue' = Append(queue, j)
     \/ /\ ~Expired(j) /\ ~(Open /\ Room(j))
        /\ At(j, "enqueue", "refused")
        /\ UNCHANGED queue
  /\ NoService
  /\ UNCHANGED <<promise, activeImageCount, action, tokenVars, workerVars,
                 stopVars>>

NotifyWorker(j) ==
  /\ At(j, "notify", "done")
  /\ NotifyOne
  /\ NoService
  /\ UNCHANGED <<promise, workerDone, job, action, tokenVars, poolVars,
                 stopVars>>

(* Refused: the submitter competes for the claim before it answers.        *)
RefuseClaim(j) ==
  /\ \/ Claims(j) /\ Service!OwnerWins(j) /\ At(j, "refused", "settle")
     \/ Claims(j) /\ claimed[j] /\ NoService /\ At(j, "refused", "done")
     \/ ~Claims(j) /\ NoService /\ At(j, "refused", "settle")
  /\ UNCHANGED <<promise, action, tokenVars, poolVars, workerVars, stopVars>>

RefuseSettle(j) ==
  /\ At(j, "settle", "done")
  /\ Settle(j, "queue_full")
  /\ NoService
  /\ UNCHANGED <<action, tokenVars, poolVars, workerVars, stopVars>>

(* Cancel(kind). *)
Cancel(k) ==
  /\ latest[k] # None
  /\ token' = [token EXCEPT ![latest[k]] = TRUE]
  /\ latest' = [latest EXCEPT ![k] = None]
  /\ NoService
  /\ UNCHANGED <<request, submitter, promise, action, poolVars, workerVars, stopVars>>

-----------------------------------------------------------------------------
(* WorkerLoop.  The wait predicate, under the queue mutex: leave when the  *)
(* scheduler is shut down and drained, else take the first job that may    *)
(* start, else sleep.                                                      *)
Eligible(j) == Image(j) => activeImageCount < MaxImageConcurrent
Drained     == shutdown /\ queue = << >>

FirstEligible(i) == /\ Eligible(queue[i])
                    /\ \A k \in 1..(i - 1) : ~Eligible(queue[k])

WorkerSleep(w) ==
  /\ Step(w, "awake", "asleep")
  /\ ~Drained
  /\ \A i \in 1..Len(queue) : ~Eligible(queue[i])
  /\ NoService
  /\ UNCHANGED <<submitter, promise, workerDone, job, action, tokenVars,
                 poolVars, stopVars>>

SpuriousWakeup(w) ==
  /\ Step(w, "asleep", "awake")
  /\ NoService
  /\ UNCHANGED <<submitter, promise, workerDone, job, action, tokenVars,
                 poolVars, stopVars>>

WorkerExit(w) ==
  /\ Step(w, "awake", "exited")
  /\ Drained
  /\ workerDone' = workerDone \cup {w}
  /\ NoService
  /\ UNCHANGED <<submitter, promise, job, action, tokenVars, poolVars,
                 stopVars>>

TakesSlot(j) == IF Image(j) THEN 1 ELSE 0
FreesSlot(j) == IF Image(j) THEN 1 ELSE 0

WorkerTake(w) ==
  \E i \in 1..Len(queue) :
    /\ Step(w, "awake", "start")
    /\ FirstEligible(i)
    /\ job' = [job EXCEPT ![w] = queue[i]]
    /\ queue' = RemoveAt(queue, i)
    /\ activeImageCount' = activeImageCount + TakesSlot(queue[i])
    /\ NoService
    /\ UNCHANGED <<submitter, promise, workerDone, action, tokenVars,
                   stopVars>>

(* The expired-while-queued gate: a job whose deadline has claimed it is   *)
(* skipped before its function starts.                                     *)
SkippedByToken(j) == token[j]
Skipped(j)        == Claims(j) /\ Armed(j) /\ claimed[j]

RunStart(w) ==
  /\ worker[w] = "start"
  /\ Step(w, "start", IF Skipped(job[w]) THEN "release" ELSE "fn")
  /\ NoService
  /\ UNCHANGED <<submitter, promise, workerDone, job, action, tokenVars,
                 poolVars, stopVars>>

(* The user function returns or throws: one outcome here. *)
FnReturn(w) ==
  /\ worker[w] = "fn"
  /\ Step(w, "fn", IF Claims(job[w]) THEN "claim" ELSE "settle")
  /\ NoService
  /\ UNCHANGED <<submitter, promise, workerDone, job, action, tokenVars,
                 poolVars, stopVars>>

(* Rule R, "claim decides": the loser must not touch the promise. *)

ClaimForWorker(w) ==
  /\ \/ Step(w, "claim", "settle") /\ Service!OwnerWins(job[w])
     \/ Step(w, "claim", "release") /\ claimed[job[w]] /\ NoService
  /\ UNCHANGED <<submitter, promise, workerDone, job, action, tokenVars,
                 poolVars, stopVars>>

WorkerSettle(w) ==
  /\ Step(w, "settle", "release")
  /\ Settle(job[w], "result")
  /\ NoService
  /\ UNCHANGED <<submitter, workerDone, job, action, tokenVars, poolVars,
                 stopVars>>

WorkerRelease(w) ==
  /\ worker[w] = "release"
  /\ Step(w, "release", IF Image(job[w]) THEN "notify" ELSE "awake")
  /\ activeImageCount' = activeImageCount - FreesSlot(job[w])
  /\ job' = [job EXCEPT ![w] = None]
  /\ NoService
  /\ UNCHANGED <<submitter, promise, queue, workerDone, action, tokenVars,
                 stopVars>>

(* Only the end of an image makes a waiting job eligible. *)

NotifyAfterImage(w) ==
  /\ worker[w] = "notify"
  /\ worker' = [v \in Workers |-> IF v \in Asleep \cup {w} THEN "awake" ELSE worker[v]]
  /\ NoService
  /\ UNCHANGED <<submitter, promise, workerDone, job, action, tokenVars,
                 poolVars, stopVars>>

-----------------------------------------------------------------------------
(* The deadline of job j: won by the watchdog, or given back after the     *)
(* owner won (its Cancel, or the lazy drop by the timer).                  *)
DeadlineFires(j)  == Service!Fire(j) /\ UNCHANGED schedVars
DeadlineReturned(j) == Service!Release(j) /\ UNCHANGED schedVars

(* The action of a deadline, on an executor of the watchdog: cancel the    *)
(* job and fail its promise, then RetireExpiredJob.                        *)
ActionCancelsOnly(j) ==
  /\ alarm[j] = "fired" /\ action[j] = "cancel"
  /\ token' = [token EXCEPT ![j] = TRUE]
  /\ action' = [action EXCEPT ![j] = "retire"]
  /\ NoService
  /\ UNCHANGED <<request, submitter, promise, latest, poolVars, workerVars, stopVars>>


ActionCancel(j) ==
  /\ alarm[j] = "fired" /\ action[j] = "cancel"
  /\ token' = [token EXCEPT ![j] = TRUE]
  /\ Settle(j, "job_deadline")
  /\ action' = [action EXCEPT ![j] = "retire"]
  /\ NoService
  /\ UNCHANGED <<request, submitter, latest, poolVars, workerVars, stopVars>>

RetireExpiredJob(j) ==
  /\ alarm[j] = "fired" /\ action[j] = "retire"
  /\ \/ \E i \in 1..Len(queue) :
            /\ queue[i] = j
            /\ queue' = RemoveAt(queue, i)
            /\ action' = [action EXCEPT ![j] = "notify"]
            /\ NoService
     \/ /\ ~Contains(queue, j)
        /\ Service!Deliver(j)
        /\ UNCHANGED <<queue, action>>
  /\ UNCHANGED <<submitter, promise, activeImageCount, tokenVars, workerVars,
                 stopVars>>

(* Shutdown may now have an empty queue. *)
RetireNotify(j) ==
  /\ alarm[j] = "fired" /\ action[j] = "notify"
  /\ NotifyAll
  /\ Service!Deliver(j)
  /\ UNCHANGED <<submitter, promise, workerDone, job, action, tokenVars,
                 poolVars, stopVars>>

-----------------------------------------------------------------------------
(* The lifecycle calls run one at a time (lifecycleMutex_).                *)
(* Shutdown(): drain the queue and join every worker.                      *)
Shutdown ==
  /\ ~shutdown
  /\ Doing("idle", "notify")
  /\ shutdown' = TRUE
  /\ NoService
  /\ UNCHANGED <<abandonedWorkers, rejected, handles, submitter, promise, action,
                 tokenVars, poolVars, workerVars>>

ShutdownNotify ==
  /\ \/ Doing("notify", "join") \/ Doing("notifyBounded", "reject")
  /\ NotifyAll
  /\ NoService
  /\ UNCHANGED <<shutdown, abandonedWorkers, rejected, handles, submitter, promise,
                 action, workerDone, job, tokenVars, poolVars>>

ShutdownJoined ==
  /\ Doing("join", "idle")
  /\ \A w \in handles : worker[w] = "exited"
  /\ handles' = {}
  /\ NoService
  /\ UNCHANGED <<shutdown, abandonedWorkers, rejected, submitter, promise, action,
                 tokenVars, poolVars, workerVars>>

(* Shutdown(maxWait): cancel what runs and what waits, and take the queue  *)
(* away; reject the jobs taken; wait, at most maxWait, for the workers;    *)
(* join those that are done and abandon the others.  abandonedWorkers is   *)
(* only read under lifecycleMutex_, so it is counted in place.             *)
ActiveCancelled  == {job[w] : w \in Workers}

ShutdownBounded ==
  /\ ~shutdown
  /\ Doing("idle", "notifyBounded")
  /\ shutdown' = TRUE
  /\ token' = [j \in Jobs |-> token[j] \/ j \in ActiveCancelled \/ Contains(queue, j)]
  /\ rejected' = queue
  /\ queue' = << >>
  /\ NoService
  /\ UNCHANGED <<abandonedWorkers, handles, request, submitter, promise, action, latest,
                 activeImageCount, workerVars>>

RejectQueued ==
  /\ lifecycle = "reject" /\ rejected # << >>
  /\ LET j == Head(rejected)
     IN \/ Claims(j) /\ Service!OwnerWins(j) /\ Settle(j, "scheduler_shutdown")
        \/ Claims(j) /\ claimed[j] /\ NoService /\ UNCHANGED promise
        \/ ~Claims(j) /\ NoService /\ Settle(j, "scheduler_shutdown")
  /\ rejected' = Tail(rejected)
  /\ UNCHANGED <<shutdown, abandonedWorkers, lifecycle, handles, submitter, action,
                 tokenVars, poolVars, workerVars>>

(* Reaching "reap" is the end of the wait: it may come at any moment.      *)
ShutdownWaited ==
  /\ rejected = << >>
  /\ Doing("reject", "reap")
  /\ NoService
  /\ UNCHANGED <<shutdown, abandonedWorkers, rejected, handles, submitter, promise,
                 action, tokenVars, poolVars, workerVars>>

AbandonUncounted(w) == FALSE
Abandoned(w)        == w \notin workerDone

Reap(w) ==
  /\ lifecycle = "reap" /\ w \in handles
  /\ handles' = handles \ {w}
  /\ abandonedWorkers' = abandonedWorkers + (IF Abandoned(w) THEN 1 ELSE 0)
  /\ NoService
  /\ UNCHANGED <<shutdown, lifecycle, rejected, submitter, promise, action, tokenVars,
                 poolVars, workerVars>>

ShutdownReturns ==
  /\ handles = {}
  /\ Doing("reap", "idle")
  /\ NoService
  /\ UNCHANGED <<shutdown, abandonedWorkers, rejected, handles, submitter, promise,
                 action, tokenVars, poolVars, workerVars>>

(* Restart: only after a clean shutdown.  Starting the threads may fail    *)
(* half way; the threads already started are then shut down again.         *)
Restart ==
  /\ shutdown /\ abandonedWorkers = 0
  /\ Doing("idle", "start")
  /\ workerDone' = {}
  /\ shutdown' = FALSE
  /\ NoService
  /\ UNCHANGED <<abandonedWorkers, rejected, handles, submitter, promise, action, worker,
                 job, tokenVars, poolVars>>

StartWorkers ==
  /\ \E S \in SUBSET Workers :
       /\ handles' = S
       /\ worker' = [w \in Workers |-> IF w \in S THEN "awake" ELSE worker[w]]
       /\ IF S = Workers THEN Doing("start", "idle") /\ UNCHANGED shutdown
                         ELSE Doing("start", "notify") /\ shutdown' = TRUE
  /\ NoService
  /\ UNCHANGED <<abandonedWorkers, rejected, submitter, promise, action, workerDone, job,
                 tokenVars, poolVars>>

-----------------------------------------------------------------------------
SubmitterStep(j) == \/ EnqueueJob(j) \/ NotifyWorker(j)
                    \/ RefuseClaim(j) \/ RefuseSettle(j)
ActionStep(j)    == ActionCancel(j) \/ RetireExpiredJob(j) \/ RetireNotify(j)
WatchdogStep(j)  == DeadlineFires(j) \/ DeadlineReturned(j)
LoopStep(w)      == \/ WorkerSleep(w) \/ WorkerExit(w) \/ WorkerTake(w) \/ RunStart(w)
                    \/ ClaimForWorker(w) \/ WorkerSettle(w) \/ WorkerRelease(w)
                    \/ NotifyAfterImage(w)
LifecycleStep    == \/ ShutdownNotify \/ ShutdownJoined \/ RejectQueued
                    \/ ShutdownWaited \/ (\E w \in Workers : Reap(w))
                    \/ ShutdownReturns \/ StartWorkers

Next == \/ \E j \in Jobs : \/ SubmitWithDeadline(j) \/ Submit(j) \/ SubmitterStep(j)
                           \/ WatchdogStep(j) \/ ActionStep(j)
        \/ \E k \in {"Image", "Generic"} : Cancel(k)
        \/ \E w \in Workers : LoopStep(w) \/ FnReturn(w) \/ SpuriousWakeup(w)
        \/ Shutdown \/ ShutdownBounded \/ Restart \/ LifecycleStep

(* Threads run and calls proceed; nobody has to submit, cancel, shut down  *)
(* or restart.  A job function returns unless it may hang.                 *)
Fairness ==
  /\ \A j \in Jobs : /\ WF_vars(SubmitterStep(j))
                     /\ WF_vars(WatchdogStep(j))
                     /\ WF_vars(ActionStep(j))
  /\ \A w \in Workers :
       WF_vars(LoopStep(w) \/ (worker[w] = "fn" /\ ~MayHang(job[w]) /\ FnReturn(w)))
  /\ WF_vars(LifecycleStep)

Spec     == Init /\ [][Next]_vars
FairSpec == Spec /\ Fairness

-----------------------------------------------------------------------------
(* A promise is settled once at most, and by the winner of the claim: the  *)
(* worker, the refused submitter, the shutdown or the deadline.            *)
OneSettler == \A j \in Jobs :
  /\ promise[j] # "settled twice"
  /\ promise[j] = "job_deadline" => alarm[j] \in {"fired", "delivered"}
  /\ Claims(j) /\ promise[j] \in {"result", "queue_full", "scheduler_shutdown"}
       => claimed[j] /\ alarm[j] \notin {"fired", "delivered"}

(* No future is orphaned: while the promise of a submitted job is pending, *)
(* the job is in the queue, in the hands of a worker that will settle it,  *)
(* among the rejected, or left to its fired deadline.                      *)
InHand(w) == worker[w] \in {"start", "fn", "claim", "settle"}
NoOrphan == \A j \in Jobs :
  HasPromise(j) /\ submitter[j] \in {"notify", "done"} /\ promise[j] = "pending"
    => \/ Contains(queue, j) \/ Contains(rejected, j)
       \/ \E w \in Workers : job[w] = j /\ InHand(w)
       \/ alarm[j] = "fired" /\ action[j] = "cancel"

(* Once its deadline action is over, an expired job occupies no queue slot *)
(* and retains no captures, even when the deadline overtook the submission.*)
ExpiredLeavesQueue == \A j \in Jobs : alarm[j] = "delivered" => ~Contains(queue, j)

(* A request is settled once: by one of the threads that compete for it,   *)
(* by none twice, and nothing of it is left behind.                        *)
SettledOnce == OneSettler /\ NoOrphan /\ ExpiredLeavesQueue

(* Images use at most half of the workers and leave a queue slot for every *)
(* worker, so other requests always get through; all state is well typed.  *)
ImagesBounded ==
  /\ TypeOK
  /\ activeImageCount = Cardinality({w \in Workers : job[w] # None /\ Image(job[w])})
  /\ activeImageCount <= MaxImageConcurrent
  /\ Len(queue) <= MaxQueueSize
  /\ Cardinality({j \in Jobs : Image(j) /\ Contains(queue, j)}) <= MaxQueueSize - WorkerCount

(* A shutdown that reports no abandoned worker leaves none behind, and     *)
(* only such a scheduler is ever started again: a worker index is never    *)
(* shared by two threads.                                                  *)
CleanStop ==
  /\ lifecycle = "idle" /\ shutdown /\ abandonedWorkers = 0
       => \A w \in Workers : worker[w] = "exited" /\ job[w] = None
  /\ abandonedWorkers # 0 => shutdown

(* Every accepted deadline settles its future, however long the queue and  *)
(* whatever the job functions do, hang included.                           *)
DeadlineSettles == \A j \in Jobs : Armed(j) ~> promise[j] # "pending"

(* Functions that return, and cooperative ones with a deadline.            *)
AllReturn == \A j \in Jobs : \/ request[j].fn = "returns"
                             \/ request[j].fn = "cooperative" /\ Api(j) = "deadline"

(* No wakeup is lost.  A queued job leaves the queue, unless the scheduler *)
(* has no thread left because starting them failed; and every lifecycle    *)
(* call returns, a bounded shutdown whatever the functions do.  A deadline *)
(* settles its future all the same.                                        *)
NothingStuck ==
  /\ DeadlineSettles
  /\ \A j \in Jobs :
       AllReturn /\ Contains(queue, j) ~> ~Contains(queue, j) \/ (shutdown /\ handles = {})
  /\ lifecycle # "idle" /\ (AllReturn \/ lifecycle \in {"notifyBounded", "reject", "reap"})
       ~> lifecycle = "idle"
=============================================================================
