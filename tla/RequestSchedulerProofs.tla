------------------------ MODULE RequestSchedulerProofs ------------------------
(* The scheduler for any number of jobs and workers, every mix of submit calls,
   and any queue size that leaves a slot for every worker. *)
EXTENDS RequestScheduler, FiniteSetTheorems, SequenceTheorems, TLAPS

Distinct(s) == \A i, k \in 1..Len(s) : s[i] = s[k] => i = k
Queued(j)   == Contains(queue, j)
Rejected(j) == Contains(rejected, j)
Holds(w, j) == job[w] = j
Busy        == {"start", "fn", "claim", "settle", "release"}

(* A job is in one place at a time, and only after it was accepted. *)
PlaceInv ==
  /\ Distinct(queue) /\ Distinct(rejected)
  /\ \A j \in Jobs : Queued(j) => ~Rejected(j)
  /\ \A w \in Workers, j \in Jobs : Holds(w, j) => ~Queued(j) /\ ~Rejected(j)
  /\ \A v, w \in Workers : job[v] # None /\ job[v] = job[w] => v = w
  /\ \A w \in Workers : worker[w] \in Busy <=> job[w] # None
  /\ \A j \in Jobs : (Queued(j) \/ Rejected(j) \/ \E w \in Workers : Holds(w, j))
                       => submitter[j] \in {"notify", "done"}

(* What the lifecycle calls know of the workers. *)
LifeInv ==
  /\ \A w \in workerDone : worker[w] = "exited"
  /\ ~shutdown => abandonedWorkers = 0
  /\ ~shutdown => lifecycle \in {"idle", "start"}
  /\ lifecycle = "start" => /\ ~shutdown /\ workerDone = {}
                            /\ \A w \in Workers : worker[w] = "exited"
  /\ ~shutdown /\ lifecycle = "idle" => handles = Workers
  /\ lifecycle \in {"notify", "join", "notifyBounded", "reject"} => abandonedWorkers = 0
  /\ shutdown /\ abandonedWorkers = 0
       => \A w \in Workers \ (IF lifecycle = "idle" THEN {} ELSE handles) : worker[w] = "exited"
  /\ rejected # << >> => lifecycle \in {"notifyBounded", "reject"}

(* A worker competes only for a job that has a claim. *)
LoopInv == \A w \in Workers : worker[w] = "claim" => Claims(job[w])

(* Who may settle the promise of a job: it is still to be settled from a place
   where it waits, or by whoever won the claim, or by its deadline action. *)
Located(j)   == Queued(j) \/ Rejected(j) \/ \E w \in Workers : Holds(w, j)
Waiting(j)   == Queued(j) \/ Rejected(j) \/ \E w \in Workers : Holds(w, j) /\ worker[w] # "release"
AtSettle(j)  == \E w \in Workers : Holds(w, j) /\ worker[w] = "settle"
Settling(j)  == submitter[j] = "settle" \/ AtSettle(j)
Expiring(j)  == alarm[j] \in {"fired", "delivered"}
CancelDue(j) == alarm[j] = "fired" /\ action[j] = "cancel"
JobInv(j) ==
  /\ Settling(j) => promise[j] = "pending" /\ (Claims(j) => claimed[j] /\ ~Expiring(j))
  /\ Claims(j) /\ claimed[j] /\ ~Expiring(j) => promise[j] # "pending" \/ Settling(j)
  /\ ~Claims(j) => alarm[j] = "idle" /\ ~claimed[j]
  /\ Expiring(j) => claimed[j]
  /\ CancelDue(j) => promise[j] = "pending"
  /\ Expiring(j) /\ ~CancelDue(j) => promise[j] = "job_deadline"
  /\ promise[j] = "job_deadline" => Expiring(j)
  /\ ~Expiring(j) => action[j] = "cancel"
  /\ submitter[j] = "new" => alarm[j] = "idle" /\ ~claimed[j] /\ promise[j] = "pending"
  /\ alarm[j] # "dropped" /\ promise[j] # "settled twice"
  /\ ~HasPromise(j) => promise[j] = "pending"
  (* before the claim is won the promise is untouched, or was refused at once *)
  /\ Claims(j) /\ ~claimed[j] /\ promise[j] # "pending" =>
       promise[j] = "watchdog_overload" /\ submitter[j] = "done" /\ ~Located(j) /\ alarm[j] = "idle"
  /\ ~Claims(j) /\ promise[j] # "pending" => submitter[j] \in {"notify", "done"} /\ ~Waiting(j)
  (* an expired job has left the queue, once its action has been there *)
  /\ Queued(j) => alarm[j] # "delivered" /\ ~(alarm[j] = "fired" /\ action[j] = "notify")
  (* nothing is left behind *)
  /\ HasPromise(j) /\ submitter[j] \in {"notify", "done"} /\ promise[j] = "pending"
       => Waiting(j) \/ CancelDue(j)
ClaimInv == \A j \in Jobs : JobInv(j)

ImagesAt(W) == {w \in W : job[w] # None /\ Image(job[w])}
QueuedImages == {j \in Jobs : Image(j) /\ Queued(j)}
ImageInv ==
  /\ activeImageCount = Cardinality(ImagesAt(Workers))
  /\ activeImageCount <= MaxImageConcurrent
  /\ Len(queue) <= MaxQueueSize
  /\ Cardinality(QueuedImages) <= MaxQueueSize - WorkerCount

(* Types, but for activeImageCount, which ImageInv says is a cardinality. *)
Kinds == {"Image", "Generic"}
RequestsOK == request \in Requests /\ token \in [Jobs -> BOOLEAN] /\ latest \in [Kinds -> Jobs \cup {None}]
JobsOK == /\ Service!TypeOK /\ submitter \in [Jobs -> SubmitterState]
          /\ promise \in [Jobs -> PromiseState] /\ action \in [Jobs -> {"cancel", "retire", "notify"}]
PoolOK == /\ queue \in Seq(Jobs) /\ rejected \in Seq(Jobs)
          /\ worker \in [Workers -> WorkerState] /\ job \in [Workers -> Jobs \cup {None}]
LifeOK == /\ shutdown \in BOOLEAN /\ abandonedWorkers \in Nat /\ workerDone \subseteq Workers
          /\ lifecycle \in LifecycleState /\ handles \subseteq Workers
Typed == RequestsOK /\ JobsOK /\ PoolOK /\ LifeOK
-----------------------------------------------------------------------------
(* Sequences. *)
LEMMA AppendOK ==
  ASSUME NEW S, NEW s \in Seq(S), NEW e \in S
  PROVE  /\ Append(s, e) \in Seq(S) /\ Len(Append(s, e)) = Len(s) + 1
         /\ \A x : Contains(Append(s, e), x) <=> Contains(s, x) \/ x = e
         /\ Distinct(s) /\ ~Contains(s, e) => Distinct(Append(s, e))
<1> DEFINE t == Append(s, e)
<1>1. /\ t \in Seq(S) /\ Len(t) = Len(s) + 1 /\ t[Len(s) + 1] = e
      /\ \A i \in 1..Len(s) : t[i] = s[i]
  OBVIOUS
<1> HIDE DEF t
<1>2. \A x : Contains(t, x) <=> Contains(s, x) \/ x = e
  BY <1>1 DEF Contains
<1>3. Distinct(s) /\ ~Contains(s, e) => Distinct(t)
  BY <1>1 DEF Distinct, Contains
<1> QED BY <1>1, <1>2, <1>3 DEF t

LEMMA TailOK ==
  ASSUME NEW S, NEW s \in Seq(S), s # << >>
  PROVE  /\ Tail(s) \in Seq(S) /\ Head(s) \in S /\ Contains(s, Head(s))
         /\ Distinct(s) => Distinct(Tail(s)) /\ \A x : Contains(Tail(s), x) <=> Contains(s, x) /\ x # Head(s)
<1> DEFINE t == Tail(s)
<1>1. /\ t \in Seq(S) /\ Len(t) = Len(s) - 1 /\ Head(s) = s[1] /\ s[1] \in S /\ Len(s) \in Nat \ {0}
      /\ \A i \in 1..Len(t) : t[i] = s[i + 1]
  OBVIOUS
<1> HIDE DEF t
<1>2. Distinct(s) => Distinct(t)
  BY <1>1 DEF Distinct
<1>3. ASSUME Distinct(s), NEW x PROVE Contains(t, x) <=> Contains(s, x) /\ x # Head(s)
  <2>1. ASSUME NEW i \in 1..Len(t) PROVE i + 1 \in 1..Len(s) /\ s[i + 1] # Head(s)
    BY <1>1, <1>3 DEF Distinct
  <2>2. ASSUME NEW i \in 1..Len(s), s[i] # Head(s) PROVE i - 1 \in 1..Len(t) /\ t[i - 1] = s[i]
    BY <1>1, <2>2
  <2> QED BY <1>1, <2>1, <2>2 DEF Contains
<1>4. Contains(s, Head(s))
  BY <1>1 DEF Contains
<1> QED BY <1>1, <1>2, <1>3, <1>4 DEF t

LEMMA ConcatOK ==
  ASSUME NEW S, NEW u \in Seq(S), NEW v \in Seq(S)
  PROVE  /\ u \o v \in Seq(S) /\ Len(u \o v) = Len(u) + Len(v)
         /\ \A i \in 1..Len(u \o v) : (u \o v)[i] = IF i <= Len(u) THEN u[i] ELSE v[i - Len(u)]
BY ConcatProperties

LEMMA RemoveAtOK ==
  ASSUME NEW S, NEW s \in Seq(S), Distinct(s), NEW k \in 1..Len(s)
  PROVE  /\ RemoveAt(s, k) \in Seq(S) /\ Len(RemoveAt(s, k)) = Len(s) - 1 /\ Distinct(RemoveAt(s, k))
         /\ \A x : Contains(RemoveAt(s, k), x) <=> Contains(s, x) /\ x # s[k]
<1> DEFINE t == SubSeq(s, 1, k - 1) \o SubSeq(s, k + 1, Len(s))
<1>1. RemoveAt(s, k) = t
  BY DEF RemoveAt
<1>2. k \in Nat /\ Len(s) \in Nat /\ k >= 1 /\ k <= Len(s)
  OBVIOUS
<1>3. /\ t \in Seq(S) /\ Len(t) = Len(s) - 1
      /\ \A i \in 1..Len(t) : t[i] = IF i < k THEN s[i] ELSE s[i + 1]
  <2> DEFINE u == SubSeq(s, 1, k - 1)
             v == SubSeq(s, k + 1, Len(s))
  <2>1. u \in Seq(S) /\ Len(u) = k - 1 /\ \A i \in 1..(k - 1) : u[i] = s[i]
    BY <1>2
  <2>2. v \in Seq(S) /\ Len(v) = Len(s) - k /\ \A i \in 1..(Len(s) - k) : v[i] = s[k + i]
    BY <1>2
  <2>3. t = u \o v
    BY DEF t
  <2> HIDE DEF t, u, v
  <2>4. t \in Seq(S) /\ Len(t) = Len(s) - 1 /\ Len(t) = Len(u) + Len(v)
    <3>1. t \in Seq(S) /\ Len(t) = Len(u) + Len(v)
      BY <2>1, <2>2, <2>3, ConcatOK
    <3>2. (k - 1) + (Len(s) - k) = Len(s) - 1
      BY <1>2
    <3>3. Len(u) + Len(v) = (k - 1) + (Len(s) - k)
      BY <2>1, <2>2
    <3> QED BY <3>1, <3>2, <3>3
  <2>5. ASSUME NEW i \in 1..Len(t) PROVE t[i] = IF i < k THEN s[i] ELSE s[i + 1]
    <3>0. k \in Nat /\ Len(s) \in Nat /\ i \in Nat
      BY <1>2
    <3>1. t[i] = IF i <= Len(u) THEN u[i] ELSE v[i - Len(u)]
      BY <2>1, <2>2, <2>3, ConcatOK
    <3>2. i >= k => i - (k - 1) \in 1..(Len(s) - k) /\ k + (i - (k - 1)) = i + 1
      BY <2>4, <3>0
    <3>3. CASE i < k
      BY <2>1, <3>0, <3>1, <3>3
    <3>4. CASE i >= k
      BY <2>1, <2>2, <3>0, <3>1, <3>2, <3>4
    <3> QED BY <3>0, <3>3, <3>4
  <2> QED BY <2>4, <2>5
<1> HIDE DEF t
<1>4. Distinct(t)
  BY <1>2, <1>3 DEF Distinct
<1>5. ASSUME NEW x PROVE Contains(t, x) <=> Contains(s, x) /\ x # s[k]
  <2>1. ASSUME NEW i \in 1..Len(t) PROVE Contains(s, t[i]) /\ t[i] # s[k]
    <3>1. CASE i < k
      BY <1>2, <1>3, <2>1, <3>1 DEF Contains, Distinct
    <3>2. CASE i >= k
      BY <1>2, <1>3, <2>1, <3>2 DEF Contains, Distinct
    <3> QED BY <1>2, <3>1, <3>2
  <2>2. ASSUME NEW i \in 1..Len(s), s[i] # s[k] PROVE Contains(t, s[i])
    <3>1. CASE i < k
      BY <1>2, <1>3, <2>2, <3>1 DEF Contains
    <3>2. CASE i > k
      <4>1. i - 1 \in 1..Len(t) /\ t[i - 1] = s[i]
        BY <1>2, <1>3, <2>2, <3>2
      <4> QED BY <4>1 DEF Contains
    <3> QED BY <1>2, <2>2, <3>1, <3>2
  <2> QED BY <2>1, <2>2 DEF Contains
<1> QED BY <1>1, <1>3, <1>4, <1>5
-----------------------------------------------------------------------------
(* Types. *)
LEMMA RequestFacts ==
  ASSUME RequestsOK, NEW j \in Jobs
  PROVE  Api(j) \in Apis /\ Kind(j) \in Kinds /\ Image(j) \in BOOLEAN
BY DEF RequestsOK, Requests, Api, Kind, Image, Kinds

LEMMA SettleFacts ==
  ASSUME JobsOK, NEW j \in Jobs, NEW outcome \in PromiseState, Settle(j, outcome)
  PROVE  /\ promise' \in [Jobs -> PromiseState]
         /\ \A k \in Jobs \ {j} : promise'[k] = promise[k]
         /\ ~HasPromise(j) => promise'[j] = promise[j]
         /\ HasPromise(j) /\ promise[j] = "pending" => promise'[j] = outcome
BY DEF JobsOK, Settle, PromiseState

LEMMA NotifyFacts ==
  ASSUME PoolOK, NotifyOne \/ NotifyAll
  PROVE  /\ worker' \in [Workers -> WorkerState]
         /\ \A w \in Workers : \/ worker'[w] = worker[w]
                               \/ worker[w] = "asleep" /\ worker'[w] = "awake"
BY DEF PoolOK, NotifyOne, NotifyAll, Asleep, WorkerState

LEMMA StepFacts ==
  ASSUME PoolOK, NEW w \in Workers, NEW from, NEW to \in WorkerState, Step(w, from, to)
  PROVE  /\ worker' \in [Workers -> WorkerState] /\ worker[w] = from /\ worker'[w] = to
         /\ \A v \in Workers \ {w} : worker'[v] = worker[v]
BY DEF PoolOK, Step

LEMMA AtFacts ==
  ASSUME JobsOK, NEW j \in Jobs, NEW from, NEW to \in SubmitterState, At(j, from, to)
  PROVE  /\ submitter' \in [Jobs -> SubmitterState] /\ submitter[j] = from /\ submitter'[j] = to
         /\ \A k \in Jobs \ {j} : submitter'[k] = submitter[k]
BY DEF JobsOK, At

(* What a step of the claim or of the watchdog does to one job. *)
ServiceKept(j) == \A k \in Jobs \ {j} : claimed'[k] = claimed[k] /\ alarm'[k] = alarm[k]

LEMMA ServiceFacts ==
  ASSUME JobsOK, NEW j \in Jobs
  PROVE  /\ Service!Arm(j) => /\ Service!TypeOK' /\ ServiceKept(j) /\ alarm[j] = "idle"
                              /\ alarm'[j] = "armed" /\ claimed'[j] = claimed[j]
         /\ Service!OwnerWins(j) => /\ Service!TypeOK' /\ ServiceKept(j) /\ ~claimed[j] /\ claimed'[j]
                                    /\ alarm[j] \in {"idle", "armed", "dropped"} /\ alarm'[j] = alarm[j]
         /\ Service!Fire(j) => /\ Service!TypeOK' /\ ServiceKept(j) /\ ~claimed[j] /\ claimed'[j]
                               /\ alarm[j] = "armed" /\ alarm'[j] = "fired"
         /\ Service!Release(j) => /\ Service!TypeOK' /\ ServiceKept(j) /\ claimed[j] /\ claimed'[j]
                                  /\ alarm[j] = "armed" /\ alarm'[j] = "released"
         /\ Service!Deliver(j) => /\ Service!TypeOK' /\ ServiceKept(j) /\ claimed'[j] = claimed[j]
                                  /\ alarm[j] = "fired" /\ alarm'[j] = "delivered"
<1> USE DEF JobsOK, ServiceKept, Service!TypeOK, Service!AlarmState, Service!Move, Service!Win
<1>1. Service!Arm(j) => /\ Service!TypeOK' /\ ServiceKept(j) /\ alarm[j] = "idle"
                        /\ alarm'[j] = "armed" /\ claimed'[j] = claimed[j]
  BY DEF Service!Arm
<1>2. Service!OwnerWins(j) => /\ Service!TypeOK' /\ ServiceKept(j) /\ ~claimed[j] /\ claimed'[j]
                              /\ alarm[j] \in {"idle", "armed", "dropped"} /\ alarm'[j] = alarm[j]
  BY DEF Service!OwnerWins
<1>3. Service!Fire(j) => /\ Service!TypeOK' /\ ServiceKept(j) /\ ~claimed[j] /\ claimed'[j]
                         /\ alarm[j] = "armed" /\ alarm'[j] = "fired"
  BY DEF Service!Fire
<1>4. Service!Release(j) => /\ Service!TypeOK' /\ ServiceKept(j) /\ claimed[j] /\ claimed'[j]
                            /\ alarm[j] = "armed" /\ alarm'[j] = "released"
  BY DEF Service!Release
<1>5. Service!Deliver(j) => /\ Service!TypeOK' /\ ServiceKept(j) /\ claimed'[j] = claimed[j]
                            /\ alarm[j] = "fired" /\ alarm'[j] = "delivered"
  BY DEF Service!Deliver
<1> QED BY <1>1, <1>2, <1>3, <1>4, <1>5

SubmitStep(j) == SubmitWithDeadline(j) \/ Submit(j) \/ SubmitterStep(j)
DeadlineStep(j) == WatchdogStep(j) \/ ActionStep(j)
WorkerStep(w) == LoopStep(w) \/ FnReturn(w) \/ SpuriousWakeup(w)
StopStep == Shutdown \/ ShutdownBounded \/ Restart \/ LifecycleStep

LEMMA SubmitTyped ==
  ASSUME Typed, NEW j \in Jobs, SubmitStep(j)
  PROVE  Typed'
<1> USE DEF Typed
<1>0. /\ Api(j) \in Apis /\ Kind(j) \in Kinds
      /\ {"watchdog_overload", "queue_full"} \subseteq PromiseState
      /\ {"enqueue", "notify", "refused", "settle", "done"} \subseteq SubmitterState
  BY RequestFacts DEF PromiseState, SubmitterState
<1>1. CASE SubmitWithDeadline(j)
  <2>1. RequestsOK' /\ PoolOK' /\ LifeOK' /\ action' = action
    BY <1>1 DEF SubmitWithDeadline, RequestsOK, PoolOK, LifeOK, tokenVars, poolVars, workerVars, stopVars
  <2>2. CASE Service!Arm(j) /\ At(j, "new", "enqueue") /\ UNCHANGED promise
    BY <1>0, <2>1, <2>2, ServiceFacts, AtFacts DEF JobsOK
  <2>3. CASE NoService /\ At(j, "new", "done") /\ Settle(j, "watchdog_overload")
    <3>1. Service!TypeOK'
      BY <2>3 DEF NoService, JobsOK, Service!TypeOK
    <3> QED BY <1>0, <2>1, <2>3, <3>1, AtFacts, SettleFacts DEF JobsOK
  <2> QED BY <1>1, <2>2, <2>3 DEF SubmitWithDeadline
<1>2. CASE Submit(j)
  <2>1. PoolOK' /\ LifeOK' /\ action' = action /\ promise' = promise /\ request' = request
    BY <1>2 DEF Submit, PoolOK, LifeOK, poolVars, workerVars, stopVars
  <2>2. Service!TypeOK'
    BY <1>2 DEF Submit, NoService, JobsOK, Service!TypeOK
  <2>3. token' \in [Jobs -> BOOLEAN] /\ latest' \in [Kinds -> Jobs \cup {None}]
    BY <1>0, <1>2 DEF Submit, RequestsOK
  <2>4. submitter' \in [Jobs -> SubmitterState]
    BY <1>0, <1>2, AtFacts DEF Submit
  <2> QED BY <2>1, <2>2, <2>3, <2>4 DEF JobsOK, RequestsOK
<1>3. CASE EnqueueJob(j)
  <2>1. RequestsOK' /\ LifeOK' /\ action' = action /\ promise' = promise
    <3>1. UNCHANGED <<promise, action, tokenVars, workerVars, stopVars>>
      BY <1>3 DEF EnqueueJob
    <3> QED BY <3>1 DEF RequestsOK, LifeOK, tokenVars, workerVars, stopVars
  <2>2. Service!TypeOK'
    BY <1>3 DEF EnqueueJob, NoService, JobsOK, Service!TypeOK
  <2>3. submitter' \in [Jobs -> SubmitterState]
    BY <1>0, <1>3, AtFacts DEF EnqueueJob
  <2>4. queue' \in Seq(Jobs)
    <3>1. queue' = queue \/ queue' = Append(queue, j)
      BY <1>3 DEF EnqueueJob
    <3>2. queue \in Seq(Jobs)
      BY DEF PoolOK
    <3> QED BY <3>1, <3>2, AppendOK
  <2>5. PoolOK'
    BY <1>3, <2>4 DEF EnqueueJob, PoolOK, workerVars, stopVars
  <2> QED BY <2>1, <2>2, <2>3, <2>5 DEF JobsOK
<1>4. CASE NotifyWorker(j)
  <2>1. RequestsOK' /\ LifeOK' /\ action' = action /\ promise' = promise
    BY <1>4 DEF NotifyWorker, RequestsOK, LifeOK, tokenVars, stopVars
  <2>2. Service!TypeOK'
    BY <1>4 DEF NotifyWorker, NoService, JobsOK, Service!TypeOK
  <2>3. submitter' \in [Jobs -> SubmitterState]
    BY <1>0, <1>4, AtFacts DEF NotifyWorker
  <2>4. PoolOK'
    BY <1>4, NotifyFacts DEF NotifyWorker, PoolOK, poolVars, stopVars
  <2> QED BY <2>1, <2>2, <2>3, <2>4 DEF JobsOK
<1>5. CASE RefuseClaim(j)
  <2>1. RequestsOK' /\ LifeOK' /\ PoolOK' /\ action' = action /\ promise' = promise
    BY <1>5 DEF RefuseClaim, RequestsOK, LifeOK, PoolOK, tokenVars, poolVars, workerVars, stopVars
  <2>2. Service!TypeOK'
    BY <1>5, ServiceFacts DEF RefuseClaim, NoService, JobsOK, Service!TypeOK
  <2>3. submitter' \in [Jobs -> SubmitterState]
    BY <1>0, <1>5, AtFacts DEF RefuseClaim
  <2> QED BY <2>1, <2>2, <2>3 DEF JobsOK
<1>6. CASE RefuseSettle(j)
  <2>1. RequestsOK' /\ LifeOK' /\ PoolOK' /\ action' = action
    BY <1>6 DEF RefuseSettle, RequestsOK, LifeOK, PoolOK, tokenVars, poolVars, workerVars, stopVars
  <2>2. Service!TypeOK'
    BY <1>6 DEF RefuseSettle, NoService, JobsOK, Service!TypeOK
  <2> QED BY <1>0, <1>6, <2>1, <2>2, AtFacts, SettleFacts DEF RefuseSettle, JobsOK
<1> QED BY <1>1, <1>2, <1>3, <1>4, <1>5, <1>6 DEF SubmitStep, SubmitterStep

LEMMA DeadlineTyped ==
  ASSUME Typed, PlaceInv, NEW j \in Jobs, DeadlineStep(j)
  PROVE  Typed'
<1> USE DEF Typed
<1>0. "job_deadline" \in PromiseState
  BY DEF PromiseState
<1>1. CASE WatchdogStep(j)
  <2>1. RequestsOK' /\ LifeOK' /\ PoolOK' /\ action' = action /\ promise' = promise /\ submitter' = submitter
    BY <1>1 DEF WatchdogStep, DeadlineFires, DeadlineReturned, RequestsOK, LifeOK, PoolOK, schedVars,
                tokenVars, poolVars, workerVars, stopVars
  <2>2. Service!TypeOK'
    BY <1>1, ServiceFacts DEF WatchdogStep, DeadlineFires, DeadlineReturned
  <2> QED BY <2>1, <2>2 DEF JobsOK
<1>2. CASE ActionCancel(j)
  <2>1. RequestsOK' /\ LifeOK' /\ PoolOK' /\ submitter' = submitter
    BY <1>2 DEF ActionCancel, RequestsOK, LifeOK, PoolOK, poolVars, workerVars, stopVars
  <2>2. Service!TypeOK' /\ action' \in [Jobs -> {"cancel", "retire", "notify"}]
    BY <1>2 DEF ActionCancel, NoService, JobsOK, Service!TypeOK
  <2> QED BY <1>0, <1>2, <2>1, <2>2, SettleFacts DEF ActionCancel, JobsOK
<1>3. CASE RetireExpiredJob(j)
  <2>1. RequestsOK' /\ LifeOK' /\ submitter' = submitter /\ promise' = promise
    <3>1. UNCHANGED <<submitter, promise, tokenVars, workerVars, stopVars>>
      BY <1>3 DEF RetireExpiredJob
    <3> QED BY <3>1 DEF RequestsOK, LifeOK, tokenVars, workerVars, stopVars
  <2>2. Service!TypeOK' /\ action' \in [Jobs -> {"cancel", "retire", "notify"}]
    BY <1>3, ServiceFacts DEF RetireExpiredJob, NoService, JobsOK, Service!TypeOK
  <2>3. queue' \in Seq(Jobs)
    <3>1. queue' = queue \/ \E i \in 1..Len(queue) : queue' = RemoveAt(queue, i)
      BY <1>3 DEF RetireExpiredJob
    <3>2. queue \in Seq(Jobs) /\ Distinct(queue)
      BY DEF PoolOK, PlaceInv
    <3> QED BY <3>1, <3>2, RemoveAtOK
  <2>4. PoolOK'
    BY <1>3, <2>3 DEF RetireExpiredJob, PoolOK, workerVars, stopVars
  <2> QED BY <2>1, <2>2, <2>4 DEF JobsOK
<1>4. CASE RetireNotify(j)
  <2>1. RequestsOK' /\ LifeOK' /\ submitter' = submitter /\ promise' = promise /\ action' = action
    BY <1>4 DEF RetireNotify, RequestsOK, LifeOK, tokenVars, stopVars
  <2>2. Service!TypeOK'
    BY <1>4, ServiceFacts DEF RetireNotify
  <2>3. PoolOK'
    BY <1>4, NotifyFacts DEF RetireNotify, PoolOK, poolVars, stopVars
  <2> QED BY <2>1, <2>2, <2>3 DEF JobsOK
<1> QED BY <1>1, <1>2, <1>3, <1>4 DEF DeadlineStep, ActionStep

LEMMA WorkerTyped ==
  ASSUME Typed, PlaceInv, NEW w \in Workers, WorkerStep(w)
  PROVE  Typed'
<1> USE DEF Typed
<1>0. "result" \in PromiseState
  BY DEF PromiseState
<1>1. /\ RequestsOK' /\ submitter' = submitter /\ action' = action
      /\ lifecycle' = lifecycle /\ handles' = handles /\ shutdown' = shutdown
      /\ abandonedWorkers' = abandonedWorkers /\ rejected' = rejected
  <2>1. CASE WorkerSleep(w) \/ WorkerExit(w) \/ WorkerTake(w) \/ RunStart(w)
    BY <2>1 DEF WorkerSleep, WorkerExit, WorkerTake, RunStart, RequestsOK, tokenVars, stopVars
  <2>2. CASE ClaimForWorker(w) \/ WorkerSettle(w) \/ WorkerRelease(w) \/ NotifyAfterImage(w)
    BY <2>2 DEF ClaimForWorker, WorkerSettle, WorkerRelease, NotifyAfterImage, RequestsOK, tokenVars, stopVars
  <2>3. CASE FnReturn(w) \/ SpuriousWakeup(w)
    BY <2>3 DEF FnReturn, SpuriousWakeup, RequestsOK, tokenVars, stopVars
  <2> QED BY <2>1, <2>2, <2>3 DEF WorkerStep, LoopStep
<1>2. workerDone' \subseteq Workers
  BY DEF WorkerStep, LoopStep, WorkerSleep, WorkerExit, WorkerTake, RunStart, ClaimForWorker, WorkerSettle,
         WorkerRelease, NotifyAfterImage, FnReturn, SpuriousWakeup, LifeOK
<1>3. worker' \in [Workers -> WorkerState]
  <2>1. CASE \E from, to \in WorkerState : Step(w, from, to)
    BY <2>1, StepFacts
  <2>2. CASE NotifyAfterImage(w)
    BY <2>2 DEF NotifyAfterImage, PoolOK, WorkerState
  <2>3. NotifyAfterImage(w) \/ \E from, to \in WorkerState : Step(w, from, to)
    BY DEF WorkerStep, LoopStep, WorkerSleep, WorkerExit, WorkerTake, RunStart, ClaimForWorker, WorkerSettle,
           WorkerRelease, FnReturn, SpuriousWakeup, WorkerState
  <2> QED BY <2>1, <2>2, <2>3
<1>4. job' \in [Workers -> Jobs \cup {None}] /\ queue' \in Seq(Jobs)
  <2>1. CASE WorkerTake(w)
    BY <2>1, RemoveAtOK DEF WorkerTake, PoolOK, PlaceInv
  <2>2. CASE WorkerRelease(w)
    BY <2>2 DEF WorkerRelease, PoolOK
  <2>3. CASE ~WorkerTake(w) /\ ~WorkerRelease(w)
    BY <2>3 DEF WorkerStep, LoopStep, WorkerSleep, WorkerExit, RunStart, ClaimForWorker, WorkerSettle,
           NotifyAfterImage, FnReturn, SpuriousWakeup, PoolOK, poolVars
  <2> QED BY <2>1, <2>2, <2>3
<1>5. Service!TypeOK' /\ promise' \in [Jobs -> PromiseState]
  <2>1. CASE ClaimForWorker(w)
    <3>1. job[w] \in Jobs
      BY <2>1 DEF ClaimForWorker, Step, PlaceInv, PoolOK, Busy
    <3> QED BY <2>1, <3>1, ServiceFacts DEF ClaimForWorker, NoService, JobsOK, Service!TypeOK
  <2>2. CASE WorkerSettle(w)
    <3>1. job[w] \in Jobs
      BY <2>2 DEF WorkerSettle, Step, PlaceInv, PoolOK, Busy
    <3> QED BY <1>0, <2>2, <3>1, SettleFacts DEF WorkerSettle, NoService, JobsOK, Service!TypeOK
  <2>3. CASE ~ClaimForWorker(w) /\ ~WorkerSettle(w)
    BY <2>3 DEF WorkerStep, LoopStep, WorkerSleep, WorkerExit, WorkerTake, RunStart, WorkerRelease,
           NotifyAfterImage, FnReturn, SpuriousWakeup, JobsOK, NoService, Service!TypeOK
  <2> QED BY <2>1, <2>2, <2>3
<1> QED BY <1>1, <1>2, <1>3, <1>4, <1>5 DEF JobsOK, PoolOK, LifeOK

LEMMA StopTyped ==
  ASSUME Typed, PlaceInv, StopStep
  PROVE  Typed'
<1> USE DEF Typed
<1>0. "scheduler_shutdown" \in PromiseState
  BY DEF PromiseState
<1>1. CASE RejectQueued
  <2>1. RequestsOK' /\ LifeOK' /\ submitter' = submitter /\ action' = action
    BY <1>1 DEF RejectQueued, RequestsOK, LifeOK, tokenVars, workerVars
  <2>2. rejected' \in Seq(Jobs) /\ Head(rejected) \in Jobs
    BY <1>1, TailOK DEF RejectQueued, PoolOK
  <2>3. PoolOK'
    BY <1>1, <2>2 DEF RejectQueued, PoolOK, poolVars, workerVars
  <2>4. Service!TypeOK' /\ promise' \in [Jobs -> PromiseState]
    BY <1>0, <1>1, <2>2, ServiceFacts, SettleFacts DEF RejectQueued, NoService, JobsOK, Service!TypeOK
  <2> QED BY <2>1, <2>3, <2>4 DEF JobsOK
<1>2. CASE ~RejectQueued
  <2>1. /\ RequestsOK' /\ JobsOK'
    <3>1. CASE Shutdown \/ ShutdownBounded \/ Restart
      BY <3>1 DEF Shutdown, ShutdownBounded, Restart, NoService, RequestsOK, JobsOK, Service!TypeOK, tokenVars
    <3>2. CASE LifecycleStep
      BY <1>2, <3>2 DEF LifecycleStep, ShutdownNotify, ShutdownJoined, ShutdownWaited, Reap, ShutdownReturns,
                 StartWorkers, NoService, RequestsOK, JobsOK, Service!TypeOK, tokenVars
    <3> QED BY <3>1, <3>2 DEF StopStep
  <2>2. PoolOK'
    <3>0. << >> \in Seq(Jobs)
      OBVIOUS
    <3>1. CASE Shutdown \/ Restart
      BY <3>1 DEF Shutdown, Restart, PoolOK, poolVars, workerVars
    <3>5. CASE ShutdownBounded
      BY <3>0, <3>5 DEF ShutdownBounded, PoolOK, workerVars
    <3>2. CASE ShutdownNotify
      BY <3>2, NotifyFacts DEF ShutdownNotify, PoolOK, poolVars
    <3>3. CASE StartWorkers
      BY <3>3 DEF StartWorkers, PoolOK, poolVars, WorkerState
    <3>4. CASE ShutdownJoined \/ ShutdownWaited \/ ShutdownReturns \/ \E w \in Workers : Reap(w)
      BY <3>4 DEF ShutdownJoined, ShutdownWaited, Reap, ShutdownReturns, PoolOK, poolVars, workerVars
    <3> QED BY <1>2, <3>1, <3>2, <3>3, <3>4, <3>5 DEF StopStep, LifecycleStep
  <2>3. LifeOK'
    <3>1. CASE Shutdown \/ ShutdownBounded \/ Restart
      BY <3>1 DEF Shutdown, ShutdownBounded, Restart, LifeOK, Doing, workerVars, LifecycleState
    <3>2. CASE ShutdownNotify \/ ShutdownJoined \/ ShutdownWaited \/ ShutdownReturns
      BY <3>2 DEF ShutdownNotify, ShutdownJoined, ShutdownWaited, ShutdownReturns, LifeOK, Doing, workerVars,
                  LifecycleState
    <3>3. CASE StartWorkers
      BY <3>3 DEF StartWorkers, LifeOK, Doing, LifecycleState
    <3>4. CASE \E w \in Workers : Reap(w)
      BY <3>4 DEF Reap, LifeOK, workerVars
    <3> QED BY <1>2, <3>1, <3>2, <3>3, <3>4 DEF StopStep, LifecycleStep
  <2> QED BY <2>1, <2>2, <2>3
<1> QED BY <1>1, <1>2

LEMMA TypedStep ==
  ASSUME Typed, PlaceInv, [Next]_vars
  PROVE  Typed'
<1>1. ASSUME NEW k \in Kinds, Cancel(k) PROVE Typed'
  BY <1>1 DEF Cancel, Typed, NoService, RequestsOK, JobsOK, PoolOK, LifeOK, Service!TypeOK, poolVars, workerVars,
              stopVars
<1>2. CASE UNCHANGED vars
  BY <1>2 DEF vars, schedVars, Typed, RequestsOK, JobsOK, PoolOK, LifeOK, Service!TypeOK, tokenVars, poolVars,
              workerVars, stopVars
<1> QED BY <1>1, <1>2, SubmitTyped, DeadlineTyped, WorkerTyped, StopTyped
        DEF Next, SubmitStep, DeadlineStep, WorkerStep, StopStep, Kinds
-----------------------------------------------------------------------------
(* The lifecycle calls. *)
LEMMA LifeFrame ==
  ASSUME Typed, LifeInv, UNCHANGED stopVars, workerDone' = workerDone,
         \A w \in Workers : worker[w] = "exited" => worker'[w] = "exited"
  PROVE  LifeInv'
BY DEF LifeInv, stopVars, Typed, LifeOK

LEMMA StopLife ==
  ASSUME Typed, LifeInv, StopStep
  PROVE  LifeInv'
<1> USE DEF Typed, LifeOK, Doing
<1>0. abandonedWorkers \in Nat
  OBVIOUS
<1>1. CASE Shutdown
  BY <1>1 DEF Shutdown, LifeInv, workerVars
<1>2. CASE ShutdownNotify
  <2>1. \A w \in Workers : worker[w] = "exited" => worker'[w] = "exited"
    BY <1>2, NotifyFacts DEF ShutdownNotify
  <2> QED BY <1>2, <2>1 DEF ShutdownNotify, LifeInv
<1>3. CASE ShutdownJoined
  BY <1>3 DEF ShutdownJoined, LifeInv, workerVars
<1>4. CASE ShutdownBounded
  BY <1>4 DEF ShutdownBounded, LifeInv, workerVars
<1>5. CASE RejectQueued
  BY <1>5 DEF RejectQueued, LifeInv, workerVars
<1>6. CASE ShutdownWaited
  BY <1>6 DEF ShutdownWaited, LifeInv, workerVars
<1>7. ASSUME NEW w \in Workers, Reap(w) PROVE LifeInv'
  <2>1. CASE w \in workerDone
    <3>1. worker[w] = "exited" /\ abandonedWorkers' = abandonedWorkers
      BY <1>0, <1>7, <2>1 DEF Reap, Abandoned, LifeInv
    <3> QED BY <1>7, <3>1 DEF Reap, LifeInv, workerVars
  <2>2. CASE w \notin workerDone
    <3>1. abandonedWorkers' # 0
      BY <1>0, <1>7, <2>2 DEF Reap, Abandoned
    <3> QED BY <1>7, <3>1 DEF Reap, LifeInv, workerVars
  <2> QED BY <2>1, <2>2
<1>8. CASE ShutdownReturns
  BY <1>8 DEF ShutdownReturns, LifeInv, workerVars
<1>9. CASE Restart
  BY <1>9 DEF Restart, LifeInv, tokenVars
<1>10. CASE StartWorkers
  <2>1. PICK S \in SUBSET Workers :
          /\ handles' = S
          /\ worker' = [w \in Workers |-> IF w \in S THEN "awake" ELSE worker[w]]
          /\ IF S = Workers THEN Doing("start", "idle") /\ UNCHANGED shutdown
                            ELSE Doing("start", "notify") /\ shutdown' = TRUE
    BY <1>10 DEF StartWorkers
  <2>2. lifecycle = "start" /\ ~shutdown /\ abandonedWorkers = 0 /\ workerDone = {}
        /\ \A w \in Workers : worker[w] = "exited"
    BY <2>1 DEF LifeInv
  <2>3. abandonedWorkers' = abandonedWorkers /\ rejected' = rejected /\ workerDone' = workerDone
    BY <1>10 DEF StartWorkers
  <2> QED BY <2>1, <2>2, <2>3 DEF LifeInv, PoolOK
<1> QED BY <1>1, <1>2, <1>3, <1>4, <1>5, <1>6, <1>7, <1>8, <1>9, <1>10 DEF StopStep, LifecycleStep

LEMMA LifeStep ==
  ASSUME Typed, LifeInv, [Next]_vars
  PROVE  LifeInv'
<1>1. ASSUME NEW j \in Jobs, SubmitStep(j) PROVE LifeInv'
  <2>1. UNCHANGED stopVars /\ workerDone' = workerDone
    <3>1. CASE SubmitWithDeadline(j) \/ Submit(j)
      BY <3>1 DEF SubmitWithDeadline, Submit, workerVars
    <3>2. CASE SubmitterStep(j)
      BY <3>2 DEF SubmitterStep, EnqueueJob, NotifyWorker, RefuseClaim, RefuseSettle, workerVars
    <3> QED BY <1>1, <3>1, <3>2 DEF SubmitStep
  <2>2. worker' = worker \/ NotifyOne
    <3>1. CASE SubmitWithDeadline(j) \/ Submit(j)
      BY <3>1 DEF SubmitWithDeadline, Submit, workerVars
    <3>2. CASE SubmitterStep(j)
      BY <3>2 DEF SubmitterStep, EnqueueJob, NotifyWorker, RefuseClaim, RefuseSettle, workerVars
    <3> QED BY <1>1, <3>1, <3>2 DEF SubmitStep
  <2> QED BY <2>1, <2>2, NotifyFacts, LifeFrame DEF Typed
<1>2. ASSUME NEW j \in Jobs, DeadlineStep(j) PROVE LifeInv'
  <2>1. UNCHANGED stopVars /\ workerDone' = workerDone /\ (worker' = worker \/ NotifyAll)
    BY <1>2 DEF DeadlineStep, WatchdogStep, DeadlineFires, DeadlineReturned, ActionStep, ActionCancel,
                RetireExpiredJob, RetireNotify, schedVars, workerVars
  <2> QED BY <2>1, NotifyFacts, LifeFrame DEF Typed
<1>3. ASSUME NEW w \in Workers, WorkerStep(w) PROVE LifeInv'
  <2>1. UNCHANGED stopVars
    BY <1>3 DEF WorkerStep, LoopStep, WorkerSleep, WorkerExit, WorkerTake, RunStart, ClaimForWorker,
                WorkerSettle, WorkerRelease, NotifyAfterImage, FnReturn, SpuriousWakeup
  <2>2. \A v \in Workers : worker[v] = "exited" => worker'[v] = "exited"
    <3>1. CASE NotifyAfterImage(w)
      BY <3>1 DEF NotifyAfterImage, Asleep
    <3>2. CASE ~NotifyAfterImage(w)
      <4>1. \E from \in WorkerState \ {"exited"}, to \in WorkerState : Step(w, from, to)
        BY <1>3, <3>2 DEF WorkerStep, LoopStep, WorkerSleep, WorkerExit, WorkerTake, RunStart,
              ClaimForWorker, WorkerSettle, WorkerRelease, FnReturn, SpuriousWakeup, WorkerState
      <4> QED BY <4>1, StepFacts DEF Typed
    <3> QED BY <3>1, <3>2
  <2>3. CASE WorkerExit(w)
    <3>1. /\ workerDone' = workerDone \cup {w} /\ worker'[w] = "exited" /\ worker[w] = "awake" /\ shutdown
      BY <2>3, StepFacts DEF WorkerExit, Drained, WorkerState, Typed
    <3>2. lifecycle # "start"
      BY <3>1 DEF LifeInv
    <3> QED BY <2>1, <2>2, <3>1, <3>2 DEF LifeInv, stopVars, Typed, LifeOK
  <2>4. CASE ~WorkerExit(w)
    <3>1. workerDone' = workerDone
      BY <1>3, <2>4 DEF WorkerStep, LoopStep, WorkerSleep, WorkerTake, RunStart, ClaimForWorker,
                WorkerSettle, WorkerRelease, NotifyAfterImage, FnReturn, SpuriousWakeup
    <3> QED BY <2>1, <2>2, <3>1, LifeFrame
  <2> QED BY <2>3, <2>4
<1>4. ASSUME NEW k \in Kinds, Cancel(k) PROVE LifeInv'
  BY <1>4, LifeFrame DEF Cancel, workerVars
<1>5. CASE UNCHANGED vars
  BY <1>5, LifeFrame DEF vars, schedVars, workerVars
<1> QED BY <1>1, <1>2, <1>3, <1>4, <1>5, StopLife
        DEF Next, SubmitStep, DeadlineStep, WorkerStep, StopStep, Kinds
-----------------------------------------------------------------------------
(* Where the jobs are. *)
LEMMA PlaceFrame ==
  ASSUME PlaceInv, queue' = queue, rejected' = rejected, job' = job,
         \A w \in Workers : worker'[w] \in Busy <=> worker[w] \in Busy,
         \A j \in Jobs : submitter[j] \in {"notify", "done"} => submitter'[j] \in {"notify", "done"}
  PROVE  PlaceInv'
<1>1. /\ \A j \in Jobs : (Queued(j)' <=> Queued(j)) /\ (Rejected(j)' <=> Rejected(j))
      /\ \A w \in Workers, j \in Jobs : Holds(w, j)' <=> Holds(w, j)
  BY DEF Queued, Rejected, Holds
<1> QED BY <1>1 DEF PlaceInv

LEMMA NotBusy == \A w : w \in {"awake", "asleep", "notify", "exited"} => w \notin Busy
BY DEF Busy

LEMMA SubmitPlace ==
  ASSUME Typed, PlaceInv, NEW j \in Jobs, SubmitStep(j)
  PROVE  PlaceInv'
<1> USE DEF Typed
<1>0. {"new", "enqueue", "notify", "refused", "settle", "done"} \subseteq SubmitterState
  BY DEF SubmitterState
<1>1. CASE ~EnqueueJob(j)
  <2>1. queue' = queue /\ rejected' = rejected /\ job' = job /\ (worker' = worker \/ NotifyOne)
    BY <1>1 DEF SubmitStep, SubmitterStep, SubmitWithDeadline, Submit, NotifyWorker, RefuseClaim, RefuseSettle,
                poolVars, workerVars, stopVars
  <2>2. \/ At(j, "new", "enqueue") \/ At(j, "new", "done") \/ At(j, "notify", "done")
        \/ At(j, "refused", "settle") \/ At(j, "refused", "done") \/ At(j, "settle", "done")
    BY <1>1 DEF SubmitStep, SubmitterStep, SubmitWithDeadline, Submit, NotifyWorker, RefuseClaim, RefuseSettle
  <2>3. \A k \in Jobs : submitter[k] \in {"notify", "done"} => submitter'[k] \in {"notify", "done"}
    BY <1>0, <2>2, AtFacts
  <2>4. \A w \in Workers : worker'[w] \in Busy <=> worker[w] \in Busy
    BY <2>1, NotifyFacts, NotBusy
  <2> QED BY <2>1, <2>3, <2>4, PlaceFrame
<1>2. CASE EnqueueJob(j)
  <2>1. rejected' = rejected /\ job' = job /\ worker' = worker /\ submitter[j] = "enqueue"
    BY <1>2 DEF EnqueueJob, At, workerVars, stopVars
  <2>2. CASE queue' = queue
    <3>1. \A k \in Jobs : submitter[k] \in {"notify", "done"} => submitter'[k] \in {"notify", "done"}
      BY <1>0, <1>2, AtFacts DEF EnqueueJob
    <3> QED BY <2>1, <2>2, <3>1, PlaceFrame
  <2>3. CASE queue' = Append(queue, j) /\ At(j, "enqueue", "notify")
    <3>1. ~Queued(j) /\ ~Rejected(j) /\ \A w \in Workers : ~Holds(w, j)
      BY <2>1 DEF PlaceInv
    <3>2. queue \in Seq(Jobs)
      BY DEF PoolOK
    <3>3. Distinct(queue') /\ \A k \in Jobs : Queued(k)' <=> Queued(k) \/ k = j
      BY <2>3, <3>1, <3>2, AppendOK DEF Queued, PlaceInv
    <3>4. /\ \A k \in Jobs : Rejected(k)' <=> Rejected(k)
          /\ \A w \in Workers, k \in Jobs : Holds(w, k)' <=> Holds(w, k)
      BY <2>1 DEF Rejected, Holds
    <3>5. submitter'[j] = "notify" /\ \A k \in Jobs \ {j} : submitter'[k] = submitter[k]
      BY <1>0, <2>3, AtFacts
    <3> QED BY <2>1, <3>1, <3>3, <3>4, <3>5 DEF PlaceInv
  <2> QED BY <1>2, <2>2, <2>3 DEF EnqueueJob
<1> QED BY <1>1, <1>2

LEMMA DeadlinePlace ==
  ASSUME Typed, PlaceInv, NEW j \in Jobs, DeadlineStep(j)
  PROVE  PlaceInv'
<1> USE DEF Typed
<1>1. submitter' = submitter /\ rejected' = rejected /\ job' = job /\ (worker' = worker \/ NotifyAll)
  BY DEF DeadlineStep, WatchdogStep, DeadlineFires, DeadlineReturned, ActionStep, ActionCancel,
         RetireExpiredJob, RetireNotify, schedVars, workerVars, stopVars
<1>2. \A w \in Workers : worker'[w] \in Busy <=> worker[w] \in Busy
  BY <1>1, NotifyFacts, NotBusy
<1>3. CASE queue' = queue
  BY <1>1, <1>2, <1>3, PlaceFrame
<1>4. ASSUME NEW i \in 1..Len(queue), queue[i] = j, queue' = RemoveAt(queue, i) PROVE PlaceInv'
  <2>1. queue \in Seq(Jobs) /\ Distinct(queue)
    BY DEF PoolOK, PlaceInv
  <2>2. Distinct(queue') /\ \A k \in Jobs : Queued(k)' <=> Queued(k) /\ k # j
    BY <1>4, <2>1, RemoveAtOK DEF Queued
  <2>3. /\ \A k \in Jobs : Rejected(k)' <=> Rejected(k)
        /\ \A w \in Workers, k \in Jobs : Holds(w, k)' <=> Holds(w, k)
    BY <1>1 DEF Rejected, Holds
  <2> QED BY <1>1, <1>2, <2>2, <2>3 DEF PlaceInv
<1>5. queue' = queue \/ \E i \in 1..Len(queue) : queue[i] = j /\ queue' = RemoveAt(queue, i)
  BY DEF DeadlineStep, WatchdogStep, DeadlineFires, DeadlineReturned, ActionStep, ActionCancel,
         RetireExpiredJob, RetireNotify, schedVars, poolVars
<1> QED BY <1>3, <1>4, <1>5

LEMMA TakeFacts ==
  ASSUME Typed, PlaceInv, NEW w \in Workers, WorkerTake(w)
  PROVE  \E i \in 1..Len(queue) :
           /\ queue[i] \in Jobs /\ Queued(queue[i]) /\ FirstEligible(i)
           /\ worker[w] = "awake" /\ worker'[w] = "start" /\ job[w] = None /\ job'[w] = queue[i]
           /\ \A v \in Workers \ {w} : worker'[v] = worker[v] /\ job'[v] = job[v]
           /\ Distinct(queue') /\ Len(queue') = Len(queue) - 1
           /\ \A k \in Jobs : Queued(k)' <=> Queued(k) /\ k # queue[i]
           /\ activeImageCount' = activeImageCount + TakesSlot(queue[i])
<1>1. PICK i \in 1..Len(queue) :
        /\ Step(w, "awake", "start") /\ FirstEligible(i)
        /\ job' = [job EXCEPT ![w] = queue[i]] /\ queue' = RemoveAt(queue, i)
        /\ activeImageCount' = activeImageCount + TakesSlot(queue[i])
  BY DEF WorkerTake
<1>2. queue \in Seq(Jobs) /\ Distinct(queue) /\ job \in [Workers -> Jobs \cup {None}] /\ PoolOK
  BY DEF Typed, PoolOK, PlaceInv
<1>3. queue[i] \in Jobs /\ Queued(queue[i])
  BY <1>2 DEF Queued, Contains
<1>4. /\ Distinct(queue') /\ Len(queue') = Len(queue) - 1
      /\ \A k \in Jobs : Queued(k)' <=> Queued(k) /\ k # queue[i]
  BY <1>1, <1>2, RemoveAtOK DEF Queued
<1>5. /\ worker[w] = "awake" /\ worker'[w] = "start"
      /\ \A v \in Workers \ {w} : worker'[v] = worker[v]
  BY <1>1, <1>2, StepFacts DEF WorkerState
<1>6. job[w] = None
  BY <1>5, NotBusy DEF PlaceInv
<1>7. job'[w] = queue[i] /\ \A v \in Workers \ {w} : job'[v] = job[v]
  BY <1>1, <1>2
<1> QED BY <1>1, <1>3, <1>4, <1>5, <1>6, <1>7

LEMMA WorkerPlace ==
  ASSUME Typed, PlaceInv, NEW w \in Workers, WorkerStep(w)
  PROVE  PlaceInv'
<1> USE DEF Typed
<1>0. /\ submitter' = submitter /\ rejected' = rejected
      /\ job \in [Workers -> Jobs \cup {None}] /\ None \notin Jobs
  BY ConstantsAssumption
     DEF WorkerStep, LoopStep, WorkerSleep, WorkerExit, WorkerTake, RunStart, ClaimForWorker, WorkerSettle,
         WorkerRelease, NotifyAfterImage, FnReturn, SpuriousWakeup, PoolOK, stopVars
<1>1. CASE WorkerTake(w)
  <2>1. PICK i \in 1..Len(queue) :
           /\ queue[i] \in Jobs /\ Queued(queue[i])
           /\ worker[w] = "awake" /\ worker'[w] = "start" /\ job[w] = None /\ job'[w] = queue[i]
           /\ \A v \in Workers \ {w} : worker'[v] = worker[v] /\ job'[v] = job[v]
           /\ Distinct(queue')
           /\ \A k \in Jobs : Queued(k)' <=> Queued(k) /\ k # queue[i]
    BY <1>1, TakeFacts
  <2>2. /\ \A k \in Jobs : Rejected(k)' <=> Rejected(k)
        /\ \A k \in Jobs : Holds(w, k)' <=> k = queue[i]
        /\ \A v \in Workers \ {w}, k \in Jobs : Holds(v, k)' <=> Holds(v, k)
    BY <1>0, <2>1 DEF Rejected, Holds
  <2>3. "start" \in Busy
    BY DEF Busy
  <2>4. \A v \in Workers : job[v] # queue[i]
    BY <2>1 DEF PlaceInv, Holds
  <2>5. \A u, v \in Workers : job'[u] # None /\ job'[u] = job'[v] => u = v
    BY <2>1, <2>4 DEF PlaceInv
  <2>6. \A v \in Workers : worker'[v] \in Busy <=> job'[v] # None
    BY <1>0, <2>1, <2>3 DEF PlaceInv
  <2> QED BY <1>0, <2>1, <2>2, <2>5, <2>6 DEF PlaceInv
<1>2. CASE WorkerRelease(w)
  <2>1. /\ queue' = queue /\ job'[w] = None /\ \A v \in Workers \ {w} : job'[v] = job[v] /\ worker'[v] = worker[v]
        /\ worker'[w] \in {"awake", "notify"}
    BY <1>0, <1>2 DEF WorkerRelease, Step, PoolOK
  <2>2. /\ \A k \in Jobs : (Queued(k)' <=> Queued(k)) /\ (Rejected(k)' <=> Rejected(k))
        /\ \A v \in Workers, k \in Jobs : Holds(v, k)' => Holds(v, k)
    BY <1>0, <2>1 DEF Queued, Rejected, Holds
  <2> QED BY <1>0, <2>1, <2>2, NotBusy DEF PlaceInv
<1>3. CASE ~WorkerTake(w) /\ ~WorkerRelease(w)
  <2>1. queue' = queue /\ job' = job
    BY <1>3 DEF WorkerStep, LoopStep, WorkerSleep, WorkerExit, RunStart, ClaimForWorker, WorkerSettle,
         NotifyAfterImage, FnReturn, SpuriousWakeup, poolVars
  <2>2. \A v \in Workers : worker'[v] \in Busy <=> worker[v] \in Busy
    <3>1. CASE NotifyAfterImage(w)
      BY <3>1, NotBusy DEF NotifyAfterImage, Asleep
    <3>2. CASE ~NotifyAfterImage(w)
      <4>1. \E from, to \in WorkerState : Step(w, from, to) /\ (from \in Busy <=> to \in Busy)
        BY <1>3, <3>2 DEF WorkerStep, LoopStep, WorkerSleep, WorkerExit, RunStart, ClaimForWorker, WorkerSettle,
             FnReturn, SpuriousWakeup, WorkerState, Busy
      <4> QED BY <4>1, StepFacts
    <3> QED BY <3>1, <3>2
  <2> QED BY <1>0, <2>1, <2>2, PlaceFrame
<1> QED BY <1>1, <1>2, <1>3

LEMMA StopPlace ==
  ASSUME Typed, PlaceInv, LifeInv, StopStep
  PROVE  PlaceInv'
<1> USE DEF Typed
<1>0. submitter' = submitter
  BY DEF StopStep, LifecycleStep, Shutdown, ShutdownBounded, Restart, ShutdownNotify, ShutdownJoined,
         RejectQueued, ShutdownWaited, Reap, ShutdownReturns, StartWorkers
<1>1. CASE ShutdownBounded
  <2>1. rejected = << >> /\ rejected' = queue /\ queue' = << >> /\ job' = job /\ worker' = worker
    BY <1>1 DEF ShutdownBounded, LifeInv, Doing, workerVars
  <2>2. /\ \A k \in Jobs : ~Queued(k)' /\ (Rejected(k)' <=> Queued(k))
        /\ \A w \in Workers, k \in Jobs : Holds(w, k)' <=> Holds(w, k)
    BY <2>1 DEF Queued, Rejected, Holds, Contains
  <2>3. Distinct(queue')
    BY <2>1 DEF Distinct
  <2> QED BY <1>0, <2>1, <2>2, <2>3 DEF PlaceInv
<1>2. CASE RejectQueued
  <2>1. queue' = queue /\ job' = job /\ worker' = worker /\ rejected' = Tail(rejected) /\ rejected # << >>
    BY <1>2 DEF RejectQueued, poolVars, workerVars
  <2>2. rejected \in Seq(Jobs) /\ Distinct(rejected)
    BY DEF PoolOK, PlaceInv
  <2>3. Distinct(rejected') /\ \A k \in Jobs : Rejected(k)' => Rejected(k)
    BY <2>1, <2>2, TailOK DEF Rejected
  <2>4. /\ \A k \in Jobs : Queued(k)' <=> Queued(k)
        /\ \A w \in Workers, k \in Jobs : Holds(w, k)' <=> Holds(w, k)
    BY <2>1 DEF Queued, Holds
  <2> QED BY <1>0, <2>1, <2>3, <2>4 DEF PlaceInv
<1>3. CASE ~ShutdownBounded /\ ~RejectQueued
  <2>1. queue' = queue /\ rejected' = rejected /\ job' = job
    BY <1>3 DEF StopStep, LifecycleStep, Shutdown, Restart, ShutdownNotify, ShutdownJoined,
         ShutdownWaited, Reap, ShutdownReturns, StartWorkers, poolVars, workerVars
  <2>2. \A w \in Workers : worker'[w] \in Busy <=> worker[w] \in Busy
    <3>1. CASE ShutdownNotify
      BY <3>1, NotifyFacts, NotBusy DEF ShutdownNotify
    <3>2. CASE StartWorkers
      <4>1. \A w \in Workers : worker[w] = "exited" /\ worker'[w] \in {"awake", worker[w]}
        BY <3>2 DEF StartWorkers, LifeInv, Doing
      <4> QED BY <4>1, NotBusy
    <3>3. CASE ~ShutdownNotify /\ ~StartWorkers
      BY <1>3, <3>3 DEF StopStep, LifecycleStep, Shutdown, Restart, ShutdownJoined,
         ShutdownWaited, Reap, ShutdownReturns, workerVars
    <3> QED BY <3>1, <3>2, <3>3
  <2> QED BY <1>0, <2>1, <2>2, PlaceFrame
<1> QED BY <1>1, <1>2, <1>3

LEMMA PlaceStep ==
  ASSUME Typed, PlaceInv, LifeInv, [Next]_vars
  PROVE  PlaceInv'
<1>1. ASSUME NEW k \in Kinds, Cancel(k) PROVE PlaceInv'
  BY <1>1, PlaceFrame DEF Cancel, poolVars, workerVars, stopVars
<1>2. CASE UNCHANGED vars
  BY <1>2, PlaceFrame DEF vars, schedVars, poolVars, workerVars, stopVars
<1> QED BY <1>1, <1>2, SubmitPlace, DeadlinePlace, WorkerPlace, StopPlace
        DEF Next, SubmitStep, DeadlineStep, WorkerStep, StopStep, Kinds
-----------------------------------------------------------------------------
(* Who settles the promise of a job. *)
(* A request never changes. *)
LEMMA RequestKept ==
  ASSUME [Next]_vars
  PROVE  request' = request
<1>1. ASSUME NEW j \in Jobs, SubmitStep(j) \/ DeadlineStep(j) PROVE request' = request
  BY <1>1 DEF SubmitStep, SubmitterStep, SubmitWithDeadline, Submit, EnqueueJob, NotifyWorker, RefuseClaim,
              RefuseSettle, DeadlineStep, WatchdogStep, DeadlineFires, DeadlineReturned, ActionStep, ActionCancel,
              RetireExpiredJob, RetireNotify, schedVars, tokenVars
<1>2. ASSUME NEW w \in Workers, WorkerStep(w) PROVE request' = request
  BY <1>2 DEF WorkerStep, LoopStep, WorkerSleep, WorkerExit, WorkerTake, RunStart, ClaimForWorker, WorkerSettle,
              WorkerRelease, NotifyAfterImage, FnReturn, SpuriousWakeup, tokenVars
<1>3. StopStep => request' = request
  BY DEF StopStep, LifecycleStep, Shutdown, ShutdownBounded, Restart, ShutdownNotify, ShutdownJoined,
         RejectQueued, ShutdownWaited, Reap, ShutdownReturns, StartWorkers, tokenVars
<1>4. (\E k \in Kinds : Cancel(k)) \/ UNCHANGED vars => request' = request
  BY DEF Cancel, vars, schedVars, tokenVars
<1> QED BY <1>1, <1>2, <1>3, <1>4 DEF Next, SubmitStep, DeadlineStep, WorkerStep, StopStep, Kinds

LEMMA LoopStepInv ==
  ASSUME Typed, LoopInv, [Next]_vars
  PROVE  LoopInv'
<1>0. request' = request
  BY RequestKept
<1>1. ASSUME \A w \in Workers : worker'[w] = "claim" => worker[w] = "claim" /\ job'[w] = job[w]
      PROVE  LoopInv'
  BY <1>0, <1>1 DEF LoopInv, Claims, Api
<1>2. ASSUME NEW j \in Jobs, SubmitStep(j) \/ DeadlineStep(j) PROVE LoopInv'
  <2>1. job' = job /\ (worker' = worker \/ NotifyOne \/ NotifyAll)
    BY <1>2 DEF SubmitStep, SubmitterStep, SubmitWithDeadline, Submit, EnqueueJob, NotifyWorker, RefuseClaim,
                RefuseSettle, DeadlineStep, WatchdogStep, DeadlineFires, DeadlineReturned, ActionStep, ActionCancel,
                RetireExpiredJob, RetireNotify, schedVars, workerVars
  <2> QED BY <1>1, <2>1, NotifyFacts DEF Typed
<1>3. ASSUME NEW w \in Workers, WorkerStep(w) PROVE LoopInv'
  <2>0. worker \in [Workers -> WorkerState] /\ job \in [Workers -> Jobs \cup {None}] /\ PoolOK
    BY DEF Typed, PoolOK
  <2>1. CASE FnReturn(w)
    <3>1. job' = job /\ worker'[w] = (IF Claims(job[w]) THEN "claim" ELSE "settle")
          /\ \A v \in Workers \ {w} : worker'[v] = worker[v]
      BY <2>0, <2>1 DEF FnReturn, Step
    <3> QED BY <1>0, <3>1 DEF LoopInv, Claims, Api
  <2>2. CASE NotifyAfterImage(w)
    BY <1>1, <2>0, <2>2 DEF NotifyAfterImage
  <2>3. CASE WorkerTake(w) \/ WorkerRelease(w)
    BY <1>1, <2>0, <2>3 DEF WorkerTake, WorkerRelease, Step
  <2>4. CASE \/ WorkerSleep(w) \/ WorkerExit(w) \/ RunStart(w) \/ ClaimForWorker(w) \/ WorkerSettle(w)
             \/ SpuriousWakeup(w)
    BY <1>1, <2>0, <2>4 DEF WorkerSleep, WorkerExit, RunStart, ClaimForWorker, WorkerSettle, SpuriousWakeup, Step
  <2> QED BY <1>3, <2>1, <2>2, <2>3, <2>4 DEF WorkerStep, LoopStep
<1>4. ASSUME StopStep PROVE LoopInv'
  <2>1. job' = job /\ (worker' = worker \/ NotifyAll \/ StartWorkers)
    BY <1>4 DEF StopStep, LifecycleStep, Shutdown, ShutdownBounded, Restart, ShutdownNotify, ShutdownJoined,
           RejectQueued, ShutdownWaited, Reap, ShutdownReturns, StartWorkers, workerVars
  <2>2. StartWorkers => \A w \in Workers : worker'[w] = "claim" => worker[w] = "claim"
    BY DEF StartWorkers
  <2> QED BY <1>1, <2>1, <2>2, NotifyFacts DEF Typed
<1>5. (\E k \in Kinds : Cancel(k)) \/ UNCHANGED vars => LoopInv'
  BY <1>1 DEF Cancel, vars, schedVars, workerVars
<1> QED BY <1>2, <1>3, <1>4, <1>5 DEF Next, SubmitStep, DeadlineStep, WorkerStep, StopStep, Kinds

(* A job that no part of the step concerns. *)
LEMMA JobFrame ==
  ASSUME NEW k \in Jobs, JobInv(k), request' = request,
         claimed'[k] = claimed[k], alarm'[k] = alarm[k], promise'[k] = promise[k], action'[k] = action[k],
         submitter'[k] = submitter[k], AtSettle(k)' <=> AtSettle(k), Located(k)' => Located(k),
         Waiting(k)' <=> Waiting(k), Queued(k)' => Queued(k)
  PROVE  JobInv(k)'
BY DEF JobInv, Settling, Expiring, CancelDue, Claims, HasPromise, Api

(* The places of the jobs, when only idle workers move. *)
PlacesKept(k) == /\ (Located(k)' <=> Located(k)) /\ (Waiting(k)' <=> Waiting(k))
                 /\ (AtSettle(k)' <=> AtSettle(k)) /\ (Queued(k)' <=> Queued(k))

LEMMA PlacesFrame ==
  ASSUME Typed, PlaceInv, queue' = queue, rejected' = rejected, job' = job,
         \A w \in Workers : worker'[w] = worker[w] \/ worker[w] \notin Busy
  PROVE  \A k \in Jobs : PlacesKept(k)
<1>1. \A w \in Workers, k \in Jobs : (Holds(w, k)' <=> Holds(w, k))
                                     /\ (Holds(w, k) => worker'[w] = worker[w])
  BY ConstantsAssumption DEF Holds, PlaceInv
<1>2. \A k \in Jobs : (Queued(k)' <=> Queued(k)) /\ (Rejected(k)' <=> Rejected(k))
  BY DEF Queued, Rejected
<1> QED BY <1>1, <1>2 DEF PlacesKept, Located, Waiting, AtSettle

LEMMA NotLocated ==
  ASSUME PlaceInv, NEW j \in Jobs, submitter[j] \notin {"notify", "done"}
  PROVE  ~Located(j) /\ ~Waiting(j) /\ ~AtSettle(j) /\ ~Queued(j)
BY DEF PlaceInv, Located, Waiting, AtSettle

LEMMA ClaimsFacts ==
  /\ \A j : Api(j) = "deadline" => Claims(j)
  /\ \A j : Claims(j) => HasPromise(j)
BY DEF Claims, HasPromise

(* Submitting. *)
LEMMA SubmitClaim ==
  ASSUME Typed, PlaceInv, ClaimInv, NEW j \in Jobs, SubmitStep(j)
  PROVE  ClaimInv'
<1> USE DEF Typed
<1>0. /\ {"enqueue", "notify", "refused", "settle", "done"} \subseteq SubmitterState
      /\ {"watchdog_overload", "queue_full"} \subseteq PromiseState
  BY DEF SubmitterState, PromiseState
<1>1. request' = request /\ action' = action /\ rejected' = rejected /\ job' = job
      /\ (worker' = worker \/ NotifyOne)
  BY DEF SubmitStep, SubmitterStep, SubmitWithDeadline, Submit, EnqueueJob, NotifyWorker, RefuseClaim,
         RefuseSettle, tokenVars, poolVars, workerVars, stopVars
<1>2. \A w \in Workers : worker'[w] = worker[w] \/ worker[w] \notin Busy
  BY <1>1, NotifyFacts, NotBusy
<1>3. queue' = queue => \A k \in Jobs : PlacesKept(k)
  BY <1>1, <1>2, PlacesFrame
<1>4. /\ \A k \in Jobs : JobInv(k)
      /\ \A k : (Api(k)' = Api(k)) /\ (Claims(k)' = Claims(k)) /\ (HasPromise(k)' = HasPromise(k))
  BY <1>1 DEF ClaimInv, Claims, HasPromise, Api
<1>5. submitter[j] \in {"new", "enqueue", "refused", "settle"} =>
        ~Located(j) /\ ~Waiting(j) /\ ~AtSettle(j) /\ ~Queued(j)
  BY NotLocated
<1>6. ASSUME JobInv(j)', NEW k \in Jobs, k # j, claimed'[k] = claimed[k], alarm'[k] = alarm[k],
             promise'[k] = promise[k], submitter'[k] = submitter[k], PlacesKept(k)
      PROVE  JobInv(k)'
  BY <1>1, <1>4, <1>6, JobFrame DEF PlacesKept
<1>7. CASE SubmitWithDeadline(j)
  <2>0. Claims(j) /\ HasPromise(j) /\ queue' = queue /\ submitter[j] = "new"
    BY <1>7, ClaimsFacts DEF SubmitWithDeadline, poolVars, At
  <2>1. CASE Service!Arm(j) /\ At(j, "new", "enqueue") /\ UNCHANGED promise
    <3>1. /\ alarm[j] = "idle" /\ alarm'[j] = "armed" /\ claimed'[j] = claimed[j] /\ ServiceKept(j)
          /\ submitter'[j] = "enqueue" /\ \A k \in Jobs \ {j} : submitter'[k] = submitter[k]
      BY <1>0, <2>1, ServiceFacts, AtFacts
    <3>2. JobInv(j)'
      BY <1>1, <1>3, <1>4, <1>5, <2>0, <2>1, <3>1 DEF JobInv, Settling, Expiring, CancelDue, PlacesKept
    <3> QED BY <1>3, <1>6, <2>0, <2>1, <3>1, <3>2 DEF ClaimInv, ServiceKept
  <2>2. CASE NoService /\ At(j, "new", "done") /\ Settle(j, "watchdog_overload")
    <3>1. /\ alarm' = alarm /\ claimed' = claimed /\ promise[j] = "pending" /\ promise'[j] = "watchdog_overload"
          /\ submitter'[j] = "done" /\ \A k \in Jobs \ {j} : submitter'[k] = submitter[k] /\ promise'[k] = promise[k]
      <4>1. promise[j] = "pending"
        BY <1>4, <2>0 DEF JobInv
      <4>2. submitter'[j] = "done" /\ \A k \in Jobs \ {j} : submitter'[k] = submitter[k]
        BY <1>0, <2>2, AtFacts
      <4>3. promise'[j] = "watchdog_overload" /\ \A k \in Jobs \ {j} : promise'[k] = promise[k]
        BY <1>0, <2>0, <2>2, <4>1, SettleFacts
      <4> QED BY <2>2, <4>1, <4>2, <4>3 DEF NoService
    <3>2. JobInv(j)'
      BY <1>1, <1>3, <1>4, <1>5, <2>0, <3>1 DEF JobInv, Settling, Expiring, CancelDue, PlacesKept
    <3> QED BY <1>3, <1>6, <2>0, <2>2, <3>1, <3>2 DEF ClaimInv
  <2> QED BY <1>7, <2>1, <2>2 DEF SubmitWithDeadline
<1>8. CASE Submit(j)
  <2>1. /\ alarm' = alarm /\ claimed' = claimed /\ promise' = promise /\ queue' = queue
        /\ submitter[j] = "new" /\ submitter'[j] = "enqueue"
        /\ \A k \in Jobs \ {j} : submitter'[k] = submitter[k]
    BY <1>0, <1>8, AtFacts DEF Submit, NoService, poolVars
  <2>2. JobInv(j)'
    BY <1>1, <1>3, <1>4, <1>5, <2>1 DEF JobInv, Settling, Expiring, CancelDue, PlacesKept
  <2> QED BY <1>3, <1>6, <2>1, <2>2 DEF ClaimInv
<1>9. CASE EnqueueJob(j)
  <2>0. alarm' = alarm /\ claimed' = claimed /\ promise' = promise /\ submitter[j] = "enqueue" /\ worker' = worker
    BY <1>9 DEF EnqueueJob, NoService, At, workerVars
  <2>1. CASE /\ queue' = queue
             /\ \/ Expired(j) /\ At(j, "enqueue", "done")
                \/ At(j, "enqueue", "refused")
    <3>1. /\ \A k \in Jobs \ {j} : submitter'[k] = submitter[k]
          /\ submitter'[j] = "refused" \/ (submitter'[j] = "done" /\ Claims(j) /\ claimed[j])
      BY <1>0, <2>1, AtFacts DEF Expired
    <3>2. JobInv(j)'
      BY <1>1, <1>3, <1>4, <1>5, <2>0, <2>1, <3>1 DEF JobInv, Settling, Expiring, CancelDue, PlacesKept
    <3> QED BY <1>3, <1>6, <2>0, <2>1, <3>1, <3>2 DEF ClaimInv
  <2>2. CASE ~Expired(j) /\ At(j, "enqueue", "notify") /\ queue' = Append(queue, j)
    <3>1. /\ \A k \in Jobs \ {j} : submitter'[k] = submitter[k]
          /\ submitter'[j] = "notify" /\ (Claims(j) => ~claimed[j])
      BY <1>0, <2>2, AtFacts DEF Expired
    <3>2. \A k \in Jobs : (Queued(k)' <=> Queued(k) \/ k = j) /\ (Rejected(k)' <=> Rejected(k))
      BY <1>1, <2>2, AppendOK DEF Queued, Rejected, PoolOK
    <3>3. \A w \in Workers, k \in Jobs : Holds(w, k)' <=> Holds(w, k)
      BY <1>1 DEF Holds
    <3>4. \A k \in Jobs \ {j} : PlacesKept(k)
      BY <2>0, <3>2, <3>3 DEF PlacesKept, Located, Waiting, AtSettle
    <3>5. Waiting(j)' /\ ~AtSettle(j)'
      BY <1>5, <2>0, <3>2, <3>3 DEF Waiting, AtSettle
    <3>6. JobInv(j)'
      BY <1>1, <1>4, <1>5, <2>0, <3>1, <3>5 DEF JobInv, Settling, Expiring, CancelDue
    <3> QED BY <1>6, <2>0, <3>1, <3>4, <3>6 DEF ClaimInv
  <2> QED BY <1>9, <2>1, <2>2 DEF EnqueueJob
<1>10. CASE NotifyWorker(j)
  <2>1. /\ alarm' = alarm /\ claimed' = claimed /\ promise' = promise /\ queue' = queue
        /\ submitter[j] = "notify" /\ submitter'[j] = "done"
        /\ \A k \in Jobs \ {j} : submitter'[k] = submitter[k]
    BY <1>0, <1>10, AtFacts DEF NotifyWorker, NoService, poolVars
  <2>2. JobInv(j)'
    BY <1>1, <1>3, <1>4, <2>1 DEF JobInv, Settling, Expiring, CancelDue, PlacesKept
  <2> QED BY <1>3, <1>6, <2>1, <2>2 DEF ClaimInv
<1>11. CASE RefuseClaim(j)
  <2>0. promise' = promise /\ queue' = queue /\ submitter[j] = "refused"
    BY <1>11 DEF RefuseClaim, poolVars, At
  <2>1. CASE Claims(j) /\ Service!OwnerWins(j) /\ At(j, "refused", "settle")
    <3>1. /\ ~claimed[j] /\ claimed'[j] /\ alarm[j] \in {"idle", "armed", "dropped"} /\ alarm'[j] = alarm[j]
          /\ ServiceKept(j)
          /\ submitter'[j] = "settle" /\ \A k \in Jobs \ {j} : submitter'[k] = submitter[k]
      BY <1>0, <2>1, ServiceFacts, AtFacts
    <3>2. JobInv(j)'
      BY <1>1, <1>3, <1>4, <1>5, <2>0, <2>1, <3>1 DEF JobInv, Settling, Expiring, CancelDue, PlacesKept
    <3> QED BY <1>3, <1>6, <2>0, <2>1, <3>1, <3>2 DEF ClaimInv, ServiceKept
  <2>2. CASE Claims(j) /\ claimed[j] /\ NoService /\ At(j, "refused", "done")
    <3>1. /\ alarm' = alarm /\ claimed' = claimed
          /\ submitter'[j] = "done" /\ \A k \in Jobs \ {j} : submitter'[k] = submitter[k]
      BY <1>0, <2>2, AtFacts DEF NoService
    <3>2. JobInv(j)'
      BY <1>1, <1>3, <1>4, <1>5, <2>0, <2>2, <3>1 DEF JobInv, Settling, Expiring, CancelDue, PlacesKept
    <3> QED BY <1>3, <1>6, <2>0, <2>2, <3>1, <3>2 DEF ClaimInv
  <2>3. CASE ~Claims(j) /\ NoService /\ At(j, "refused", "settle")
    <3>1. /\ alarm' = alarm /\ claimed' = claimed
          /\ submitter'[j] = "settle" /\ \A k \in Jobs \ {j} : submitter'[k] = submitter[k]
      BY <1>0, <2>3, AtFacts DEF NoService
    <3>2. JobInv(j)'
      BY <1>1, <1>3, <1>4, <1>5, <2>0, <2>3, <3>1 DEF JobInv, Settling, Expiring, CancelDue, PlacesKept
    <3> QED BY <1>3, <1>6, <2>0, <2>3, <3>1, <3>2 DEF ClaimInv
  <2> QED BY <1>11, <2>1, <2>2, <2>3 DEF RefuseClaim
<1>12. CASE RefuseSettle(j)
  <2>1. /\ alarm' = alarm /\ claimed' = claimed /\ queue' = queue
        /\ submitter[j] = "settle" /\ submitter'[j] = "done" /\ promise[j] = "pending"
        /\ \A k \in Jobs \ {j} : submitter'[k] = submitter[k] /\ promise'[k] = promise[k]
        /\ promise'[j] = IF HasPromise(j) THEN "queue_full" ELSE "pending"
    <3>1. alarm' = alarm /\ claimed' = claimed /\ queue' = queue /\ Settle(j, "queue_full")
      BY <1>12 DEF RefuseSettle, NoService, poolVars
    <3>2. /\ submitter[j] = "settle" /\ submitter'[j] = "done"
          /\ \A k \in Jobs \ {j} : submitter'[k] = submitter[k]
      BY <1>0, <1>12, AtFacts DEF RefuseSettle
    <3>3. promise[j] = "pending"
      BY <1>4, <3>2 DEF JobInv, Settling
    <3>4. /\ promise'[j] = IF HasPromise(j) THEN "queue_full" ELSE "pending"
          /\ \A k \in Jobs \ {j} : promise'[k] = promise[k]
      BY <1>0, <3>1, <3>3, SettleFacts
    <3> QED BY <3>1, <3>2, <3>3, <3>4
  <2>2. JobInv(j)'
    BY <1>1, <1>3, <1>4, <1>5, <2>1, ClaimsFacts DEF JobInv, Settling, Expiring, CancelDue, PlacesKept
  <2> QED BY <1>3, <1>6, <2>1, <2>2 DEF ClaimInv
<1> QED BY <1>7, <1>8, <1>9, <1>10, <1>11, <1>12 DEF SubmitStep, SubmitterStep

(* The deadline and its action. *)
LEMMA DeadlineClaim ==
  ASSUME Typed, PlaceInv, ClaimInv, NEW j \in Jobs, DeadlineStep(j)
  PROVE  ClaimInv'
<1> USE DEF Typed
<1>0. "job_deadline" \in PromiseState
  BY DEF PromiseState
<1>1. request' = request /\ submitter' = submitter /\ rejected' = rejected /\ job' = job
      /\ (worker' = worker \/ NotifyAll)
  BY DEF DeadlineStep, WatchdogStep, DeadlineFires, DeadlineReturned, ActionStep, ActionCancel,
         RetireExpiredJob, RetireNotify, schedVars, tokenVars, workerVars, stopVars
<1>2. \A w \in Workers : worker'[w] = worker[w] \/ worker[w] \notin Busy
  BY <1>1, NotifyFacts, NotBusy
<1>3. queue' = queue => \A k \in Jobs : PlacesKept(k)
  BY <1>1, <1>2, PlacesFrame
<1>4. /\ \A k \in Jobs : JobInv(k)
      /\ \A k : (Api(k)' = Api(k)) /\ (Claims(k)' = Claims(k)) /\ (HasPromise(k)' = HasPromise(k))
  BY <1>1 DEF ClaimInv, Claims, HasPromise, Api
<1>5. ASSUME JobInv(j)', NEW k \in Jobs, k # j, claimed'[k] = claimed[k], alarm'[k] = alarm[k],
             promise'[k] = promise[k], action'[k] = action[k], PlacesKept(k)
      PROVE  JobInv(k)'
  BY <1>1, <1>4, <1>5, JobFrame DEF PlacesKept
<1>6. CASE DeadlineFires(j)
  <2>1. /\ ~claimed[j] /\ claimed'[j] /\ alarm[j] = "armed" /\ alarm'[j] = "fired" /\ ServiceKept(j)
        /\ queue' = queue /\ promise' = promise /\ action' = action
    BY <1>6, ServiceFacts DEF DeadlineFires, schedVars, poolVars
  <2>2. JobInv(j)'
    BY <1>1, <1>3, <1>4, <2>1 DEF JobInv, Settling, Expiring, CancelDue, PlacesKept
  <2> QED BY <1>3, <1>5, <2>1, <2>2 DEF ClaimInv, ServiceKept
<1>7. CASE DeadlineReturned(j)
  <2>1. /\ claimed[j] /\ claimed'[j] /\ alarm[j] = "armed" /\ alarm'[j] = "released" /\ ServiceKept(j)
        /\ queue' = queue /\ promise' = promise /\ action' = action
    BY <1>7, ServiceFacts DEF DeadlineReturned, schedVars, poolVars
  <2>2. JobInv(j)'
    BY <1>1, <1>3, <1>4, <2>1 DEF JobInv, Settling, Expiring, CancelDue, PlacesKept
  <2> QED BY <1>3, <1>5, <2>1, <2>2 DEF ClaimInv, ServiceKept
<1>8. CASE ActionCancel(j)
  <2>1. /\ alarm' = alarm /\ claimed' = claimed /\ queue' = queue /\ alarm[j] = "fired"
        /\ action[j] = "cancel" /\ Settle(j, "job_deadline")
    BY <1>8 DEF ActionCancel, NoService, poolVars
  <2>2. action'[j] = "retire" /\ \A k \in Jobs \ {j} : action'[k] = action[k]
    BY <1>8 DEF ActionCancel, JobsOK
  <2>3. promise[j] = "pending" /\ HasPromise(j)
    BY <1>4, <2>1, ClaimsFacts DEF JobInv, CancelDue
  <2>4. promise'[j] = "job_deadline" /\ \A k \in Jobs \ {j} : promise'[k] = promise[k]
    BY <1>0, <2>1, <2>3, SettleFacts
  <2>5. JobInv(j)'
    BY <1>1, <1>3, <1>4, <2>1, <2>2, <2>3, <2>4 DEF JobInv, Settling, Expiring, CancelDue, PlacesKept
  <2> QED BY <1>3, <1>5, <2>1, <2>2, <2>4, <2>5 DEF ClaimInv
<1>9. CASE RetireExpiredJob(j)
  <2>0. promise' = promise /\ alarm[j] = "fired" /\ action[j] = "retire" /\ worker' = worker
    BY <1>9 DEF RetireExpiredJob, workerVars
  <2>1. CASE ~Queued(j) /\ Service!Deliver(j) /\ UNCHANGED <<queue, action>>
    <3>1. alarm'[j] = "delivered" /\ claimed'[j] = claimed[j] /\ ServiceKept(j)
      BY <2>1, ServiceFacts
    <3>2. JobInv(j)'
      BY <1>1, <1>3, <1>4, <2>0, <2>1, <3>1 DEF JobInv, Settling, Expiring, CancelDue, PlacesKept
    <3> QED BY <1>3, <1>5, <2>0, <2>1, <3>1, <3>2 DEF ClaimInv, ServiceKept
  <2>2. ASSUME NEW i \in 1..Len(queue), queue[i] = j, queue' = RemoveAt(queue, i),
               action' = [action EXCEPT ![j] = "notify"], NoService
        PROVE  ClaimInv'
    <3>1. /\ alarm' = alarm /\ claimed' = claimed /\ action'[j] = "notify"
          /\ \A k \in Jobs \ {j} : action'[k] = action[k]
      BY <2>2 DEF NoService, JobsOK
    <3>2. \A k \in Jobs : (Queued(k)' <=> Queued(k) /\ k # j) /\ (Rejected(k)' <=> Rejected(k))
      BY <1>1, <2>2, RemoveAtOK DEF Queued, Rejected, PoolOK, PlaceInv
    <3>3. \A w \in Workers, k \in Jobs : Holds(w, k)' <=> Holds(w, k)
      BY <1>1 DEF Holds
    <3>4. \A k \in Jobs \ {j} : PlacesKept(k)
      BY <2>0, <3>2, <3>3 DEF PlacesKept, Located, Waiting, AtSettle
    <3>5. AtSettle(j)' <=> AtSettle(j)
      BY <2>0, <3>3 DEF AtSettle
    <3>6. JobInv(j)'
      BY <1>1, <1>4, <2>0, <3>1, <3>2, <3>5 DEF JobInv, Settling, Expiring, CancelDue
    <3> QED BY <1>5, <2>0, <3>1, <3>4, <3>6 DEF ClaimInv
  <2> QED BY <1>9, <2>1, <2>2 DEF RetireExpiredJob, Queued
<1>10. CASE RetireNotify(j)
  <2>1. /\ promise' = promise /\ alarm[j] = "fired" /\ action[j] = "notify" /\ queue' = queue /\ action' = action
        /\ alarm'[j] = "delivered" /\ claimed'[j] = claimed[j] /\ ServiceKept(j)
    BY <1>10, ServiceFacts DEF RetireNotify, poolVars
  <2>2. JobInv(j)'
    BY <1>1, <1>3, <1>4, <2>1 DEF JobInv, Settling, Expiring, CancelDue, PlacesKept
  <2> QED BY <1>3, <1>5, <2>1, <2>2 DEF ClaimInv, ServiceKept
<1> QED BY <1>6, <1>7, <1>8, <1>9, <1>10 DEF DeadlineStep, WatchdogStep, ActionStep

(* A worker with the job in its hands. *)
LEMMA HandFacts ==
  ASSUME Typed, PlaceInv, NEW w \in Workers, worker[w] \in Busy
  PROVE  /\ job[w] \in Jobs /\ Holds(w, job[w]) /\ Located(job[w]) /\ ~Queued(job[w]) /\ ~Rejected(job[w])
         /\ submitter[job[w]] \in {"notify", "done"}
         /\ \A v \in Workers : Holds(v, job[w]) => v = w
         /\ \A k \in Jobs : Holds(w, k) <=> k = job[w]
<1>1. job[w] # None /\ job[w] \in Jobs
  BY DEF PlaceInv, Typed, PoolOK
<1>2. Holds(w, job[w])
  BY DEF Holds
<1>3. ~Queued(job[w]) /\ ~Rejected(job[w]) /\ submitter[job[w]] \in {"notify", "done"}
  BY <1>1, <1>2 DEF PlaceInv
<1>4. \A v \in Workers : Holds(v, job[w]) => v = w
  BY <1>1 DEF PlaceInv, Holds
<1> QED BY <1>1, <1>2, <1>3, <1>4 DEF Located, Holds

(* A step of one worker that keeps its job leaves the places of all others. *)
LEMMA HandStep ==
  ASSUME Typed, PlaceInv, NEW w \in Workers, worker[w] \in Busy, queue' = queue, rejected' = rejected, job' = job,
         \A v \in Workers \ {w} : worker'[v] = worker[v], NEW j \in Jobs, j = job[w]
  PROVE  /\ \A k \in Jobs : (Located(k)' <=> Located(k)) /\ (Queued(k)' <=> Queued(k))
         /\ \A k \in Jobs \ {j} : PlacesKept(k)
         /\ Waiting(j) <=> worker[w] # "release"
         /\ Waiting(j)' <=> worker'[w] # "release"
         /\ AtSettle(j) <=> worker[w] = "settle"
         /\ AtSettle(j)' <=> worker'[w] = "settle"
<1>1. /\ \A k \in Jobs : (Queued(k)' <=> Queued(k)) /\ (Rejected(k)' <=> Rejected(k))
      /\ \A v \in Workers, k \in Jobs : Holds(v, k)' <=> Holds(v, k)
  BY DEF Queued, Rejected, Holds
<1>2. /\ \A v \in Workers : Holds(v, j) => v = w
      /\ \A k \in Jobs : Holds(w, k) <=> k = j
      /\ Holds(w, j) /\ ~Queued(j) /\ ~Rejected(j)
  BY HandFacts
<1>3. \A k \in Jobs : (Located(k)' <=> Located(k))
  BY <1>1 DEF Located
<1>4. \A k \in Jobs \ {j} : PlacesKept(k)
  BY <1>1, <1>2, <1>3 DEF PlacesKept, Waiting, AtSettle
<1>5. /\ Waiting(j) <=> worker[w] # "release"
      /\ AtSettle(j) <=> worker[w] = "settle"
  BY <1>2 DEF Waiting, AtSettle
<1>6. /\ Waiting(j)' <=> worker'[w] # "release"
      /\ AtSettle(j)' <=> worker'[w] = "settle"
  BY <1>1, <1>2 DEF Waiting, AtSettle
<1> QED BY <1>1, <1>3, <1>4, <1>5, <1>6

LEMMA WorkerClaim ==
  ASSUME Typed, PlaceInv, LoopInv, ClaimInv, NEW w \in Workers, WorkerStep(w)
  PROVE  ClaimInv'
<1> USE DEF Typed
<1>0. {"start", "fn", "claim", "settle", "release"} \subseteq WorkerState /\ "result" \in PromiseState
      /\ {"start", "fn", "claim", "settle", "release"} = Busy
  BY DEF WorkerState, PromiseState, Busy
<1>1. request' = request /\ submitter' = submitter /\ rejected' = rejected /\ action' = action
  BY DEF WorkerStep, LoopStep, WorkerSleep, WorkerExit, WorkerTake, RunStart, ClaimForWorker, WorkerSettle,
         WorkerRelease, NotifyAfterImage, FnReturn, SpuriousWakeup, tokenVars, stopVars
<1>2. /\ \A k \in Jobs : JobInv(k)
      /\ \A k : (Api(k)' = Api(k)) /\ (Claims(k)' = Claims(k)) /\ (HasPromise(k)' = HasPromise(k))
  BY <1>1 DEF ClaimInv, Claims, HasPromise, Api
<1>3. ASSUME NEW j \in Jobs, JobInv(j)', NEW k \in Jobs, k # j, claimed'[k] = claimed[k], alarm'[k] = alarm[k],
             promise'[k] = promise[k], PlacesKept(k)
      PROVE  JobInv(k)'
  BY <1>1, <1>2, <1>3, JobFrame DEF PlacesKept
<1>4. ASSUME alarm' = alarm, claimed' = claimed, promise' = promise,
             \A k \in Jobs : /\ AtSettle(k)' <=> AtSettle(k)
                             /\ Located(k)' => Located(k)
                             /\ Waiting(k)' <=> Waiting(k)
                             /\ Queued(k)' => Queued(k)
      PROVE  ClaimInv'
  BY <1>1, <1>2, <1>4, JobFrame DEF ClaimInv
<1>5. CASE WorkerSleep(w) \/ WorkerExit(w) \/ SpuriousWakeup(w) \/ NotifyAfterImage(w)
  <2>1. /\ alarm' = alarm /\ claimed' = claimed /\ promise' = promise /\ queue' = queue /\ job' = job
        /\ \A v \in Workers : worker'[v] = worker[v] \/ worker[v] \in {"awake", "asleep", "notify"}
    BY <1>5 DEF WorkerSleep, WorkerExit, SpuriousWakeup, NotifyAfterImage, NoService, poolVars, Step, PoolOK, Asleep
  <2>2. \A k \in Jobs : PlacesKept(k)
    BY <1>1, <2>1, NotBusy, PlacesFrame
  <2> QED BY <1>4, <2>1, <2>2 DEF PlacesKept
<1>6. CASE WorkerTake(w)
  <2>1. PICK i \in 1..Len(queue) :
           /\ queue[i] \in Jobs /\ Queued(queue[i])
           /\ worker'[w] = "start" /\ job[w] = None /\ job'[w] = queue[i]
           /\ \A v \in Workers \ {w} : worker'[v] = worker[v] /\ job'[v] = job[v]
           /\ \A k \in Jobs : Queued(k)' <=> Queued(k) /\ k # queue[i]
    BY <1>6, TakeFacts
  <2>2. /\ \A k \in Jobs : Rejected(k)' <=> Rejected(k)
        /\ \A k \in Jobs : (Holds(w, k)' <=> k = queue[i]) /\ ~Holds(w, k)
        /\ \A v \in Workers \ {w}, k \in Jobs : Holds(v, k)' <=> Holds(v, k)
    BY <1>1, <2>1, ConstantsAssumption DEF Rejected, Holds
  <2>3. \A k \in Jobs : /\ AtSettle(k)' <=> AtSettle(k)
                        /\ Located(k)' <=> Located(k)
                        /\ Waiting(k)' <=> Waiting(k)
    BY <2>1, <2>2 DEF AtSettle, Located, Waiting
  <2>4. alarm' = alarm /\ claimed' = claimed /\ promise' = promise
    BY <1>6 DEF WorkerTake, NoService
  <2> QED BY <1>4, <2>1, <2>3, <2>4
<1>7. CASE RunStart(w) \/ FnReturn(w) \/ ClaimForWorker(w) \/ WorkerSettle(w)
  <2>0. queue' = queue /\ job' = job
    BY <1>7 DEF RunStart, FnReturn, ClaimForWorker, WorkerSettle, poolVars
  <2>1. \E from, to \in Busy : Step(w, from, to)
    BY <1>0, <1>7 DEF RunStart, FnReturn, ClaimForWorker, WorkerSettle
  <2>2. worker[w] \in Busy /\ \A v \in Workers \ {w} : worker'[v] = worker[v]
    BY <1>0, <2>1, StepFacts
  <2>3. PICK j \in Jobs : j = job[w] /\ ~Queued(j) /\ Located(j) /\ submitter[j] \in {"notify", "done"}
    BY <2>2, HandFacts
  <2>4. /\ \A k \in Jobs : (Located(k)' <=> Located(k)) /\ (Queued(k)' <=> Queued(k))
        /\ \A k \in Jobs \ {j} : PlacesKept(k)
        /\ Waiting(j) <=> worker[w] # "release"
        /\ AtSettle(j) <=> worker[w] = "settle"
        /\ Waiting(j)' <=> worker'[w] # "release"
        /\ AtSettle(j)' <=> worker'[w] = "settle"
    BY <1>1, <2>0, <2>2, <2>3, HandStep
  <2>8. JobInv(j)
    BY <1>2, <2>3
  <2>9. CASE RunStart(w)
    <3>1. /\ alarm' = alarm /\ claimed' = claimed /\ promise' = promise
          /\ worker[w] = "start" /\ worker'[w] = IF Skipped(j) THEN "release" ELSE "fn"
      BY <1>0, <2>3, <2>9, StepFacts DEF RunStart, NoService
    <3>2. JobInv(j)'
      BY <1>1, <1>2, <2>3, <2>4, <2>8, <3>1 DEF JobInv, Settling, Expiring, CancelDue, Skipped
    <3> QED BY <1>3, <2>3, <2>4, <3>1, <3>2 DEF ClaimInv
  <2>10. CASE FnReturn(w)
    <3>1. /\ alarm' = alarm /\ claimed' = claimed /\ promise' = promise
          /\ worker[w] = "fn" /\ worker'[w] = IF Claims(j) THEN "claim" ELSE "settle"
      BY <1>0, <2>3, <2>10, StepFacts DEF FnReturn, NoService
    <3>2. JobInv(j)'
      BY <1>1, <1>2, <2>3, <2>4, <2>8, <3>1 DEF JobInv, Settling, Expiring, CancelDue
    <3> QED BY <1>3, <2>3, <2>4, <3>1, <3>2 DEF ClaimInv
  <2>11. CASE ClaimForWorker(w)
    <3>1. worker[w] = "claim" /\ Claims(j) /\ promise' = promise
      BY <2>3, <2>11 DEF ClaimForWorker, Step, LoopInv
    <3>2. CASE Step(w, "claim", "settle") /\ Service!OwnerWins(j)
      <4>1. /\ worker'[w] = "settle" /\ ~claimed[j] /\ claimed'[j]
            /\ alarm[j] \in {"idle", "armed", "dropped"} /\ alarm'[j] = alarm[j] /\ ServiceKept(j)
        BY <1>0, <2>3, <3>2, ServiceFacts, StepFacts
      <4>2. JobInv(j)'
        BY <1>1, <1>2, <2>3, <2>4, <2>8, <3>1, <4>1 DEF JobInv, Settling, Expiring, CancelDue
      <4> QED BY <1>3, <2>3, <2>4, <3>1, <4>1, <4>2 DEF ClaimInv, ServiceKept
    <3>3. CASE Step(w, "claim", "release") /\ claimed[j] /\ NoService
      <4>1. worker'[w] = "release" /\ alarm' = alarm /\ claimed' = claimed
        BY <1>0, <3>3, StepFacts DEF NoService
      <4>2. JobInv(j)'
        BY <1>1, <1>2, <2>3, <2>4, <2>8, <3>1, <3>3, <4>1 DEF JobInv, Settling, Expiring, CancelDue
      <4> QED BY <1>3, <2>3, <2>4, <3>1, <4>1, <4>2 DEF ClaimInv
    <3> QED BY <2>3, <2>11, <3>2, <3>3 DEF ClaimForWorker
  <2>12. CASE WorkerSettle(w)
    <3>1. /\ alarm' = alarm /\ claimed' = claimed /\ Settle(j, "result")
          /\ worker[w] = "settle" /\ worker'[w] = "release"
      BY <1>0, <2>3, <2>12, StepFacts DEF WorkerSettle, NoService
    <3>2. promise[j] = "pending"
      BY <2>4, <2>8, <3>1 DEF JobInv, Settling
    <3>3. /\ promise'[j] = IF HasPromise(j) THEN "result" ELSE "pending"
          /\ \A k \in Jobs \ {j} : promise'[k] = promise[k]
      BY <1>0, <2>3, <3>1, <3>2, SettleFacts
    <3>4. JobInv(j)'
      BY <1>1, <1>2, <2>3, <2>4, <2>8, <3>1, <3>2, <3>3, ClaimsFacts
         DEF JobInv, Settling, Expiring, CancelDue
    <3> QED BY <1>3, <2>3, <2>4, <3>1, <3>3, <3>4 DEF ClaimInv
  <2> QED BY <1>7, <2>9, <2>10, <2>11, <2>12
<1>8. CASE WorkerRelease(w)
  <2>1. /\ queue' = queue /\ job'[w] = None /\ \A v \in Workers \ {w} : job'[v] = job[v] /\ worker'[v] = worker[v]
        /\ worker[w] = "release" /\ alarm' = alarm /\ claimed' = claimed /\ promise' = promise
    BY <1>8 DEF WorkerRelease, Step, PoolOK, NoService
  <2>2. /\ \A k \in Jobs : (Queued(k)' <=> Queued(k)) /\ (Rejected(k)' <=> Rejected(k)) /\ ~Holds(w, k)'
        /\ \A v \in Workers \ {w}, k \in Jobs : Holds(v, k)' <=> Holds(v, k)
    BY <1>1, <2>1, ConstantsAssumption DEF Queued, Rejected, Holds
  <2>3. \A k \in Jobs : /\ AtSettle(k)' <=> AtSettle(k)
                        /\ Located(k)' => Located(k)
                        /\ Waiting(k)' <=> Waiting(k)
    BY <2>1, <2>2 DEF AtSettle, Located, Waiting
  <2> QED BY <1>4, <2>1, <2>2, <2>3
<1> QED BY <1>5, <1>6, <1>7, <1>8 DEF WorkerStep, LoopStep

(* The lifecycle calls. *)
LEMMA StopClaim ==
  ASSUME Typed, PlaceInv, LifeInv, ClaimInv, StopStep
  PROVE  ClaimInv'
<1> USE DEF Typed
<1>0. "scheduler_shutdown" \in PromiseState
  BY DEF PromiseState
<1>1. request' = request /\ submitter' = submitter /\ action' = action /\ job' = job
  BY DEF StopStep, LifecycleStep, Shutdown, ShutdownBounded, Restart, ShutdownNotify, ShutdownJoined,
         RejectQueued, ShutdownWaited, Reap, ShutdownReturns, StartWorkers, tokenVars, workerVars
<1>2. /\ \A k \in Jobs : JobInv(k)
      /\ \A k : (Api(k)' = Api(k)) /\ (Claims(k)' = Claims(k)) /\ (HasPromise(k)' = HasPromise(k))
  BY <1>1 DEF ClaimInv, Claims, HasPromise, Api
<1>3. \A w \in Workers, k \in Jobs : Holds(w, k)' <=> Holds(w, k)
  BY <1>1 DEF Holds
<1>4. CASE ShutdownBounded
  <2>1. /\ rejected = << >> /\ rejected' = queue /\ queue' = << >> /\ worker' = worker
        /\ alarm' = alarm /\ claimed' = claimed /\ promise' = promise
    BY <1>4 DEF ShutdownBounded, Doing, LifeInv, NoService, workerVars
  <2>2. \A k \in Jobs : (Rejected(k)' <=> Queued(k)) /\ ~Queued(k)' /\ ~Rejected(k)
    BY <2>1 DEF Rejected, Queued, Contains
  <2>3. \A k \in Jobs : /\ Located(k)' <=> Located(k)
                        /\ Waiting(k)' <=> Waiting(k)
                        /\ AtSettle(k)' <=> AtSettle(k)
    BY <1>3, <2>1, <2>2 DEF Located, Waiting, AtSettle
  <2> QED BY <1>1, <1>2, <2>1, <2>2, <2>3, JobFrame DEF ClaimInv
<1>5. CASE RejectQueued
  <2>1. PICK j \in Jobs :
          /\ j = Head(rejected)
          /\ Rejected(j)
          /\ \A k \in Jobs : Rejected(k)' <=> Rejected(k) /\ k # j
    BY <1>5, TailOK DEF RejectQueued, Rejected, PoolOK, PlaceInv
  <2>2. queue' = queue /\ worker' = worker
    BY <1>5 DEF RejectQueued, poolVars, workerVars
  <2>3. /\ Located(j) /\ Waiting(j) /\ ~AtSettle(j) /\ ~Queued(j) /\ submitter[j] \in {"notify", "done"}
        /\ \A w \in Workers : ~Holds(w, j)
    BY <2>1 DEF PlaceInv, Located, Waiting, AtSettle
  <2>4. \A k \in Jobs : Queued(k)' <=> Queued(k)
    BY <2>2 DEF Queued
  <2>5. /\ ~Located(j)' /\ ~Waiting(j)' /\ ~AtSettle(j)' /\ ~Queued(j)'
        /\ \A k \in Jobs \ {j} : PlacesKept(k)
    BY <1>3, <2>1, <2>2, <2>3, <2>4 DEF PlacesKept, Located, Waiting, AtSettle
  <2>6. ASSUME JobInv(j)', ServiceKept(j), \A k \in Jobs \ {j} : promise'[k] = promise[k] PROVE ClaimInv'
    BY <1>1, <1>2, <2>5, <2>6, JobFrame DEF ClaimInv, PlacesKept, ServiceKept
  <2>7. CASE Claims(j) /\ Service!OwnerWins(j) /\ Settle(j, "scheduler_shutdown")
    <3>1. /\ ~claimed[j] /\ claimed'[j] /\ alarm[j] \in {"idle", "armed", "dropped"} /\ alarm'[j] = alarm[j]
          /\ ServiceKept(j)
      BY <2>7, ServiceFacts
    <3>2. promise[j] = "pending" /\ HasPromise(j)
      BY <1>2, <2>3, <2>7, <3>1, ClaimsFacts DEF JobInv
    <3>3. promise'[j] = "scheduler_shutdown" /\ \A k \in Jobs \ {j} : promise'[k] = promise[k]
      BY <1>0, <2>7, <3>2, SettleFacts
    <3>4. JobInv(j)'
      BY <1>1, <1>2, <2>3, <2>5, <2>7, <3>1, <3>2, <3>3 DEF JobInv, Settling, Expiring, CancelDue
    <3> QED BY <2>6, <3>1, <3>3, <3>4
  <2>8. CASE Claims(j) /\ claimed[j] /\ NoService /\ UNCHANGED promise
    <3>1. alarm' = alarm /\ claimed' = claimed /\ promise' = promise
      BY <2>8 DEF NoService
    <3>2. JobInv(j)'
      BY <1>1, <1>2, <2>3, <2>5, <2>8, <3>1 DEF JobInv, Settling, Expiring, CancelDue
    <3> QED BY <2>6, <3>1, <3>2 DEF ServiceKept
  <2>9. CASE ~Claims(j) /\ NoService /\ Settle(j, "scheduler_shutdown")
    <3>1. alarm' = alarm /\ claimed' = claimed /\ promise[j] = "pending"
      BY <1>2, <2>3, <2>9 DEF NoService, JobInv
    <3>2. /\ promise'[j] = IF HasPromise(j) THEN "scheduler_shutdown" ELSE "pending"
          /\ \A k \in Jobs \ {j} : promise'[k] = promise[k]
      BY <1>0, <2>9, <3>1, SettleFacts
    <3>3. JobInv(j)'
      BY <1>1, <1>2, <2>3, <2>5, <2>9, <3>1, <3>2 DEF JobInv, Settling, Expiring, CancelDue
    <3> QED BY <2>6, <3>1, <3>2, <3>3 DEF ServiceKept
  <2> QED BY <1>5, <2>1, <2>7, <2>8, <2>9 DEF RejectQueued
<1>6. CASE ~ShutdownBounded /\ ~RejectQueued
  <2>1. /\ queue' = queue /\ rejected' = rejected /\ alarm' = alarm /\ claimed' = claimed /\ promise' = promise
        /\ worker' = worker \/ NotifyAll \/ StartWorkers
    BY <1>6 DEF StopStep, LifecycleStep, Shutdown, Restart, ShutdownNotify, ShutdownJoined,
           ShutdownWaited, Reap, ShutdownReturns, StartWorkers, NoService, poolVars, workerVars
  <2>2. StartWorkers => \A w \in Workers : worker[w] = "exited"
    BY DEF StartWorkers, Doing, LifeInv
  <2>3. \A w \in Workers : worker'[w] = worker[w] \/ worker[w] \notin Busy
    BY <2>1, <2>2, NotifyFacts, NotBusy
  <2>4. \A k \in Jobs : PlacesKept(k)
    BY <1>1, <2>1, <2>3, PlacesFrame
  <2> QED BY <1>1, <1>2, <2>1, <2>4, JobFrame DEF ClaimInv, PlacesKept
<1> QED BY <1>4, <1>5, <1>6

LEMMA ClaimStep ==
  ASSUME Typed, PlaceInv, LifeInv, LoopInv, ClaimInv, [Next]_vars
  PROVE  ClaimInv'
<1>1. ASSUME (\E k \in Kinds : Cancel(k)) \/ UNCHANGED vars PROVE ClaimInv'
  <2>1. /\ request' = request /\ submitter' = submitter /\ action' = action /\ job' = job /\ worker' = worker
        /\ queue' = queue /\ rejected' = rejected /\ alarm' = alarm /\ claimed' = claimed /\ promise' = promise
    BY <1>1 DEF Cancel, NoService, vars, schedVars, tokenVars, poolVars, workerVars, stopVars
  <2>2. \A k \in Jobs : PlacesKept(k)
    BY <2>1, PlacesFrame
  <2> QED BY <2>1, <2>2, JobFrame DEF ClaimInv, PlacesKept
<1> QED BY <1>1, SubmitClaim, DeadlineClaim, WorkerClaim, StopClaim
        DEF Next, SubmitStep, DeadlineStep, WorkerStep, StopStep, Kinds
-----------------------------------------------------------------------------
(* Images. *)
LEMMA ContainedBound ==
  ASSUME NEW S, NEW s \in Seq(S), NEW T, \A x \in T : Contains(s, x)
  PROVE  Cardinality(T) <= Len(s)
<1> DEFINE f == [i \in 1..Len(s) |-> s[i]]
           R == {s[i] : i \in 1..Len(s)}
<1>1. Len(s) \in Nat
  OBVIOUS
<1>2. f \in Surjection(1..Len(s), R)
  BY DEF Surjection
<1>3. IsFiniteSet(1..Len(s)) /\ Cardinality(1..Len(s)) = Len(s)
  BY <1>1, FS_Interval
<1> HIDE DEF f
<1>4. IsFiniteSet(R) /\ Cardinality(R) <= Len(s)
  <2>1. IsFiniteSet(R) /\ Cardinality(R) <= Cardinality(1..Len(s))
    BY <1>2, <1>3, FS_Surjection, Zenon
  <2> QED BY <1>3, <2>1
<1>5. T \in SUBSET R
  BY DEF Contains
<1> HIDE DEF R
<1>6. Cardinality(T) <= Cardinality(R) /\ IsFiniteSet(T)
  BY <1>4, <1>5, FS_Subset
<1>7. Cardinality(T) \in Nat /\ Cardinality(R) \in Nat
  BY <1>4, <1>6, FS_CardinalityType
<1> QED BY <1>1, <1>4, <1>6, <1>7

LEMMA CountFacts ==
  /\ WorkerCount \in Nat /\ MaxImageConcurrent \in Nat /\ MaxQueueSize \in Nat /\ WorkerCount <= MaxQueueSize
  /\ IsFiniteSet(QueuedImages) /\ IsFiniteSet(QueuedImages')
  /\ IsFiniteSet(ImagesAt(Workers)) /\ IsFiniteSet(ImagesAt(Workers)')
  /\ Cardinality(QueuedImages) \in Nat /\ Cardinality(QueuedImages') \in Nat
  /\ Cardinality(ImagesAt(Workers)) \in Nat /\ Cardinality(ImagesAt(Workers)') \in Nat
<1>1. IsFiniteSet(Jobs) /\ IsFiniteSet(Workers) /\ MaxQueueSize \in Nat /\ MaxQueueSize >= Cardinality(Workers)
  BY ConstantsAssumption
<1>2. WorkerCount \in Nat
  BY <1>1, FS_CardinalityType DEF WorkerCount
<1>3. MaxImageConcurrent \in Nat
  BY <1>2 DEF MaxImageConcurrent
<1>4. /\ QueuedImages \in SUBSET Jobs /\ QueuedImages' \in SUBSET Jobs
      /\ ImagesAt(Workers) \in SUBSET Workers /\ ImagesAt(Workers)' \in SUBSET Workers
  BY DEF QueuedImages, ImagesAt
<1>5. /\ IsFiniteSet(QueuedImages) /\ IsFiniteSet(QueuedImages')
      /\ IsFiniteSet(ImagesAt(Workers)) /\ IsFiniteSet(ImagesAt(Workers)')
  BY <1>1, <1>4, FS_Subset
<1> QED BY <1>1, <1>2, <1>3, <1>5, FS_CardinalityType DEF WorkerCount

QueueBounded == Len(queue) <= MaxQueueSize /\ Cardinality(QueuedImages) <= MaxQueueSize - WorkerCount
ActiveBounded == activeImageCount = Cardinality(ImagesAt(Workers)) /\ activeImageCount <= MaxImageConcurrent

LEMMA QueueShrinks ==
  ASSUME ImageInv, request' = request, Len(queue) \in Nat, Len(queue') \in Nat, Len(queue') <= Len(queue),
         \A k \in Jobs : Queued(k)' => Queued(k)
  PROVE  QueueBounded'
<1>1. QueuedImages' \in SUBSET QueuedImages
  BY DEF QueuedImages, Image, Kind
<1>2. Cardinality(QueuedImages') <= Cardinality(QueuedImages)
  BY <1>1, CountFacts, FS_Subset
<1>3. Cardinality(QueuedImages)' = Cardinality(QueuedImages')
  OBVIOUS
<1>4. /\ Len(queue) <= MaxQueueSize /\ Cardinality(QueuedImages) <= MaxQueueSize - WorkerCount
      /\ WorkerCount \in Nat /\ MaxQueueSize \in Nat
      /\ Cardinality(QueuedImages) \in Nat /\ Cardinality(QueuedImages') \in Nat
  BY CountFacts DEF ImageInv
<1>5. Len(queue') <= MaxQueueSize
  BY <1>4
<1>6. Cardinality(QueuedImages') <= MaxQueueSize - WorkerCount
  BY <1>2, <1>4
<1>7. (Len(queue) <= MaxQueueSize)' /\ (Cardinality(QueuedImages) <= MaxQueueSize - WorkerCount)'
  BY <1>5, <1>6 DEF WorkerCount
<1> QED BY <1>7 DEF QueueBounded

LEMMA ActiveFrame ==
  ASSUME ImageInv, request' = request, job' = job, activeImageCount' = activeImageCount
  PROVE  ActiveBounded'
<1>1. ImagesAt(Workers)' = ImagesAt(Workers)
  BY DEF ImagesAt, Image, Kind
<1> QED BY <1>1 DEF ImageInv, ActiveBounded, MaxImageConcurrent, WorkerCount

LEMMA QueueFrame ==
  ASSUME ImageInv, request' = request, queue' = queue
  PROVE  QueueBounded'
<1>1. QueuedImages' = QueuedImages
  BY DEF QueuedImages, Image, Kind, Queued
<1> QED BY <1>1 DEF ImageInv, QueueBounded, WorkerCount

LEMMA ImageInvParts ==
  /\ ImageInv <=> ActiveBounded /\ QueueBounded
  /\ ImageInv' <=> ActiveBounded' /\ QueueBounded'
BY DEF ImageInv, ActiveBounded, QueueBounded

LEMMA EnqueueImage ==
  ASSUME Typed, ImageInv, request' = request, NEW j \in Jobs, Room(j), queue' = Append(queue, j)
  PROVE  QueueBounded'
<1>1. /\ queue \in Seq(Jobs) /\ Len(queue) \in Nat
      /\ Len(queue') = Len(queue) + 1
      /\ \A k \in Jobs : Queued(k)' <=> Queued(k) \/ k = j
  BY AppendOK DEF Typed, PoolOK, Queued
<1>2. Len(queue) < MaxQueueSize /\ (Image(j) => Len(queue) < MaxQueueSize - WorkerCount)
  BY DEF Room
<1>3. /\ MaxQueueSize \in Nat /\ WorkerCount \in Nat
      /\ Cardinality(QueuedImages) \in Nat /\ Cardinality(QueuedImages') \in Nat /\ IsFiniteSet(QueuedImages)
  BY CountFacts
<1>4. Len(queue') <= MaxQueueSize
  BY <1>1, <1>2, <1>3
<1>5. CASE Image(j)
  <2>1. QueuedImages' = QueuedImages \cup {j}
    BY <1>1, <1>5 DEF QueuedImages, Image, Kind
  <2>2. Cardinality(QueuedImages') <= Cardinality(QueuedImages) + 1
    <3>1. Cardinality(QueuedImages \cup {j})
            = IF j \in QueuedImages THEN Cardinality(QueuedImages) ELSE Cardinality(QueuedImages) + 1
      BY <1>3, FS_AddElement, Zenon
    <3> QED BY <1>3, <2>1, <3>1
  <2>3. Cardinality(QueuedImages) <= Len(queue)
    BY <1>1, ContainedBound DEF QueuedImages, Queued
  <2>4. Cardinality(QueuedImages') <= MaxQueueSize - WorkerCount
    BY <1>1, <1>2, <1>3, <1>5, <2>2, <2>3
  <2> QED BY <1>4, <2>4 DEF QueueBounded, WorkerCount
<1>6. CASE ~Image(j)
  <2>1. QueuedImages' = QueuedImages
    BY <1>1, <1>6 DEF QueuedImages, Image, Kind
  <2> QED BY <1>4, <2>1 DEF QueueBounded, WorkerCount, ImageInv
<1> QED BY <1>5, <1>6

LEMMA ImageStep ==
  ASSUME Typed, PlaceInv, LifeInv, ImageInv, [Next]_vars
  PROVE  ImageInv'
<1>0. /\ request' = request
      /\ queue \in Seq(Jobs) /\ Len(queue) \in Nat /\ Distinct(queue) /\ job \in [Workers -> Jobs \cup {None}]
  BY RequestKept DEF Typed, PoolOK, PlaceInv
<1>1. ASSUME queue' = queue, job' = job, activeImageCount' = activeImageCount PROVE ImageInv'
  BY <1>0, <1>1, ActiveFrame, QueueFrame, ImageInvParts
<1>2. ASSUME NEW j \in Jobs, SubmitStep(j) PROVE ImageInv'
  <2>1. job' = job /\ activeImageCount' = activeImageCount
    BY <1>2 DEF SubmitStep, SubmitterStep, SubmitWithDeadline, Submit, EnqueueJob, NotifyWorker, RefuseClaim,
                RefuseSettle, poolVars, workerVars
  <2>2. queue' = queue \/ (Room(j) /\ queue' = Append(queue, j))
    BY <1>2 DEF SubmitStep, SubmitterStep, SubmitWithDeadline, Submit, EnqueueJob, NotifyWorker, RefuseClaim,
                RefuseSettle, poolVars
  <2> QED BY <1>0, <2>1, <2>2, ActiveFrame, QueueFrame, EnqueueImage, ImageInvParts
<1>3. ASSUME NEW j \in Jobs, DeadlineStep(j) PROVE ImageInv'
  <2>1. job' = job /\ activeImageCount' = activeImageCount
    BY <1>3 DEF DeadlineStep, WatchdogStep, DeadlineFires, DeadlineReturned, ActionStep, ActionCancel,
                RetireExpiredJob, RetireNotify, schedVars, poolVars, workerVars
  <2>2. queue' = queue \/ \E i \in 1..Len(queue) : queue' = RemoveAt(queue, i)
    BY <1>3 DEF DeadlineStep, WatchdogStep, DeadlineFires, DeadlineReturned, ActionStep, ActionCancel,
                RetireExpiredJob, RetireNotify, schedVars, poolVars
  <2>3. ASSUME NEW i \in 1..Len(queue), queue' = RemoveAt(queue, i) PROVE QueueBounded'
    <3>1. Len(queue') = Len(queue) - 1 /\ \A k \in Jobs : Queued(k)' => Queued(k)
      BY <1>0, <2>3, RemoveAtOK DEF Queued
    <3>2. Len(queue') \in Nat /\ Len(queue') <= Len(queue)
      BY <1>0, <3>1
    <3> QED BY <1>0, <3>1, <3>2, QueueShrinks
  <2> QED BY <1>0, <2>1, <2>2, <2>3, ActiveFrame, QueueFrame, ImageInvParts
<1>4. ASSUME NEW w \in Workers, WorkerTake(w) PROVE ImageInv'
  <2>1. PICK i \in 1..Len(queue) :
           /\ queue[i] \in Jobs /\ FirstEligible(i)
           /\ job[w] = None /\ job'[w] = queue[i] /\ \A v \in Workers \ {w} : job'[v] = job[v]
           /\ Len(queue') = Len(queue) - 1
           /\ \A k \in Jobs : Queued(k)' <=> Queued(k) /\ k # queue[i]
           /\ activeImageCount' = activeImageCount + TakesSlot(queue[i])
    BY <1>4, TakeFacts
  <2>2. Len(queue') \in Nat /\ Len(queue') <= Len(queue)
    BY <1>0, <2>1
  <2>3. QueueBounded'
    BY <1>0, <2>1, <2>2, QueueShrinks
  <2>4. PICK j \in Jobs : j = queue[i]
    BY <2>1
  <2>5. w \notin ImagesAt(Workers)
    BY <2>1 DEF ImagesAt
  <2>6. CASE Image(j)
    <3>1. ImagesAt(Workers)' = ImagesAt(Workers) \cup {w}
      BY <1>0, <2>1, <2>4, <2>6, ConstantsAssumption DEF ImagesAt, Image, Kind
    <3>2. Cardinality(ImagesAt(Workers)') = Cardinality(ImagesAt(Workers)) + 1
      BY <2>5, <3>1, CountFacts, FS_AddElement
    <3>3. activeImageCount < MaxImageConcurrent /\ activeImageCount' = activeImageCount + 1
      BY <2>1, <2>4, <2>6 DEF FirstEligible, Eligible, TakesSlot
    <3>4. activeImageCount' <= MaxImageConcurrent /\ activeImageCount' = Cardinality(ImagesAt(Workers)')
      BY <3>2, <3>3, CountFacts DEF ImageInv
    <3> QED BY <2>3, <3>4, ImageInvParts DEF ActiveBounded, MaxImageConcurrent, WorkerCount
  <2>7. CASE ~Image(j)
    <3>1. ImagesAt(Workers)' = ImagesAt(Workers)
      BY <1>0, <2>1, <2>4, <2>5, <2>7 DEF ImagesAt, Image, Kind
    <3>2. activeImageCount' = activeImageCount
      BY <2>1, <2>4, <2>7, CountFacts DEF TakesSlot, ImageInv
    <3> QED BY <2>3, <3>1, <3>2, ImageInvParts DEF ActiveBounded, ImageInv, MaxImageConcurrent, WorkerCount
  <2> QED BY <2>6, <2>7
<1>5. ASSUME NEW w \in Workers, WorkerRelease(w) PROVE ImageInv'
  <2>1. /\ queue' = queue /\ worker[w] = "release" /\ activeImageCount' = activeImageCount - FreesSlot(job[w])
        /\ job'[w] = None /\ \A v \in Workers \ {w} : job'[v] = job[v]
    BY <1>0, <1>5 DEF WorkerRelease
  <2>2. job[w] \in Jobs /\ job[w] # None
    BY <2>1, HandFacts, ConstantsAssumption DEF Busy
  <2>3. QueueBounded'
    BY <1>0, <2>1, QueueFrame
  <2>4. ImagesAt(Workers)' = ImagesAt(Workers) \ {w}
    BY <1>0, <2>1 DEF ImagesAt, Image, Kind
  <2>5. w \in ImagesAt(Workers) <=> Image(job[w])
    BY <2>2 DEF ImagesAt
  <2>6. Cardinality(ImagesAt(Workers)') = Cardinality(ImagesAt(Workers)) - FreesSlot(job[w])
    BY <2>4, <2>5, CountFacts, FS_RemoveElement DEF FreesSlot
  <2>7. FreesSlot(job[w]) \in Nat
    BY DEF FreesSlot
  <2>8. activeImageCount' <= MaxImageConcurrent /\ activeImageCount' = Cardinality(ImagesAt(Workers)')
    BY <2>1, <2>6, <2>7, CountFacts DEF ImageInv
  <2> QED BY <2>3, <2>8, ImageInvParts DEF ActiveBounded, MaxImageConcurrent, WorkerCount
<1>6. ASSUME NEW w \in Workers, WorkerStep(w), ~WorkerTake(w), ~WorkerRelease(w) PROVE ImageInv'
  <2>1. queue' = queue /\ job' = job /\ activeImageCount' = activeImageCount
    BY <1>6 DEF WorkerStep, LoopStep, WorkerSleep, WorkerExit, RunStart, ClaimForWorker, WorkerSettle,
         NotifyAfterImage, FnReturn, SpuriousWakeup, poolVars
  <2> QED BY <1>1, <2>1
<1>7. ASSUME StopStep PROVE ImageInv'
  <2>1. job' = job /\ activeImageCount' = activeImageCount /\ (queue' = queue \/ queue' = << >>)
    BY <1>7 DEF StopStep, LifecycleStep, Shutdown, ShutdownBounded, Restart, ShutdownNotify, ShutdownJoined,
         RejectQueued, ShutdownWaited, Reap, ShutdownReturns, StartWorkers, poolVars, workerVars
  <2>2. ASSUME queue' = << >> PROVE QueueBounded'
    <3>1. Len(queue') = 0 /\ \A k \in Jobs : ~Queued(k)'
      BY <2>2 DEF Queued, Contains
    <3> QED BY <1>0, <3>1, QueueShrinks
  <2> QED BY <1>0, <2>1, <2>2, ActiveFrame, QueueFrame, ImageInvParts
<1>8. (\E k \in Kinds : Cancel(k)) \/ UNCHANGED vars => ImageInv'
  BY <1>1 DEF Cancel, vars, schedVars, poolVars, workerVars
<1> QED BY <1>2, <1>3, <1>4, <1>5, <1>6, <1>7, <1>8
        DEF Next, SubmitStep, DeadlineStep, WorkerStep, StopStep, Kinds
-----------------------------------------------------------------------------
(* The inductive invariant, and what it says. *)
IInv == Typed /\ PlaceInv /\ LifeInv /\ LoopInv /\ ClaimInv /\ ImageInv

LEMMA InitHolds == Init => IInv
<1> SUFFICES ASSUME Init PROVE IInv
  OBVIOUS
<1>0. /\ queue = << >> /\ rejected = << >> /\ handles = Workers /\ workerDone = {} /\ shutdown = FALSE
      /\ abandonedWorkers = 0 /\ activeImageCount = 0 /\ lifecycle = "idle"
      /\ \A w \in Workers : worker[w] = "awake" /\ job[w] = None
      /\ \A j \in Jobs : submitter[j] = "new" /\ promise[j] = "pending" /\ action[j] = "cancel"
                         /\ ~claimed[j] /\ alarm[j] = "idle"
  BY DEF Init, Service!Init
<1>1. Typed
  <2>1. RequestsOK
    BY ConstantsAssumption DEF Init, RequestsOK, Kinds
  <2>2. JobsOK
    BY DEF Init, JobsOK, Service!Init, Service!TypeOK, Service!AlarmState, SubmitterState, PromiseState
  <2>3. PoolOK
    BY DEF Init, PoolOK, WorkerState
  <2>4. LifeOK
    BY <1>0 DEF LifeOK, LifecycleState
  <2> QED BY <2>1, <2>2, <2>3, <2>4 DEF Typed
<1>2. \A j \in Jobs : ~Queued(j) /\ ~Rejected(j) /\ \A w \in Workers : ~Holds(w, j)
  BY <1>0, ConstantsAssumption DEF Queued, Rejected, Holds, Contains
<1>3. PlaceInv
  BY <1>0, <1>2, NotBusy DEF PlaceInv, Distinct
<1>4. LifeInv
  BY <1>0 DEF LifeInv
<1>5. LoopInv
  BY <1>0 DEF LoopInv
<1>6. ClaimInv
  <2> SUFFICES ASSUME NEW j \in Jobs PROVE JobInv(j)
    BY DEF ClaimInv
  <2>1. ~Located(j) /\ ~Waiting(j) /\ ~AtSettle(j) /\ ~Queued(j)
    BY <1>2 DEF Located, Waiting, AtSettle
  <2> QED BY <1>0, <2>1 DEF JobInv, Settling, Expiring, CancelDue
<1>7. ImageInv
  <2>1. QueuedImages = {} /\ ImagesAt(Workers) = {}
    BY <1>0, <1>2 DEF QueuedImages, ImagesAt
  <2>2. Cardinality(QueuedImages) = 0 /\ Cardinality(ImagesAt(Workers)) = 0
    BY <2>1, FS_EmptySet
  <2> QED BY <1>0, <2>2, CountFacts DEF ImageInv
<1> QED BY <1>1, <1>3, <1>4, <1>5, <1>6, <1>7 DEF IInv

LEMMA StepHolds == IInv /\ [Next]_vars => IInv'
BY TypedStep, PlaceStep, LifeStep, LoopStepInv, ClaimStep, ImageStep DEF IInv

LEMMA Settled == IInv => SettledOnce
<1> SUFFICES ASSUME IInv PROVE SettledOnce
  OBVIOUS
<1> USE DEF IInv
<1>1. \A j \in Jobs : JobInv(j)
  BY DEF ClaimInv
<1>2. OneSettler
  BY <1>1, ClaimsFacts DEF OneSettler, JobInv, Expiring, CancelDue
<1>3. NoOrphan
  <2> SUFFICES ASSUME NEW j \in Jobs, HasPromise(j), submitter[j] \in {"notify", "done"}, promise[j] = "pending"
               PROVE  \/ Contains(queue, j) \/ Contains(rejected, j)
                      \/ \E w \in Workers : job[w] = j /\ InHand(w)
                      \/ alarm[j] = "fired" /\ action[j] = "cancel"
    BY DEF NoOrphan
  <2>1. Waiting(j) \/ CancelDue(j)
    BY <1>1 DEF JobInv
  <2>2. ASSUME NEW w \in Workers, Holds(w, j), worker[w] # "release" PROVE job[w] = j /\ InHand(w)
    <3>1. worker[w] \in Busy
      BY <2>2, ConstantsAssumption DEF PlaceInv, Holds
    <3> QED BY <2>2, <3>1 DEF Busy, InHand, Holds
  <2> QED BY <2>1, <2>2 DEF Waiting, CancelDue, Queued, Rejected
<1>4. ExpiredLeavesQueue
  BY <1>1 DEF ExpiredLeavesQueue, JobInv, Queued
<1> QED BY <1>2, <1>3, <1>4 DEF SettledOnce

LEMMA Bounded == IInv => ImagesBounded
<1> SUFFICES ASSUME IInv PROVE ImagesBounded
  OBVIOUS
<1> USE DEF IInv, Typed
<1>1. activeImageCount \in Nat
  BY CountFacts DEF ImageInv
<1>2. TypeOK
  BY <1>1 DEF TypeOK, RequestsOK, JobsOK, PoolOK, LifeOK, Kinds
<1> QED BY <1>2 DEF ImagesBounded, ImageInv, ImagesAt, QueuedImages, Queued

LEMMA Clean == IInv => CleanStop
<1> SUFFICES ASSUME IInv PROVE CleanStop
  OBVIOUS
<1>1. lifecycle = "idle" /\ shutdown /\ abandonedWorkers = 0 => \A w \in Workers : worker[w] = "exited"
  BY DEF IInv, LifeInv
<1>2. \A w \in Workers : worker[w] = "exited" => job[w] = None
  BY NotBusy DEF IInv, PlaceInv
<1>3. abandonedWorkers # 0 => shutdown
  BY DEF IInv, LifeInv, Typed, LifeOK
<1> QED BY <1>1, <1>2, <1>3 DEF CleanStop

LEMMA Inductive == Spec => []IInv
BY InitHolds, StepHolds, PTL DEF Spec

(* Every request is settled once, by the worker, the refusal, the shutdown or
   the deadline that won its claim, and an accepted one never loses the last
   thread that could settle it. *)
THEOREM SettledCorrect == Spec => []SettledOnce
BY Inductive, Settled, PTL

(* Images never take more than their half of the workers nor the last slots of
   the queue, however requests, deadlines and lifecycle calls interleave. *)
THEOREM ImagesCorrect == Spec => []ImagesBounded
BY Inductive, Bounded, PTL

(* A shutdown that reports no abandoned worker has left no thread behind, and
   only then is the pool started again. *)
THEOREM CleanCorrect == Spec => []CleanStop
BY Inductive, Clean, PTL
=============================================================================
