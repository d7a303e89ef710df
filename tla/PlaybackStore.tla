---------------------------- MODULE PlaybackStore ----------------------------
(* desktop/qt/src/settings/PlaybackStore: callers submit value snapshots, which
   merge into one pending batch; one worker thread takes the batch, writes it to
   preferences.ini outside the lock, and merges a batch that failed back under
   newer values.  flush() is a barrier, stop() drains and joins.

   Every update is one key (a preference, or the queue snapshot) and its value is
   the number of the update, so a map from keys to update numbers says exactly
   which values a batch or the file holds; 0 is an absent key.  Each critical
   section of mutex_ is one action; waiting on a condition variable and being
   notified are steps. *)
EXTENDS SettingsMaps     \* Keys: preference keys and "queueSnapshot"

CONSTANTS Callers,     \* threads that hold the store
          Owner,       \* the one that stops it (the controller's thread)
          MaxUpdates,  \* bound: updates submitted
          MaxRevision  \* bound: revisions after which no caller starts a flush

ASSUME OwnerAssumption == Owner \in Callers
ASSUME BoundAssumption == MaxUpdates \in Nat /\ MaxRevision \in Nat

VARIABLES
  pending,     \* pending_, merged
  batch,       \* the worker's local update, or empty
  submitted, attempted, revision,  \* submitted_, attempted_, the worker's local revision
  accepting, stopping, succeeded,  \* the three flags
  worker,      \* where the worker thread is
  pc,          \* where each caller is
  target,      \* flush()'s local target
  disk,        \* the file
  log,         \* history: the key of every accepted update
  durable,     \* history: the file holds the first durable updates
  taken,       \* history: Len(log) when the last batch was taken
  barrier,     \* history: Len(log) when the caller entered flush()
  acked        \* history: the longest prefix a call reported as saved

flags == <<accepting, stopping, succeeded>>
history == <<log, durable, taken, barrier, acked>>
vars == <<pending, batch, submitted, attempted, revision, flags, worker, pc,
          target, disk, history>>

WorkerStates == {"check", "asleep", "write", "settle", "notify", "exited", "none"}
CallerStates == {"idle", "check", "asleep",
                 "stop", "stopCheck", "stopAsleep", "setStop", "wakeWorker", "join"}
Values == [Keys -> 0..Len(log)]

TypeOK ==
  /\ log \in Seq(Keys)
  /\ pending \in Values /\ batch \in Values /\ disk \in Values
  /\ submitted \in Nat /\ attempted \in Nat /\ revision \in Nat
  /\ accepting \in BOOLEAN /\ stopping \in BOOLEAN /\ succeeded \in BOOLEAN
  /\ worker \in WorkerStates
  /\ pc \in [Callers -> CallerStates]
  /\ target \in [Callers -> Nat]
  /\ durable \in 0..Len(log) /\ taken \in 0..Len(log)
  /\ barrier \in [Callers -> 0..Len(log)]
  /\ acked \in 0..Len(log)

(* The constructor starts the worker; when that throws, the store refuses. *)
Init ==
  /\ pending = Empty /\ batch = Empty /\ disk = Empty
  /\ submitted = 0 /\ attempted = 0 /\ revision = 0
  /\ \/ worker = "check" /\ accepting = TRUE /\ succeeded = TRUE
     \/ worker = "none" /\ accepting = FALSE /\ succeeded = FALSE
  /\ stopping = FALSE
  /\ pc = [c \in Callers |-> "idle"]
  /\ target = [c \in Callers |-> 0]
  /\ log = <<>> /\ durable = 0 /\ taken = 0 /\ acked = 0
  /\ barrier = [c \in Callers |-> 0]

-----------------------------------------------------------------------------
(* Callers. *)

WakeWorker == worker' = IF worker = "asleep" THEN "check" ELSE worker

SubmitUnchecked(c, k) ==
  /\ pc[c] = "idle" /\ Len(log) < MaxUpdates
  /\ log' = Append(log, k)
  /\ pending' = [pending EXCEPT ![k] = Len(log) + 1]
  /\ submitted' = submitted + 1
  /\ WakeWorker
  /\ UNCHANGED <<batch, attempted, revision, flags, pc, target, disk,
                 durable, taken, barrier, acked>>

(* setValue, saveQueue: submit(). *)
Submit(c, k) ==
  /\ pc[c] = "idle" /\ accepting /\ Len(log) < MaxUpdates
  /\ log' = Append(log, k)
  /\ pending' = [pending EXCEPT ![k] = Len(log) + 1]
  /\ submitted' = submitted + 1
  /\ WakeWorker
  /\ UNCHANGED <<batch, attempted, revision, flags, pc, target, disk,
                 durable, taken, barrier, acked>>

(* A call returns succeeded_ for everything accepted before it entered. *)
ReportSaved(prefix) ==
  acked' = IF succeeded /\ prefix > acked THEN prefix ELSE acked

(* flush() up to its wait: once stopping, or without a worker, it only reports;
   otherwise it fixes its target, retrying a batch that failed before. *)
Idle == attempted = submitted
EnterFlush(c, waiting, returned) ==
  IF worker = "none" \/ stopping
  THEN /\ pc' = [pc EXCEPT ![c] = returned]
       /\ IF returned = "idle" THEN ReportSaved(Len(log)) ELSE acked' = acked
       /\ UNCHANGED <<submitted, target, barrier, worker>>
  ELSE /\ IF Idle /\ pending # Empty
            THEN submitted' = submitted + 1 /\ WakeWorker
            ELSE UNCHANGED <<submitted, worker>>
       /\ target' = [target EXCEPT ![c] = submitted']
       /\ barrier' = [barrier EXCEPT ![c] = Len(log)]
       /\ pc' = [pc EXCEPT ![c] = waiting]
       /\ UNCHANGED acked

Flush(c) ==
  /\ pc[c] = "idle" /\ submitted < MaxRevision
  /\ EnterFlush(c, "check", "idle")
  /\ UNCHANGED <<pending, batch, attempted, revision, flags, disk, log, durable, taken>>

(* The predicate of completed_.wait holds: flush() returns, to its caller or
   to the rest of stop(). *)
FlushDone(c) ==
  /\ attempted >= target[c]
  /\ \/ pc[c] = "check" /\ pc' = [pc EXCEPT ![c] = "idle"]
     \/ pc[c] = "stopCheck" /\ pc' = [pc EXCEPT ![c] = "setStop"]
  /\ ReportSaved(barrier[c])
  /\ UNCHANGED <<pending, batch, submitted, attempted, revision, flags, worker,
                 target, disk, log, durable, taken, barrier>>

FlushSleep(c) ==
  /\ attempted < target[c]
  /\ \/ pc[c] = "check" /\ pc' = [pc EXCEPT ![c] = "asleep"]
     \/ pc[c] = "stopCheck" /\ pc' = [pc EXCEPT ![c] = "stopAsleep"]
  /\ UNCHANGED <<pending, batch, submitted, attempted, revision, flags, worker,
                 target, disk, history>>

(* stop(): refuse later updates, flush, raise stopping_, wake and join. *)
Stop(c) ==
  /\ c = Owner /\ pc[c] = "idle" /\ ~stopping
  /\ accepting' = FALSE
  /\ pc' = [pc EXCEPT ![c] = "stop"]
  /\ UNCHANGED <<pending, batch, submitted, attempted, revision, stopping,
                 succeeded, worker, target, disk, history>>

StopFlush(c) ==
  /\ pc[c] = "stop"
  /\ EnterFlush(c, "stopCheck", "setStop")
  /\ UNCHANGED <<pending, batch, attempted, revision, flags, disk, log, durable, taken>>

StopRaise(c) ==
  /\ pc[c] = "setStop"
  /\ stopping' = TRUE
  /\ pc' = [pc EXCEPT ![c] = "wakeWorker"]
  /\ UNCHANGED <<pending, batch, submitted, attempted, revision, accepting,
                 succeeded, worker, target, disk, history>>

StopQuietly(c) ==
  /\ pc[c] = "wakeWorker"
  /\ pc' = [pc EXCEPT ![c] = "join"]
  /\ UNCHANGED <<pending, batch, submitted, attempted, revision, flags, worker,
                 target, disk, history>>

StopWake(c) ==
  /\ pc[c] = "wakeWorker"
  /\ WakeWorker
  /\ pc' = [pc EXCEPT ![c] = "join"]
  /\ UNCHANGED <<pending, batch, submitted, attempted, revision, flags, target,
                 disk, history>>

StopWithoutJoin(c) ==
  /\ pc[c] = "join"
  /\ pc' = [pc EXCEPT ![c] = "idle"]
  /\ UNCHANGED <<pending, batch, submitted, attempted, revision, flags, worker,
                 target, disk, history>>

StopJoin(c) ==
  /\ pc[c] = "join" /\ worker \in {"exited", "none"}
  /\ worker' = "none"
  /\ pc' = [pc EXCEPT ![c] = "idle"]
  /\ UNCHANGED <<pending, batch, submitted, attempted, revision, flags, target,
                 disk, history>>

-----------------------------------------------------------------------------
(* The worker: run(). *)

WorkerSleep ==
  /\ worker = "check" /\ ~stopping /\ submitted <= attempted
  /\ worker' = "asleep"
  /\ UNCHANGED <<pending, batch, submitted, attempted, revision, flags, pc,
                 target, disk, history>>

WorkerExit ==
  /\ worker = "check" /\ stopping
  /\ worker' = "exited"
  /\ UNCHANGED <<pending, batch, submitted, attempted, revision, flags, pc,
                 target, disk, history>>

WorkerTake ==
  /\ worker = "check" /\ ~stopping /\ submitted > attempted
  /\ batch' = pending /\ pending' = Empty
  /\ revision' = submitted
  /\ taken' = Len(log)
  /\ worker' = "write"
  /\ UNCHANGED <<submitted, attempted, flags, pc, target, disk, log, durable,
                 barrier, acked>>

(* writeFile: QSettings::sync replaces the file or leaves it.  An error can be
   reported for a file that was replaced (a malformed old file). *)
Land == disk' = Over(batch, disk) /\ durable' = taken

(* The batch that is put back never overwrites a newer caller value. *)
RestoreOlder == pending' = Over(batch, pending)
Restore == pending' = Over(pending, batch)

(* What the settled batch covers: the revision it was taken at, not what has
   been submitted since. *)
Covers == revision

(* The write reports success or failure, and the result is settled under the
   lock. *)
WorkerWritten ==
  /\ worker = "write"
  /\ Land
  /\ worker' = "settle"
  /\ UNCHANGED <<pending, batch, submitted, attempted, revision, flags, pc,
                 target, log, taken, barrier, acked>>

WorkerSaved ==
  /\ worker = "settle"
  /\ succeeded' = TRUE /\ attempted' = Covers /\ batch' = Empty
  /\ worker' = "notify"
  /\ UNCHANGED <<pending, submitted, revision, accepting, stopping, pc, target,
                 disk, history>>

WorkerFailed ==
  /\ worker \in {"write", "settle"}
  /\ Restore
  /\ succeeded' = FALSE /\ attempted' = Covers /\ batch' = Empty
  /\ worker' = "notify"
  /\ UNCHANGED <<submitted, revision, accepting, stopping, pc, target, disk,
                 history>>

Woken == [asleep |-> "check", stopAsleep |-> "stopCheck"]
WorkerNotify ==
  /\ worker = "notify"
  /\ pc' = [c \in Callers |-> IF pc[c] \in DOMAIN Woken THEN Woken[pc[c]] ELSE pc[c]]
  /\ worker' = "check"
  /\ UNCHANGED <<pending, batch, submitted, attempted, revision, flags, target,
                 disk, history>>

-----------------------------------------------------------------------------
WorkerStep == WorkerSleep \/ WorkerExit \/ WorkerTake \/ WorkerWritten
              \/ WorkerSaved \/ WorkerFailed \/ WorkerNotify
FlushStep(c) == FlushDone(c) \/ FlushSleep(c)
StopStep(c) == StopFlush(c) \/ StopRaise(c) \/ StopWake(c) \/ StopJoin(c)

Next == \/ \E c \in Callers : \/ \E k \in Keys : Submit(c, k)
                              \/ Flush(c)
                              \/ FlushStep(c)
                              \/ Stop(c)
                              \/ StopStep(c)
        \/ WorkerStep

Spec == Init /\ [][Next]_vars

(* The worker and a caller inside flush() or stop() keep running; storage
   answers a write in the end.  Nobody has to call. *)
FairSpec == Spec /\ WF_vars(WorkerStep)
                 /\ \A c \in Callers : WF_vars(FlushStep(c) \/ StopStep(c))

-----------------------------------------------------------------------------
(* The file is always the state of the settings after some prefix of the
   updates: no batch, retried or merged, ever writes an older value over a newer
   one or leaves a hole.  This is what the queue restored at the next start is.
   And whatever fails, no accepted update is lost: the pending batch over the one
   being written over the file is the newest value of every key. *)
NothingLost == /\ Newest(disk, log, durable)
               /\ Newest(Over(pending, Over(batch, disk)), log, Len(log))

(* flush() and stop() return true only when every update accepted before the
   call is in the file, although succeeded_ describes whichever batch was
   settled last. *)
ReportedIsDurable == acked <= durable

(* Once stop() has returned the file belongs to others (an import replaces it):
   the worker is gone and holds no batch, and no update is accepted. *)
StopReturned == stopping /\ pc[Owner] = "idle"
QuietAfterStop == StopReturned => worker = "none" /\ batch = Empty /\ ~accepting

(* flush() and stop() return to their owner, whatever the storage answers; the
   flush of another thread returns unless the worker is stopped under it. *)
Calling(c)   == pc[c] # "idle"
Returned(c)  == pc[c] = "idle" \/ (c # Owner /\ stopping)

(* The store keeps the promise of a write-behind store: its file is the prefix
   durable of what it accepted. *)
Service == INSTANCE WriteBehindStore WITH saved <- durable, open <- accepting
ImplementsStore == Service!Spec
=============================================================================
