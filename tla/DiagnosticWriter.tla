-------------------------- MODULE DiagnosticWriter --------------------------
(* desktop/qt/src/core/DiagnosticWriter: every thread of the player may enqueue a
   diagnostic record; one worker appends the records to a file, rotates it and
   repairs a torn tail.  The queue is bounded and keeps a reserve for errors;
   what is dropped or fails is counted and announced in the next record that
   reaches the file.

   Records are numbered; the ones of an earlier process keep their numbers (base),
   so that the order in the file is visible across a crash. *)
EXTENDS Naturals, Sequences, FiniteSets

CONSTANTS Flushers,      \* threads that call flush()
          Capacity, ErrorReserve,  \* of the queue (512 and 64): the reserve is part of it
          MaxLines,      \* MaxFileBytes, in records
          MaxRecords, MaxDropped, MaxCrashes   \* bounds

VARIABLES
  queue,      \* queue_: records [seq, important]
  accepted, dropped, criticalDropped, written, failed,   \* stats_
  completed,  \* completedSequence_
  reported,   \* reportedDropped_, reportedFailed_
  stopping,   \* stopping_
  worker, record, seen,   \* the worker, its record, and the losses it read with it
  pc, target, \* flush() callers and their targets
  owner,      \* the thread in shutdown()
  file, previous,         \* the two files: numbers of complete lines, 0 a torn one
  base, crashes,          \* history: records and crashes of earlier processes,
  announced               \* the losses the last announcing line tells of

stats == <<accepted, dropped, criticalDropped, written, failed>>
disk == <<file, previous>>
history == <<base, crashes, announced>>
vars == <<queue, stats, completed, reported, stopping, worker, record, seen, pc,
          target, owner, disk, history>>

Losses == [dropped : Nat, failed : Nat]
Records == [seq : Nat, important : BOOLEAN]
Torn == 0

TypeOK ==
  /\ queue \in Seq(Records)
  /\ accepted \in Nat /\ dropped \in Nat /\ criticalDropped \in 0..dropped
  /\ written \in Nat /\ failed \in Nat /\ completed \in 0..accepted
  /\ reported \in Losses /\ seen \in Losses /\ stopping \in BOOLEAN
  /\ worker \in {"check", "asleep", "write", "notify", "exited", "none"}
  /\ record \in Records
  /\ pc \in [Flushers -> {"idle", "check", "asleep"}]
  /\ target \in [Flushers -> Nat]
  /\ owner \in {"running", "wake", "join", "done"}
  /\ file \in Seq(Nat) /\ previous \in Seq(Nat)

NoRecord == [seq |-> 0, important |-> FALSE]
NoLosses == [dropped |-> 0, failed |-> 0]

(* The constructor; without a worker the writer refuses everything. *)
Init == /\ queue = <<>> /\ accepted = 0 /\ dropped = 0 /\ criticalDropped = 0
        /\ written = 0 /\ completed = 0
        /\ \/ worker = "check" /\ failed = 0 /\ stopping = FALSE
           \/ worker = "none" /\ failed = 1 /\ stopping = TRUE
        /\ reported = NoLosses /\ seen = NoLosses /\ record = NoRecord
        /\ pc = [f \in Flushers |-> "idle"] /\ target = [f \in Flushers |-> 0]
        /\ owner = "running"
        /\ file = <<>> /\ previous = <<>>
        /\ base = 0 /\ crashes = 0 /\ announced = NoLosses

-----------------------------------------------------------------------------
(* enqueue() *)

Limit(important) == IF important THEN Capacity ELSE Capacity - ErrorReserve
HasRoom(important) == ~stopping /\ Len(queue) < Limit(important)

WakeWorker == worker' = IF worker = "asleep" THEN "check" ELSE worker

Accept(important) ==
  /\ base + accepted < MaxRecords
  /\ HasRoom(important)
  /\ queue' = Append(queue, [seq |-> accepted + 1, important |-> important])
  /\ accepted' = accepted + 1
  /\ WakeWorker
  /\ UNCHANGED <<dropped, criticalDropped, written, failed, completed, reported,
                 stopping, record, seen, pc, target, owner, disk, history>>

(* Refused: no room, stopping, an invalid or an oversized record. *)
Refuse(important, valid) ==
  /\ dropped < MaxDropped
  /\ valid => ~HasRoom(important)
  /\ dropped' = dropped + 1
  /\ criticalDropped' = IF important THEN criticalDropped + 1 ELSE criticalDropped
  /\ UNCHANGED <<queue, accepted, written, failed, completed, reported, stopping,
                 worker, record, seen, pc, target, owner, disk, history>>

-----------------------------------------------------------------------------
(* flush() and shutdown() *)

FlushEnter(f) ==
  /\ pc[f] = "idle"
  /\ target' = [target EXCEPT ![f] = accepted]
  /\ pc' = [pc EXCEPT ![f] = "check"]
  /\ UNCHANGED <<queue, stats, completed, reported, stopping, worker, record, seen,
                 owner, disk, history>>

FlushReturn(f) ==
  /\ pc[f] = "check" /\ completed >= target[f]
  /\ pc' = [pc EXCEPT ![f] = "idle"]
  /\ UNCHANGED <<queue, stats, completed, reported, stopping, worker, record, seen,
                 target, owner, disk, history>>

FlushSleep(f) ==
  /\ pc[f] = "check" /\ completed < target[f]
  /\ pc' = [pc EXCEPT ![f] = "asleep"]
  /\ UNCHANGED <<queue, stats, completed, reported, stopping, worker, record, seen,
                 target, owner, disk, history>>

Shutdown ==
  /\ owner = "running"
  /\ stopping' = TRUE /\ owner' = "wake"
  /\ UNCHANGED <<queue, stats, completed, reported, worker, record, seen, pc,
                 target, disk, history>>

ShutdownWake ==
  /\ owner = "wake"
  /\ WakeWorker /\ owner' = "join"
  /\ UNCHANGED <<queue, stats, completed, reported, stopping, record, seen, pc,
                 target, disk, history>>

ShutdownJoin ==
  /\ owner = "join" /\ worker \in {"exited", "none"}
  /\ owner' = "done"
  /\ UNCHANGED <<queue, stats, completed, reported, stopping, worker, record, seen,
                 pc, target, disk, history>>

-----------------------------------------------------------------------------
(* writeFile(): what one attempt may leave behind. *)

Outcome(ok, f, p) == [ok |-> ok, file |-> f, previous |-> p]

(* Rotation: remove the previous file, then rename; each may fail. *)
Full == file # <<>> /\ Len(file) + 1 > MaxLines
Rotations == IF Full THEN {Outcome(FALSE, file, previous),
                           Outcome(FALSE, file, <<>>),
                           Outcome(TRUE, <<>>, file)}
                     ELSE {Outcome(TRUE, file, previous)}

(* A torn tail of an earlier attempt, or of a process that died, is cut off. *)
IsTorn(f) == f # <<>> /\ f[Len(f)] = Torn
NotRepaired(f) == f
Repaired(f) == IF IsTorn(f) THEN SubSeq(f, 1, Len(f) - 1) ELSE f

(* The append succeeds, is rolled back, or leaves a torn line when the
   rollback fails too; opening or cutting may fail before it. *)
Append1(f, line) == {Outcome(TRUE, Append(f, line), <<>>),
                     Outcome(FALSE, f, <<>>),
                     Outcome(FALSE, Append(f, Torn), <<>>)}
Attempts(line) ==
  {Outcome(FALSE, file, previous)} \cup
  UNION { IF r.ok THEN {Outcome(FALSE, r.file, r.previous)} \cup
                       {Outcome(a.ok, a.file, r.previous) : a \in Append1(Repaired(r.file), line)}
                  ELSE {r} : r \in Rotations }

-----------------------------------------------------------------------------
(* run() *)

WorkerSleep ==
  /\ worker = "check" /\ ~stopping /\ queue = <<>>
  /\ worker' = "asleep"
  /\ UNCHANGED <<queue, stats, completed, reported, stopping, record, seen, pc,
                 target, owner, disk, history>>

MayExit == stopping /\ queue = <<>>
WorkerExit ==
  /\ worker = "check" /\ MayExit
  /\ worker' = "exited"
  /\ UNCHANGED <<queue, stats, completed, reported, stopping, record, seen, pc,
                 target, owner, disk, history>>


WorkerTake ==
  /\ worker = "check" /\ queue # <<>>
  /\ record' = Head(queue) /\ queue' = Tail(queue)
  /\ seen' = [dropped |-> dropped, failed |-> failed]
  /\ worker' = "write"
  /\ UNCHANGED <<stats, completed, reported, stopping, pc, target, owner, disk,
                 history>>

(* The losses differ from the reported ones: the line announces them, and they
   are reported once it is in the file. *)
LossesUnreported == seen # reported
Report == /\ reported' = seen
          /\ announced' = IF LossesUnreported THEN seen ELSE announced
Completes == record.seq

WorkerWrite ==
  /\ worker = "write"
  /\ \E o \in Attempts(base + record.seq) :
       /\ file' = o.file /\ previous' = o.previous
       /\ written' = IF o.ok THEN written + 1 ELSE written
       /\ failed' = IF o.ok THEN failed ELSE failed + 1
       /\ IF o.ok THEN Report ELSE UNCHANGED <<reported, announced>>
  /\ completed' = Completes
  /\ worker' = "notify"
  /\ UNCHANGED <<queue, accepted, dropped, criticalDropped, stopping, record, seen,
                 pc, target, owner, base, crashes>>

WorkerNotify ==
  /\ worker = "notify"
  /\ pc' = [f \in Flushers |-> IF pc[f] = "asleep" THEN "check" ELSE pc[f]]
  /\ worker' = "check"
  /\ UNCHANGED <<queue, stats, completed, reported, stopping, record, seen, target,
                 owner, disk, history>>

(* The process dies, perhaps in the middle of a write, and starts again. *)
Crash ==
  /\ crashes < MaxCrashes /\ crashes' = crashes + 1
  /\ \E o \in IF worker = "write" THEN Attempts(base + record.seq)
                                  ELSE {Outcome(TRUE, file, previous)} :
       file' = o.file /\ previous' = o.previous
  /\ base' = base + accepted
  /\ queue' = <<>> /\ accepted' = 0 /\ dropped' = 0 /\ criticalDropped' = 0
  /\ written' = 0 /\ completed' = 0
  /\ \/ worker' = "check" /\ failed' = 0 /\ stopping' = FALSE
     \/ worker' = "none" /\ failed' = 1 /\ stopping' = TRUE
  /\ reported' = NoLosses /\ seen' = NoLosses /\ record' = NoRecord
  /\ pc' = [f \in Flushers |-> "idle"] /\ target' = [f \in Flushers |-> 0]
  /\ owner' = "running" /\ announced' = NoLosses

WorkerStep == WorkerSleep \/ WorkerExit \/ WorkerTake \/ WorkerWrite \/ WorkerNotify
FlushStep(f) == FlushReturn(f) \/ FlushSleep(f)

Next == \/ \E important, valid \in BOOLEAN : Accept(important) \/ Refuse(important, valid)
        \/ \E f \in Flushers : FlushEnter(f) \/ FlushStep(f)
        \/ Shutdown \/ ShutdownWake \/ ShutdownJoin
        \/ WorkerStep
        \/ Crash

Spec == Init /\ [][Next]_vars

(* The threads run; the file system answers. *)
FairSpec == Spec /\ WF_vars(WorkerStep) /\ WF_vars(ShutdownWake \/ ShutdownJoin)
                 /\ \A f \in Flushers : WF_vars(FlushStep(f))

-----------------------------------------------------------------------------
Writing == worker = "write"
Refused == worker = "none"

(* Every accepted record is written, failed, queued or being written, and is
   counted once (a writer without a worker counts one failure); the queue keeps
   its reserve for errors, however many ordinary records come; all state is well
   typed. *)
EveryRecordCounted ==
  /\ TypeOK
  /\ Len(queue) <= Capacity
  /\ Cardinality({i \in DOMAIN queue : ~queue[i].important}) <= Capacity - ErrorReserve
  /\ accepted + (IF Refused THEN 1 ELSE 0)
    = written + failed + Len(queue) + (IF Writing THEN 1 ELSE 0)

(* flush() has returned only when no record accepted before it is in the queue
   or at the worker. *)
FlushCoversRecords ==
  \A f \in Flushers : FlushReturn(f) =>
      /\ \A i \in DOMAIN queue : queue[i].seq > target[f]
      /\ Writing => record.seq > target[f]

(* The file stays bounded; a torn line is only ever the last of its file, and
   complete lines stay in the order they were accepted, through rotation, failed
   rollbacks and crashes. *)
FilesIntact ==
  /\ Len(file) <= MaxLines
  /\ \A f \in {file, previous} : \A i \in DOMAIN f : f[i] = Torn => i = Len(f)
  /\ LET lines == previous \o file
     IN  \A i, j \in DOMAIN lines :
           i < j /\ lines[i] # Torn /\ lines[j] # Torn => lines[i] < lines[j]

(* Whenever a record is written, the file tells of every earlier failure and of
   every drop up to the moment the record was taken. *)
LossesAreTold ==
  written' > written => announced'.failed = failed /\ announced'.dropped = seen.dropped

(* shutdown() waits until the queue is drained. *)
ShutdownDrains == owner = "done" => queue = <<>> /\ completed = accepted

(* flush() and shutdown() return unless the process dies. *)
Flushing(f) == pc[f] # "idle"
Ending      == owner = "wake"
Ended       == owner \in {"done", "running"}
=============================================================================
