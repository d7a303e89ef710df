------------------------------- MODULE Backend -------------------------------
(* The C ABI of the native library, native/core/C_API.cpp: initialise and shut
   down, handle a request, cancel it by its id (RequestControlRegistry), commit
   under its OperationContext, and the statistics calls.

   A caller makes one call.  The scheduler is abstracted to what RequestScheduler
   shows of it: a job is refused, or runs on a worker, or leaves the queue when
   its deadline fires; its future is settled once; a bounded shutdown rejects
   what is queued and may give up on a worker.  A job may hang for ever.

   A CompatApi refers to the Database it was made with, hence the number of the
   initialisation stands for both. *)
EXTENDS Naturals, FiniteSets, Sequences, SequencesExt

CONSTANTS Callers, Workers, None,
          MaxEntries,      \* the registry's capacity
          MaxInit          \* bound: initialisations

VARIABLES
  registry,  \* orphans: ids cancelled ahead of their request, oldest first;
             \* owner: the caller whose request an id belongs to
  call,      \* what each caller's thread and its operation context hold
  job,       \* the scheduler job of each call
  backend,   \* EchoContext: flag, database (and api) number, scheduler, lock
  life,      \* the thread that initialises and shuts down
  asked,     \* history: callers with an accepted cancel
  committed  \* history: callers whose transaction was committed

vars == <<registry, call, job, backend, life, asked, committed>>

Ids == Callers
NoCall == [pc |-> "out", id |-> None, api |-> 0, late |-> FALSE, kill |-> FALSE,
           flag |-> FALSE, stop |-> FALSE, future |-> None, answer |-> None]
Inside == {"entering", "held", "registered", "bound", "waiting", "reading"}
Owned(c) == \E id \in DOMAIN registry.owner : registry.owner[id] = c
Running == {c \in Callers : job[c] = "running"}
Readers == {c \in Callers : call[c].pc = "reading"}

TypeOK ==
  /\ registry.orphans \in Seq(Ids) /\ Range(registry.owner) \subseteq Callers
  /\ DOMAIN registry.owner \subseteq Ids
  /\ \A c \in Callers : call[c].pc \in Inside \cup {"out", "answered"}
  /\ job \in [Callers -> {"none", "queued", "running", "done"}]
  /\ backend \in [shutdown : BOOLEAN, db : 0..MaxInit, up : BOOLEAN, abandoned : Nat,
                  lock : {None, "init"}, inits : 0..MaxInit]
  /\ life \in {"idle", "initialising", "opening", "draining", "closing", "closed", "unsafe", "failed"}
  /\ asked \subseteq Callers /\ committed \subseteq Callers

-----------------------------------------------------------------------------
(* RequestControlRegistry.  Orphans leave by age: five seconds, or the oldest
   of them when the registry is full.  Requests under way are never dropped. *)
Entries(r) == Len(r.orphans) + Cardinality(DOMAIN r.owner)
Pruned(n)  == [registry EXCEPT !.orphans = SubSeq(@, n + 1, Len(@))]
EvictAny(r) == IF Entries(r) < MaxEntries THEN {r}
               ELSE IF r.orphans # <<>> THEN {[r EXCEPT !.orphans = Tail(@)]}
               ELSE {[r EXCEPT !.owner = <<>>]}
EnsureCapacity(r) == IF Entries(r) < MaxEntries THEN {r}
                     ELSE IF r.orphans = <<>> THEN {}
                     ELSE {[r EXCEPT !.orphans = Tail(@)]}
With(f, id, c)  == [i \in DOMAIN f \cup {id} |-> IF i = id THEN c ELSE f[i]]
Without(f, id)  == [i \in DOMAIN f \ {id} |-> f[i]]
AdoptedFresh(r, id) == FALSE
Adopted(r, id)  == id \in Range(r.orphans)         \* the flag a request starts with
Dropped(s, id) == IF id \in Range(s) THEN RemoveAt(s, CHOOSE i \in DOMAIN s : s[i] = id) ELSE s
Registered(r, id, c) == [orphans |-> Dropped(r.orphans, id), owner |-> With(r.owner, id, c)]

Answer(c, a) == call' = [call EXCEPT ![c].pc = "answered", ![c].answer = a]

(* RequestRegistration: it throws before it owns the entry, so that a refused
   duplicate does not end the request it duplicates. *)
Register(c) ==
  /\ call[c].pc = "held"
  /\ \E n \in 0..Len(registry.orphans) :
       LET r == Pruned(n)  id == call[c].id IN
       \/ /\ id \in DOMAIN r.owner
          /\ registry' = r /\ Answer(c, "duplicate") /\ UNCHANGED asked
       \/ /\ id \notin DOMAIN r.owner
          /\ id \notin Range(r.orphans) /\ EnsureCapacity(r) = {}
          /\ registry' = r /\ Answer(c, "overload") /\ UNCHANGED asked
       \/ /\ id \notin DOMAIN r.owner
          /\ \E q \in IF id \in Range(r.orphans) THEN {r} ELSE EnsureCapacity(r) :
               registry' = Registered(q, id, c)
          /\ call' = [call EXCEPT ![c].pc = "registered", ![c].flag = Adopted(r, id)]
          /\ asked' = asked \cup (IF id \in Range(r.orphans) THEN {c} ELSE {})
  /\ UNCHANGED <<job, backend, life, committed>>

BindStop(c) ==
  /\ call[c].pc = "registered"
  /\ call' = [call EXCEPT ![c].pc = "bound", ![c].stop = call[c].flag]
  /\ UNCHANGED <<registry, job, backend, life, asked, committed>>

(* EchoCancelRequest: of a request under way, or ahead of one. *)
Cancel(id) ==
  \E n \in 0..Len(registry.orphans) :
    LET r == Pruned(n) IN
    \/ /\ id \in DOMAIN r.owner
       /\ LET c == r.owner[id] IN
            /\ call' = [call EXCEPT ![c].flag = TRUE,
                                    ![c].stop = @ \/ call[c].pc \in {"bound", "waiting"}]
            /\ asked' = asked \cup {c}
       /\ registry' = r
    \/ /\ id \notin DOMAIN r.owner
       /\ registry' = IF id \in Range(r.orphans) THEN r
                      ELSE IF EnsureCapacity(r) = {} THEN r
                      ELSE LET q == CHOOSE q \in EnsureCapacity(r) : TRUE
                           IN [q EXCEPT !.orphans = Append(@, id)]
       /\ UNCHANGED <<call, asked>>
EchoCancelRequest(id) == Cancel(id) /\ UNCHANGED <<job, backend, life, committed>>

-----------------------------------------------------------------------------
(* EchoHandleRequest.  The deadline runs from the entry. *)
Enter(c, id) ==
  /\ call[c].pc = "out"
  /\ call' = [call EXCEPT ![c].pc = "entering", ![c].id = id]

(* Two seconds for the shared lock; then the api is held by a reference that
   keeps the CompatApi, not its Database. *)
Acquire(c) ==
  /\ call[c].pc = "entering"
  /\ \/ backend.lock # None /\ Answer(c, "busy")
     \/ /\ backend.lock = None
        /\ \/ (backend.db = 0 \/ backend.shutdown) /\ Answer(c, "uninitialised")
           \/ /\ backend.db # 0 /\ ~backend.shutdown
              /\ call' = [call EXCEPT ![c].pc = "held", ![c].api = backend.db]
  /\ UNCHANGED <<registry, job, backend, life, asked, committed>>

(* Leaving the try block ends the registration, whatever the job still does. *)
Finish(c) == registry' = [registry EXCEPT !.owner = Without(@, call[c].id)]

Submit(c) ==
  /\ call[c].pc = "bound"
  /\ \/ /\ backend.up
        /\ job' = [job EXCEPT ![c] = "queued"]
        /\ call' = [call EXCEPT ![c].pc = "waiting"]
        /\ UNCHANGED registry
     \/ Finish(c) /\ Answer(c, IF backend.up THEN "overload" ELSE "shutdown") /\ UNCHANGED job
  /\ UNCHANGED <<backend, life, asked, committed>>

Return(c) ==
  /\ call[c].pc = "waiting" /\ call[c].future # None
  /\ Finish(c) /\ Answer(c, call[c].future)
  /\ UNCHANGED <<job, backend, life, asked, committed>>

Settled(x, value) == [x EXCEPT !.future = IF @ = None THEN value ELSE @]
(* HttpRequestCanContinue, before the job calls the api *)
MayRun(x) == ~x.late /\ ~x.kill /\ ~x.flag

StartJob(c) ==
  /\ job[c] = "queued" /\ Cardinality(Running) < Workers
  /\ IF MayRun(call[c])
     THEN job' = [job EXCEPT ![c] = "running"] /\ UNCHANGED call
     ELSE /\ job' = [job EXCEPT ![c] = "done"]
          /\ call' = [call EXCEPT ![c] = Settled(@, IF @.late THEN "exhausted" ELSE "cancelled")]
  /\ UNCHANGED <<registry, backend, life, asked, committed>>
EndJob(c) ==
  /\ job[c] = "running" /\ job' = [job EXCEPT ![c] = "done"]
  /\ call' = [call EXCEPT ![c] = Settled(@, "value")]
  /\ UNCHANGED <<registry, backend, life, asked, committed>>

(* OperationContext::TryCommit, inside the storage transaction of the job. *)
Admit(x) == ~x.stop /\ ~x.late /\ ~x.kill /\ ~x.flag
Commit(c) ==
  /\ job[c] = "running" /\ c \notin committed /\ Admit(call[c])
  /\ committed' = committed \cup {c}
  /\ UNCHANGED <<registry, call, job, backend, life, asked>>

(* The route deadline passes; later the watchdog retires the call. *)
Expire(c) ==
  /\ call[c].pc \in Inside \ {"reading"} /\ ~call[c].late
  /\ call' = [call EXCEPT ![c].late = TRUE]
  /\ UNCHANGED <<registry, job, backend, life, asked, committed>>
RetireQueued(c) ==
  /\ call[c].late /\ call[c].pc = "waiting" /\ call[c].future = None /\ job[c] = "queued"
  /\ call' = [call EXCEPT ![c].future = "timeout", ![c].kill = TRUE]
  /\ job' = [job EXCEPT ![c] = "done"]
  /\ UNCHANGED <<registry, backend, life, asked, committed>>
Retire(c) ==
  /\ call[c].late /\ call[c].pc = "waiting" /\ call[c].future = None
  /\ call' = [call EXCEPT ![c].future = "timeout", ![c].kill = TRUE]
  /\ job' = [job EXCEPT ![c] = IF @ = "queued" THEN "done" ELSE @]
  /\ UNCHANGED <<registry, backend, life, asked, committed>>

(* EchoStatsRecordPlay and the readers hold the shared lock throughout. *)
StatsBegin(c) ==
  /\ call[c].pc = "out" /\ backend.lock = None
  /\ IF backend.db = 0 THEN Answer(c, "uninitialised")
     ELSE call' = [call EXCEPT ![c].pc = "reading", ![c].api = backend.db]
  /\ UNCHANGED <<registry, job, backend, life, asked, committed>>
StatsEnd(c) ==
  /\ call[c].pc = "reading" /\ Answer(c, "value")
  /\ UNCHANGED <<registry, job, backend, life, asked, committed>>

-----------------------------------------------------------------------------
(* EchoInitializeWithPathsV2, under the exclusive lock. *)
InitializeBegin ==
  /\ life \in {"idle", "failed", "closed", "unsafe"} /\ backend.inits < MaxInit
  /\ backend.lock = None /\ Readers = {}
  /\ backend' = [backend EXCEPT !.lock = "init", !.shutdown = FALSE, !.inits = @ + 1]
  /\ life' = "initialising"
  /\ UNCHANGED <<registry, call, job, asked, committed>>

Restart ==
  /\ life = "initialising" /\ (backend.up \/ backend.abandoned = 0)
  /\ backend' = [backend EXCEPT !.up = TRUE] /\ life' = "opening"
  /\ UNCHANGED <<registry, call, job, asked, committed>>
InitializeEnd ==
  /\ life = "opening"
  /\ backend' = [backend EXCEPT !.lock = None, !.db = IF @ = 0 THEN backend.inits ELSE @]
  /\ life' = "idle"
  /\ UNCHANGED <<registry, call, job, asked, committed>>

StopScheduler ==
  /\ job' = [c \in Callers |-> IF job[c] = "queued" THEN "done" ELSE job[c]]
  /\ call' = [c \in Callers |->
                LET x == [call[c] EXCEPT !.kill = @ \/ job[c] \in {"queued", "running"}]
                IN IF job[c] = "queued" THEN Settled(x, "shutdown") ELSE x]

(* A bad path, a restart refused or a file that cannot be opened: everything is
   released, then the scheduler is shut down, three seconds at most. *)
InitializeFail ==
  /\ life \in {"initialising", "opening"}
  /\ IF backend.up THEN StopScheduler ELSE UNCHANGED <<job, call>>
  /\ backend' = [backend EXCEPT !.lock = None, !.shutdown = TRUE, !.db = 0, !.up = FALSE,
                                !.abandoned = IF backend.up THEN Cardinality(Running) ELSE @]
  /\ life' = "failed"
  /\ UNCHANGED <<registry, asked, committed>>

(* EchoShutdown: stop the scheduler with a bound; then, if no worker was given
   up, the exclusive lock with a bound; then release everything. *)
ShutdownBegin ==
  /\ life \in {"idle", "failed", "closed", "unsafe"}
  /\ backend' = [backend EXCEPT !.shutdown = TRUE, !.up = FALSE]
  /\ \/ backend.up /\ StopScheduler /\ life' = "draining"
     \/ /\ ~backend.up /\ UNCHANGED <<job, call>>
        /\ life' = IF backend.abandoned > 0 THEN "unsafe" ELSE "closing"
  /\ UNCHANGED <<registry, asked, committed>>
DrainedAnyway ==
  /\ life = "draining" /\ life' = "closing"
  /\ UNCHANGED <<registry, call, job, backend, asked, committed>>
Drained ==
  /\ life = "draining"
  /\ backend' = [backend EXCEPT !.abandoned = Cardinality(Running)]
  /\ life' = IF Running = {} THEN "closing" ELSE "unsafe"
  /\ UNCHANGED <<registry, call, job, asked, committed>>
TearDown ==
  /\ life = "closing"
  /\ IF Readers = {}
     THEN backend' = [backend EXCEPT !.db = 0] /\ life' = "closed"
     ELSE life' = "unsafe" /\ UNCHANGED backend
  /\ UNCHANGED <<registry, call, job, asked, committed>>

-----------------------------------------------------------------------------
BackendInit ==
  /\ registry = [orphans |-> <<>>, owner |-> <<>>]
  /\ call = [c \in Callers |-> NoCall] /\ job = [c \in Callers |-> "none"]
  /\ backend = [shutdown |-> FALSE, db |-> 0, up |-> TRUE, abandoned |-> 0,
                lock |-> None, inits |-> 0]
  /\ life = "idle" /\ asked = {} /\ committed = {}

CallStep(c) == Acquire(c) \/ Register(c) \/ BindStop(c) \/ Submit(c) \/ Return(c) \/ StatsEnd(c)
JobStep(c)  == StartJob(c) \/ EndJob(c) \/ Commit(c) \/ Expire(c) \/ Retire(c)
LifeStep    == Restart \/ InitializeEnd \/ InitializeFail \/ Drained \/ TearDown
Serve == LifeStep \/ \E c \in Callers : CallStep(c) \/ JobStep(c)

(* What any program that links the library may do, one thread initialising. *)
Use ==
  \/ InitializeBegin \/ ShutdownBegin
  \/ \E c \in Callers : \/ StatsBegin(c)
                        \/ \E id \in Ids : Enter(c, id) /\ UNCHANGED <<registry, job, backend, life, asked, committed>>
  \/ \E id \in Ids : EchoCancelRequest(id)
BackendNext == Serve \/ Use
BackendSpec == BackendInit /\ [][BackendNext]_vars

-----------------------------------------------------------------------------
(* A job works, and a statistics call reads, only while the Database its api
   refers to is there: teardown waits for them or leaves it alone, as the
   comment before the first return of EchoShutdownImpl says. *)
DatabaseOutlivesWork ==
  \A c \in Running \cup Readers : call[c].api = backend.db

(* A request under way keeps its entry, so that a cancel finds it, whatever is
   registered, refused, cancelled ahead or evicted meanwhile; and the registry
   stays within its capacity. *)
RequestsStayReachable ==
  /\ Entries(registry) <= MaxEntries
  /\ Range(registry.orphans) \cap DOMAIN registry.owner = {}
  /\ \A c \in Callers : call[c].pc \in {"registered", "bound", "waiting"} =>
       /\ call[c].id \in DOMAIN registry.owner
       /\ registry.owner[call[c].id] = c

(* Once EchoCancelRequest has accepted the cancel of a request, which may not
   have been admitted yet, no transaction of it is committed, though its job may
   outlive the call. *)
CancelStopsCommit ==
  [][(committed' \ committed) \cap asked = {}]_vars
=============================================================================
