---------------------------- MODULE DatabaseActor ----------------------------
(* The storage actor of native/storage/Database.cpp: every access to SQLite is a
   task of one thread, submitted by callers that block on its result, while the
   owner (C_API.cpp, under its exclusive lock) opens, initialises, closes and
   reopens the database.  What a task does to the files and to the records is
   the subject of DatabaseFiles and JsonStore. *)
EXTENDS Naturals, Sequences

CONSTANTS Clients,    \* threads that use the database
          MaxOpens,   \* bound: times the owner opens it
          MaxCalls    \* bound: calls of one client

VARIABLES
  dbState,   \* state_, under queue_mutex_
  dbQueue,   \* task_queue_
  dbThread,  \* the actor: "none", "waiting", or the task it runs
  dbHandle,  \* db_ is not null
  dbCall,    \* what each client's call came to
  dbOwner    \* where the owner is, whether it opens again, how often it opened

dbVars == <<dbState, dbQueue, dbThread, dbHandle, dbCall, dbOwner>>

OwnerIs(at)   == dbOwner.at = at
OwnerGoes(at) == dbOwner' = [dbOwner EXCEPT !.at = at]

DatabaseActorInit ==
  /\ dbState = "Closed" /\ dbQueue = <<>> /\ dbThread = "none" /\ dbHandle = FALSE
  /\ dbCall = [c \in Clients |-> [result |-> "none", calls |-> 0]]
  /\ dbOwner = [at |-> "idle", reopen |-> FALSE, opens |-> 0]

-----------------------------------------------------------------------------
(* Close(): the state leaves Open under the lock that appends the closing task,
   so that nothing can be queued behind it; then it joins the thread. *)
BeginClose(reopen) ==
  /\ dbOwner' = [dbOwner EXCEPT !.at = IF dbState = "Failed" THEN "joining" ELSE "closing",
                                !.reopen = reopen]
  /\ IF dbState = "Failed" THEN UNCHANGED <<dbState, dbQueue>>
     ELSE dbState' = "Closing" /\ dbQueue' = Append(dbQueue, "close")
  /\ UNCHANGED <<dbThread, dbHandle, dbCall>>
Close == OwnerIs("idle") /\ dbState # "Closed" /\ BeginClose(FALSE)

(* Open(): Close(), StartActor(), then the opening task while still Starting. *)
StartActor == /\ dbState' = "Starting" /\ dbThread' = "waiting"
              /\ dbOwner' = [dbOwner EXCEPT !.at = "started", !.reopen = FALSE, !.opens = @ + 1]
Open ==
  /\ OwnerIs("idle") /\ dbOwner.opens < MaxOpens
  /\ IF dbState = "Closed" THEN StartActor /\ UNCHANGED <<dbQueue, dbHandle, dbCall>>
                           ELSE BeginClose(TRUE)
OpenEnqueues ==
  /\ OwnerIs("started") /\ dbQueue' = Append(dbQueue, "open") /\ OwnerGoes("waiting")
  /\ UNCHANGED <<dbState, dbThread, dbHandle, dbCall>>
Joined ==
  /\ OwnerIs("joining") /\ dbThread = "none" /\ dbQueue' = <<>>
  /\ IF dbOwner.reopen THEN StartActor ELSE OwnerGoes("idle") /\ dbState' = "Closed" /\ UNCHANGED dbThread
  /\ UNCHANGED <<dbHandle, dbCall>>

Initialize ==
  /\ OwnerIs("idle") /\ dbState = "Open" /\ dbHandle
  /\ dbQueue' = Append(dbQueue, "initialize") /\ OwnerGoes("waiting")
  /\ UNCHANGED <<dbState, dbThread, dbHandle, dbCall>>

(* Submit(): refused outside Open.  (On the actor thread it is refused as well:
   the call of a mutator that uses the database fails, see RunCall.) *)
Submit(c) ==
  /\ dbCall[c].result # "waiting" /\ dbCall[c].calls < MaxCalls
  /\ LET open == dbState = "Open" IN
       /\ dbQueue' = IF open THEN Append(dbQueue, c) ELSE dbQueue
       /\ dbCall' = [dbCall EXCEPT ![c] = [result |-> IF open THEN "waiting" ELSE "refused",
                                           calls |-> @.calls + 1]]
  /\ UNCHANGED <<dbState, dbThread, dbHandle, dbOwner>>

-----------------------------------------------------------------------------
(* ActorLoop(): tasks in order; it leaves only when the queue is empty. *)
TakeTask ==
  /\ dbThread = "waiting" /\ dbQueue # <<>>
  /\ dbThread' = Head(dbQueue) /\ dbQueue' = Tail(dbQueue)
  /\ UNCHANGED <<dbState, dbHandle, dbCall, dbOwner>>
LeaveLoop ==
  /\ dbThread = "waiting" /\ dbQueue = <<>> /\ dbState \in {"Closing", "Failed"}
  /\ dbThread' = "none" /\ UNCHANGED <<dbState, dbQueue, dbHandle, dbCall, dbOwner>>

(* Each task settles its promise whatever it throws. *)
Done == dbThread' = "waiting"
RunOpen ==
  /\ dbThread = "open" /\ Done /\ OwnerGoes("idle")
  /\ \E opened \in BOOLEAN :
       dbHandle' = opened /\ dbState' = IF opened THEN "Open" ELSE "Failed"
  /\ UNCHANGED <<dbQueue, dbCall>>
(* A recovery that fails half way leaves the actor open without a handle. *)
RunInitialize ==
  /\ dbThread = "initialize" /\ Done /\ OwnerGoes("idle")
  /\ dbHandle' \in BOOLEAN
  /\ UNCHANGED <<dbState, dbQueue, dbCall>>
RunCall(c) ==
  /\ dbThread = c /\ Done
  /\ \E r \in IF dbHandle THEN {"value", "error"} ELSE {"error"} :
       dbCall' = [dbCall EXCEPT ![c].result = r]
  /\ UNCHANGED <<dbState, dbQueue, dbHandle, dbOwner>>
RunClose ==
  /\ dbThread = "close" /\ Done /\ dbHandle' = FALSE /\ OwnerGoes("joining")
  /\ UNCHANGED <<dbState, dbQueue, dbCall>>

ActorStep == TakeTask \/ LeaveLoop \/ RunOpen \/ RunInitialize \/ RunClose \/ \E c \in Clients : RunCall(c)
DatabaseActorNext ==
  \/ ActorStep \/ Open \/ OpenEnqueues \/ Close \/ Joined \/ Initialize
  \/ \E c \in Clients : Submit(c)

-----------------------------------------------------------------------------
(* A call that was accepted is answered, although the database is closed,
   reopened or fails to open meanwhile, and the owner's own calls return. *)
Waits(c) == dbCall[c].result = "waiting"
=============================================================================
