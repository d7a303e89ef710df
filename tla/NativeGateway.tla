---------------------------- MODULE NativeGateway ----------------------------
(* desktop/qt/src/core/NativeGateway.cpp over the C ABI: work is dispatched by
   the GUI thread to a small pool, may be cancelled, and answers by a queued
   signal.  Each caller of Backend is one piece of work, its id a fresh UUID.
   The main program makes one gateway and initialises it once. *)
EXTENDS Backend

CONSTANT Threads          \* of the pool

VARIABLE gateway
  \* state: of the gateway; init: of its initialize(); ready: the library answers;
  \* work: stage of each piece; kind: what it is; queue: waiting for a thread;
  \* flags: cancelled pieces; shut: EchoShutdown has been called

bvars == <<registry, call, job, backend, life, asked, committed>>
gvars == <<bvars, gateway>>

Kinds == {"request", "loginCancel", "stats", "record"}
cancelable    == {"request", "stats"}
nativeRequest == {"request", "loginCancel"}


pending == {c \in Callers : gateway.work[c] \in {"queued", "running", "returned"}}
Busy    == {c \in Callers : gateway.work[c] = "running"}

initialize ==
  /\ gateway.state = "open" /\ gateway.init = "none" /\ InitializeBegin
  /\ gateway' = [gateway EXCEPT !.init = "running"]
initialized ==
  /\ gateway.init = "running" /\ life \in {"idle", "failed"}
  /\ gateway' = [gateway EXCEPT !.init = "done", !.ready = life = "idle"]
  /\ UNCHANGED bvars

(* dispatch(): nothing is sent to a library that is not ready. *)
dispatch(c, kind) ==
  /\ gateway.state = "open" /\ gateway.work[c] = "new"
  /\ gateway' = IF gateway.ready
                THEN [gateway EXCEPT !.work[c] = "queued", !.kind[c] = kind,
                                     !.queue = Append(@, c)]
                ELSE [gateway EXCEPT !.work[c] = "delivered", !.kind[c] = kind]
  /\ UNCHANGED bvars

(* A thread of the pool takes the oldest piece and runs it to its end. *)
run ==
  /\ gateway.queue # <<>> /\ Cardinality(Busy) < Threads
  /\ LET c == Head(gateway.queue)
         taken == [gateway EXCEPT !.queue = Tail(@)]
     IN IF c \in gateway.flags
        THEN gateway' = [taken EXCEPT !.work[c] = "returned"] /\ UNCHANGED bvars
        ELSE /\ gateway' = [taken EXCEPT !.work[c] = "running"]
             /\ IF gateway.kind[c] \in nativeRequest
                THEN Enter(c, c) /\ UNCHANGED <<registry, job, backend, life, asked, committed>>
                ELSE StatsBegin(c)
returned(c) ==
  /\ gateway.work[c] = "running" /\ call[c].pc = "answered"
  /\ gateway' = [gateway EXCEPT !.work[c] = "returned"]
  /\ UNCHANGED bvars

(* The watcher's signal: the entries go, and the callback runs if its receiver
   is still there. *)
finished(c) ==
  /\ gateway.work[c] = "returned" /\ gateway.state = "open"
  /\ \E stage \in {"delivered", "dropped"} :
       gateway' = [gateway EXCEPT !.work[c] = stage, !.flags = @ \ {c}]
  /\ UNCHANGED bvars

(* cancel(): only active, cancelable work has an entry, and once. *)
Cancelled(c) == c \in pending /\ gateway.kind[c] \in cancelable /\ c \notin gateway.flags
cancel(c) ==
  /\ gateway.state = "open" /\ Cancelled(c)
  /\ gateway' = [gateway EXCEPT !.flags = @ \cup {c}]
  /\ IF gateway.kind[c] \in nativeRequest THEN EchoCancelRequest(c) ELSE UNCHANGED bvars

(* The destructor, on the GUI thread: cancel everything, wait for the pool, then
   shut the library down if it was initialised.  No signal is delivered then. *)
destroy ==
  /\ gateway.state = "open" /\ gateway' = [gateway EXCEPT !.state = "closing"]
  /\ UNCHANGED bvars
destroyCancels(c) ==
  /\ gateway.state = "closing" /\ Cancelled(c)
  /\ gateway' = [gateway EXCEPT !.flags = @ \cup {c}]
  /\ IF gateway.kind[c] \in nativeRequest THEN EchoCancelRequest(c) ELSE UNCHANGED bvars
waitForDone == gateway.init # "running" /\ Busy = {} /\ gateway.queue = <<>>
destroyed ==
  /\ gateway.state = "closing" /\ \A c \in Callers : ~Cancelled(c)
  /\ waitForDone
  /\ \/ /\ gateway.ready /\ ~gateway.shut
        /\ ShutdownBegin /\ gateway' = [gateway EXCEPT !.shut = TRUE]
     \/ /\ gateway.ready => gateway.shut /\ life \in {"closed", "unsafe"}
        /\ gateway' = [gateway EXCEPT !.state = "gone"] /\ UNCHANGED bvars

-----------------------------------------------------------------------------
GatewayInit(use) ==
  /\ BackendInit
  /\ gateway = [state |-> use, init |-> "none", ready |-> FALSE,
                work |-> [c \in Callers |-> "new"], kind |-> [c \in Callers |-> None],
                queue |-> <<>>, flags |-> {}, shut |-> FALSE]

Main ==
  \/ initialize \/ initialized \/ run \/ destroy \/ destroyed
  \/ \E c \in Callers : \/ returned(c) \/ finished(c) \/ cancel(c) \/ destroyCancels(c)
                        \/ \E kind \in Kinds : dispatch(c, kind)

(* The library's threads, its watchdog, the pool, the statistics calls and the
   GUI thread go on.  A job may hang; nobody has to call or to cancel. *)
Fairness ==
  /\ \A c \in Callers : /\ WF_gvars(CallStep(c) /\ UNCHANGED gateway)
                         /\ WF_gvars((StartJob(c) \/ Expire(c) \/ Retire(c)) /\ UNCHANGED gateway)
                         /\ WF_gvars(returned(c) \/ finished(c) \/ destroyCancels(c))
  /\ WF_gvars(LifeStep /\ UNCHANGED gateway) /\ WF_gvars(initialized)
  /\ WF_gvars(run) /\ WF_gvars(destroyed)

-----------------------------------------------------------------------------
(* When the gateway is gone and EchoShutdown has said 0, nothing of the library
   runs any more: C_API.h says that it is then safe to unload.  The destructor
   waits for its pool first, so that no thread is on its way out of a call. *)
UnloadIsSafe ==
  gateway.state = "gone" /\ life = "closed" =>
    /\ Running = {} /\ registry.owner = <<>>
    /\ \A c \in Callers : call[c].pc \notin Inside

(* Every piece of work that was dispatched returns from the library and reaches
   its watcher, although its job may hang for ever, until the gateway is being
   destroyed; and the destructor ends, with a library that may be unloaded. *)
EveryDispatchReturns ==
  /\ []UnloadIsSafe
  /\ \A c \in Callers : gateway.work[c] = "queued" ~>
       gateway.work[c] \in {"delivered", "dropped"} \/ gateway.state # "open"
  /\ gateway.state = "closing" ~> gateway.state = "gone"
=============================================================================
