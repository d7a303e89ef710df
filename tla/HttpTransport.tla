---------------------------- MODULE HttpTransport ----------------------------
(* One asynchronous WinHTTP exchange of native/core/HttpClient.cpp per request:
   the bounded registry of request states, which callbacks of the system write
   into, and the pool of connect handles with their session generations.  The
   system owns a request handle from its opening to its last callback; it may
   complete an operation or never do so. *)
EXTENDS Naturals, Sequences, FiniteSets, SequencesExt

CONSTANTS Requests, Hosts, NoHandle,
          HostOf,           \* the host a request is for
          MaxAsyncRequests, \* kMaxAsyncRequests
          PoolCapacity,     \* kHttpConnectionPoolCapacity
          MaxSessions       \* bound: sessions opened

VARIABLES
  pool,     \* connects_, least recently used first: [host, handle]
  session,  \* the current session, the next number, and each handle's session
  registry, \* the states the registry keeps
  request,  \* the owner's side of each exchange
  state,    \* the state shared with the callbacks
  system,   \* the request handle and its callbacks, as the system has them
  broken    \* history: connect handles an exchange failed on
transportVars == <<pool, session, registry, request, state, system, broken>>

NewState == [completed |-> FALSE, error |-> FALSE, closed |-> FALSE, ownerFinished |-> FALSE,
             callbacks |-> 0]
HttpTransportInit ==
  /\ pool = <<>> /\ session = [current |-> 0, made |-> 0, of |-> <<>>] /\ registry = {} /\ broken = {}
  /\ request = [r \in Requests |-> [at |-> "new", connect |-> NoHandle, installed |-> FALSE]]
  /\ state = [r \in Requests |-> NewState]
  /\ system = [r \in Requests |-> [handle |-> "none", pending |-> FALSE, calling |-> FALSE]]

At(r, place) == request[r].at = place
Go(r, place) == request' = [request EXCEPT ![r].at = place]

-----------------------------------------------------------------------------
(* AsyncRequestRegistry *)
Reapable(r)  == state[r].closed /\ state[r].ownerFinished /\ state[r].callbacks = 0
Reaped       == {r \in registry : ~Reapable(r)}

Acquire(r) ==
  /\ At(r, "new")
  /\ IF Cardinality(Reaped) >= MaxAsyncRequests
     THEN Go(r, "overload") /\ registry' = Reaped
     ELSE Go(r, "acquired") /\ registry' = Reaped \cup {r}
  /\ UNCHANGED <<pool, session, state, system, broken>>

(* HttpConnectionPool::Connect, session and map under one lock. *)
Cached(h)  == {i \in DOMAIN pool : pool[i].host = h}
Used(h)    == LET i == CHOOSE i \in Cached(h) : TRUE IN Append(RemoveAt(pool, i), pool[i])
Room       == IF Len(pool) >= PoolCapacity THEN Tail(pool) ELSE pool
Connect(r) ==
  /\ At(r, "acquired")
  /\ LET h == HostOf[r]  handle == Len(session.of) + 1
         now == IF session.current # 0 THEN session.current ELSE session.made + 1 IN
     \/ /\ session.current # 0 /\ Cached(h) # {}
        /\ pool' = Used(h)
        /\ request' = [request EXCEPT ![r].at = "connected", ![r].connect = Last(Used(h)).handle]
        /\ UNCHANGED session
     \/ /\ session.current = 0 \/ Cached(h) = {}
        /\ session.current # 0 \/ session.made < MaxSessions
        /\ session' = [current |-> now, made |-> IF now > session.made THEN now ELSE session.made,
                       of |-> Append(session.of, now)]
        /\ pool' = Append(Room, [host |-> h, handle |-> handle])
        /\ request' = [request EXCEPT ![r].at = "connected", ![r].connect = handle]
     \/ Go(r, "returning") /\ UNCHANGED <<pool, session>>     \* no session or no connect
  /\ UNCHANGED <<registry, state, system, broken>>

(* WinHttpOpenRequest, the callback and the timeouts: each may fail, and then the
   connect is not suspected. *)
OpenRequest(r) ==
  /\ At(r, "connected")
  /\ \E made \in {"none", "open"}, installed \in BOOLEAN, place \in {"idle", "returning"} :
       /\ installed => made = "open"
       /\ place = "idle" => installed
       /\ system' = [system EXCEPT ![r].handle = made]
       /\ request' = [request EXCEPT ![r].at = place, ![r].installed = installed]
  /\ UNCHANGED <<pool, session, registry, state, broken>>

(* complete(): forget the last result, issue outside the lock, wait. *)
Issue(r) ==
  /\ At(r, "idle") /\ ~system[r].pending /\ ~system[r].calling
  /\ state' = [state EXCEPT ![r].completed = FALSE, ![r].error = FALSE]
  /\ \/ Go(r, "waiting") /\ system' = [system EXCEPT ![r].pending = TRUE]
     \/ Go(r, "failed") /\ UNCHANGED system
  /\ UNCHANGED <<pool, session, registry, broken>>
Completed(r) ==
  /\ At(r, "waiting") /\ state[r].completed
  /\ \E place \in IF state[r].error THEN {"failed"} ELSE {"idle", "returning"} : Go(r, place)
  /\ UNCHANGED <<pool, session, registry, state, system, broken>>
(* interrupted(): the deadline, the route's or the caller's stop; also between
   two operations. *)
Interrupted(r) ==
  /\ At(r, "waiting") \/ At(r, "idle")
  /\ Go(r, "failed")
  /\ UNCHANGED <<pool, session, registry, state, system, broken>>

(* The connect an exchange failed on is retired, if it still is the one that is
   cached for its host. *)
KeepBroken(r) == pool
Expected(r) == {i \in Cached(HostOf[r]) : pool[i].handle = request[r].connect}
Evict(r) == IF Expected(r) = {} THEN pool ELSE RemoveAt(pool, CHOOSE i \in Expected(r) : TRUE)
Failed(r) ==
  /\ At(r, "failed") /\ Go(r, "returning")
  /\ pool' = Evict(r) /\ broken' = broken \cup {request[r].connect}
  /\ UNCHANGED <<session, registry, state, system>>

(* ~AsyncRequestOwner: the sole closer of the handle; then the caller reaps. *)
Return(r) ==
  /\ At(r, "returning")
  /\ request' = [request EXCEPT ![r].at = "returned", ![r].connect = NoHandle]
  /\ state' = [state EXCEPT ![r].closed = @ \/ ~request[r].installed, ![r].ownerFinished = TRUE]
  /\ system' = [system EXCEPT ![r].handle =
                  IF @ = "none" THEN "none" ELSE IF request[r].installed THEN "closing" ELSE "gone"]
  /\ UNCHANGED <<pool, session, registry, broken>>
Reap ==
  /\ \E r \in Requests : At(r, "returned")
  /\ registry' = Reaped /\ registry' # registry
  /\ UNCHANGED <<pool, session, request, state, system, broken>>

-----------------------------------------------------------------------------
(* InteractiveStatusCallback: entered and written under the lock, and left as a
   second step.  Closing a handle aborts what is pending; HANDLE_CLOSING is its
   last callback. *)
Callback(r) ==
  /\ ~system[r].calling
  /\ \E result \in {"complete", "error", "closing"} :
       /\ \/ /\ result # "closing" /\ system[r].pending
             /\ system[r].handle = "closing" => result = "error"
             /\ system' = [system EXCEPT ![r].calling = TRUE, ![r].pending = FALSE]
          \/ /\ result = "closing" /\ system[r].handle = "closing" /\ ~system[r].pending
             /\ system' = [system EXCEPT ![r].calling = TRUE, ![r].handle = "gone"]
       /\ state' = [state EXCEPT ![r].callbacks = @ + 1,
                                 ![r].closed = @ \/ result = "closing",
                                 ![r].completed = @ \/ result # "closing",
                                 ![r].error = @ \/ result = "error"]
  /\ UNCHANGED <<pool, session, registry, request, broken>>
CallbackReturns(r) ==
  /\ system[r].calling
  /\ system' = [system EXCEPT ![r].calling = FALSE]
  /\ state' = [state EXCEPT ![r].callbacks = @ - 1]
  /\ UNCHANGED <<pool, session, registry, request, broken>>

(* CloseHttpConnectionPool, at shutdown, while exchanges may go on. *)
CloseAll ==
  /\ session.current # 0 /\ pool' = <<>> /\ session' = [session EXCEPT !.current = 0]
  /\ registry' = Reaped
  /\ UNCHANGED <<request, state, system, broken>>

HttpTransportNext ==
  \/ Reap \/ CloseAll
  \/ \E r \in Requests :
       \/ Acquire(r) \/ Connect(r) \/ OpenRequest(r) \/ Issue(r) \/ Completed(r) \/ Interrupted(r)
       \/ Failed(r) \/ Return(r) \/ Callback(r) \/ CallbackReturns(r)

-----------------------------------------------------------------------------
(* The system writes into a state only while the registry or its owner keeps it:
   the late callbacks of a closed handle, HANDLE_CLOSING included, find it; and
   whoever is refused leaves the registry within its bound. *)
CallbacksFindState ==
  /\ \A r \in Requests :
       system[r].pending \/ system[r].calling \/ system[r].handle = "closing" => r \in registry
  /\ Cardinality(registry) <= MaxAsyncRequests

(* Only connects of the current session are cached, one for each host, and none
   that an exchange failed on: after a network failure or a shutdown no exchange
   is given a dead connect, while those that hold one keep it. *)
PoolIsFresh ==
  /\ Len(pool) <= PoolCapacity
  /\ \A i, j \in DOMAIN pool : pool[i].host = pool[j].host => i = j
  /\ \A i \in DOMAIN pool : /\ session.of[pool[i].handle] = session.current
                            /\ pool[i].handle \notin broken
=============================================================================
