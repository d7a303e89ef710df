------------------------------ MODULE HttpRetry ------------------------------
(* The attempts of one call of native/core/HttpClient.cpp: Get() and
   GetInteractive() share one budget among three attempts and the pauses between
   them; Post(), PostInteractive() and a Get() that may not retry make one.  Times
   are milliseconds; an attempt either ends at once or stalls until its slice is
   used up.  The route's deadline may pass at any time; the scheduler's watchdog
   raises the worker's token for it, up to a millisecond early since its time is
   rounded down; the caller, or a scheduler that shuts down, may cancel at any
   time. *)
EXTENDS Naturals, FiniteSetsExt

CONSTANTS Budgets     \* budgets a call may be given

Gets    == {"Get", "GetOnce"}     \* GetOnce: retryAllowed is false
Methods == Gets \cup {"GetInteractive", "Post"}
Backoffs(method) == IF method = "Get" THEN <<500, 2000>> ELSE <<100, 200>>
Attempts(method, budget) ==
  IF method \in {"Post", "GetOnce"} \/ (method = "GetInteractive" /\ budget <= 500) THEN 1 ELSE 3
kReservedGetAttemptMs == 1500
kMinimumGetAttemptBudgetMs == 1000

VARIABLES
  http,    \* the call: attempts begun, time used, slice of the attempt, result
  stop     \* the route's deadline (between two reads?), the watchdog's token (before it?),
           \* the caller's flag
httpVars == <<http, stop>>

HttpRetryInit ==
  /\ http = [at |-> "idle", method |-> "Get", budget |-> 0, attempts |-> 0, used |-> 0,
             slice |-> 0, result |-> "none", stalls |-> 0]
  /\ stop = [late |-> FALSE, raced |-> FALSE, token |-> FALSE, early |-> FALSE, caller |-> FALSE]

-----------------------------------------------------------------------------
(* The pauses still to come from this attempt on, and its slice of what is left.
   The arithmetic is on long, subtractions below are guarded or cut at 0. *)
Reserve(method, attempt) ==
  LET pause == Backoffs(method) IN IF attempt = 0 THEN pause[1] + pause[2] ELSE IF attempt = 1 THEN pause[2] ELSE 0
Minus(a, b) == IF a > b THEN a - b ELSE 0

WholeRemainder(left, attempt) == left
SingleAttemptCap(left, attempt) ==
  LET rest == Reserve("Get", attempt) + kReservedGetAttemptMs * (2 - attempt)
  IN IF attempt = 2 \/ left <= rest THEN left ELSE left - rest

InteractiveCap(left, attempt) ==
  LET reserve == Reserve("GetInteractive", attempt)
      rest    == reserve + 600 * (2 - attempt)
  IN IF attempt = 2 THEN left
     ELSE IF left > rest + 500 THEN left - rest
     ELSE Min({left, Max({100, Minus(left, reserve) \div (3 - attempt)})})
Slice(left, attempt) ==
  IF http.method = "Get" THEN SingleAttemptCap(left, attempt)
  ELSE IF http.method = "GetInteractive" /\ Attempts(http.method, http.budget) = 3
       THEN InteractiveCap(left, attempt) ELSE left

-----------------------------------------------------------------------------
IsCancelled == stop.token \/ stop.caller
Stopped     == stop.late \/ IsCancelled
Left == http.budget - http.used

Begin ==
  /\ http.at = "idle"
  /\ \E method \in Methods, budget \in Budgets :
       http' = [http EXCEPT !.at = "next", !.method = method, !.budget = budget]
  /\ UNCHANGED stop

Attempt ==
  /\ http.at = "next"
  /\ IF Stopped THEN http' = [http EXCEPT !.at = "why"]
     ELSE LET slice == Slice(Left, http.attempts) IN
          IF Left = 0 \/ (http.method = "Get" /\ http.attempts > 0 /\ slice < kMinimumGetAttemptBudgetMs)
          THEN http' = [http EXCEPT !.at = "done", !.result = "total_budget_exhausted"]
          ELSE http' = [http EXCEPT !.at = "attempt", !.attempts = @ + 1, !.slice = slice]
  /\ UNCHANGED stop
(* A stop was seen between attempts: the clock is read again, and without a
   deadline it was a flag. *)
SetStopReason ==
  /\ http.at = "why"
  /\ http' = [http EXCEPT !.at = "done", !.result = IF stop.late THEN "total_budget_exhausted" ELSE "cancelled"]
  /\ UNCHANGED stop

(* ExecuteInteractiveRequest, for the budget: interrupted() reads the clock of
   the route and then, a step later, the flags; an attempt that goes on answers,
   fails for good, fails in a way worth another attempt, is interrupted at the
   end of its slice, or asks again. *)
Ends(result, used, stalled) ==
  http' = [http EXCEPT !.at = "ended", !.result = result, !.used = used, !.stalls = @ + stalled]
Interrupted ==
  /\ http.at = "attempt"
  /\ IF stop.late THEN Ends("total_budget_exhausted", http.used, 0) ELSE http' = [http EXCEPT !.at = "polled"]
  /\ UNCHANGED stop
Polled ==
  /\ http.at = "polled"
  /\ IF IsCancelled THEN Ends("cancelled", http.used, 0)
     ELSE \/ \E result \in {"answer", "failure", "transient"} : Ends(result, http.used, 0)
          \/ Ends("transient", http.used + http.slice, 1)
          \/ http' = [http EXCEPT !.at = "attempt"]
  /\ UNCHANGED stop

InteractiveTransient(result) == result \in {"transient", "total_budget_exhausted"}
(* Is there time for the pause and for an attempt worth making after it? *)
BackoffFits(left, backoff) ==
  IF http.method = "Get"
  THEN left >= backoff /\ SingleAttemptCap(left - backoff, http.attempts) >= kMinimumGetAttemptBudgetMs
  ELSE left > backoff + 100
(* Only Get() asks once more why an attempt ended. *)
Attempted ==
  /\ http.at = "ended"
  /\ IF http.method \in Gets /\ Stopped THEN http' = [http EXCEPT !.at = "why"]
     ELSE IF ~InteractiveTransient(http.result) \/ http.attempts = Attempts(http.method, http.budget)
          THEN http' = [http EXCEPT !.at = "done"]
     ELSE LET backoff == Backoffs(http.method)[http.attempts] IN
          http' = IF BackoffFits(Left, backoff) THEN [http EXCEPT !.at = "backoff", !.slice = backoff]
                                                ELSE [http EXCEPT !.at = "done"]
  /\ UNCHANGED stop
Paused ==
  /\ http.at = "backoff"
  /\ http' = [http EXCEPT !.at = "next", !.used = IF Stopped THEN @ ELSE @ + http.slice]
  /\ UNCHANGED stop

Late ==
  /\ http.at # "idle" /\ ~stop.late
  /\ stop' = [stop EXCEPT !.late = TRUE, !.raced = (http.at = "polled")] /\ UNCHANGED http
Token ==
  /\ http.at # "idle" /\ ~stop.token
  /\ stop' = [stop EXCEPT !.token = TRUE, !.early = ~stop.late] /\ UNCHANGED http
CallerCancels == http.at # "idle" /\ ~stop.caller /\ stop' = [stop EXCEPT !.caller = TRUE] /\ UNCHANGED http

HttpRetryNext ==
  \/ Begin \/ Attempt \/ SetStopReason \/ Interrupted \/ Polled \/ Attempted \/ Paused
  \/ Late \/ Token \/ CallerCancels

-----------------------------------------------------------------------------
(* Attempts and pauses together never exceed the one budget, which was bounded by
   the route's deadline; a retry always has a useful slice; and stalls cannot eat
   the retries: with the budgets the services use, a call whose attempts all
   stall still makes the three of them (comment before kReservedGetAttemptMs). *)
BudgetIsShared ==
  /\ http.used <= http.budget
  /\ http.at \in {"attempt", "polled"} => http.used + http.slice <= http.budget /\ http.slice > 0
  /\ http.at = "done" /\ http.result = "transient" /\ http.stalls = http.attempts
       /\ http.method \in {"Get", "GetInteractive"} /\ http.budget > (IF http.method = "Get" THEN 5500 ELSE 2000)
     => http.attempts = 3

(* A call stopped by the route's deadline is reported as a spent budget, which
   the desktop retries, and not as a cancellation, on which it stays silent,
   although the watchdog raises the cancel token for that same deadline: always
   by Get(), and by the others unless the deadline passes just between the two
   reads of a poll.  Excepted is a watchdog that is early. *)
DeadlineIsNoCancel ==
  http.at = "done" /\ http.result = "cancelled" =>
    \/ stop.caller \/ stop.early
    \/ stop.raced /\ http.method \notin Gets
=============================================================================
