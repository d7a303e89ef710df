------------------------------ MODULE Account -------------------------------
(***************************************************************************)
(* The account panel (desktop/qt/src/account/AccountController.cpp): who is *)
(* signed in, signing in with a QR code that is polled every two seconds,  *)
(* and signing out.  The panel knows the account only through the answers  *)
(* of the native routes, which arrive late, after the user has closed the  *)
(* panel, asked for another code or signed out.                            *)
(*                                                                         *)
(* The native side is what IdentityStore shows of it: one session, and one *)
(* attempt in charge, the only one whose confirmation is stored.           *)
(* A cancelled request may still run, and its callback is called in every  *)
(* case (NativeGateway), if only with a failure.                           *)
(***************************************************************************)
EXTENDS Integers, FiniteSets

CONSTANTS Accounts,        \* user ids
          NoOne,           \* the empty user id
          Failures,        \* consecutive failed polls that end a code (six)
          MaxAttempts,     \* bound: codes asked for in a run
          MaxSessions,     \* bound: requests for or against the session
          MaxTroubles      \* bound: requests the native side fails

VARIABLES page,            \* the fields of AccountController
          calls,           \* its requests, cancelled ones too
          native           \* the stored session, its attempt, and what went wrong

accountVars == <<page, calls, native>>

LoginKinds   == {"key", "check"}        \* requestId_
SessionKinds == {"detail", "logout"}    \* sessionRequest_
States == {"idle", "requesting", "waiting", "scanned", "expired", "success", "error"}

\* An answer, and when it was made: the sessions there had been by then.
Unanswered == [what |-> "none", user |-> NoOne, at |-> 0]
Call(kind, attempt, gen) ==
  [kind |-> kind, attempt |-> attempt, gen |-> gen, cancelled |-> FALSE, answer |-> Unanswered]
Called(c) == c.answer # Unanswered


-----------------------------------------------------------------------------
(* What the handlers do to the page s.page and to its requests s.calls     *)

At(p, cs) == [page |-> p, calls |-> cs]

\* NativeGateway::cancel
Cancel(s, kinds) ==
  [s EXCEPT !.calls = {IF c.kind \in kinds /\ ~Called(c) THEN [c EXCEPT !.cancelled = TRUE] ELSE c :
                         c \in @}]

SetState(s, state) == [s EXCEPT !.page.state = state]

AbandonAttempt(s) ==
  LET t == Cancel(s, LoginKinds)
  IN  [page  |-> [t.page EXCEPT !.gen = @ + 1, !.timer = FALSE, !.request = FALSE,
                                !.key = FALSE, !.attempt = 0],
       calls |-> IF t.page.attempt = 0 THEN t.calls
                 ELSE t.calls \cup {Call("cancel", t.page.attempt, 0)}]

BeginLogin(s) ==
  IF s.page.user # NoOne \/ s.page.session \/ s.page.begun = MaxAttempts THEN s
  ELSE LET t == AbandonAttempt(s)
           n == t.page.begun + 1
       IN  [page  |-> [t.page EXCEPT !.active = TRUE, !.busy = TRUE, !.failures = 0,
                                     !.attempt = n, !.begun = n, !.request = TRUE,
                                     !.state = "requesting"],
            calls |-> t.calls \cup {Call("key", n, t.page.gen)}]

RefreshSession(s) ==
  LET t == Cancel(s, SessionKinds)
      n == t.page.sessions + 1
  IN  [page  |-> [t.page EXCEPT !.sessions = n, !.session = TRUE],
       calls |-> t.calls \cup {Call("detail", 0, n)}]

CancelLogin(s) == [AbandonAttempt(s) EXCEPT !.page.busy = FALSE, !.page.state = "idle"]

Now == At(page, calls)
Becomes(s) == page' = s.page /\ calls' = s.calls

\* The gateway became ready: the stored session is asked for.  begun codes and
\* trouble failures of the bounds are used up already.
AccountInit(begun, trouble) ==
  \E user \in Accounts \cup {NoOne} :
    /\ native = [user |-> user, attempt |-> 0, changes |-> 0, trouble |-> trouble]
    /\ LET blank == [page  |-> [user |-> NoOne, state |-> "idle", active |-> FALSE, busy |-> FALSE,
                                checked |-> FALSE, key |-> FALSE, timer |-> FALSE,
                                request |-> FALSE, session |-> FALSE, attempt |-> 0, begun |-> begun,
                                failures |-> 0, gen |-> 0, sessions |-> 0, at |-> 0],
                     calls |-> {}]
       IN  page = RefreshSession(blank).page /\ calls = RefreshSession(blank).calls

-----------------------------------------------------------------------------
(* The user                                                                *)

Activate ==
  /\ ~page.active
  /\ LET s == [Now EXCEPT !.page.active = TRUE]
     IN  Becomes(IF ~page.checked THEN IF page.session THEN s ELSE RefreshSession(s)
                 ELSE IF page.user = NoOne /\ page.state = "idle" THEN BeginLogin(s) ELSE s)
  /\ page.checked \/ page.sessions < MaxSessions
  /\ UNCHANGED native

Deactivate ==
  /\ page.active
  /\ LET s == [Now EXCEPT !.page.active = FALSE]
     IN  Becomes(IF page.attempt # 0 THEN CancelLogin(s) ELSE s)
  /\ UNCHANGED native

PressBegin   == page.active /\ ~page.busy /\ Becomes(BeginLogin(Now)) /\ UNCHANGED native
PressCancel  == /\ page.active /\ page.user = NoOne
                /\ page.state \in {"requesting", "waiting", "scanned"}
                /\ Becomes(CancelLogin(Now)) /\ UNCHANGED native
PressRefresh == /\ page.active /\ page.user # NoOne /\ ~page.busy /\ page.sessions < MaxSessions
                /\ Becomes(RefreshSession(Now)) /\ UNCHANGED native

\* A mutant: a refresh under way is left alone.
LogOutBeside ==
  /\ page.user # NoOne /\ ~page.busy
  /\ LET t == AbandonAttempt(Now)
     IN  Becomes([page  |-> [t.page EXCEPT !.session = TRUE, !.busy = TRUE],
                  calls |-> t.calls \cup {Call("logout", 0, t.page.sessions)}])
  /\ UNCHANGED native

\* logout()
LogOut ==
  /\ page.user # NoOne /\ ~page.busy /\ page.sessions < MaxSessions
  /\ LET t == Cancel(AbandonAttempt(Now), SessionKinds)
         n == t.page.sessions + 1
     IN  Becomes([page  |-> [t.page EXCEPT !.sessions = n, !.session = TRUE, !.busy = TRUE],
                  calls |-> t.calls \cup {Call("logout", 0, n)}])
  /\ UNCHANGED native


\* The timer fires: poll().  The age of the code is real time.
Poll ==
  /\ page.timer
  /\ LET s == [Now EXCEPT !.page.timer = FALSE]
     IN  IF ~page.active \/ ~page.key \/ page.request THEN Becomes(s)
         ELSE \/ Becomes(SetState(s, "expired"))
              \/ Becomes(At([s.page EXCEPT !.request = TRUE],
                            s.calls \cup {Call("check", page.attempt, page.gen)}))
  /\ UNCHANGED native

-----------------------------------------------------------------------------
(* The native side                                                         *)

Answer(c, what, user, at) ==
  LET done == [c EXCEPT !.answer = [what |-> what, user |-> user, at |-> at]]
  IN  calls' = (calls \ {c}) \cup {done}

\* A request is cancelled, refused by the scheduler, or finds no upstream; a
\* key may have reserved its attempt by then.
Trouble(c) == /\ c.kind # "cancel"
              /\ c.cancelled \/ native.trouble < MaxTroubles
              /\ Answer(c, "failed", NoOne, native.changes)
              /\ \E attempt \in {native.attempt} \cup (IF c.kind = "key" THEN {c.attempt} ELSE {}) :
                   native' = [native EXCEPT !.attempt = attempt,
                                            !.trouble = IF c.cancelled THEN @ ELSE @ + 1]

\* /login/qr/key: the newest request that runs has the attempt.
Publish(c) == /\ c.kind = "key"
              /\ Answer(c, "key", NoOne, native.changes)
              /\ native' = [native EXCEPT !.attempt = c.attempt]

\* /login/qr/check: what the phone did, for the attempt in charge.
Check(c) ==
  /\ c.kind = "check"
  /\ \/ /\ c.attempt # native.attempt
        /\ Answer(c, "failed", NoOne, native.changes) /\ UNCHANGED native
     \/ /\ c.attempt = native.attempt
        /\ \/ \E what \in {"waiting", "scanned", "expired"} : Answer(c, what, NoOne, native.changes)
              /\ UNCHANGED native
           \/ \E user \in Accounts :
                /\ Answer(c, "confirmed", user, native.changes + 1)
                /\ native' = [native EXCEPT !.user = user, !.attempt = 0, !.changes = @ + 1]
           \/ Answer(c, "confirmed", NoOne, native.changes) /\ UNCHANGED native   \* without a token

\* /login/qr/cancel: an attempt that is not in charge is not remembered.
GiveUp(c) == /\ c.kind = "cancel"
             /\ calls' = calls \ {c}
             /\ native' = [native EXCEPT !.attempt = IF @ = c.attempt THEN 0 ELSE @]

\* /user/detail: whoever is stored, from the stored profile if need be.
Detail(c) == /\ c.kind = "detail"
             /\ Answer(c, "account", native.user, native.changes) /\ UNCHANGED native

SignOut(c) == /\ c.kind = "logout"
              /\ Answer(c, "account", NoOne, native.changes + 1)
              /\ native' = [native EXCEPT !.user = NoOne, !.attempt = 0, !.changes = @ + 1]

\* A sign-in or sign-out that was stored, but whose answer came too late.
Unheard(c) == /\ c.cancelled \/ native.trouble < MaxTroubles
              /\ c.kind = "logout" \/ (c.kind = "check" /\ c.attempt = native.attempt)
              /\ Answer(c, "failed", NoOne, native.changes)
              /\ \E user \in IF c.kind = "logout" THEN {NoOne} ELSE Accounts :
                   native' = [native EXCEPT !.user = user, !.attempt = 0, !.changes = @ + 1,
                                            !.trouble = IF c.cancelled THEN @ ELSE @ + 1]

Handle(c) == /\ ~Called(c)
             /\ \/ Trouble(c) \/ Unheard(c) \/ Publish(c) \/ Check(c)
                \/ GiveUp(c) \/ Detail(c) \/ SignOut(c)
             /\ UNCHANGED page

-----------------------------------------------------------------------------
(* The callbacks                                                           *)

HearKey(c) ==
  LET rest == calls \ {c}
      p == [page EXCEPT !.request = FALSE, !.busy = FALSE]
  IN  /\ c.kind = "key"
      /\ Becomes(IF c.gen # page.gen \/ ~page.active THEN At(page, rest)
                 ELSE IF c.answer.what # "key" THEN At([p EXCEPT !.state = "error"], rest)
                 ELSE At([p EXCEPT !.key = TRUE, !.timer = TRUE, !.state = "waiting"], rest))

HearCheck(c) ==
  LET rest == calls \ {c}
      p == [page EXCEPT !.request = FALSE]
      n == page.failures + 1
      what == c.answer.what
  IN  /\ c.kind = "check"
      /\ Becomes(
           IF c.gen # page.gen \/ ~page.active THEN At(page, rest)
           ELSE CASE what = "failed" /\ n = Failures ->
                       At([p EXCEPT !.failures = n, !.state = "error"], rest)
                  [] what = "failed" /\ n # Failures ->
                       At([p EXCEPT !.failures = n, !.timer = TRUE], rest)
                  [] what = "confirmed" ->
                       RefreshSession(At([p EXCEPT !.attempt = 0, !.key = FALSE, !.failures = 0,
                                                   !.state = "success"], rest))
                  [] what = "expired" ->
                       At([p EXCEPT !.failures = 0, !.state = "expired"], rest)
                  [] OTHER -> At([p EXCEPT !.failures = 0, !.timer = TRUE, !.state = what], rest))

\* Detail: an account is shown and its panel loaded; without one the panel is
\* emptied and, when it is open, a code is asked for.
HearDetail(c) ==
  LET rest == calls \ {c}
      p == [page EXCEPT !.session = FALSE, !.checked = TRUE, !.busy = FALSE]
      left == AbandonAttempt(At(p, rest))
      out == At([p EXCEPT !.user = NoOne, !.at = c.answer.at], rest)
  IN  /\ c.kind = "detail"
      /\ Becomes(
           IF c.gen # page.sessions THEN At(page, rest)
           ELSE IF c.answer.what = "failed" THEN At([p EXCEPT !.state = "error"], rest)
           ELSE IF c.answer.user # NoOne
             THEN At([left.page EXCEPT !.user = c.answer.user, !.at = c.answer.at,
                                       !.state = "success"], left.calls)
           ELSE IF page.active /\ page.attempt = 0 THEN BeginLogin(out) ELSE out)

HearLogOut(c) ==
  LET rest == calls \ {c}
      p == [page EXCEPT !.session = FALSE, !.busy = FALSE]
  IN  /\ c.kind = "logout"
      /\ Becomes(IF c.gen # page.sessions THEN At(page, rest)
                 ELSE IF c.answer.what = "failed" THEN At([p EXCEPT !.state = "error"], rest)
                 ELSE At([p EXCEPT !.state = "idle", !.user = NoOne, !.at = c.answer.at], rest))

Hear(c) == /\ Called(c)
           /\ HearKey(c) \/ HearCheck(c) \/ HearDetail(c) \/ HearLogOut(c)
           /\ UNCHANGED native

AccountNext == \/ Activate \/ Deactivate \/ PressBegin \/ PressCancel \/ PressRefresh \/ LogOut
               \/ Poll
               \/ \E c \in calls : Handle(c) \/ Hear(c)


-----------------------------------------------------------------------------
(* Correctness                                                             *)

\* The page only moves forward through the sessions there have been: an
\* answer about an older session never replaces a newer one, so an account
\* that was signed out is not shown again by a late answer, and one that has
\* signed in is not emptied by an answer made before.
MovesForward == page'.at >= page.at
SessionsMoveForward == [][MovesForward]_page

\* A code on the screen, or one announced, is always being worked on: it is
\* asked for, or checked, or its timer runs, whatever was cancelled, failed or
\* answered in between.  A code nothing polls would never sign anybody in.
CodeIsAlive == page.state \in {"requesting", "waiting", "scanned"} =>
                 page.timer \/ \E c \in calls : c.kind \in LoginKinds /\ c.gen = page.gen
=============================================================================
