------------------------------ MODULE PagesProofs ------------------------------
(* The account panel with its entitlements, the first page and what was played: *)
(* what they show stays right in whatever order answers, sign-ins and switches  *)
(* come, for any accounts and any number of attempts.                           *)
EXTENDS Pages, DataLemmas

-----------------------------------------------------------------------------
(* Account                                                                   *)

Users     == Accounts \cup {Nobody}
Kinds     == {"key", "check", "cancel", "detail", "logout"}
Whats     == {"none", "failed", "key", "waiting", "scanned", "expired", "confirmed", "account"}
PageFields == {"user", "state", "active", "busy", "checked", "key", "timer", "request", "session",
               "attempt", "begun", "failures", "gen", "sessions", "at"}
PageOk(p) ==
  /\ DOMAIN p = PageFields
  /\ p.user \in Users /\ p.state \in Panel!States \cup Whats
  /\ p.active \in BOOLEAN /\ p.busy \in BOOLEAN /\ p.checked \in BOOLEAN /\ p.key \in BOOLEAN
  /\ p.timer \in BOOLEAN /\ p.request \in BOOLEAN /\ p.session \in BOOLEAN
  /\ p.attempt \in Nat /\ p.begun \in Nat /\ p.failures \in Int /\ p.gen \in Nat
  /\ p.sessions \in Nat /\ p.at \in Nat
Answers   == [what : Whats, user : Users, at : Nat]
CallType  == [kind : Kinds, attempt : Nat, gen : Nat, cancelled : BOOLEAN, answer : Answers]
NativeType == [user : Users, attempt : Nat, changes : Nat, trouble : Nat]

\* The request of the attempt under way, and the one for the session.
Login(c, p)   == c.kind \in {"key", "check"} /\ c.gen = p.gen
Session(c, p) == c.kind \in {"detail", "logout"} /\ c.gen = p.sessions
Answered(c)   == c.answer # Panel!Unanswered

\* What the page knows of its attempt, and the requests of it.
AttemptInv(p, cs) ==
  /\ \A c \in cs : /\ c.kind \in {"key", "check"} => c.gen <= p.gen /\ c.attempt \in 1..p.begun
                   /\ Login(c, p) => ~p.timer /\ p.request /\ p.attempt = c.attempt
                                     /\ p.key = (c.kind = "check")
                   /\ c.kind \in {"key", "check"} /\ c.attempt = p.attempt => c.gen = p.gen
  /\ \A c, d \in cs : Login(c, p) /\ Login(d, p) => c = d
  /\ \A c, d \in cs : c.kind = "key" /\ d.kind = "check" => c.attempt # d.attempt
  /\ p.timer => p.key /\ ~p.request
  /\ p.key => p.attempt # 0
  /\ p.attempt <= p.begun
  /\ p.user # Nobody \/ p.session => p.attempt = 0
  /\ p.user # Nobody => p.checked
  /\ p.user # Nobody => p.state \notin {"requesting", "waiting", "scanned"}
  /\ ~p.checked => p.session
Open(p, cs)  == p.active \/ (~p.timer /\ \A c \in cs : ~Login(c, p))
Alive(p, cs) == p.state \in {"requesting", "waiting", "scanned"} => p.timer \/ \E c \in cs : Login(c, p)

\* The requests for the session: one at a time, and a sign-out alone.
SessionInv(p, cs, n) ==
  /\ \A c \in cs : /\ c.kind \in {"detail", "logout"} => c.gen <= p.sessions
                   /\ Session(c, p) => p.session
                   /\ c.kind = "logout" => Session(c, p) /\ p.busy /\ p.user # Nobody
                   /\ c.answer.at <= n.changes
                   /\ Session(c, p) /\ Answered(c) => c.answer.at >= p.at
  /\ \A c, d \in cs : Session(c, p) /\ Session(d, p) => c = d
  /\ p.at <= n.changes

\* No check of an abandoned code can sign anybody in any more.
Settled(p, cs) == \/ p.user # Nobody
                  \/ p.session
                  \/ \E c \in cs : Login(c, p) /\ c.kind = "check" /\ c.answer.what = "confirmed"
NativeInv(p, cs, n) ==
  /\ Settled(p, cs) => \A c \in cs : c.kind = "check" /\ ~Answered(c) => c.attempt # n.attempt
  /\ n.user # Nobody /\ p.user # Nobody => n.user = p.user
  /\ \A c \in cs : Session(c, p) /\ c.kind = "detail" /\ Answered(c) =>
                     c.answer.user = Nobody \/ c.answer.user = n.user

TypesOf(p, cs, n) == PageOk(p) /\ cs \subseteq CallType /\ n \in NativeType
PanelInvOf(p, cs, n) == /\ TypesOf(p, cs, n)
                        /\ AttemptInv(p, cs) /\ Open(p, cs) /\ Alive(p, cs)
                        /\ SessionInv(p, cs, n) /\ NativeInv(p, cs, n)
PanelInv == PanelInvOf(page, calls, native)

Weak(p, cs, n) == /\ TypesOf(p, cs, n)
                  /\ AttemptInv(p, cs) /\ SessionInv(p, cs, n) /\ NativeInv(p, cs, n)
Marked(c, kinds) == IF c.kind \in kinds /\ ~Panel!Called(c) THEN [c EXCEPT !.cancelled = TRUE] ELSE c
MarkAll(cs, kinds) == {Marked(c, kinds) : c \in cs}
NoLive(cs, n) == \A c \in cs : c.kind = "check" /\ ~Answered(c) => c.attempt # n.attempt

LEMMA CancelMarks ==
  ASSUME NEW p, NEW cs, NEW kinds
  PROVE  Panel!Cancel(Panel!At(p, cs), kinds) = Panel!At(p, MarkAll(cs, kinds))
BY DEF Panel!Cancel, Panel!At, Marked, MarkAll

LEMMA MarkedSame ==
  ASSUME NEW c, c \in CallType, NEW kinds
  PROVE  LET d == Marked(c, kinds)
         IN  /\ d \in CallType /\ d.kind = c.kind /\ d.gen = c.gen /\ d.attempt = c.attempt
             /\ d.answer = c.answer
BY DEF Marked, CallType

\* A cancelled request is still what it was.
LEMMA CancelKeeps ==
  ASSUME NEW p, NEW cs, NEW n, NEW kinds, Weak(p, cs, n)
  PROVE  Weak(p, MarkAll(cs, kinds), n)
<1> DEFINE ds == MarkAll(cs, kinds)
<1>1. \A d \in ds : \E c \in cs : /\ d = Marked(c, kinds) /\ d \in CallType
                                  /\ d.kind = c.kind /\ d.gen = c.gen /\ d.attempt = c.attempt
                                  /\ d.answer = c.answer
  <2>1. ASSUME NEW d, d \in ds
        PROVE  \E c \in cs : /\ d = Marked(c, kinds) /\ d \in CallType
                             /\ d.kind = c.kind /\ d.gen = c.gen /\ d.attempt = c.attempt
                             /\ d.answer = c.answer
    <3>1. PICK c \in cs : d = Marked(c, kinds)
      BY <2>1 DEF MarkAll
    <3>2. c \in CallType
      BY DEF Weak, TypesOf
    <3> QED
      BY <3>1, <3>2, MarkedSame
  <2> QED
    BY <2>1
<1> HIDE DEF ds
<1>2. TypesOf(p, ds, n)
  BY <1>1 DEF Weak, TypesOf
<1>3. AttemptInv(p, ds)
  BY <1>1 DEF Weak, AttemptInv, Login
<1>4. SessionInv(p, ds, n)
  BY <1>1 DEF Weak, SessionInv, Session, Answered
<1>5. NativeInv(p, ds, n)
  BY <1>1 DEF Weak, NativeInv, Session, Login, Answered, Settled
<1> QED
  BY <1>2, <1>3, <1>4, <1>5 DEF Weak, ds

LEMMA CallIs ==
  ASSUME NEW kind, kind \in Kinds, NEW attempt, attempt \in Nat, NEW gen, gen \in Nat
  PROVE  LET c == Panel!Call(kind, attempt, gen)
         IN  /\ c \in CallType /\ c.kind = kind /\ c.attempt = attempt /\ c.gen = gen
             /\ c.answer = Panel!Unanswered /\ c.answer.at = 0 /\ c.answer.what = "none"
<1>1. Panel!Unanswered \in Answers /\ Panel!Unanswered.at = 0 /\ Panel!Unanswered.what = "none"
  BY DEF Panel!Unanswered, Answers, Users, Whats
<1> QED
  BY <1>1 DEF Panel!Call, CallType

LEMMA StateParts ==
  ASSUME NEW p, NEW cs
  PROVE  Panel!At(p, cs).page = p /\ Panel!At(p, cs).calls = cs
BY DEF Panel!At

Older(ds, cs) ==
  \A d \in ds : d.kind \in {"logout", "check"} =>
    \E c \in cs : d.kind = c.kind /\ d.answer = c.answer /\ d.attempt = c.attempt

LEMMA AbandonKeeps ==
  ASSUME NEW p, NEW cs, NEW n, Weak(p, cs, n)
  PROVE  \E q, ds : /\ Panel!AbandonAttempt(Panel!At(p, cs)) = Panel!At(q, ds)
                    /\ q = [p EXCEPT !.gen = p.gen + 1, !.timer = FALSE, !.request = FALSE,
                                     !.key = FALSE, !.attempt = 0]
                    /\ Weak(q, ds, n) /\ PageOk(q) /\ Open(q, ds)
                    /\ \A c \in ds : ~Login(c, q)
                    /\ Older(ds, cs)
<1> DEFINE ms == MarkAll(cs, Panel!LoginKinds)
           q == [p EXCEPT !.gen = p.gen + 1, !.timer = FALSE, !.request = FALSE,
                          !.key = FALSE, !.attempt = 0]
           ds == IF p.attempt = 0 THEN ms ELSE ms \cup {Panel!Call("cancel", p.attempt, 0)}
<1>1. Panel!AbandonAttempt(Panel!At(p, cs)) = Panel!At(q, ds)
  <2> HIDE DEF ms
  <2>1. Panel!Cancel(Panel!At(p, cs), Panel!LoginKinds) = Panel!At(p, ms)
    BY CancelMarks DEF ms
  <2>2. Panel!AbandonAttempt(Panel!At(p, cs)) =
          [page  |-> [Panel!At(p, ms).page EXCEPT !.gen = @ + 1, !.timer = FALSE, !.request = FALSE,
                                                 !.key = FALSE, !.attempt = 0],
           calls |-> IF Panel!At(p, ms).page.attempt = 0 THEN Panel!At(p, ms).calls
                     ELSE Panel!At(p, ms).calls \cup {Panel!Call("cancel", Panel!At(p, ms).page.attempt, 0)}]
    BY <2>1 DEF Panel!AbandonAttempt
  <2> QED
    BY <2>2, StateParts DEF Panel!At
<1>2. Weak(p, ms, n)
  BY CancelKeeps
<1>3. \A d \in ms : \E c \in cs : d.kind = c.kind /\ d.answer = c.answer /\ d.attempt = c.attempt
  BY MarkedSame DEF Weak, TypesOf, MarkAll
<1> HIDE DEF ms
<1>4. PageOk(p) /\ n \in NativeType /\ ms \subseteq CallType
  BY <1>2 DEF Weak, TypesOf
<1>5. /\ PageOk(q) /\ q.gen = p.gen + 1 /\ q.timer = FALSE /\ q.key = FALSE /\ q.attempt = 0
      /\ q.user = p.user /\ q.session = p.session /\ q.sessions = p.sessions /\ q.begun = p.begun
      /\ q.at = p.at /\ q.busy = p.busy /\ q.checked = p.checked /\ q.state = p.state
  BY <1>4 DEF PageOk, PageFields
<1>6. \A d \in ds : d \in ms \/ /\ d \in CallType /\ d.kind = "cancel" /\ d.answer = Panel!Unanswered
                                /\ d.answer.at = 0
  BY <1>4, CallIs DEF PageOk, PageFields, Kinds
<1> HIDE DEF q, ds
<1>7. \A d \in ds : ~Login(d, q)
  BY <1>2, <1>4, <1>5, <1>6 DEF Weak, AttemptInv, Login, PageOk, PageFields, CallType
<1>8. TypesOf(q, ds, n)
  BY <1>4, <1>5, <1>6 DEF TypesOf
<1>9. AttemptInv(q, ds)
  BY <1>2, <1>4, <1>5, <1>6, <1>7 DEF Weak, AttemptInv, PageOk, PageFields, CallType
<1>10. SessionInv(q, ds, n)
  BY <1>2, <1>4, <1>5, <1>6 DEF Weak, SessionInv, Session, Answered, NativeType
<1>11. NativeInv(q, ds, n)
  <2>1. Settled(q, ds) => Settled(p, ms)
    BY <1>5, <1>7 DEF Settled
  <2> QED
    BY <1>2, <1>5, <1>6, <2>1 DEF Weak, NativeInv, Session, Answered
<1>12. Older(ds, cs)
  BY <1>3, <1>6 DEF Older
<1>13. Weak(q, ds, n)
  BY <1>8, <1>9, <1>10, <1>11 DEF Weak
<1> QED
  BY <1>1, <1>5, <1>7, <1>12, <1>13 DEF q, Open

LEMMA BeginKeeps ==
  ASSUME NEW p, NEW cs, NEW n, Weak(p, cs, n), Open(p, cs), Alive(p, cs)
  PROVE  \E q, ds : /\ Panel!BeginLogin(Panel!At(p, cs)) = Panel!At(q, ds)
                    /\ Weak(q, ds, n) /\ Open(q, ds) /\ Alive(q, ds)
                    /\ q.at = p.at /\ q.user = p.user
<1>1. CASE p.user # Nobody \/ p.session \/ p.begun = MaxAttempts
  <2>1. Panel!BeginLogin(Panel!At(p, cs)) = Panel!At(p, cs)
    BY <1>1 DEF Panel!BeginLogin, Panel!At
  <2> QED
    BY <2>1
<1>2. CASE ~(p.user # Nobody \/ p.session \/ p.begun = MaxAttempts)
  <2>1. PICK q, ds :
          /\ Panel!AbandonAttempt(Panel!At(p, cs)) = Panel!At(q, ds)
          /\ q = [p EXCEPT !.gen = p.gen + 1, !.timer = FALSE, !.request = FALSE,
                           !.key = FALSE, !.attempt = 0]
          /\ Weak(q, ds, n) /\ PageOk(q)
          /\ \A c \in ds : ~Login(c, q)
    BY AbandonKeeps
  <2> DEFINE k == q.begun + 1
             r == [q EXCEPT !.active = TRUE, !.busy = TRUE, !.failures = 0, !.attempt = k,
                            !.begun = k, !.request = TRUE, !.state = "requesting"]
             new == Panel!Call("key", k, q.gen)
             es == ds \cup {new}
  <2>2. Panel!BeginLogin(Panel!At(p, cs)) = Panel!At(r, es)
    <3>1. Panel!BeginLogin(Panel!At(p, cs)) =
            [page  |-> [Panel!At(q, ds).page EXCEPT
                          !.active = TRUE, !.busy = TRUE, !.failures = 0,
                          !.attempt = Panel!At(q, ds).page.begun + 1,
                          !.begun = Panel!At(q, ds).page.begun + 1, !.request = TRUE,
                          !.state = "requesting"],
             calls |-> Panel!At(q, ds).calls
                         \cup {Panel!Call("key", Panel!At(q, ds).page.begun + 1, Panel!At(q, ds).page.gen)}]
      BY <1>2, <2>1, StateParts DEF Panel!BeginLogin
    <3> QED
      BY <3>1, StateParts DEF Panel!At
  <2>30. PageOk(q) /\ q.begun \in Nat /\ k \in Nat /\ q.gen \in Nat
    BY <2>1 DEF PageOk
  <2>31. q.at = p.at /\ q.user = Nobody /\ q.session = FALSE
    <3>1. PageOk(p)
      BY DEF Weak, TypesOf
    <3> QED
      BY <1>2, <2>1, <3>1 DEF PageOk, PageFields
  <2> HIDE DEF k
  <2>3. /\ PageOk(r) /\ r.active = TRUE /\ r.timer = FALSE /\ r.request = TRUE /\ r.key = FALSE
        /\ r.attempt = k /\ r.begun = k /\ r.gen = q.gen /\ r.user = Nobody /\ r.session = FALSE
        /\ r.sessions = q.sessions /\ r.at = p.at /\ r.checked = q.checked
    <3>1. PageOk(r)
      BY ONLY <2>30 DEF r, PageOk, PageFields, Panel!States
    <3>2. /\ r.active = TRUE /\ r.timer = q.timer /\ r.request = TRUE /\ r.key = q.key
          /\ r.attempt = k /\ r.begun = k /\ r.gen = q.gen /\ r.user = q.user
          /\ r.session = q.session /\ r.sessions = q.sessions /\ r.at = q.at /\ r.checked = q.checked
      BY ONLY <2>30 DEF r, PageOk, PageFields
    <3>3. q.timer = FALSE /\ q.key = FALSE
      <4>1. PageOk(p)
        BY DEF Weak, TypesOf
      <4> QED
        BY <2>1, <4>1 DEF PageOk, PageFields
    <3> QED
      BY ONLY <2>31, <3>1, <3>2, <3>3
  <2>4. /\ new \in CallType /\ new.kind = "key" /\ new.attempt = k /\ new.gen = q.gen
        /\ new.answer = Panel!Unanswered /\ new.answer.at = 0 /\ new.answer.what = "none"
    BY <2>1, <2>30, CallIs DEF PageOk, PageFields, Kinds
  <2> USE DEF k
  <2>5. q.begun \in Nat /\ q.gen \in Nat /\ k \in Nat /\ k = q.begun + 1 /\ n \in NativeType
        /\ ds \subseteq CallType
    BY <2>1 DEF PageOk, PageFields, Weak, TypesOf
  <2> HIDE DEF k, r, new
  <2>6. TypesOf(r, es, n)
    BY <2>3, <2>4, <2>5 DEF TypesOf
  <2>7. AttemptInv(r, es)
    BY <2>1, <2>3, <2>31, <2>4, <2>5 DEF Weak, AttemptInv, Login, CallType, PageOk, PageFields
  <2>8. \A c \in ds : c.kind # "logout"
    BY <2>1, <2>31 DEF Weak, SessionInv
  <2>9. SessionInv(r, es, n)
    BY <2>1, <2>3, <2>31, <2>4, <2>5, <2>8 DEF Weak, SessionInv, Session, Answered, NativeType
  <2>10. NativeInv(r, es, n)
    <3>1. ~Settled(r, es)
      BY <2>1, <2>3, <2>31, <2>4 DEF Settled, Login
    <3>2. \A c \in es : ~Session(c, r)
      BY <2>1, <2>3, <2>31, <2>4 DEF Session, Weak, SessionInv
    <3> QED
      BY <2>3, <3>1, <3>2 DEF NativeInv
  <2>11. Alive(r, es)
    BY <2>3, <2>4 DEF Alive, Login
  <2>12. Open(r, es)
    BY <2>3 DEF Open
  <2> QED
    BY <1>2, <2>2, <2>3, <2>6, <2>7, <2>9, <2>10, <2>11, <2>12 DEF Weak
<1> QED
  BY <1>1, <1>2

LEMMA RefreshKeeps ==
  ASSUME NEW p, NEW cs, NEW n, Weak(p, cs, n), p.attempt = 0, NoLive(cs, n),
         \A c \in cs : c.kind # "logout" /\ ~Login(c, p),
         p.state \notin {"requesting", "waiting", "scanned"}
  PROVE  \E q, ds : /\ Panel!RefreshSession(Panel!At(p, cs)) = Panel!At(q, ds)
                    /\ Weak(q, ds, n) /\ Open(q, ds) /\ Alive(q, ds)
                    /\ q.at = p.at /\ q.user = p.user
<1> DEFINE ms == MarkAll(cs, Panel!SessionKinds)
           k  == p.sessions + 1
           q  == [p EXCEPT !.sessions = k, !.session = TRUE]
           new == Panel!Call("detail", 0, k)
           ds == ms \cup {new}
<1>1. Panel!RefreshSession(Panel!At(p, cs)) = Panel!At(q, ds)
  <2>1. Panel!Cancel(Panel!At(p, cs), Panel!SessionKinds) = Panel!At(p, ms)
    BY CancelMarks
  <2> HIDE DEF ms
  <2>2. Panel!RefreshSession(Panel!At(p, cs)) =
          [page  |-> [Panel!At(p, ms).page EXCEPT !.sessions = Panel!At(p, ms).page.sessions + 1,
                                                 !.session = TRUE],
           calls |-> Panel!At(p, ms).calls \cup {Panel!Call("detail", 0, Panel!At(p, ms).page.sessions + 1)}]
    BY <2>1 DEF Panel!RefreshSession
  <2> QED
    BY <2>2, StateParts DEF Panel!At
<1>2. Weak(p, ms, n)
  BY CancelKeeps
<1>3. \A d \in ms : \E c \in cs : /\ d.kind = c.kind /\ d.answer = c.answer /\ d.attempt = c.attempt
                                  /\ d.gen = c.gen
  BY MarkedSame DEF Weak, TypesOf, MarkAll
<1> HIDE DEF ms
<1>4. PageOk(p) /\ n \in NativeType /\ ms \subseteq CallType /\ k \in Nat /\ k = p.sessions + 1
      /\ p.sessions \in Nat
  BY <1>2 DEF Weak, TypesOf, PageOk, PageFields
<1>5. /\ PageOk(q) /\ q.gen = p.gen /\ q.timer = p.timer /\ q.key = p.key /\ q.attempt = 0
      /\ q.user = p.user /\ q.session = TRUE /\ q.sessions = k /\ q.begun = p.begun
      /\ q.at = p.at /\ q.busy = p.busy /\ q.checked = p.checked /\ q.state = p.state
      /\ q.active = p.active /\ q.request = p.request
  BY <1>4 DEF PageOk, PageFields
<1>6. /\ new \in CallType /\ new.kind = "detail" /\ new.gen = k
      /\ new.answer = Panel!Unanswered /\ new.answer.at = 0
  BY <1>4, CallIs DEF Kinds
<1>7. \A c \in ms : c.kind # "logout" /\ ~Login(c, p) /\ (c.kind = "check" /\ ~Answered(c) => c.attempt # n.attempt)
  BY <1>3 DEF NoLive, Answered, Login
<1> HIDE DEF k, q, new
<1>8. TypesOf(q, ds, n)
  BY <1>4, <1>5, <1>6 DEF TypesOf
<1>9. AttemptInv(q, ds)
  BY <1>2, <1>4, <1>5, <1>6, <1>7 DEF Weak, AttemptInv, PageOk, PageFields, CallType, Login
<1>10. SessionInv(q, ds, n)
  BY <1>2, <1>4, <1>5, <1>6, <1>7 DEF Weak, SessionInv, Session, Answered, NativeType, CallType
<1>11. NativeInv(q, ds, n)
  BY <1>2, <1>4, <1>5, <1>6, <1>7 DEF Weak, NativeInv, Session, SessionInv, Answered, CallType
<1>12. Alive(q, ds)
  BY <1>5 DEF Alive
<1>13. Open(q, ds)
  BY <1>2, <1>5, <1>6, <1>7 DEF Open, Weak, AttemptInv, Login
<1> QED
  BY <1>1, <1>5, <1>8, <1>9, <1>10, <1>11, <1>12, <1>13 DEF Weak

LEMMA CancelLoginKeeps ==
  ASSUME NEW p, NEW cs, NEW n, Weak(p, cs, n), p.user = Nobody
  PROVE  \E q, ds : /\ Panel!CancelLogin(Panel!At(p, cs)) = Panel!At(q, ds)
                    /\ Weak(q, ds, n) /\ Open(q, ds) /\ Alive(q, ds)
                    /\ q.at = p.at /\ q.user = p.user
<1>1. PICK q, ds : /\ Panel!AbandonAttempt(Panel!At(p, cs)) = Panel!At(q, ds)
                   /\ q = [p EXCEPT !.gen = p.gen + 1, !.timer = FALSE, !.request = FALSE,
                                    !.key = FALSE, !.attempt = 0]
                   /\ Weak(q, ds, n) /\ PageOk(q) /\ Open(q, ds)
  BY AbandonKeeps
<1>2. q.user = Nobody /\ q.at = p.at /\ q.timer = FALSE
  <2>1. PageOk(p)
    BY DEF Weak, TypesOf
  <2> QED
    BY <1>1, <2>1 DEF PageOk, PageFields
<1> DEFINE r == [q EXCEPT !.busy = FALSE, !.state = "idle"]
<1>3. Panel!CancelLogin(Panel!At(p, cs)) = Panel!At(r, ds)
  <2>1. Panel!CancelLogin(Panel!At(p, cs)) = [Panel!At(q, ds) EXCEPT !.page.busy = FALSE, !.page.state = "idle"]
    BY <1>1 DEF Panel!CancelLogin
  <2> QED
    BY <2>1 DEF Panel!At
<1>4. PageOk(r)
  BY ONLY <1>1 DEF r, PageOk, PageFields, Panel!States
<1>5. /\ r.user = q.user /\ r.active = q.active /\ r.checked = q.checked /\ r.key = q.key
      /\ r.timer = q.timer /\ r.request = q.request /\ r.session = q.session /\ r.attempt = q.attempt
      /\ r.begun = q.begun /\ r.gen = q.gen /\ r.sessions = q.sessions /\ r.at = q.at /\ r.state = "idle"
  BY ONLY <1>1 DEF r, PageOk, PageFields
<1> HIDE DEF r
<1>6. TypesOf(r, ds, n)
  BY <1>1, <1>4 DEF Weak, TypesOf
<1>7. AttemptInv(r, ds)
  BY <1>1, <1>2, <1>5 DEF Weak, AttemptInv, Login
<1>8. SessionInv(r, ds, n)
  BY <1>1, <1>2, <1>5 DEF Weak, SessionInv, Session
<1>9. NativeInv(r, ds, n)
  BY <1>1, <1>5 DEF Weak, NativeInv, Session, Settled, Login
<1>10. Open(r, ds) /\ Alive(r, ds)
  BY <1>1, <1>5 DEF Open, Alive, Login
<1> QED
  BY <1>2, <1>3, <1>5, <1>6, <1>7, <1>8, <1>9, <1>10 DEF Weak

LEMMA FewerKeep ==
  ASSUME NEW p, NEW cs, NEW ds, NEW n, Weak(p, cs, n), ds \subseteq cs
  PROVE  Weak(p, ds, n)
<1>1. TypesOf(p, ds, n) /\ AttemptInv(p, ds)
  BY DEF Weak, TypesOf, AttemptInv
<1>2. SessionInv(p, ds, n)
  BY DEF Weak, SessionInv
<1>3. NativeInv(p, ds, n)
  <2>1. Settled(p, ds) => Settled(p, cs)
    BY DEF Settled
  <2> QED
    BY <2>1 DEF Weak, NativeInv
<1> QED
  BY <1>1, <1>2, <1>3 DEF Weak

PanelGood(p, cs, n) == Weak(p, cs, n) /\ Open(p, cs) /\ Alive(p, cs)

LEMMA PanelParts == PanelInv <=> PanelGood(page, calls, native)
BY DEF PanelInv, PanelInvOf, PanelGood, Weak

\* What a handler makes of the page and its requests.
LEMMA Arrives ==
  ASSUME NEW q, NEW ds, Panel!Becomes(Panel!At(q, ds)), native' = native, PanelGood(q, ds, native)
  PROVE  PanelInv' /\ page' = q /\ calls' = ds
<1>1. page' = q /\ calls' = ds
  BY StateParts DEF Panel!Becomes
<1> QED
  BY <1>1 DEF PanelInv, PanelInvOf, PanelGood, Weak, TypesOf, AttemptInv, Open, Alive, SessionInv,
              NativeInv, Settled, Login, Session, PageOk, NoLive

LEMMA NowIs == Panel!Now = Panel!At(page, calls)
BY DEF Panel!Now, Panel!At

LEMMA SetActive ==
  ASSUME NEW p, NEW cs, NEW x
  PROVE  [Panel!At(p, cs) EXCEPT !.page.active = x] = Panel!At([p EXCEPT !.active = x], cs)
BY DEF Panel!At

LEMMA ActivateKeeps ==
  ASSUME PanelInv, Panel!Activate
  PROVE  PanelInv' /\ page'.at >= page.at
<1> DEFINE p == [page EXCEPT !.active = TRUE]
<1>1. PanelGood(page, calls, native) /\ PageOk(page)
  BY PanelParts DEF PanelGood, Weak, TypesOf
<1>2. /\ PageOk(p) /\ p.user = page.user /\ p.active = TRUE /\ p.checked = page.checked
      /\ p.busy = page.busy /\ p.state = page.state
      /\ p.key = page.key /\ p.timer = page.timer /\ p.request = page.request
      /\ p.session = page.session /\ p.attempt = page.attempt /\ p.begun = page.begun
      /\ p.gen = page.gen /\ p.sessions = page.sessions /\ p.at = page.at
  BY ONLY <1>1 DEF p, PageOk, PageFields
<1>3. [Panel!Now EXCEPT !.page.active = TRUE] = Panel!At(p, calls)
  BY NowIs, SetActive
<1> HIDE DEF p
<1>4. PanelGood(p, calls, native)
  BY <1>1, <1>2 DEF PanelGood, Weak, TypesOf, AttemptInv, Open, Alive, SessionInv, NativeInv, Settled,
                    Login, Session
<1>5. native' = native /\ (Panel!Becomes(Panel!At(p, calls)) \/ Panel!Becomes(Panel!BeginLogin(Panel!At(p, calls))))
  <2>1. p.checked \/ p.session
    BY <1>4 DEF PanelGood, Weak, AttemptInv
  <2> QED
    BY <1>2, <1>3, <2>1, StateParts DEF Panel!Activate
<1>6. CASE Panel!Becomes(Panel!At(p, calls))
  BY <1>1, <1>2, <1>4, <1>5, <1>6, Arrives DEF PageOk
<1>7. CASE Panel!Becomes(Panel!BeginLogin(Panel!At(p, calls)))
  <2>1. PICK q, ds : /\ Panel!BeginLogin(Panel!At(p, calls)) = Panel!At(q, ds)
                     /\ PanelGood(q, ds, native) /\ q.at = p.at
    BY <1>4, BeginKeeps DEF PanelGood
  <2> QED
    BY <1>1, <1>2, <1>5, <1>7, <2>1, Arrives DEF PageOk
<1> QED
  BY <1>5, <1>6, <1>7

Screen == {"requesting", "waiting", "scanned"}
SameCore(q, p) ==
  /\ q.user = p.user /\ q.checked = p.checked /\ q.key = p.key /\ q.timer = p.timer
  /\ q.request = p.request /\ q.session = p.session /\ q.attempt = p.attempt /\ q.begun = p.begun
  /\ q.gen = p.gen /\ q.sessions = p.sessions /\ q.at = p.at

LEMMA Repaint ==
  ASSUME NEW p, NEW q, NEW cs, NEW n, Weak(p, cs, n), PageOk(q), SameCore(q, p),
         q.user # Nobody => q.state \notin Screen,
         \A c \in cs : c.kind = "logout" => q.busy
  PROVE  Weak(q, cs, n)
<1>1. TypesOf(q, cs, n)
  BY DEF Weak, TypesOf
<1>2. AttemptInv(q, cs)
  BY DEF Weak, AttemptInv, Login, SameCore, Screen
<1>3. SessionInv(q, cs, n)
  BY DEF Weak, SessionInv, Session, SameCore
<1>4. NativeInv(q, cs, n)
  BY DEF Weak, NativeInv, Session, Settled, Login, SameCore
<1> QED
  BY <1>1, <1>2, <1>3, <1>4 DEF Weak

\* What follows from an attempt that is over.
LEMMA NoAttempt ==
  ASSUME NEW p, NEW cs, NEW n, Weak(p, cs, n), p.attempt = 0
  PROVE  ~p.timer /\ ~p.key /\ \A c \in cs : ~Login(c, p)
BY DEF Weak, TypesOf, AttemptInv, Login, PageOk

LEMMA DeactivateKeeps ==
  ASSUME PanelInv, Panel!Deactivate
  PROVE  PanelInv' /\ page'.at >= page.at
<1> DEFINE p == [page EXCEPT !.active = FALSE]
<1>1. PanelGood(page, calls, native) /\ PageOk(page) /\ Weak(page, calls, native)
  BY PanelParts DEF PanelGood, Weak, TypesOf
<1>2. PageOk(p) /\ SameCore(p, page) /\ p.state = page.state /\ p.busy = page.busy
  BY ONLY <1>1 DEF p, PageOk, PageFields, SameCore
<1>3. [Panel!Now EXCEPT !.page.active = FALSE] = Panel!At(p, calls)
  BY NowIs, SetActive
<1> HIDE DEF p
<1>4. Weak(p, calls, native)
  <2>1. \A c \in calls : c.kind = "logout" => p.busy
    BY <1>1, <1>2 DEF Weak, SessionInv
  <2>2. p.user # Nobody => p.state \notin Screen
    BY <1>1, <1>2 DEF Weak, AttemptInv, SameCore, Screen
  <2> QED
    BY <1>1, <1>2, <2>1, <2>2, Repaint
<1>5. CASE page.attempt # 0
  <2>1. p.user = Nobody /\ p.at = page.at
    BY <1>1, <1>2, <1>5 DEF SameCore, Weak, AttemptInv
  <2>2. PICK q, ds : /\ Panel!CancelLogin(Panel!At(p, calls)) = Panel!At(q, ds)
                     /\ PanelGood(q, ds, native) /\ q.at = p.at
    BY <1>4, <2>1, CancelLoginKeeps DEF PanelGood
  <2>3. Panel!Becomes(Panel!At(q, ds)) /\ native' = native
    BY <1>3, <1>5, <2>2, StateParts DEF Panel!Deactivate
  <2> QED
    BY <1>1, <2>1, <2>2, <2>3, Arrives DEF PageOk
<1>6. CASE page.attempt = 0
  <2>1. Panel!Becomes(Panel!At(p, calls)) /\ native' = native
    BY <1>3, <1>6, StateParts DEF Panel!Deactivate
  <2>2. Open(p, calls) /\ Alive(p, calls)
    BY <1>1, <1>2, <1>4, <1>6, NoAttempt DEF Open, Alive, SameCore, PanelGood, Login
  <2>3. PanelGood(p, calls, native)
    BY <1>4, <2>2 DEF PanelGood
  <2> QED
    BY <1>1, <1>2, <2>1, <2>3, Arrives DEF PageOk, SameCore
<1> QED
  BY <1>5, <1>6

LEMMA PressesKeep ==
  ASSUME PanelInv, Panel!PressBegin \/ Panel!PressCancel \/ Panel!PressRefresh
  PROVE  PanelInv' /\ page'.at >= page.at
<1>1. /\ PanelGood(page, calls, native) /\ PageOk(page) /\ Weak(page, calls, native)
      /\ Open(page, calls) /\ Alive(page, calls) /\ native' = native
  BY PanelParts DEF PanelGood, Weak, TypesOf, Panel!PressBegin, Panel!PressCancel, Panel!PressRefresh
<1>2. CASE Panel!PressBegin
  <2>1. PICK q, ds : /\ Panel!BeginLogin(Panel!At(page, calls)) = Panel!At(q, ds)
                     /\ PanelGood(q, ds, native) /\ q.at = page.at
    BY <1>1, BeginKeeps DEF PanelGood
  <2> QED
    BY <1>1, <1>2, <2>1, NowIs, Arrives DEF Panel!PressBegin, PageOk
<1>3. CASE Panel!PressCancel
  <2>1. PICK q, ds : /\ Panel!CancelLogin(Panel!At(page, calls)) = Panel!At(q, ds)
                     /\ PanelGood(q, ds, native) /\ q.at = page.at
    BY <1>1, <1>3, CancelLoginKeeps DEF PanelGood, Panel!PressCancel
  <2> QED
    BY <1>1, <1>3, <2>1, NowIs, Arrives DEF Panel!PressCancel, PageOk
<1>4. CASE Panel!PressRefresh
  <2>1. page.user # Nobody /\ ~page.busy
    BY <1>4 DEF Panel!PressRefresh
  <2>2. page.attempt = 0 /\ page.state \notin {"requesting", "waiting", "scanned"}
    BY <1>1, <2>1 DEF Weak, AttemptInv
  <2>3. NoLive(calls, native)
    BY <1>1, <2>1 DEF Weak, NativeInv, NoLive, Settled
  <2>4. \A c \in calls : c.kind # "logout" /\ ~Login(c, page)
    BY <1>1, <2>1, <2>2, NoAttempt DEF Weak, SessionInv
  <2>5. PICK q, ds : /\ Panel!RefreshSession(Panel!At(page, calls)) = Panel!At(q, ds)
                     /\ PanelGood(q, ds, native) /\ q.at = page.at
    BY <1>1, <2>2, <2>3, <2>4, RefreshKeeps DEF PanelGood
  <2> QED
    BY <1>1, <1>4, <2>5, NowIs, Arrives DEF Panel!PressRefresh, PageOk
<1> QED
  BY <1>2, <1>3, <1>4

LEMMA LogOutKeeps ==
  ASSUME PanelInv, Panel!LogOut
  PROVE  PanelInv' /\ page'.at >= page.at
<1>1. /\ Weak(page, calls, native) /\ PageOk(page) /\ Alive(page, calls) /\ native' = native
      /\ page.user # Nobody /\ ~page.busy
  BY PanelParts DEF PanelGood, Weak, TypesOf, Panel!LogOut
<1>2. PICK p, bs :
        /\ Panel!AbandonAttempt(Panel!At(page, calls)) = Panel!At(p, bs)
        /\ p = [page EXCEPT !.gen = page.gen + 1, !.timer = FALSE, !.request = FALSE,
                            !.key = FALSE, !.attempt = 0]
        /\ Weak(p, bs, native) /\ PageOk(p) /\ Open(p, bs)
        /\ \A c \in bs : ~Login(c, p)
        /\ Older(bs, calls)
  BY <1>1, AbandonKeeps
<1>3. /\ p.user = page.user /\ p.at = page.at /\ p.state = page.state /\ p.timer = FALSE /\ p.attempt = 0
      /\ p.checked = page.checked /\ p.key = FALSE
  BY <1>1, <1>2 DEF PageOk, PageFields
<1> DEFINE cs == MarkAll(bs, Panel!SessionKinds)
           k  == p.sessions + 1
           q  == [p EXCEPT !.sessions = k, !.session = TRUE, !.busy = TRUE]
           new == Panel!Call("logout", 0, k)
           ds == cs \cup {new}
<1>4. Weak(p, cs, native)
  BY <1>2, CancelKeeps
<1>5. \A d \in cs : \E c \in bs : d.kind = c.kind /\ d.answer = c.answer /\ d.attempt = c.attempt
  BY <1>2, MarkedSame DEF Weak, TypesOf, MarkAll
<1>6. page' = q /\ calls' = ds
  <2> HIDE DEF cs
  <2>1. Panel!Cancel(Panel!At(p, bs), Panel!SessionKinds) = Panel!At(p, cs)
    BY CancelMarks DEF cs
  <2>2. Panel!Becomes([page |-> [Panel!At(p, cs).page EXCEPT !.sessions = Panel!At(p, cs).page.sessions + 1,
                                                            !.session = TRUE, !.busy = TRUE],
                       calls |-> Panel!At(p, cs).calls
                         \cup {Panel!Call("logout", 0, Panel!At(p, cs).page.sessions + 1)}])
    BY <1>2, <2>1, NowIs DEF Panel!LogOut
  <2> QED
    BY <2>2, StateParts DEF Panel!Becomes
<1> HIDE DEF cs
<1>7. k \in Nat /\ p.sessions \in Nat /\ k = p.sessions + 1 /\ native \in NativeType
  BY <1>2 DEF Weak, TypesOf, PageOk
<1> HIDE DEF k
<1>8. PageOk(q)
  BY ONLY <1>2, <1>7 DEF q, PageOk, PageFields
<1>9. /\ q.user = p.user /\ q.checked = p.checked /\ q.key = p.key /\ q.timer = p.timer
      /\ q.request = p.request /\ q.session = TRUE /\ q.attempt = p.attempt /\ q.begun = p.begun
      /\ q.gen = p.gen /\ q.sessions = k /\ q.at = p.at /\ q.state = p.state /\ q.busy = TRUE
      /\ q.active = p.active
  BY ONLY <1>2, <1>7 DEF q, PageOk, PageFields
<1>10. /\ new \in CallType /\ new.kind = "logout" /\ new.gen = k
       /\ new.answer = Panel!Unanswered /\ new.answer.at = 0
  BY <1>7, CallIs DEF Kinds
<1> HIDE DEF q, new
<1>11. \A c \in cs : c.kind # "logout" /\ ~Login(c, p) /\ (c.kind = "check" /\ ~Answered(c) => c.attempt # native.attempt)
  <2>1. \A c \in calls : c.kind # "logout" /\ (c.kind = "check" /\ ~Answered(c) => c.attempt # native.attempt)
    BY <1>1 DEF Weak, SessionInv, NativeInv, Settled
  <2>2. \A c \in bs : c.kind # "logout" /\ (c.kind = "check" /\ ~Answered(c) => c.attempt # native.attempt)
    BY <1>2, <2>1 DEF Answered, Older
  <2> QED
    BY <1>3, <1>4, <1>5, <2>2, NoAttempt DEF Answered
<1>12. TypesOf(q, ds, native)
  BY <1>4, <1>8, <1>10 DEF Weak, TypesOf
<1>13. AttemptInv(q, ds)
  BY <1>1, <1>3, <1>4, <1>9, <1>10, <1>11 DEF Weak, AttemptInv, Login
<1>14. SessionInv(q, ds, native)
  BY <1>1, <1>3, <1>4, <1>7, <1>9, <1>10, <1>11 DEF Weak, SessionInv, Session, Answered, NativeType, TypesOf, CallType
<1>15. NativeInv(q, ds, native)
  BY <1>4, <1>7, <1>9, <1>10, <1>11 DEF Weak, NativeInv, Session, SessionInv, Answered, CallType
<1>16. Open(q, ds) /\ Alive(q, ds)
  BY <1>1, <1>3, <1>4, <1>9, <1>10, <1>11 DEF Open, Alive, Login, Weak, AttemptInv
<1>17. PanelGood(q, ds, native) /\ Panel!Becomes(Panel!At(q, ds))
  BY <1>6, <1>12, <1>13, <1>14, <1>15, <1>16, StateParts DEF PanelGood, Weak, Panel!Becomes
<1> QED
  BY <1>1, <1>3, <1>6, <1>9, <1>17, Arrives DEF PageOk

LEMMA SetTimer ==
  ASSUME NEW p, NEW cs, NEW x
  PROVE  [Panel!At(p, cs) EXCEPT !.page.timer = x] = Panel!At([p EXCEPT !.timer = x], cs)
BY DEF Panel!At

LEMMA PollKeeps ==
  ASSUME PanelInv, Panel!Poll
  PROVE  PanelInv' /\ page'.at >= page.at
<1>1. /\ Weak(page, calls, native) /\ PageOk(page) /\ Alive(page, calls) /\ Open(page, calls)
      /\ native' = native /\ page.timer
  BY PanelParts DEF PanelGood, Weak, TypesOf, Panel!Poll
<1>2. /\ page.active /\ page.key /\ ~page.request /\ page.attempt # 0 /\ page.user = Nobody /\ ~page.session
      /\ \A c \in calls : ~Login(c, page)
  BY <1>1 DEF Weak, AttemptInv, Open, Login
<1> DEFINE p == [page EXCEPT !.timer = FALSE]
<1>3. PageOk(p)
  BY ONLY <1>1 DEF p, PageOk, PageFields
<1>4. /\ p.user = page.user /\ p.checked = page.checked /\ p.key = page.key /\ p.timer = FALSE
      /\ p.request = page.request /\ p.session = page.session /\ p.attempt = page.attempt
      /\ p.begun = page.begun /\ p.gen = page.gen /\ p.sessions = page.sessions /\ p.at = page.at
      /\ p.active = page.active /\ p.busy = page.busy /\ p.state = page.state
  BY ONLY <1>1 DEF p, PageOk, PageFields
<1>5. \/ Panel!Becomes(Panel!SetState(Panel!At(p, calls), "expired"))
      \/ Panel!Becomes(Panel!At([p EXCEPT !.request = TRUE],
                                  calls \cup {Panel!Call("check", page.attempt, page.gen)}))
  <2>1. [Panel!Now EXCEPT !.page.timer = FALSE] = Panel!At(p, calls)
    BY SetTimer, NowIs
  <2>2. \/ Panel!Becomes(Panel!SetState(Panel!At(p, calls), "expired"))
        \/ Panel!Becomes(Panel!At([Panel!At(p, calls).page EXCEPT !.request = TRUE],
                                   Panel!At(p, calls).calls
                                     \cup {Panel!Call("check", page.attempt, page.gen)}))
    BY <1>2, <2>1 DEF Panel!Poll
  <2> QED
    BY <2>2, StateParts
<1> HIDE DEF p
<1>6. Weak(p, calls, native)
  <2>1. TypesOf(p, calls, native)
    BY <1>1, <1>3 DEF Weak, TypesOf
  <2>2. AttemptInv(p, calls)
    BY <1>1, <1>2, <1>4 DEF Weak, AttemptInv, Login
  <2>3. SessionInv(p, calls, native)
    BY <1>1, <1>4 DEF Weak, SessionInv, Session
  <2>4. NativeInv(p, calls, native)
    BY <1>1, <1>4 DEF Weak, NativeInv, Settled, Login, Session
  <2> QED
    BY <2>1, <2>2, <2>3, <2>4 DEF Weak
<1>7. CASE Panel!Becomes(Panel!SetState(Panel!At(p, calls), "expired"))
  <2> DEFINE q == [p EXCEPT !.state = "expired"]
  <2>1. Panel!SetState(Panel!At(p, calls), "expired") = Panel!At(q, calls)
    BY DEF Panel!SetState, Panel!At
  <2>2. PageOk(q) /\ SameCore(q, p) /\ q.state = "expired" /\ q.active = p.active /\ q.busy = p.busy
    BY ONLY <1>3 DEF q, PageOk, PageFields, SameCore, Panel!States
  <2> HIDE DEF q
  <2>3. Weak(q, calls, native)
    <3>1. \A c \in calls : c.kind # "logout"
      BY <1>2, <1>4, <1>6 DEF Weak, SessionInv
    <3>2. q.user # Nobody => q.state \notin Screen
      BY <2>2 DEF Screen
    <3> QED
      BY <1>6, <2>2, <3>1, <3>2, Repaint
  <2>4. Open(q, calls) /\ Alive(q, calls)
    BY <1>2, <1>4, <2>2 DEF Open, Alive
  <2> QED
    BY <1>1, <1>4, <1>7, <2>1, <2>2, <2>3, <2>4, Arrives DEF PanelGood, SameCore, PageOk
<1>8. CASE Panel!Becomes(Panel!At([p EXCEPT !.request = TRUE],
                                    calls \cup {Panel!Call("check", page.attempt, page.gen)}))
  <2> DEFINE q == [p EXCEPT !.request = TRUE]
             new == Panel!Call("check", page.attempt, page.gen)
             ds == calls \cup {new}
  <2>2. PageOk(q)
    BY ONLY <1>3 DEF q, PageOk, PageFields
  <2>3. /\ q.user = p.user /\ q.checked = p.checked /\ q.key = p.key /\ q.timer = p.timer
        /\ q.request = TRUE /\ q.session = p.session /\ q.attempt = p.attempt
        /\ q.begun = p.begun /\ q.gen = p.gen /\ q.sessions = p.sessions /\ q.at = p.at
        /\ q.active = p.active /\ q.busy = p.busy /\ q.state = p.state
    BY ONLY <1>3 DEF q, PageOk, PageFields
  <2>4. /\ new \in CallType /\ new.kind = "check" /\ new.attempt = page.attempt /\ new.gen = page.gen
        /\ new.answer = Panel!Unanswered /\ new.answer.at = 0 /\ new.answer.what = "none"
    BY <1>1, CallIs DEF Kinds, PageOk
  <2> HIDE DEF q, new
  <2>5. TypesOf(q, ds, native)
    BY <1>6, <2>2, <2>4 DEF Weak, TypesOf
  <2>6. AttemptInv(q, ds)
    <3>1. \A c \in calls : c.kind = "key" => c.attempt # page.attempt
      BY <1>1, <1>2 DEF Weak, AttemptInv, Login
    <3>2. page.attempt \in 1..page.begun /\ page.gen <= page.gen
      BY <1>1, <1>2 DEF Weak, AttemptInv, PageOk
    <3>3. Login(new, q) /\ new.kind = "check" /\ q.key = TRUE
      BY <1>2, <1>4, <2>3, <2>4 DEF Login
    <3>4. \A c \in calls : ~Login(c, q)
      BY <1>2, <1>4, <2>3 DEF Login
    <3>5. \A c \in ds :  /\ c.kind \in {"key", "check"} => c.gen <= q.gen /\ c.attempt \in 1..q.begun
                         /\ Login(c, q) => ~q.timer /\ q.request /\ q.attempt = c.attempt
                                           /\ q.key = (c.kind = "check")
                         /\ (c.kind \in {"key", "check"} /\ c.attempt = q.attempt) => c.gen = q.gen
      <4>1. ASSUME NEW c, c \in calls
            PROVE  /\ c.kind \in {"key", "check"} => c.gen <= q.gen /\ c.attempt \in 1..q.begun
                   /\ (c.kind \in {"key", "check"} /\ c.attempt = q.attempt) => c.gen = q.gen
        <5>1. AttemptInv(p, calls) /\ p.begun = q.begun /\ p.gen = q.gen /\ p.attempt = q.attempt
          BY <1>6, <2>3 DEF Weak
        <5> QED
          BY ONLY <5>1, c \in calls DEF AttemptInv
      <4> QED
        BY <1>4, <2>3, <2>4, <3>2, <3>3, <3>4, <4>1
    <3>6. \A c, d \in ds : c.kind = "key" /\ d.kind = "check" => c.attempt # d.attempt
      BY <1>1, <2>4, <3>1 DEF Weak, AttemptInv
    <3>7. \A c, d \in ds : Login(c, q) /\ Login(d, q) => c = d
      BY <3>4
    <3> QED
      BY <1>2, <1>4, <1>6, <2>3, <3>5, <3>6, <3>7 DEF Weak, AttemptInv
  <2>7. SessionInv(q, ds, native)
    BY <1>4, <1>6, <2>3, <2>4 DEF Weak, SessionInv, Session, TypesOf, NativeType
  <2>8. NativeInv(q, ds, native)
    <3>1. ~Settled(q, ds)
      BY <1>2, <1>4, <2>3, <2>4 DEF Settled, Login
    <3> QED
      BY <1>2, <1>4, <1>6, <2>3, <2>4, <3>1 DEF Weak, NativeInv, Session
  <2>9. Open(q, ds) /\ Alive(q, ds)
    BY <1>2, <1>4, <2>3, <2>4 DEF Open, Alive, Login
  <2> QED
    <3>1. PanelGood(q, ds, native)
      BY <2>5, <2>6, <2>7, <2>8, <2>9 DEF PanelGood, Weak
    <3>2. Panel!Becomes(Panel!At(q, ds)) /\ q.at = page.at
      BY <1>4, <1>8, <2>3 DEF new, q
    <3> QED
      BY <1>1, <3>1, <3>2, Arrives DEF PageOk
<1> QED
  BY <1>5, <1>7, <1>8

\* An answer changes nothing of a request but its answer.
LEMMA AnswerKeeps ==
  ASSUME PanelInv, NEW c, c \in calls, ~Panel!Called(c), NEW x, x \in Answers, x.what # "none",
         page' = page, calls' = (calls \ {c}) \cup {[c EXCEPT !.answer = x]},
         native' \in NativeType, native.changes <= x.at, x.at <= native'.changes,
         NativeInv(page', calls', native')
  PROVE  PanelInv' /\ page'.at >= page.at
<1>1. /\ TypesOf(page, calls, native) /\ AttemptInv(page, calls) /\ SessionInv(page, calls, native)
      /\ Open(page, calls) /\ Alive(page, calls) /\ PageOk(page) /\ native \in NativeType
      /\ calls \subseteq CallType
  BY DEF PanelInv, PanelInvOf, TypesOf
<1>2. PICK d : d = [c EXCEPT !.answer = x]
  OBVIOUS
<1>3. /\ d \in CallType /\ d.kind = c.kind /\ d.attempt = c.attempt /\ d.gen = c.gen /\ d.answer = x
  BY ONLY <1>1, <1>2, c \in calls, x \in Answers DEF CallType
<1>4. PICK ds : ds = (calls \ {c}) \cup {d}
  OBVIOUS
<1>5. calls' = ds /\ \A e \in ds : e = d \/ (e \in calls /\ e # c)
  BY <1>2, <1>4
<1>6. Answered(d) /\ x.at \in Nat
  BY <1>3 DEF Answered, Panel!Unanswered, Answers
<1>7. TypesOf(page, ds, native')
  BY <1>1, <1>3, <1>5 DEF TypesOf
<1>8. AttemptInv(page, ds)
  <2>1. \A e \in ds : e \in calls \/ (e.kind = c.kind /\ e.attempt = c.attempt /\ e.gen = c.gen)
    BY <1>3, <1>5
  <2>2. \A e \in ds : /\ e.kind \in {"key", "check"} => e.gen <= page.gen /\ e.attempt \in 1..page.begun
                      /\ Login(e, page) => /\ ~page.timer /\ page.request /\ page.attempt = e.attempt
                                           /\ page.key = (e.kind = "check")
                      /\ (e.kind \in {"key", "check"} /\ e.attempt = page.attempt) => e.gen = page.gen
    BY ONLY <1>1, <2>1, c \in calls DEF AttemptInv, Login
  <2>3. \A e, f \in ds : Login(e, page) /\ Login(f, page) => e = f
    BY ONLY <1>1, <1>3, <1>5, c \in calls DEF AttemptInv, Login
  <2>4. \A e, f \in ds : e.kind = "key" /\ f.kind = "check" => e.attempt # f.attempt
    BY ONLY <1>1, <2>1, c \in calls DEF AttemptInv
  <2> QED
    BY ONLY <1>1, <2>2, <2>3, <2>4 DEF AttemptInv
<1>9. SessionInv(page, ds, native')
  <2>1. \A e \in ds : e \in calls \/ (e.kind = c.kind /\ e.gen = c.gen)
    BY <1>3, <1>5
  <2>2. \A e \in ds : /\ e.kind \in {"detail", "logout"} => e.gen <= page.sessions
                      /\ Session(e, page) => page.session
                      /\ e.kind = "logout" => Session(e, page) /\ page.busy /\ page.user # Nobody
    BY ONLY <1>1, <2>1, c \in calls DEF SessionInv, Session
  <2>3. \A e \in ds : /\ e.answer.at <= native'.changes
                      /\ Session(e, page) /\ Answered(e) => e.answer.at >= page.at
    <3>1. page.at <= native.changes /\ native.changes <= native'.changes /\ x.at >= page.at
      BY <1>1, <1>6 DEF SessionInv, NativeType, PageOk
    <3>2. ASSUME NEW e, e \in calls
          PROVE  /\ e.answer.at <= native'.changes
                 /\ Session(e, page) /\ Answered(e) => e.answer.at >= page.at
      BY <1>1, <3>1, <3>2 DEF SessionInv, NativeType, CallType, Answers
    <3> QED
      BY <1>3, <1>5, <3>1, <3>2
  <2>4. \A e, f \in ds : Session(e, page) /\ Session(f, page) => e = f
    BY ONLY <1>1, <1>3, <1>5, c \in calls DEF SessionInv, Session
  <2>5. page.at <= native'.changes
    BY <1>1, <1>6 DEF SessionInv, NativeType, PageOk
  <2> QED
    BY ONLY <2>2, <2>3, <2>4, <2>5 DEF SessionInv
<1>10. Open(page, ds)
  BY ONLY <1>1, <1>3, <1>5, c \in calls DEF Open, Login
<1>11. Alive(page, ds)
  BY ONLY <1>1, <1>3, <1>4 DEF Alive, Login
<1>12. PanelInvOf(page', calls', native')
  BY <1>5, <1>7, <1>8, <1>9, <1>10, <1>11 DEF PanelInvOf
<1>13. PanelInv'
  BY <1>12 DEF PanelInv, PanelInvOf, TypesOf, AttemptInv, Open, Alive, SessionInv,
               NativeInv, Settled, Login, Session, PageOk
<1> QED
  BY <1>1, <1>13 DEF PageOk

\* The stored session changes.
LEMMA NextChange ==
  ASSUME NEW n, n \in NativeType, NEW user, user \in Users
  PROVE  LET m == [n EXCEPT !.user = user, !.attempt = 0, !.changes = n.changes + 1]
         IN  m \in NativeType /\ m.user = user /\ m.attempt = 0 /\ m.changes = n.changes + 1
<1>1. PICK k : k = n.changes + 1
  OBVIOUS
<1>2. k \in Nat
  BY <1>1 DEF NativeType
<1> QED
  BY ONLY <1>1, <1>2, n \in NativeType, user \in Users DEF NativeType

LEMMA HandleKeeps ==
  ASSUME PanelInv, NEW c, c \in calls, Panel!Handle(c)
  PROVE  PanelInv' /\ page'.at >= page.at
<1>1. /\ TypesOf(page, calls, native) /\ AttemptInv(page, calls) /\ SessionInv(page, calls, native)
      /\ Open(page, calls) /\ Alive(page, calls) /\ PageOk(page) /\ native \in NativeType
      /\ calls \subseteq CallType /\ NativeInv(page, calls, native) /\ page' = page /\ ~Panel!Called(c)
  BY DEF PanelInv, PanelInvOf, TypesOf, Panel!Handle
<1>2. native.changes \in Nat /\ native.attempt \in Nat /\ native.user \in Users
  BY <1>1 DEF NativeType
<1> DEFINE Sees(x) == calls' = (calls \ {c}) \cup {[c EXCEPT !.answer = x]}
\* A request that fails, or a key, may leave its attempt in charge.
<1>3. ASSUME NEW x, x \in Answers, x.what \in {"failed", "key", "waiting", "scanned", "expired"},
             x.user = Nobody, x.at = native.changes, Sees(x), native' \in NativeType,
             native'.user = native.user, native'.changes = native.changes,
             native'.attempt = native.attempt \/ (c.kind = "key" /\ native'.attempt = c.attempt)
      PROVE  PanelInv' /\ page'.at >= page.at
  <2>1. PICK d : d = [c EXCEPT !.answer = x]
    OBVIOUS
  <2>2. d.kind = c.kind /\ d.attempt = c.attempt /\ d.gen = c.gen /\ d.answer = x
    BY ONLY <1>1, <2>1, c \in calls DEF CallType
  <2>3. \A e \in calls' : e = d \/ e \in calls
    BY <1>3, <2>1
  <2>4. Settled(page', calls') => Settled(page, calls)
    BY <1>1, <1>3, <2>2, <2>3 DEF Settled
  <2>5. \A e \in calls' : e.kind = "check" /\ ~Answered(e) =>
                            /\ e \in calls /\ (c.kind = "key" => e.attempt # c.attempt)
    BY <1>1, <1>3, <2>2, <2>3 DEF AttemptInv, Answered, Panel!Unanswered
  <2>6. Settled(page', calls') => \A e \in calls' : e.kind = "check" /\ ~Answered(e) => e.attempt # native'.attempt
    BY <1>1, <1>3, <2>4, <2>5 DEF NativeInv
  <2>7. \A e \in calls' : Session(e, page') /\ e.kind = "detail" /\ Answered(e) =>
                            e.answer.user = Nobody \/ e.answer.user = native'.user
    BY <1>1, <1>3, <2>2, <2>3 DEF NativeInv
  <2>8. NativeInv(page', calls', native')
    BY <1>1, <1>3, <2>6, <2>7 DEF NativeInv
  <2>9. x.what # "none" /\ native.changes <= x.at /\ x.at <= native'.changes
    BY <1>2, <1>3
  <2> QED
    BY <1>1, <1>3, <2>8, <2>9, AnswerKeeps
<1>4. ASSUME NEW what, what \in {"failed", "key", "waiting", "scanned", "expired"}
      PROVE  LET x == [what |-> what, user |-> Nobody, at |-> native.changes]
             IN  x \in Answers /\ x.what = what /\ x.user = Nobody /\ x.at = native.changes
  BY <1>2, <1>4 DEF Answers, Whats, Users
<1>5. CASE Panel!Trouble(c)
  <2>1. PICK attempt : attempt \in Nat /\ native'.attempt = attempt /\ native' \in NativeType
                       /\ (attempt = native.attempt \/ (c.kind = "key" /\ attempt = c.attempt))
                       /\ native'.user = native.user /\ native'.changes = native.changes
    <3>1. PICK attempt \in {native.attempt} \cup (IF c.kind = "key" THEN {c.attempt} ELSE {}) :
            native' = [native EXCEPT !.attempt = attempt,
                                     !.trouble = IF c.cancelled THEN @ ELSE @ + 1]
      BY <1>5 DEF Panel!Trouble
    <3>2. attempt \in Nat /\ (attempt = native.attempt \/ (c.kind = "key" /\ attempt = c.attempt))
      BY <1>1, <1>2 DEF CallType
    <3>3. PICK t : t = (IF c.cancelled THEN native.trouble ELSE native.trouble + 1)
      OBVIOUS
    <3>4. t \in Nat
      BY <1>1, <3>3 DEF NativeType
    <3> QED
      BY ONLY <1>1, <3>1, <3>2, <3>3, <3>4 DEF NativeType
  <2>2. Sees([what |-> "failed", user |-> Nobody, at |-> native.changes])
    BY <1>5 DEF Panel!Trouble, Panel!Answer
  <2> QED
    BY <1>3, <1>4, <2>1, <2>2
<1>6. CASE Panel!Publish(c)
  <2>1. /\ native' \in NativeType /\ native'.user = native.user /\ native'.changes = native.changes
        /\ c.kind = "key" /\ native'.attempt = c.attempt
    BY <1>1, <1>6 DEF Panel!Publish, NativeType, CallType
  <2>2. Sees([what |-> "key", user |-> Nobody, at |-> native.changes])
    BY <1>6 DEF Panel!Publish, Panel!Answer
  <2> QED
    BY <1>3, <1>4, <2>1, <2>2
\* The session of an attempt, or none, is stored.
<1> DEFINE Stored(user) == native' = [native EXCEPT !.user = user, !.attempt = 0, !.changes = native.changes + 1]
<1>7. ASSUME NEW x, x \in Answers, x.what # "none", native.changes <= x.at, x.at <= native.changes + 1,
              Sees(x), native' \in NativeType, native'.attempt = 0, native'.changes = native.changes + 1,
              \/ c.kind = "check" /\ c.attempt = native.attempt
              \/ c.kind = "logout" /\ native'.user = Nobody
       PROVE  PanelInv' /\ page'.at >= page.at
  <2>1. PICK d : d = [c EXCEPT !.answer = x]
    OBVIOUS
  <2>2. d.kind = c.kind /\ d.attempt = c.attempt /\ d.gen = c.gen
    BY ONLY <1>1, <2>1, c \in calls DEF CallType
  <2>3. \A e \in calls' : e = d \/ (e \in calls /\ e # c)
    BY <1>7, <2>1
  <2>4. \A e \in calls' : e.kind = "check" => e.attempt # 0
    BY <1>1, <2>2, <2>3 DEF AttemptInv
  <2>5. NativeInv(page', calls', native')
    <3>1. CASE c.kind = "check" /\ c.attempt = native.attempt
      <4>1. page.user = Nobody /\ ~page.session
        BY <1>1, <3>1 DEF NativeInv, Answered, Panel!Called, Settled
      <4>2. \A e \in calls' : ~Session(e, page)
        BY <1>1, <2>2, <2>3, <3>1, <4>1 DEF SessionInv, Session
      <4> QED
        BY <1>1, <1>7, <2>4, <4>1, <4>2 DEF NativeInv
    <3>2. CASE c.kind = "logout" /\ native'.user = Nobody
      <4>1. \A e \in calls' : ~(Session(e, page) /\ e.kind = "detail")
        BY <1>1, <2>2, <2>3, <3>2 DEF SessionInv
      <4> QED
        BY <1>1, <1>7, <2>4, <3>2, <4>1 DEF NativeInv
    <3> QED
      BY <1>7, <3>1, <3>2
  <2> QED
    BY <1>1, <1>7, <2>5, AnswerKeeps
<1>8. CASE Panel!Check(c)
  <2>1. \/ \E what \in {"failed", "waiting", "scanned", "expired"} :
             Sees([what |-> what, user |-> Nobody, at |-> native.changes]) /\ native' = native
        \/ /\ Sees([what |-> "confirmed", user |-> Nobody, at |-> native.changes]) /\ native' = native
           /\ c.kind = "check" /\ c.attempt = native.attempt
        \/ /\ c.kind = "check" /\ c.attempt = native.attempt
           /\ \E user \in Accounts :
                Sees([what |-> "confirmed", user |-> user, at |-> native.changes + 1]) /\ Stored(user)
    BY <1>8 DEF Panel!Check, Panel!Answer
  <2>2. ASSUME NEW what \in {"failed", "waiting", "scanned", "expired"}, native' = native,
               Sees([what |-> what, user |-> Nobody, at |-> native.changes])
        PROVE  PanelInv' /\ page'.at >= page.at
    BY <1>1, <1>3, <1>4, <2>2
  \* Without a token the attempt stays in charge, but no other check has it.
  <2>3. ASSUME native' = native, c.kind = "check", c.attempt = native.attempt,
               Sees([what |-> "confirmed", user |-> Nobody, at |-> native.changes])
        PROVE  PanelInv' /\ page'.at >= page.at
    <3>1. PICK x : x = [what |-> "confirmed", user |-> Nobody, at |-> native.changes]
      OBVIOUS
    <3>2. x \in Answers /\ x.what = "confirmed" /\ x.at = native.changes
      BY <1>2, <3>1 DEF Answers, Whats, Users
    <3>3. PICK d : d = [c EXCEPT !.answer = x]
      OBVIOUS
    <3>4. d.kind = c.kind /\ d.attempt = c.attempt /\ d.gen = c.gen /\ d.answer = x
      BY ONLY <1>1, <3>3, c \in calls DEF CallType
    <3>5. \A e \in calls' : e = d \/ (e \in calls /\ e # c)
      BY <2>3, <3>1, <3>3
    <3>6. ~Settled(page, calls)
      BY <1>1, <2>3 DEF NativeInv, Answered, Panel!Called
    <3>7. page.user = Nobody /\ ~page.session
      BY <3>6 DEF Settled
    <3>8. \A e \in calls' : ~Session(e, page)
      BY <1>1, <2>3, <3>4, <3>5, <3>7 DEF SessionInv, Session
    <3>9. ASSUME Settled(page, calls'), NEW e, e \in calls', e.kind = "check", ~Answered(e)
          PROVE  e.attempt # native.attempt
      <4>1. Login(d, page)
        BY <3>5, <3>6, <3>7, <3>9 DEF Settled
      <4>2. page.attempt = c.attempt /\ Login(c, page)
        BY <1>1, <3>4, <4>1 DEF AttemptInv, Login
      <4>3. e \in calls /\ e # c
        BY <3>2, <3>4, <3>5, <3>9 DEF Answered, Panel!Unanswered
      <4>4. SUFFICES ASSUME e.attempt = c.attempt PROVE FALSE
        BY <2>3
      <4>5. e.gen = page.gen
        BY <1>1, <3>9, <4>2, <4>3, <4>4 DEF AttemptInv
      <4> QED
        BY <1>1, <3>9, <4>2, <4>3, <4>5 DEF AttemptInv, Login
    <3>10. NativeInv(page', calls', native')
      BY <1>1, <2>3, <3>7, <3>8, <3>9 DEF NativeInv
    <3>11. x.what # "none" /\ native.changes <= x.at /\ x.at <= native'.changes /\ native' \in NativeType
      BY <1>1, <1>2, <2>3, <3>2
    <3> QED
      BY <1>1, <2>3, <3>1, <3>2, <3>10, <3>11, AnswerKeeps
  <2>4. ASSUME NEW user \in Accounts, c.kind = "check", c.attempt = native.attempt, Stored(user),
               Sees([what |-> "confirmed", user |-> user, at |-> native.changes + 1])
        PROVE  PanelInv' /\ page'.at >= page.at
    <3>1. PICK x : x = [what |-> "confirmed", user |-> user, at |-> native.changes + 1]
      OBVIOUS
    <3>2. x \in Answers /\ x.what # "none" /\ native.changes <= x.at /\ x.at <= native.changes + 1
      BY <1>2, <3>1 DEF Answers, Whats, Users
    <3>3. native' \in NativeType /\ native'.attempt = 0 /\ native'.changes = native.changes + 1
      BY <1>1, <1>2, <2>4, NextChange DEF Users
    <3> QED
      BY <1>7, <2>4, <3>1, <3>2, <3>3
  <2> QED
    BY <2>1, <2>2, <2>3, <2>4
<1>9. CASE Panel!Unheard(c)
  <2>1. PICK user \in Users, t \in {native.trouble, native.trouble + 1} :
          /\ native' = [native EXCEPT !.user = user, !.attempt = 0, !.changes = native.changes + 1, !.trouble = t]
          /\ t = (IF c.cancelled THEN native.trouble ELSE native.trouble + 1)
          /\ \/ c.kind = "check" /\ c.attempt = native.attempt
             \/ c.kind = "logout" /\ user = Nobody
    BY <1>9 DEF Panel!Unheard, Users
  <2>2. t \in Nat
    BY <1>1, <2>1 DEF NativeType
  <2>3. PICK n : n = native.changes + 1
    OBVIOUS
  <2>4. n \in Nat
    BY <1>2, <2>3
  <2>5. native' \in NativeType /\ native'.attempt = 0 /\ native'.changes = n /\ native'.user = user
    BY ONLY <1>1, <2>1, <2>2, <2>3, <2>4 DEF NativeType
  <2>6. PICK x : x = [what |-> "failed", user |-> Nobody, at |-> native.changes]
    OBVIOUS
  <2>7. Sees(x)
    BY <1>9, <2>6 DEF Panel!Unheard, Panel!Answer
  <2>8. x \in Answers /\ x.what # "none" /\ native.changes <= x.at /\ x.at <= native.changes + 1
    BY <1>2, <2>6 DEF Answers, Whats, Users
  <2> QED
    BY <1>7, <2>1, <2>3, <2>5, <2>7, <2>8
<1>10. CASE Panel!GiveUp(c)
  <2>1. /\ c.kind = "cancel" /\ calls' = calls \ {c} /\ native' \in NativeType
        /\ native'.user = native.user /\ native'.changes = native.changes
        /\ native'.attempt = native.attempt \/ native'.attempt = 0
    BY <1>1, <1>10 DEF Panel!GiveUp, NativeType
  <2>2. PICK ds : ds = calls'
    OBVIOUS
  <2>3. ds \subseteq calls /\ \A e \in calls : e \in ds \/ e.kind = "cancel"
    BY <2>1, <2>2
  <2>4. AttemptInv(page, ds) /\ Weak(page, ds, native)
    BY <1>1, <2>3, FewerKeep DEF Weak
  <2>5. Open(page, ds) /\ Alive(page, ds)
    BY <1>1, <2>3 DEF Open, Alive, Login
  <2>6. TypesOf(page, ds, native') /\ SessionInv(page, ds, native')
    BY <2>1, <2>4 DEF Weak, TypesOf, SessionInv
  <2>7. NativeInv(page, ds, native')
    <3>1. \A e \in ds : e.kind = "check" => e.attempt # 0
      BY <2>4 DEF AttemptInv
    <3> QED
      BY <2>1, <2>4, <3>1 DEF Weak, NativeInv
  <2>8. PanelInvOf(page', calls', native')
    BY <1>1, <2>2, <2>4, <2>5, <2>6, <2>7 DEF PanelInvOf
  <2> QED
    BY <1>1, <2>8 DEF PanelInv, PanelInvOf, TypesOf, AttemptInv, Open, Alive, SessionInv,
                      NativeInv, Settled, Login, Session, PageOk
<1>11. CASE Panel!Detail(c)
  <2>1. PICK x : x = [what |-> "account", user |-> native.user, at |-> native.changes]
    OBVIOUS
  <2>2. x \in Answers /\ x.what = "account" /\ x.user = native.user /\ x.at = native.changes
    BY <1>2, <2>1 DEF Answers, Whats
  <2>3. c.kind = "detail" /\ Sees(x) /\ native' = native
    BY <1>11, <2>1 DEF Panel!Detail, Panel!Answer
  <2>4. NativeInv(page', calls', native')
    <3>1. PICK d : d = [c EXCEPT !.answer = x]
      OBVIOUS
    <3>2. d.kind = c.kind /\ d.attempt = c.attempt /\ d.gen = c.gen /\ d.answer = x
      BY ONLY <1>1, <3>1, c \in calls DEF CallType
    <3>3. \A e \in calls' : e = d \/ e \in calls
      BY <2>3, <3>1
    <3>4. Settled(page', calls') => Settled(page, calls)
      BY <1>1, <2>3, <3>2, <3>3 DEF Settled
    <3> QED
      BY <1>1, <2>2, <2>3, <3>2, <3>3, <3>4 DEF NativeInv
  <2>5. x.what # "none" /\ native.changes <= x.at /\ x.at <= native'.changes /\ native' \in NativeType
    BY <1>1, <1>2, <2>2, <2>3
  <2> QED
    BY <1>1, <2>2, <2>3, <2>4, <2>5, AnswerKeeps
<1>12. CASE Panel!SignOut(c)
  <2>1. PICK x : x = [what |-> "account", user |-> Nobody, at |-> native.changes + 1]
    OBVIOUS
  <2>2. x \in Answers /\ x.what # "none" /\ native.changes <= x.at /\ x.at <= native.changes + 1
    BY <1>2, <2>1 DEF Answers, Whats, Users
  <2>3. c.kind = "logout" /\ Sees(x) /\ Stored(Nobody)
    BY <1>12, <2>1 DEF Panel!SignOut, Panel!Answer
  <2>4. /\ native' \in NativeType /\ native'.user = Nobody /\ native'.attempt = 0
        /\ native'.changes = native.changes + 1
    BY <1>1, <1>2, <2>3, NextChange DEF Users
  <2> QED
    BY <1>7, <2>2, <2>3, <2>4
<1> QED
  BY <1>5, <1>6, <1>8, <1>10, <1>11, <1>12, <1>9 DEF Panel!Handle

\* An answer nobody waits for is dropped.
LEMMA Dropped ==
  ASSUME PanelInv, NEW c, c \in calls, ~Login(c, page)
  PROVE  PanelGood(page, calls \ {c}, native)
<1>1. Weak(page, calls, native) /\ Open(page, calls) /\ Alive(page, calls)
  BY PanelParts DEF PanelGood
<1>2. Weak(page, calls \ {c}, native)
  BY <1>1, FewerKeep
<1> QED
  BY <1>1, <1>2 DEF PanelGood, Open, Alive

\* The request of the attempt under way comes back.
LEMMA AttemptReturns ==
  ASSUME PanelInv, NEW c, c \in calls, Login(c, page), page.active, NEW q, PageOk(q),
         q.user = page.user, q.checked = page.checked, q.session = page.session, q.active,
         q.attempt = page.attempt, q.begun = page.begun, q.gen = page.gen,
         q.sessions = page.sessions, q.at = page.at, ~q.request,
         q.timer => q.key, q.state \in Screen => q.timer
  PROVE  PanelGood(q, calls \ {c}, native)
<1> DEFINE ds == calls \ {c}
<1>1. Weak(page, calls, native) /\ Weak(page, ds, native)
  BY PanelParts, FewerKeep DEF PanelGood
<1>2. page.attempt = c.attempt /\ c.attempt # 0 /\ page.user = Nobody /\ ~page.session
  BY <1>1 DEF Weak, AttemptInv, Login, TypesOf, PageOk
<1>3. \A e \in ds : ~Login(e, page) /\ ~Login(e, q) /\ e.kind # "logout"
  BY <1>1, <1>2 DEF Weak, AttemptInv, SessionInv, Login
<1> HIDE DEF ds
<1>4. TypesOf(q, ds, native)
  BY <1>1 DEF Weak, TypesOf
<1>5. AttemptInv(q, ds)
  BY <1>1, <1>2, <1>3 DEF Weak, AttemptInv, Screen
<1>6. SessionInv(q, ds, native)
  BY <1>1, <1>3 DEF Weak, SessionInv, Session
<1>7. NativeInv(q, ds, native)
  <2>1. ~Settled(q, ds)
    BY <1>2, <1>3 DEF Settled
  <2> QED
    BY <1>1, <1>2, <2>1 DEF Weak, NativeInv, Session
<1>8. Open(q, ds) /\ Alive(q, ds)
  BY DEF Open, Alive, Screen
<1> QED
  BY <1>4, <1>5, <1>6, <1>7, <1>8 DEF PanelGood, Weak, ds

\* The request for the session comes back.
LEMMA SessionReturns ==
  ASSUME PanelInv, NEW c, c \in calls, Session(c, page), Answered(c), NEW q, PageOk(q),
         q.key = page.key, q.timer = page.timer, q.request = page.request,
         q.attempt = page.attempt, q.begun = page.begun, q.gen = page.gen, q.active = page.active,
         q.sessions = page.sessions, q.checked, ~q.session,
         q.state = page.state \/ q.state \notin Screen,
         (q.user = page.user /\ q.at = page.at) \/ (q.user = Nobody /\ q.at = c.answer.at)
  PROVE  /\ PanelGood(q, calls \ {c}, native) /\ q.at >= page.at
         /\ NoLive(calls, native) /\ page.attempt = 0 /\ q.state \notin Screen
         /\ c.answer.at >= page.at /\ c.answer.at <= native.changes
         /\ \A e \in calls \ {c} : ~Session(e, page) /\ e.kind # "logout"
<1> DEFINE ds == calls \ {c}
<1>1. /\ Weak(page, calls, native) /\ Weak(page, ds, native) /\ Open(page, calls) /\ Alive(page, calls)
      /\ PageOk(page)
  BY PanelParts, FewerKeep DEF PanelGood, Weak, TypesOf
<1>2. page.session /\ page.attempt = 0 /\ c.answer.at >= page.at /\ c.answer.at <= native.changes
  BY <1>1 DEF Weak, AttemptInv, SessionInv
<1>3. ~page.timer /\ ~page.key /\ \A e \in calls : ~Login(e, page)
  BY <1>1, <1>2, NoAttempt
<1>4. \A e \in ds : ~Session(e, page) /\ e.kind # "logout"
  BY <1>1 DEF Weak, SessionInv, Session
<1>5. page.state \notin Screen /\ q.state \notin Screen
  BY <1>1, <1>3 DEF Alive, Screen
<1>6. NoLive(calls, native)
  BY <1>1, <1>2 DEF Weak, NativeInv, Settled, NoLive
<1>7. \A e \in ds : ~Login(e, q) /\ ~Session(e, q) /\ e \in calls
  BY <1>3, <1>4 DEF Login, Session
<1> HIDE DEF ds
<1>8. TypesOf(q, ds, native)
  BY <1>1 DEF Weak, TypesOf
<1>9. AttemptInv(q, ds)
  BY <1>1, <1>2, <1>3, <1>5, <1>7 DEF Weak, AttemptInv, Screen
<1>10. SessionInv(q, ds, native)
  BY <1>1, <1>2, <1>4, <1>7 DEF Weak, SessionInv, Session
<1>11. NativeInv(q, ds, native)
  BY <1>1, <1>6, <1>7 DEF Weak, NativeInv, NoLive
<1>12. Open(q, ds) /\ Alive(q, ds)
  BY <1>3, <1>5, <1>7 DEF Open, Alive, Screen
<1>13. q.at >= page.at
  BY <1>1, <1>2 DEF PageOk
<1> QED
  BY <1>2, <1>4, <1>5, <1>6, <1>8, <1>9, <1>10, <1>11, <1>12, <1>13 DEF PanelGood, Weak, ds

LEMMA HearKeyKeeps ==
  ASSUME PanelInv, NEW c, c \in calls, Panel!HearKey(c), native' = native
  PROVE  PanelInv' /\ page'.at >= page.at
<1> DEFINE rest == calls \ {c}
           p == [page EXCEPT !.request = FALSE, !.busy = FALSE]
           q1 == [p EXCEPT !.state = "error"]
           q2 == [p EXCEPT !.key = TRUE, !.timer = TRUE, !.state = "waiting"]
<1>1. Weak(page, calls, native) /\ PageOk(page) /\ Open(page, calls) /\ c.kind = "key"
  BY PanelParts DEF PanelGood, Weak, TypesOf, Panel!HearKey
<1>2. page.at >= page.at
  BY <1>1 DEF PageOk
<1>3. CASE c.gen # page.gen \/ ~page.active
  <2>1. ~Login(c, page)
    BY <1>1, <1>3 DEF Open, Login
  <2>2. Panel!Becomes(Panel!At(page, rest))
    BY <1>3 DEF Panel!HearKey
  <2> QED
    BY <1>2, <2>1, <2>2, Dropped, Arrives
<1>4. CASE ~(c.gen # page.gen \/ ~page.active)
  <2>1. Login(c, page) /\ page.active
    BY <1>1, <1>4 DEF Login
  <2>2. PageOk(p)
    BY ONLY <1>1 DEF PageOk, PageFields
  <2>3. /\ PageOk(q1) /\ q1.state = "error" /\ ~q1.request /\ q1.timer = page.timer /\ q1.key = page.key
        /\ q1.user = page.user /\ q1.checked = page.checked /\ q1.session = page.session
        /\ q1.active = page.active /\ q1.attempt = page.attempt /\ q1.begun = page.begun
        /\ q1.gen = page.gen /\ q1.sessions = page.sessions /\ q1.at = page.at
    BY ONLY <1>1, <2>2 DEF PageOk, PageFields, Panel!States
  <2>4. /\ PageOk(q2) /\ q2.timer /\ ~q2.request /\ q2.key
        /\ q2.user = page.user /\ q2.checked = page.checked /\ q2.session = page.session
        /\ q2.active = page.active /\ q2.attempt = page.attempt /\ q2.begun = page.begun
        /\ q2.gen = page.gen /\ q2.sessions = page.sessions /\ q2.at = page.at
    BY ONLY <1>1, <2>2 DEF PageOk, PageFields, Panel!States
  <2>5. Panel!Becomes(Panel!At(q1, rest)) \/ Panel!Becomes(Panel!At(q2, rest))
    BY <1>4 DEF Panel!HearKey
  <2> HIDE DEF q1, q2, p
  <2>6. PanelGood(q1, rest, native)
    <3>1. ~page.timer
      BY <1>1, <2>1 DEF Weak, AttemptInv
    <3> QED
      BY <2>1, <2>3, <3>1, AttemptReturns DEF Screen
  <2>7. PanelGood(q2, rest, native)
    BY <2>1, <2>4, AttemptReturns DEF Screen
  <2> QED
    BY <1>2, <2>3, <2>4, <2>5, <2>6, <2>7, Arrives
<1> QED
  BY <1>3, <1>4

\* What a check that counts may leave of the page.
Polled(q) ==
  /\ q.user = page.user /\ q.checked = page.checked /\ q.session = page.session
  /\ q.active = page.active /\ q.attempt = page.attempt /\ q.begun = page.begun /\ q.key = page.key
  /\ q.gen = page.gen /\ q.sessions = page.sessions /\ q.at = page.at /\ ~q.request

LEMMA HearCheckKeeps ==
  ASSUME PanelInv, NEW c, c \in calls, Panel!HearCheck(c), native' = native
  PROVE  PanelInv' /\ page'.at >= page.at
<1> DEFINE rest == calls \ {c}
           p == [page EXCEPT !.request = FALSE]
           n == page.failures + 1
           q == [p EXCEPT !.attempt = 0, !.key = FALSE, !.failures = 0, !.state = "success"]
<1>1. /\ Weak(page, calls, native) /\ Weak(page, rest, native) /\ PageOk(page) /\ Open(page, calls)
      /\ c.kind = "check" /\ c.answer.what \in Whats
  <2>1. calls \subseteq CallType
    BY DEF PanelInv, PanelInvOf, TypesOf
  <2> QED
    BY <2>1, PanelParts, FewerKeep DEF PanelGood, Weak, TypesOf, Panel!HearCheck, CallType, Answers
<1>2. page.at >= page.at /\ page.failures + 1 \in Int
  BY <1>1 DEF PageOk
<1>3. CASE c.gen # page.gen \/ ~page.active
  <2>1. ~Login(c, page)
    BY <1>1, <1>3 DEF Open, Login
  <2>2. Panel!Becomes(Panel!At(page, rest))
    BY <1>3 DEF Panel!HearCheck
  <2> QED
    BY <1>2, <2>1, <2>2, Dropped, Arrives
<1>4. CASE ~(c.gen # page.gen \/ ~page.active)
  <2>1. Login(c, page) /\ page.active
    BY <1>1, <1>4 DEF Login
  <2>2. /\ page.key /\ ~page.timer /\ page.attempt = c.attempt /\ c.attempt # 0 /\ page.user = Nobody
        /\ ~page.session
    BY <1>1, <2>1 DEF Weak, AttemptInv, Login, PageOk
  <2>3. PageOk(p) /\ Polled(p) /\ p.timer = page.timer /\ p.state = page.state
    BY ONLY <1>1 DEF PageOk, PageFields, Polled
  <2>4. ASSUME NEW r, PageOk(r), Polled(r), r.timer \/ (~r.timer /\ r.state \notin Screen),
               Panel!Becomes(Panel!At(r, rest))
        PROVE  PanelInv' /\ page'.at >= page.at
    <3>1. PanelGood(r, rest, native)
      BY <2>1, <2>2, <2>4, AttemptReturns DEF Polled
    <3> QED
      BY <1>2, <2>4, <3>1, Arrives DEF Polled
  <2>6. CASE c.answer.what = "confirmed"
    <3>1. Panel!Becomes(Panel!RefreshSession(Panel!At(q, rest)))
      BY <1>4, <2>6 DEF Panel!HearCheck
    <3>2. /\ PageOk(q) /\ q.user = page.user /\ q.checked = page.checked /\ q.session = page.session
          /\ q.active = page.active /\ q.attempt = 0 /\ q.begun = page.begun /\ ~q.key
          /\ q.gen = page.gen /\ q.sessions = page.sessions /\ q.at = page.at /\ q.state = "success"
          /\ q.timer = page.timer
      BY ONLY <1>1, <2>3 DEF PageOk, PageFields, Panel!States, Polled
    <3> HIDE DEF q, p
    <3>3. \A e \in rest : /\ ~Login(e, page) /\ ~Login(e, q) /\ e.kind # "logout"
                          /\ e.kind = "key" => e.attempt # 0
      <4>1. \A e \in rest : ~Login(e, page) /\ ~Login(e, q)
        BY <1>1, <2>1, <3>2 DEF Weak, AttemptInv, Login
      <4>2. \A e \in rest : e.kind # "logout"
        BY <1>1, <2>2 DEF Weak, SessionInv
      <4>3. \A e \in rest : e.kind = "key" => e.attempt # 0
        BY <1>1 DEF Weak, AttemptInv, PageOk
      <4> QED
        BY <4>1, <4>2, <4>3
    <3>4. NoLive(rest, native)
      BY <1>1, <2>1, <2>6 DEF Weak, NativeInv, Settled, NoLive
    <3> HIDE DEF rest
    <3>5. TypesOf(q, rest, native)
      BY <1>1, <3>2 DEF Weak, TypesOf
    <3>6. AttemptInv(q, rest)
      <4>1. \A e \in rest : /\ e.kind \in {"key", "check"} => e.gen <= q.gen /\ e.attempt \in 1..q.begun
                            /\ (e.kind \in {"key", "check"} /\ e.attempt = q.attempt) => e.gen = q.gen
        BY <1>1, <3>2, <3>3 DEF Weak, AttemptInv
      <4>2. \A e, d \in rest : e.kind = "key" /\ d.kind = "check" => e.attempt # d.attempt
        BY <1>1 DEF Weak, AttemptInv
      <4>3. ~q.timer /\ ~q.key /\ q.attempt <= q.begun /\ q.user = Nobody
        BY <1>1, <2>2, <3>2 DEF PageOk
      <4>4. q.checked \/ q.session
        BY <1>1, <3>2 DEF Weak, AttemptInv
      <4> QED
        BY <3>2, <3>3, <4>1, <4>2, <4>3, <4>4 DEF AttemptInv
    <3>7. SessionInv(q, rest, native)
      BY <1>1, <3>2, <3>3 DEF Weak, SessionInv, Session
    <3>8. NativeInv(q, rest, native)
      BY <1>1, <3>2, <3>4 DEF Weak, NativeInv, NoLive, Session
    <3>9. Weak(q, rest, native)
      BY <3>5, <3>6, <3>7, <3>8 DEF Weak
    <3>10. PICK r, ds : /\ Panel!RefreshSession(Panel!At(q, rest)) = Panel!At(r, ds)
                        /\ Weak(r, ds, native) /\ Open(r, ds) /\ Alive(r, ds)
                        /\ r.at = q.at /\ r.user = q.user
      BY <3>2, <3>3, <3>4, <3>9, RefreshKeeps
    <3> QED
      BY <1>2, <3>1, <3>2, <3>10, Arrives DEF PanelGood
  <2>7. CASE c.answer.what = "failed" /\ n = Failures
    <3>1. PICK r : r = [p EXCEPT !.failures = n, !.state = "error"]
      OBVIOUS
    <3>2. Panel!Becomes(Panel!At(r, rest))
      BY <1>4, <2>7, <3>1 DEF Panel!HearCheck
    <3>3. PageOk(r) /\ Polled(r) /\ r.timer = p.timer /\ r.state \notin Screen
      BY ONLY <1>2, <2>3, <3>1 DEF PageOk, PageFields, Polled, Panel!States, Screen, n
    <3> QED
      BY <2>2, <2>3, <2>4, <3>2, <3>3
  <2>8. CASE c.answer.what = "failed" /\ n # Failures
    <3>1. PICK r : r = [p EXCEPT !.failures = n, !.timer = TRUE]
      OBVIOUS
    <3>2. Panel!Becomes(Panel!At(r, rest))
      BY <1>4, <2>8, <3>1 DEF Panel!HearCheck
    <3>3. PageOk(r) /\ Polled(r) /\ r.timer
      BY ONLY <1>2, <2>3, <3>1 DEF PageOk, PageFields, Polled, Panel!States, Screen, n
    <3> QED
      BY <2>2, <2>3, <2>4, <3>2, <3>3
  <2>9. CASE c.answer.what = "expired"
    <3>1. PICK r : r = [p EXCEPT !.failures = 0, !.state = "expired"]
      OBVIOUS
    <3>2. Panel!Becomes(Panel!At(r, rest))
      BY <1>4, <2>9, <3>1 DEF Panel!HearCheck
    <3>3. PageOk(r) /\ Polled(r) /\ r.timer = p.timer /\ r.state \notin Screen
      BY ONLY <1>2, <2>3, <3>1 DEF PageOk, PageFields, Polled, Panel!States, Screen, n
    <3> QED
      BY <2>2, <2>3, <2>4, <3>2, <3>3
  <2>10. CASE c.answer.what \notin {"failed", "confirmed", "expired"}
    <3>1. PICK r : r = [p EXCEPT !.failures = 0, !.timer = TRUE, !.state = c.answer.what]
      OBVIOUS
    <3>2. Panel!Becomes(Panel!At(r, rest))
      BY <1>4, <2>10, <3>1 DEF Panel!HearCheck
    <3>3. PageOk(r) /\ Polled(r) /\ r.timer
      BY ONLY <1>1, <1>2, <2>3, <3>1 DEF PageOk, PageFields, Polled, Panel!States, Screen, n
    <3> QED
      BY <2>2, <2>3, <2>4, <3>2, <3>3
  <2> QED
    BY <2>6, <2>7, <2>8, <2>9, <2>10
<1> QED
  BY <1>3, <1>4

LEMMA HearLogOutKeeps ==
  ASSUME PanelInv, NEW c, c \in calls, Panel!Called(c), Panel!HearLogOut(c), native' = native
  PROVE  PanelInv' /\ page'.at >= page.at
<1> DEFINE rest == calls \ {c}
           p == [page EXCEPT !.session = FALSE, !.busy = FALSE]
<1>1. /\ Weak(page, calls, native) /\ PageOk(page) /\ c.kind = "logout" /\ Answered(c)
      /\ c.answer.at \in Nat
  <2>1. calls \subseteq CallType
    BY DEF PanelInv, PanelInvOf, TypesOf
  <2> QED
    BY <2>1, PanelParts DEF PanelGood, Weak, TypesOf, Panel!HearLogOut, Panel!Called, Answered,
                            CallType, Answers
<1>2. Session(c, page) /\ page.user # Nobody /\ page.checked
  BY <1>1 DEF Weak, SessionInv, AttemptInv
<1>3. /\ PageOk(p) /\ p.key = page.key /\ p.timer = page.timer /\ p.request = page.request
      /\ p.attempt = page.attempt /\ p.begun = page.begun /\ p.gen = page.gen /\ p.active = page.active
      /\ p.sessions = page.sessions /\ p.checked = page.checked /\ ~p.session /\ p.user = page.user
      /\ p.at = page.at
  BY ONLY <1>1 DEF PageOk, PageFields
<1>4. CASE c.answer.what = "failed"
  <2>1. PICK q : q = [p EXCEPT !.state = "error"]
    OBVIOUS
  <2>2. Panel!Becomes(Panel!At(q, rest))
    BY <1>2, <1>4, <2>1 DEF Panel!HearLogOut, Session
  <2>3. /\ PageOk(q) /\ q.key = p.key /\ q.timer = p.timer /\ q.request = p.request
        /\ q.attempt = p.attempt /\ q.begun = p.begun /\ q.gen = p.gen /\ q.active = p.active
        /\ q.sessions = p.sessions /\ q.checked = p.checked /\ q.session = p.session /\ q.user = p.user
        /\ q.at = p.at /\ q.state = "error"
    BY ONLY <1>3, <2>1 DEF PageOk, PageFields, Panel!States
  <2>4. PanelGood(q, rest, native) /\ q.at >= page.at
    BY <1>1, <1>2, <1>3, <2>3, SessionReturns DEF Screen
  <2> QED
    BY <2>2, <2>4, Arrives
<1>5. CASE c.answer.what # "failed"
  <2>1. PICK q : q = [p EXCEPT !.state = "idle", !.user = Nobody, !.at = c.answer.at]
    OBVIOUS
  <2>2. Panel!Becomes(Panel!At(q, rest))
    BY <1>2, <1>5, <2>1 DEF Panel!HearLogOut, Session
  <2>3. /\ PageOk(q) /\ q.key = p.key /\ q.timer = p.timer /\ q.request = p.request
        /\ q.attempt = p.attempt /\ q.begun = p.begun /\ q.gen = p.gen /\ q.active = p.active
        /\ q.sessions = p.sessions /\ q.checked = p.checked /\ q.session = p.session /\ q.user = Nobody
        /\ q.at = c.answer.at /\ q.state = "idle"
    BY ONLY <1>1, <1>3, <2>1 DEF PageOk, PageFields, Panel!States, Users
  <2>4. /\ PageOk(q) /\ q.key = page.key /\ q.timer = page.timer /\ q.request = page.request
        /\ q.attempt = page.attempt /\ q.begun = page.begun /\ q.gen = page.gen /\ q.active = page.active
        /\ q.sessions = page.sessions /\ q.checked /\ ~q.session /\ q.state \notin Screen
        /\ q.user = Nobody /\ q.at = c.answer.at
    BY ONLY <1>2, <1>3, <2>3 DEF Screen
  <2>5. PanelGood(q, rest, native) /\ q.at >= page.at
    BY ONLY PanelInv, c \in calls, <1>1, <1>2, <2>4, SessionReturns
  <2> QED
    BY <2>2, <2>5, Arrives
<1> QED
  BY <1>4, <1>5

LEMMA HearDetailKeeps ==
  ASSUME PanelInv, NEW c, c \in calls, Panel!Called(c), Panel!HearDetail(c), native' = native
  PROVE  PanelInv' /\ page'.at >= page.at
<1> DEFINE rest == calls \ {c}
           p == [page EXCEPT !.session = FALSE, !.checked = TRUE, !.busy = FALSE]
           out == [p EXCEPT !.user = Nobody, !.at = c.answer.at]
           left == Panel!AbandonAttempt(Panel!At(p, rest))
           at == c.answer.at
           user == c.answer.user
<1>1. /\ Weak(page, calls, native) /\ PageOk(page) /\ c.kind = "detail" /\ Answered(c)
      /\ at \in Nat /\ user \in Users
  <2>1. calls \subseteq CallType
    BY DEF PanelInv, PanelInvOf, TypesOf
  <2> QED
    BY <2>1, PanelParts DEF PanelGood, Weak, TypesOf, Panel!HearDetail, Panel!Called, Answered,
                            CallType, Answers
<1>2. page.at >= page.at
  BY <1>1 DEF PageOk
<1>3. CASE c.gen # page.sessions
  <2>1. ~Login(c, page)
    BY <1>1 DEF Login
  <2>2. Panel!Becomes(Panel!At(page, rest))
    BY <1>3 DEF Panel!HearDetail
  <2> QED
    BY <1>2, <2>1, <2>2, Dropped, Arrives
<1>4. CASE c.gen = page.sessions
  <2>1. Session(c, page)
    BY <1>1, <1>4 DEF Session
  <2>2. /\ PageOk(p) /\ p.key = page.key /\ p.timer = page.timer /\ p.request = page.request
        /\ p.attempt = page.attempt /\ p.begun = page.begun /\ p.gen = page.gen /\ p.active = page.active
        /\ p.sessions = page.sessions /\ p.checked = TRUE /\ p.session = FALSE /\ p.user = page.user
        /\ p.at = page.at /\ p.state = page.state
    BY ONLY <1>1 DEF PageOk, PageFields
  <2>3. /\ PanelGood(p, rest, native) /\ p.state \notin Screen /\ page.attempt = 0
        /\ NoLive(calls, native) /\ at >= page.at /\ at <= native.changes
        /\ \A e \in rest : e \in calls /\ ~Session(e, page) /\ e.kind # "logout"
    BY <1>1, <2>1, <2>2, SessionReturns
  <2>4. CASE c.answer.what = "failed"
    <3>1. PICK q : q = [p EXCEPT !.state = "error"]
      OBVIOUS
    <3>2. Panel!Becomes(Panel!At(q, rest))
      BY <1>4, <2>4, <3>1 DEF Panel!HearDetail
    <3>3. /\ PageOk(q) /\ q.key = p.key /\ q.timer = p.timer /\ q.request = p.request
          /\ q.attempt = p.attempt /\ q.begun = p.begun /\ q.gen = p.gen /\ q.active = p.active
          /\ q.sessions = p.sessions /\ q.checked = p.checked /\ q.session = p.session /\ q.user = p.user
          /\ q.at = p.at /\ q.state = "error"
      BY ONLY <2>2, <3>1 DEF PageOk, PageFields, Panel!States
    <3>4. PanelGood(q, rest, native) /\ q.at >= page.at
      BY <1>1, <2>1, <2>2, <3>3, SessionReturns DEF Screen
    <3> QED
      BY <3>2, <3>4, Arrives
  <2>5. CASE c.answer.what # "failed" /\ user # Nobody
    <3>1. Panel!Becomes(Panel!At([left.page EXCEPT !.user = user, !.at = at, !.state = "success"], left.calls))
      BY <1>4, <2>5 DEF Panel!HearDetail
    <3>2. PICK q, ds : /\ left = Panel!At(q, ds)
                       /\ q = [p EXCEPT !.gen = p.gen + 1, !.timer = FALSE, !.request = FALSE,
                                        !.key = FALSE, !.attempt = 0]
                       /\ Weak(q, ds, native) /\ PageOk(q) /\ Open(q, ds)
                       /\ \A d \in ds : ~Login(d, q)
                       /\ Older(ds, rest)
      BY <2>3, AbandonKeeps DEF PanelGood
    <3> HIDE DEF left, rest, out
    <3>3. /\ PageOk(q) /\ q.user = p.user /\ q.checked = TRUE /\ q.session = FALSE /\ q.at = p.at
          /\ ~q.timer /\ ~q.key /\ q.attempt = 0
      BY ONLY <2>2, <3>2 DEF PageOk, PageFields
    <3>4. PICK r : r = [q EXCEPT !.user = user, !.at = at, !.state = "success"]
      OBVIOUS
    <3>5. Panel!Becomes(Panel!At(r, ds))
      <4>1. left.page = q /\ left.calls = ds
        BY <3>2, StateParts
      <4> QED
        BY <3>1, <3>4, <4>1
    <3>6. /\ PageOk(r) /\ r.user = user /\ r.at = at /\ r.state = "success"
          /\ r.checked = q.checked /\ r.key = q.key /\ r.timer = q.timer /\ r.request = q.request
          /\ r.session = q.session /\ r.attempt = q.attempt /\ r.begun = q.begun
          /\ r.gen = q.gen /\ r.sessions = q.sessions /\ r.active = q.active /\ r.busy = q.busy
      BY ONLY <1>1, <3>3, <3>4 DEF PageOk, PageFields, Panel!States
    <3>8. /\ \A d \in ds : d.kind # "logout" /\ ~Session(d, q)
          /\ NoLive(ds, native)
      <4>1. \A d \in ds : d.kind # "logout"
        BY <2>3, <3>2 DEF Older
      <4>2. \A d \in ds : ~Session(d, q)
        BY <3>2, <3>3 DEF Weak, SessionInv
      <4>3. NoLive(ds, native)
        BY <2>3, <3>2 DEF Older, NoLive, Answered
      <4> QED
        BY <4>1, <4>2, <4>3
    <3> HIDE DEF p
    <3>9. TypesOf(r, ds, native) /\ AttemptInv(r, ds)
      <4>1. TypesOf(r, ds, native)
        BY <3>2, <3>6 DEF Weak, TypesOf
      <4>2. \A d \in ds : ~Login(d, r)
        BY <3>2, <3>6 DEF Login
      <4> QED
        BY <3>2, <3>3, <3>6, <4>1, <4>2 DEF Weak, AttemptInv
    <3>10. SessionInv(r, ds, native)
      <4>1. \A d \in ds : ~Session(d, r) /\ d.kind # "logout"
        BY <3>6, <3>8 DEF Session
      <4> QED
        BY <2>3, <3>2, <3>6, <4>1 DEF Weak, SessionInv
    <3>11. NativeInv(r, ds, native)
      <4>1. \A d \in ds : ~Session(d, r)
        BY <3>6, <3>8 DEF Session
      <4>2. native.user = user
        BY <1>1, <2>1, <2>5 DEF Weak, NativeInv
      <4> QED
        BY <3>6, <3>8, <4>1, <4>2 DEF NativeInv, NoLive
    <3>12. Open(r, ds) /\ Alive(r, ds)
      BY <3>2, <3>3, <3>6 DEF Open, Alive, Login
    <3> QED
      BY <2>3, <3>5, <3>6, <3>9, <3>10, <3>11, <3>12, Arrives DEF PanelGood, Weak
  <2>6. CASE c.answer.what # "failed" /\ user = Nobody
    <3>1. Panel!Becomes(Panel!At(out, rest)) \/ Panel!Becomes(Panel!BeginLogin(Panel!At(out, rest)))
      BY <1>4, <2>6 DEF Panel!HearDetail
    <3>2. /\ PageOk(out) /\ out.key = p.key /\ out.timer = p.timer /\ out.request = p.request
          /\ out.attempt = p.attempt /\ out.begun = p.begun /\ out.gen = p.gen /\ out.active = p.active
          /\ out.sessions = p.sessions /\ out.checked = p.checked /\ out.session = p.session
          /\ out.user = Nobody /\ out.at = at /\ out.state = p.state
      BY ONLY <1>1, <2>2 DEF PageOk, PageFields, Users
    <3> HIDE DEF out, p
    <3>3. PanelGood(out, rest, native) /\ out.at >= page.at
      BY <1>1, <2>1, <2>2, <3>2, SessionReturns
    <3>4. CASE Panel!Becomes(Panel!At(out, rest))
      BY <3>3, <3>4, Arrives
    <3>5. CASE Panel!Becomes(Panel!BeginLogin(Panel!At(out, rest)))
      <4>1. PICK q, ds : /\ Panel!BeginLogin(Panel!At(out, rest)) = Panel!At(q, ds)
                         /\ PanelGood(q, ds, native) /\ q.at = out.at
        BY <3>3, BeginKeeps DEF PanelGood
      <4> QED
        BY <3>3, <3>5, <4>1, Arrives
    <3> QED
      BY <3>1, <3>4, <3>5
  <2> QED
    BY <2>4, <2>5, <2>6
<1> QED
  BY <1>3, <1>4

\* Every step of the account panel keeps the invariant, and shows no older session.
LEMMA AccountKeeps ==
  ASSUME PanelInv, Panel!AccountNext
  PROVE  PanelInv' /\ page'.at >= page.at
<1>1. ASSUME NEW c, c \in calls, Panel!Hear(c)
      PROVE  PanelInv' /\ page'.at >= page.at
  BY <1>1, HearKeyKeeps, HearCheckKeeps, HearDetailKeeps, HearLogOutKeeps DEF Panel!Hear
<1> QED
  BY <1>1, ActivateKeeps, DeactivateKeeps, PressesKeep, LogOutKeeps, PollKeeps, HandleKeeps DEF Panel!AccountNext

LEMMA PanelStands ==
  ASSUME PanelInv, UNCHANGED accountVars
  PROVE  PanelInv' /\ page'.at >= page.at
<1>1. page' = page /\ calls' = calls /\ native' = native
  BY DEF accountVars
<1>2. PanelInv'
  BY <1>1 DEF PanelInv, PanelInvOf, TypesOf, AttemptInv, Open, Alive, SessionInv, NativeInv, Settled,
              Login, Session, PageOk
<1> QED
  BY <1>1, <1>2 DEF PanelInv, PanelInvOf, TypesOf, PageOk

LEMMA PanelBegins ==
  ASSUME NEW begun, begun \in Nat, NEW trouble, trouble \in Nat, Panel!AccountInit(begun, trouble)
  PROVE  PanelInv /\ page.user = Nobody
<1> DEFINE blank == [user |-> Nobody, state |-> "idle", active |-> FALSE, busy |-> FALSE,
                     checked |-> FALSE, key |-> FALSE, timer |-> FALSE,
                     request |-> FALSE, session |-> FALSE, attempt |-> 0, begun |-> begun,
                     failures |-> 0, gen |-> 0, sessions |-> 0, at |-> 0]
           q == [blank EXCEPT !.sessions = 1, !.session = TRUE]
           new == Panel!Call("detail", 0, 1)
<1>1. /\ page = Panel!RefreshSession(Panel!At(blank, {})).page
      /\ calls = Panel!RefreshSession(Panel!At(blank, {})).calls
      /\ native \in NativeType /\ native.changes = 0 /\ native.attempt = 0
  BY DEF Panel!AccountInit, Panel!At, NativeType, Users
<1>2. Panel!RefreshSession(Panel!At(blank, {})) = Panel!At(q, {new})
  <2>1. Panel!Cancel(Panel!At(blank, {}), Panel!SessionKinds) = Panel!At(blank, {})
    <3>1. MarkAll({}, Panel!SessionKinds) = {}
      BY DEF MarkAll
    <3> QED
      BY <3>1, CancelMarks
  <2>2. blank.sessions = 0
    OBVIOUS
  <2> HIDE DEF blank
  <2>3. Panel!RefreshSession(Panel!At(blank, {})) =
          Panel!At([blank EXCEPT !.sessions = blank.sessions + 1, !.session = TRUE],
                   {} \cup {Panel!Call("detail", 0, blank.sessions + 1)})
    <3>1. Panel!RefreshSession(Panel!At(blank, {})) =
            [page  |-> [Panel!At(blank, {}).page EXCEPT !.sessions = Panel!At(blank, {}).page.sessions + 1,
                                                        !.session = TRUE],
             calls |-> Panel!At(blank, {}).calls
                         \cup {Panel!Call("detail", 0, Panel!At(blank, {}).page.sessions + 1)}]
      BY <2>1 DEF Panel!RefreshSession
    <3> QED
      BY <3>1, StateParts DEF Panel!At
  <2>4. blank.sessions + 1 = 1 /\ {} \cup {new} = {new}
    BY <2>2
  <2> HIDE DEF new
  <2> QED
    BY <2>3, <2>4 DEF new
<1>3. page = q /\ calls = {new}
  <2>1. Panel!At(q, {new}).page = q /\ Panel!At(q, {new}).calls = {new}
    BY StateParts
  <2> HIDE DEF q, new, blank
  <2> QED
    BY <1>1, <1>2, <2>1
<1>4. PageOk(blank)
  BY DEF PageOk, PageFields, Users, Panel!States
<1>5. /\ PageOk(q) /\ q.user = Nobody /\ q.state = "idle" /\ ~q.active /\ ~q.checked /\ ~q.key
      /\ ~q.timer /\ q.session /\ q.attempt = 0 /\ q.begun = begun /\ q.sessions = 1 /\ q.gen = 0 /\ q.at = 0
  BY <1>4 DEF PageOk, PageFields
<1>6. /\ new \in CallType /\ new.kind = "detail" /\ new.gen = 1
      /\ new.answer = Panel!Unanswered /\ new.answer.at = 0 /\ new.answer.what = "none"
  BY CallIs DEF Kinds
<1> HIDE DEF q, new, blank
<1>7. TypesOf(page, calls, native)
  BY <1>1, <1>3, <1>5, <1>6 DEF TypesOf
<1>8. AttemptInv(page, calls)
  BY <1>3, <1>5, <1>6 DEF AttemptInv, Login
<1>9. Open(page, calls) /\ Alive(page, calls)
  BY <1>3, <1>5, <1>6 DEF Open, Alive, Login
<1>10. SessionInv(page, calls, native)
  BY <1>1, <1>3, <1>5, <1>6 DEF SessionInv, Session, Answered
<1>11. NativeInv(page, calls, native)
  BY <1>1, <1>3, <1>5, <1>6 DEF NativeInv, Session, Answered
<1> QED
  BY <1>3, <1>5, <1>7, <1>8, <1>9, <1>10, <1>11 DEF PanelInv, PanelInvOf

-----------------------------------------------------------------------------
(* Vip                                                                       *)

VipFields == {"account", "tier", "premium", "listen", "authoritative", "busy", "loading", "cancelled",
              "attempts", "stage", "timer", "claiming", "gen", "dgen", "asked", "told", "judged", "of", "at"}
AskFields == {"kind", "route", "gen", "dgen", "at", "cancelled", "done", "answer"}
VipOk(v) == /\ DOMAIN v = VipFields
            /\ v.account \in Users
            /\ v.gen \in Nat /\ v.dgen \in Nat /\ v.asked \in Nat /\ v.judged \in Nat /\ v.at \in Nat
AskOk(x) == /\ DOMAIN x = AskFields
            /\ x.kind \in {"detail", "claim", "confirm", "ad"}
            /\ x.gen \in Nat /\ x.dgen \in Nat /\ x.at \in Nat
VipTypes(v, xs) == VipOk(v) /\ \A x \in xs : AskOk(x)

\* The requests of the panel that count: the refresh under way and the step of the claim.
Refreshing(x, v) == x.kind = "detail" /\ x.gen = v.gen /\ x.dgen = v.dgen
Step(x, v)       == x.kind \in {"claim", "confirm", "ad"} /\ x.gen = v.gen
Counts(x, v)     == Refreshing(x, v) \/ Step(x, v)

ClaimInv(v, xs) ==
  /\ \A x \in xs : /\ x.gen <= v.gen /\ x.dgen <= v.dgen /\ x.at <= v.asked
                   /\ Counts(x, v) => v.account # Nobody /\ v.at < x.at
                   /\ Refreshing(x, v) => ~v.busy
                   /\ Step(x, v) => v.busy /\ ~v.timer /\ v.claiming
  /\ \A x, y \in xs : Counts(x, v) /\ Counts(y, v) => x = y
  /\ v.timer => v.busy /\ ~v.claiming
  /\ v.busy => v.account # Nobody
  /\ v.at <= v.asked
InHand(v, xs) == v.busy => v.timer \/ \E x \in xs : Step(x, v)

\* A bucket says of every moment from now on what the list it was made of says.
Grants(rows, list, t) == \E row \in rows : /\ row.product \in list /\ row.flag
                                           /\ row.end = 0 \/ row.end > t
Running(bucket, t) == bucket.active /\ (bucket.end = 0 \/ bucket.end > t)
Reduces(bucket, rows, list, from) ==
  \A t \in Nat : t >= from => (Running(bucket, t) <=> Grants(rows, list, t))
BothReduce(premium, listen, rows, from) == /\ Reduces(premium, rows, Panel!PremiumProducts, from)
                                           /\ Reduces(listen, rows, Panel!ListenProducts, from)
Deserved(rows, t) == IF Grants(rows, Panel!PremiumProducts, t) THEN "premium"
                     ELSE IF Grants(rows, Panel!ListenProducts, t) THEN "listen" ELSE "none"

\* The tier shown, and the answers it may be made of.
Shown(v, now) ==
  /\ v.judged <= now
  /\ IF v.authoritative THEN v.of = v.account /\ BothReduce(v.premium, v.listen, v.told, now)
     ELSE v.premium = Panel!NoBucket /\ v.listen = Panel!NoBucket
  /\ v.tier # "unknown" => v.authoritative /\ v.tier = Deserved(v.told, v.judged)
AnswerIsTrue(x, v, now) ==
  x.answer.known => /\ BothReduce(x.answer.premium, x.answer.listen, x.answer.rows, now)
                    /\ Counts(x, v) => x.answer.of = v.account
TierInv(v, xs, now) == Shown(v, now) /\ \A x \in xs : AnswerIsTrue(x, v, now)

VipWeak(v, xs, now)  == VipTypes(v, xs) /\ ClaimInv(v, xs) /\ TierInv(v, xs, now)
VipInvOf(v, xs, now) == VipWeak(v, xs, now) /\ InHand(v, xs)
Upstairs(of, now) == of.of \in [Accounts -> Entitlements] /\ now \in Nat
VipInv == VipInvOf(vip, asks, wallClock) /\ vip.account = page.user /\ Upstairs(products, wallClock)

-----------------------------------------------------------------------------
LEMMA LastingLongest ==
  ASSUME NEW rows, IsFiniteSet(rows), \A row \in rows : row.end \in Nat, rows # {}
  PROVE  \E row \in rows : \A r \in rows : r.end <= row.end
<1> DEFINE P == {s \in SUBSET rows : s = {} \/ \E row \in s : \A r \in s : r.end <= row.end}
<1>1. ASSUME NEW s, s \in SUBSET rows, \A x \in s : s \ {x} \in P PROVE s \in P
  <2>1. CASE s = {}
    BY <2>1
  <2>2. CASE s # {}
    <3>1. PICK x : x \in s
      BY <2>2
    <3>2. CASE s \ {x} = {}
      <4>1. \A r \in s : r = x /\ r.end \in Nat
        BY <1>1, <3>1, <3>2
      <4> QED
        BY <1>1, <3>1, <4>1
    <3>3. CASE s \ {x} # {}
      <4>1. PICK y : y \in s \ {x} /\ \A r \in s \ {x} : r.end <= y.end
        BY <1>1, <3>1, <3>3
      <4>2. x.end \in Nat /\ y.end \in Nat /\ \A r \in s : r.end \in Nat
        BY <1>1, <3>1, <4>1
      <4>3. \/ \A r \in s : r.end <= x.end
            \/ \A r \in s : r.end <= y.end
        BY <4>1, <4>2
      <4> QED
        BY <1>1, <3>1, <4>1, <4>3
    <3> QED
      BY <3>2, <3>3
  <2> QED
    BY <2>1, <2>2
<1> HIDE DEF P
<1>2. SUBSET rows \subseteq P
  BY <1>1, SubsetInduction
<1> QED
  BY <1>2 DEF P

\* The bucket of a list of products says what the list says, from now on.
LEMMA BucketReduces ==
  ASSUME NEW rows, IsFiniteSet(rows), \A row \in rows : row.end \in Nat, NEW list, wallClock \in Nat
  PROVE  Reduces(Panel!PickEntitlementBucket(rows, list), rows, list, wallClock)
<1> DEFINE mine == {row \in rows : row.product \in list}
           live == {row \in mine : Panel!VipEntryActive(row)}
           ends == {row.end : row \in live}
           bucket == Panel!PickEntitlementBucket(rows, list)
<1>1. \A row \in live : /\ row \in rows /\ row.product \in list /\ row.flag /\ row.end \in Nat
                        /\ row.end = 0 \/ row.end > wallClock
  BY DEF Panel!VipEntryActive, Panel!Forever
<1>2. \A row \in rows : row.product \in list /\ row.flag /\ (row.end = 0 \/ row.end > wallClock) => row \in live
  BY DEF Panel!VipEntryActive, Panel!Forever
<1>3. ASSUME NEW t, t \in Nat, t >= wallClock
      PROVE  Grants(rows, list, t) <=> \E row \in live : row.end = 0 \/ row.end > t
  BY <1>1, <1>2, <1>3 DEF Grants
<1>4. CASE live = {}
  <2>1. ~bucket.active
    BY <1>4 DEF Panel!PickEntitlementBucket
  <2> QED
    BY <1>3, <1>4, <2>1 DEF Reduces, Running
<1>5. CASE live # {}
  <2>1. bucket = [active |-> TRUE, end |-> IF Panel!Forever \in ends THEN Panel!Forever ELSE Panel!Max(ends)]
    BY <1>5 DEF Panel!PickEntitlementBucket
  <2>2. CASE 0 \in ends
    <3>1. bucket.active /\ bucket.end = 0
      BY <2>1, <2>2 DEF Panel!Forever
    <3>2. PICK row : row \in live /\ row.end = 0
      BY <2>2
    <3> QED
      BY <1>3, <3>1, <3>2 DEF Reduces, Running
  <2>3. CASE 0 \notin ends
    <3>1. bucket.active /\ bucket.end = Panel!Max(ends)
      BY <2>1, <2>3 DEF Panel!Forever
    <3>2. IsFiniteSet(live)
      BY FS_Subset
    <3>3. PICK row : row \in live /\ \A r \in live : r.end <= row.end
      BY <1>1, <1>5, <3>2, LastingLongest
    <3>4. row.end \in ends /\ \A e \in ends : row.end >= e
      BY <1>1, <3>3
    <3>5. Panel!Max(ends) \in ends /\ \A e \in ends : Panel!Max(ends) >= e
      BY <3>4 DEF Panel!Max
    <3>6. PICK m : m = Panel!Max(ends)
      OBVIOUS
    <3>7. PICK last : last \in live /\ last.end = m
      BY <3>5, <3>6
    <3>8. m \in Nat /\ m # 0 /\ \A r \in live : r.end <= m /\ r.end # 0
      BY <1>1, <2>3, <3>5, <3>6, <3>7
    <3> HIDE DEF live, bucket, ends
    <3>9. ASSUME NEW t, t \in Nat, t >= wallClock
          PROVE  (m > t) <=> \E r \in live : r.end = 0 \/ r.end > t
      BY <1>1, <3>7, <3>8, <3>9
    <3> QED
      BY <1>3, <3>1, <3>6, <3>8, <3>9 DEF Reduces, Running, bucket
  <2> QED
    BY <2>2, <2>3
<1> QED
  BY <1>4, <1>5

LEMMA VipParts ==
  ASSUME NEW v, NEW xs
  PROVE  Panel!State(v, xs).vip = v /\ Panel!State(v, xs).asks = xs
BY DEF Panel!State

\* What a cancelled request keeps.
CancelAsk(x, kinds) == IF x.kind \in kinds /\ ~x.done THEN [x EXCEPT !.cancelled = TRUE] ELSE x
Newer(ds, xs, kind) == \A d \in ds : d.kind # kind => \E x \in xs : d.kind = x.kind /\ d.at = x.at

LEMMA CancelledSame ==
  ASSUME NEW x, AskOk(x), NEW kinds
  PROVE  LET d == CancelAsk(x, kinds)
         IN  /\ AskOk(d) /\ d.kind = x.kind /\ d.gen = x.gen /\ d.dgen = x.dgen
             /\ d.at = x.at /\ d.answer = x.answer
BY DEF CancelAsk, AskOk, AskFields

LEMMA AsksCancelled ==
  ASSUME NEW v, NEW xs, NEW now, VipWeak(v, xs, now), NEW kinds
  PROVE  LET ds == Panel!CancelAsks(xs, kinds)
         IN  /\ VipWeak(v, ds, now) /\ Newer(ds, xs, "none")
             /\ \A d \in ds : \E x \in xs : d.kind = x.kind /\ d.gen = x.gen /\ d.dgen = x.dgen
<1> DEFINE ds == Panel!CancelAsks(xs, kinds)
<1>1. \A d \in ds : \E x \in xs : d = CancelAsk(x, kinds)
  BY DEF Panel!CancelAsks, CancelAsk
<1>2. \A x \in xs : AskOk(x)
  BY DEF VipWeak, VipTypes
<1>3. \A d \in ds : \E x \in xs : /\ d = CancelAsk(x, kinds) /\ AskOk(d) /\ d.kind = x.kind
                                  /\ d.gen = x.gen /\ d.dgen = x.dgen
                                  /\ d.at = x.at /\ d.answer = x.answer
  <2>1. ASSUME NEW d, d \in ds
        PROVE  \E x \in xs : /\ d = CancelAsk(x, kinds) /\ AskOk(d) /\ d.kind = x.kind
                             /\ d.gen = x.gen /\ d.dgen = x.dgen
                             /\ d.at = x.at /\ d.answer = x.answer
    <3>1. PICK x : x \in xs /\ d = CancelAsk(x, kinds)
      BY <1>1, <2>1
    <3> QED
      BY <1>2, <3>1, CancelledSame
  <2> QED
    BY <2>1
<1> HIDE DEF ds
<1>4. VipTypes(v, ds)
  BY <1>3 DEF VipWeak, VipTypes
<1>5. ClaimInv(v, ds)
  <2>1. ClaimInv(v, xs)
    BY DEF VipWeak
  <2>2. \A d \in ds : \E x \in xs : /\ d = CancelAsk(x, kinds) /\ d.at = x.at /\ d.gen = x.gen /\ d.dgen = x.dgen
                                    /\ Counts(d, v) = Counts(x, v)
                                    /\ Refreshing(d, v) = Refreshing(x, v) /\ Step(d, v) = Step(x, v)
    BY <1>3 DEF Counts, Refreshing, Step
  <2>3. \A c, d \in ds : Counts(c, v) /\ Counts(d, v) => c = d
    BY <2>1, <2>2 DEF ClaimInv
  <2>4. \A d \in ds : /\ d.gen <= v.gen /\ d.dgen <= v.dgen /\ d.at <= v.asked
                      /\ Counts(d, v) => v.account # Nobody /\ v.at < d.at
                      /\ Refreshing(d, v) => ~v.busy
                      /\ Step(d, v) => v.busy /\ ~v.timer /\ v.claiming
    BY <2>1, <2>2 DEF ClaimInv
  <2> QED
    BY <2>1, <2>3, <2>4 DEF ClaimInv
<1>6. TierInv(v, ds, now)
  BY <1>3 DEF VipWeak, TierInv, AnswerIsTrue, Counts, Refreshing, Step
<1>7. Newer(ds, xs, "none")
  BY <1>3 DEF Newer
<1> QED
  BY <1>3, <1>4, <1>5, <1>6, <1>7 DEF VipWeak, ds

LEMMA AsksFewer ==
  ASSUME NEW v, NEW xs, NEW ds, NEW now, VipWeak(v, xs, now), ds \subseteq xs
  PROVE  VipWeak(v, ds, now)
BY DEF VipWeak, VipTypes, ClaimInv, TierInv

\* The panel in other words: what the invariant does not look at.
Alike(w, v) == /\ w.account = v.account /\ w.tier = v.tier /\ w.premium = v.premium
               /\ w.listen = v.listen /\ w.authoritative = v.authoritative /\ w.gen = v.gen
               /\ w.told = v.told /\ w.judged = v.judged /\ w.of = v.of /\ w.at = v.at
Named(w, v) == w.account = v.account /\ w.gen = v.gen /\ w.at = v.at

LEMMA AskIs ==
  ASSUME NEW v, VipOk(v), NEW kind, kind \in {"detail", "claim", "confirm", "ad"}, NEW route
  PROVE  LET x == Panel!Ask(kind, route, v)
         IN  /\ AskOk(x) /\ x.kind = kind /\ x.gen = v.gen /\ x.dgen = v.dgen /\ x.at = v.asked
             /\ ~x.answer.known
BY DEF Panel!Ask, Panel!NoAnswer, AskOk, AskFields, VipOk

LEMMA Sends ==
  ASSUME NEW v, NEW xs, NEW now, VipWeak(v, xs, now),
         NEW kind, kind \in {"detail", "claim", "confirm", "ad"}, NEW route,
         \A x \in xs : ~Counts(x, v), v.account # Nobody,
         (kind = "detail" /\ ~v.busy) \/ (kind # "detail" /\ v.busy /\ ~v.timer /\ v.claiming)
  PROVE  \E w, ds : /\ Panel!Send(Panel!State(v, xs), kind, route) = Panel!State(w, ds)
                    /\ VipWeak(w, ds, now) /\ InHand(w, ds) /\ Named(w, v)
                    /\ \A d \in ds : d \in xs \/ d.kind = kind
<1> DEFINE w == [v EXCEPT !.asked = v.asked + 1]
           new == Panel!Ask(kind, route, w)
           ds == xs \cup {new}
<1>1. Panel!Send(Panel!State(v, xs), kind, route) = Panel!State(w, ds)
  BY VipParts DEF Panel!Send
<1>2. VipOk(v) /\ ClaimInv(v, xs) /\ TierInv(v, xs, now) /\ \A x \in xs : AskOk(x)
  BY DEF VipWeak, VipTypes
<1>3. /\ VipOk(w) /\ Alike(w, v) /\ w.dgen = v.dgen /\ w.busy = v.busy /\ w.timer = v.timer
      /\ w.claiming = v.claiming /\ w.asked = v.asked + 1
  BY ONLY <1>2 DEF VipOk, VipFields, Alike
<1> HIDE DEF w
<1>4. /\ AskOk(new) /\ new.kind = kind /\ new.gen = w.gen /\ new.dgen = w.dgen /\ new.at = w.asked
      /\ ~new.answer.known
  BY ONLY <1>3, AskIs, kind \in {"detail", "claim", "confirm", "ad"} DEF new
<1> HIDE DEF new
<1>5. VipTypes(w, ds)
  BY <1>2, <1>3, <1>4 DEF VipTypes
<1>6. \A x \in xs : ~Counts(x, w)
  BY <1>3 DEF Counts, Refreshing, Step, Alike
<1>7. Counts(new, w) /\ v.at < new.at /\ new.at <= w.asked
  BY <1>2, <1>3, <1>4 DEF Counts, Refreshing, Step, ClaimInv, VipOk
<1>8. \A x \in xs : x.gen <= w.gen /\ x.dgen <= w.dgen /\ x.at <= w.asked
  BY <1>2, <1>3 DEF ClaimInv, VipOk, AskOk, Alike
<1>9. ClaimInv(w, ds)
  <2>1. \A x \in ds : /\ x.gen <= w.gen /\ x.dgen <= w.dgen /\ x.at <= w.asked
                      /\ Counts(x, w) => w.account # Nobody /\ w.at < x.at
    BY <1>3, <1>4, <1>6, <1>7, <1>8 DEF Alike, VipOk
  <2>2. \A x \in ds : /\ Refreshing(x, w) => ~w.busy
                      /\ Step(x, w) => w.busy /\ ~w.timer /\ w.claiming
    <3>1. \A x \in xs : ~Refreshing(x, w) /\ ~Step(x, w)
      BY <1>6 DEF Counts
    <3>2. Refreshing(new, w) => ~w.busy
      BY <1>3, <1>4 DEF Refreshing
    <3>3. Step(new, w) => w.busy /\ ~w.timer /\ w.claiming
      BY <1>3, <1>4 DEF Step
    <3> QED
      BY <3>1, <3>2, <3>3
  <2>3. \A x, y \in ds : Counts(x, w) /\ Counts(y, w) => x = y
    BY <1>6
  <2>5. w.account # Nobody
    BY <1>3 DEF Alike
  <2>4. (w.timer => w.busy /\ ~w.claiming) /\ w.at <= w.asked
    <3>1. w.timer => w.busy /\ ~w.claiming
      BY <1>2, <1>3 DEF ClaimInv
    <3>2. w.at <= w.asked
      BY <1>2, <1>3 DEF ClaimInv, Alike, VipOk
    <3> QED
      BY <3>1, <3>2
  <2> QED
    BY <2>1, <2>2, <2>3, <2>4, <2>5 DEF ClaimInv
<1>10. TierInv(w, ds, now)
  <2>1. Shown(w, now)
    BY <1>2, <1>3 DEF TierInv, Shown, Alike
  <2> QED
    BY <1>2, <1>4, <1>6, <2>1 DEF TierInv, AnswerIsTrue
<1>11. InHand(w, ds)
  BY <1>3, <1>4 DEF InHand, Step
<1>12. \A d \in ds : d \in xs \/ d.kind = kind
  BY <1>4
<1> QED
  BY <1>1, <1>3, <1>5, <1>9, <1>10, <1>11, <1>12 DEF VipWeak, Named, Alike

\* A claim that ends, while none of its requests is under way.
LEMMA Finishes ==
  ASSUME NEW v, NEW xs, NEW now, VipWeak(v, xs, now), \A x \in xs : ~Step(x, v)
  PROVE  \E w : /\ Panel!Finish(Panel!State(v, xs)) = Panel!State(w, xs)
                /\ VipWeak(w, xs, now) /\ InHand(w, xs) /\ Named(w, v)
<1> DEFINE w == [v EXCEPT !.timer = FALSE, !.busy = FALSE]
<1>1. Panel!Finish(Panel!State(v, xs)) = Panel!State(w, xs)
  BY ONLY VipParts DEF Panel!Finish
<1>2. VipOk(v) /\ ClaimInv(v, xs) /\ TierInv(v, xs, now) /\ \A x \in xs : AskOk(x)
  BY DEF VipWeak, VipTypes
<1>3. /\ VipOk(w) /\ Alike(w, v) /\ w.dgen = v.dgen /\ w.busy = FALSE /\ w.timer = FALSE
      /\ w.claiming = v.claiming /\ w.asked = v.asked
  BY ONLY <1>2 DEF VipOk, VipFields, Alike
<1> HIDE DEF w
<1>4. \A x \in xs : /\ Counts(x, w) = Counts(x, v) /\ ~Step(x, w)
  BY <1>3 DEF Counts, Refreshing, Step, Alike
<1>5. ClaimInv(w, xs)
  BY <1>2, <1>3, <1>4 DEF ClaimInv, Alike
<1>6. TierInv(w, xs, now)
  <2>1. Shown(w, now)
    BY <1>2, <1>3 DEF TierInv, Shown, Alike
  <2> QED
    BY <1>2, <1>3, <1>4, <2>1 DEF TierInv, AnswerIsTrue, Alike
<1> QED
  BY <1>1, <1>2, <1>3, <1>5, <1>6 DEF VipWeak, VipTypes, InHand, Named, Alike

\* The next step of a claim.
LEMMA Claims ==
  ASSUME NEW v, NEW xs, NEW now, VipWeak(v, xs, now), v.account # Nobody, v.busy, ~v.timer,
         \A x \in xs : ~Counts(x, v)
  PROVE  LET w == [v EXCEPT !.claiming = TRUE]
         IN  /\ Panel!Claiming(Panel!State(v, xs)) = Panel!State(w, xs)
             /\ VipWeak(w, xs, now) /\ Named(w, v) /\ w.busy = v.busy /\ w.timer = v.timer /\ w.claiming
             /\ \A x \in xs : ~Counts(x, w)
<1> DEFINE w == [v EXCEPT !.claiming = TRUE]
<1>1. Panel!Claiming(Panel!State(v, xs)) = Panel!State(w, xs)
  BY ONLY VipParts DEF Panel!Claiming
<1>2. VipOk(v) /\ ClaimInv(v, xs) /\ TierInv(v, xs, now) /\ \A x \in xs : AskOk(x)
  BY DEF VipWeak, VipTypes
<1>3. /\ VipOk(w) /\ Alike(w, v) /\ w.dgen = v.dgen /\ w.busy = v.busy /\ w.timer = v.timer
      /\ w.claiming = TRUE /\ w.asked = v.asked
  BY ONLY <1>2 DEF VipOk, VipFields, Alike
<1> HIDE DEF w
<1>4. \A x \in xs : ~Counts(x, w)
  BY <1>3 DEF Counts, Refreshing, Step, Alike
<1>5. ClaimInv(w, xs)
  BY <1>2, <1>3, <1>4 DEF ClaimInv, Alike, Counts
<1>6. TierInv(w, xs, now)
  <2>1. Shown(w, now)
    BY <1>2, <1>3 DEF TierInv, Shown, Alike
  <2> QED
    BY <1>2, <1>4, <2>1 DEF TierInv, AnswerIsTrue
<1> QED
  BY <1>1, <1>2, <1>3, <1>4, <1>5, <1>6 DEF VipWeak, VipTypes, Named, Alike, w

\* A claim asked for, unless the user has stopped it, and the report before it.
LEMMA RequestsClaim ==
  ASSUME NEW v, NEW xs, NEW now, VipWeak(v, xs, now), v.account # Nobody, v.busy, ~v.timer,
         \A x \in xs : ~Counts(x, v), NEW route
  PROVE  /\ \E w, ds : /\ Panel!RequestClaim(Panel!State(v, xs), route) = Panel!State(w, ds)
                       /\ VipWeak(w, ds, now) /\ InHand(w, ds) /\ Named(w, v)
                       /\ v.cancelled => ds = xs
         /\ ~v.cancelled =>
              \E w, ds : /\ Panel!Advance(Panel!State(v, xs)) = Panel!State(w, ds)
                         /\ VipWeak(w, ds, now) /\ InHand(w, ds) /\ Named(w, v)
<1>1. PICK u : u = [v EXCEPT !.claiming = TRUE]
  OBVIOUS
<1>2. /\ Panel!Claiming(Panel!State(v, xs)) = Panel!State(u, xs)
      /\ VipWeak(u, xs, now) /\ Named(u, v) /\ u.busy = v.busy /\ u.timer = v.timer /\ u.claiming
      /\ \A x \in xs : ~Counts(x, u)
  BY <1>1, Claims
<1>3. ASSUME NEW kind, kind \in {"claim", "ad"}, NEW r
      PROVE  \E w, ds : /\ Panel!Send(Panel!State(u, xs), kind, r) = Panel!State(w, ds)
                        /\ VipWeak(w, ds, now) /\ InHand(w, ds) /\ Named(w, v)
  <2>1. u.account # Nobody /\ u.busy /\ ~u.timer
    BY <1>2 DEF Named
  <2>2. PICK w, ds : /\ Panel!Send(Panel!State(u, xs), kind, r) = Panel!State(w, ds)
                     /\ VipWeak(w, ds, now) /\ InHand(w, ds) /\ Named(w, u)
    BY <1>2, <1>3, <2>1, Sends
  <2> QED
    BY <1>2, <2>2 DEF Named
<1>4. CASE v.cancelled
  <2>1. Panel!RequestClaim(Panel!State(v, xs), route) = Panel!Finish(Panel!State(v, xs))
    BY <1>4, VipParts DEF Panel!RequestClaim, Panel!State
  <2>2. \A x \in xs : ~Step(x, v)
    BY DEF Counts
  <2>3. PICK w : /\ Panel!Finish(Panel!State(v, xs)) = Panel!State(w, xs)
                 /\ VipWeak(w, xs, now) /\ InHand(w, xs) /\ Named(w, v)
    BY <2>2, Finishes
  <2> QED
    BY <1>4, <2>1, <2>3
<1>5. CASE ~v.cancelled
  <2>1. /\ Panel!RequestClaim(Panel!State(v, xs), route) = Panel!Send(Panel!State(u, xs), "claim", route)
        /\ Panel!Advance(Panel!State(v, xs)) = Panel!Send(Panel!State(u, xs), "ad", "")
    BY ONLY <1>2, <1>5, VipParts DEF Panel!RequestClaim, Panel!Advance, Panel!State
  <2>2. PICK w, ds : /\ Panel!Send(Panel!State(u, xs), "claim", route) = Panel!State(w, ds)
                     /\ VipWeak(w, ds, now) /\ InHand(w, ds) /\ Named(w, v)
    BY <1>3
  <2>3. PICK z, zs : /\ Panel!Send(Panel!State(u, xs), "ad", "") = Panel!State(z, zs)
                     /\ VipWeak(z, zs, now) /\ InHand(z, zs) /\ Named(z, v)
    BY <1>3
  <2> QED
    BY <1>5, <2>1, <2>2, <2>3
<1> QED
  BY <1>4, <1>5

LEMMA ConfirmsClaim ==
  ASSUME NEW v, NEW xs, NEW now, VipWeak(v, xs, now), v.account # Nobody, v.busy, ~v.timer,
         \A x \in xs : ~Counts(x, v)
  PROVE  \E w, ds : /\ Panel!Confirm(Panel!State(v, xs)) = Panel!State(w, ds)
                    /\ VipWeak(w, ds, now) /\ InHand(w, ds) /\ Named(w, v)
                    /\ \A d \in ds : d \in xs \/ d.kind = "confirm"
<1> DEFINE u == [v EXCEPT !.claiming = TRUE, !.attempts = v.attempts + 1]
<1>1. Panel!Confirm(Panel!State(v, xs)) = Panel!Send(Panel!State(u, xs), "confirm", "")
  BY ONLY v.busy, VipParts DEF Panel!Confirm, Panel!State
<1>2. VipOk(v) /\ ClaimInv(v, xs) /\ TierInv(v, xs, now) /\ \A x \in xs : AskOk(x)
  BY DEF VipWeak, VipTypes
<1>3. /\ VipOk(u) /\ Alike(u, v) /\ u.dgen = v.dgen /\ u.busy = v.busy /\ u.timer = v.timer
      /\ u.claiming = TRUE /\ u.asked = v.asked
  BY ONLY <1>2 DEF VipOk, VipFields, Alike
<1> HIDE DEF u
<1>4. \A x \in xs : ~Counts(x, u)
  BY <1>3 DEF Counts, Refreshing, Step, Alike
<1>5. ClaimInv(u, xs)
  BY <1>2, <1>3, <1>4 DEF ClaimInv, Alike, Counts
<1>6. TierInv(u, xs, now)
  <2>1. Shown(u, now)
    BY <1>2, <1>3 DEF TierInv, Shown, Alike
  <2> QED
    BY <1>2, <1>4, <2>1 DEF TierInv, AnswerIsTrue
<1>7. VipWeak(u, xs, now) /\ u.account # Nobody /\ u.busy /\ ~u.timer /\ u.claiming
  BY <1>2, <1>3, <1>5, <1>6 DEF VipWeak, VipTypes, Alike
<1>8. PICK kind, route : kind = "confirm" /\ route = ""
  OBVIOUS
<1>9. kind \in {"detail", "claim", "confirm", "ad"} /\ kind # "detail"
  BY <1>8
<1>10. PICK w, ds : /\ Panel!Send(Panel!State(u, xs), kind, route) = Panel!State(w, ds)
                    /\ VipWeak(w, ds, now) /\ InHand(w, ds) /\ Named(w, u)
                    /\ \A d \in ds : d \in xs \/ d.kind = kind
  BY <1>4, <1>7, <1>9, Sends
<1> QED
  BY <1>1, <1>3, <1>8, <1>10 DEF Named, Alike

LEMMA Refreshes ==
  ASSUME NEW v, NEW xs, NEW now, VipWeak(v, xs, now), InHand(v, xs)
  PROVE  \E w, ds : /\ Panel!Refresh(Panel!State(v, xs)) = Panel!State(w, ds)
                    /\ VipWeak(w, ds, now) /\ InHand(w, ds) /\ Named(w, v)
                    /\ Newer(ds, xs, "detail")
<1>1. CASE v.account = Nobody \/ v.busy
  <2>1. Panel!Refresh(Panel!State(v, xs)) = Panel!State(v, xs)
    BY ONLY <1>1, VipParts DEF Panel!Refresh, Panel!State
  <2> QED
    BY <2>1 DEF Named, Newer
<1>2. CASE ~(v.account = Nobody \/ v.busy)
  <2> DEFINE u == [v EXCEPT !.dgen = v.dgen + 1, !.loading = TRUE]
  <2>1. PICK ys : ys = Panel!CancelAsks(xs, {"detail"})
    OBVIOUS
  <2>2. VipWeak(v, ys, now) /\ Newer(ys, xs, "none")
    BY <2>1, AsksCancelled
  <2>3. Panel!Refresh(Panel!State(v, xs)) = Panel!Send(Panel!State(u, ys), "detail", "")
    BY ONLY <1>2, <2>1, VipParts DEF Panel!Refresh, Panel!State
  <2>4. VipOk(v) /\ ClaimInv(v, ys) /\ TierInv(v, ys, now) /\ \A x \in ys : AskOk(x)
    BY <2>2 DEF VipWeak, VipTypes
  <2>5. /\ VipOk(u) /\ Alike(u, v) /\ u.dgen = v.dgen + 1 /\ u.busy = v.busy /\ u.timer = v.timer
        /\ u.claiming = v.claiming /\ u.asked = v.asked
    BY ONLY <2>4 DEF VipOk, VipFields, Alike
  <2> HIDE DEF u
  <2>6. \A x \in ys : ~Counts(x, u) /\ x.dgen <= u.dgen
    <3>1. \A x \in ys : x.dgen <= v.dgen /\ ~Step(x, v)
      BY <1>2, <2>4 DEF ClaimInv
    <3>2. \A x \in ys : x.dgen <= u.dgen /\ x.dgen # u.dgen
      BY <2>4, <2>5, <3>1 DEF VipOk, AskOk
    <3> QED
      BY <2>5, <3>1, <3>2 DEF Counts, Refreshing, Step, Alike
  <2>7. ClaimInv(u, ys)
    BY <2>4, <2>5, <2>6 DEF ClaimInv, Alike, Counts
  <2>8. TierInv(u, ys, now)
    <3>1. Shown(u, now)
      BY <2>4, <2>5 DEF TierInv, Shown, Alike
    <3> QED
      BY <2>4, <2>6, <3>1 DEF TierInv, AnswerIsTrue
  <2>9. VipWeak(u, ys, now) /\ u.account # Nobody /\ ~u.busy
    BY <1>2, <2>4, <2>5, <2>7, <2>8 DEF VipWeak, VipTypes, Alike
  <2>12. PICK kind, route : kind = "detail" /\ route = ""
    OBVIOUS
  <2>13. kind \in {"detail", "claim", "confirm", "ad"} /\ kind = "detail" /\ ~u.busy
    BY <2>9, <2>12
  <2>10. PICK w, ds : /\ Panel!Send(Panel!State(u, ys), kind, route) = Panel!State(w, ds)
                      /\ VipWeak(w, ds, now) /\ InHand(w, ds) /\ Named(w, u)
                      /\ \A d \in ds : d \in ys \/ d.kind = kind
    BY <2>6, <2>9, <2>13, Sends
  <2>11. Newer(ds, xs, "detail")
    <3>1. \A d \in ds : d.kind # "detail" => d \in ys /\ d.kind # "none"
      BY <2>4, <2>10, <2>12 DEF AskOk
    <3> QED
      BY <2>2, <3>1 DEF Newer
  <2> QED
    BY <2>3, <2>5, <2>10, <2>11, <2>12 DEF Named, Alike
<1> QED
  BY <1>1, <1>2

\* An answer that counts is applied, and its request forgotten.
LEMMA Applies ==
  ASSUME NEW v, NEW xs, VipWeak(v, xs, wallClock), wallClock \in Nat, NEW a, a \in xs, Counts(a, v)
  PROVE  LET w == Panel!Apply(v, a)
         IN  /\ VipWeak(w, xs \ {a}, wallClock)
             /\ w.account = v.account /\ w.gen = v.gen /\ w.dgen = v.dgen /\ w.at >= v.at
             /\ w.busy = v.busy /\ w.timer = v.timer /\ w.claiming = v.claiming
             /\ w.cancelled = v.cancelled /\ w.stage = v.stage /\ w.attempts = v.attempts
             /\ \A x \in xs \ {a} : ~Counts(x, w)
<1> DEFINE rest == xs \ {a}
<1>1. VipOk(v) /\ ClaimInv(v, xs) /\ TierInv(v, xs, wallClock) /\ \A x \in xs : AskOk(x)
  BY DEF VipWeak, VipTypes
<1>2. VipWeak(v, rest, wallClock) /\ \A x \in rest : ~Counts(x, v)
  BY <1>1, AsksFewer DEF ClaimInv
<1>3. CASE ~a.answer.known
  <2>1. Panel!Apply(v, a) = v
    BY <1>3 DEF Panel!Apply
  <2>2. v.at >= v.at
    BY <1>1 DEF VipOk
  <2> QED
    BY <1>2, <2>1, <2>2
<1>4. CASE a.answer.known
  <2> DEFINE u == [v EXCEPT !.premium = a.answer.premium, !.listen = a.answer.listen,
                            !.authoritative = TRUE, !.told = a.answer.rows, !.judged = wallClock,
                            !.of = a.answer.of, !.at = a.at]
  <2>1. a.at \in Nat /\ v.at < a.at /\ a.at <= v.asked
    BY <1>1 DEF ClaimInv, AskOk
  <2>2. /\ VipOk(u) /\ u.premium = a.answer.premium /\ u.listen = a.answer.listen
        /\ u.authoritative = TRUE /\ u.told = a.answer.rows /\ u.judged = wallClock
        /\ u.of = a.answer.of /\ u.at = a.at
    BY ONLY <1>1, <2>1, wallClock \in Nat DEF VipOk, VipFields
  <2>3. /\ u.account = v.account /\ u.gen = v.gen /\ u.dgen = v.dgen
        /\ u.busy = v.busy /\ u.timer = v.timer /\ u.claiming = v.claiming
        /\ u.cancelled = v.cancelled /\ u.stage = v.stage /\ u.attempts = v.attempts
        /\ u.asked = v.asked
    BY ONLY <1>1, <2>1, wallClock \in Nat DEF VipOk, VipFields
  <2>4. PICK tier : tier = Panel!TierOf(u)
    OBVIOUS
  <2>5. PICK w : w = [u EXCEPT !.tier = tier]
    OBVIOUS
  <2>6. Panel!Apply(v, a) = w
    BY <1>4, <2>4, <2>5 DEF Panel!Apply
  <2> HIDE DEF u
  <2>7. /\ VipOk(w) /\ w.tier = tier /\ w.premium = u.premium /\ w.listen = u.listen
        /\ w.authoritative = u.authoritative /\ w.told = u.told /\ w.judged = u.judged
        /\ w.of = u.of /\ w.at = u.at
    BY ONLY <2>2, <2>5 DEF VipOk, VipFields
  <2>8. /\ w.account = u.account /\ w.gen = u.gen /\ w.dgen = u.dgen
        /\ w.busy = u.busy /\ w.timer = u.timer /\ w.claiming = u.claiming
        /\ w.cancelled = u.cancelled /\ w.stage = u.stage /\ w.attempts = u.attempts
        /\ w.asked = u.asked
    BY ONLY <2>2, <2>5 DEF VipOk, VipFields
  <2>9. \A x \in rest : ~Counts(x, w)
    BY <1>2, <2>3, <2>8 DEF Counts, Refreshing, Step
  <2>10. BothReduce(w.premium, w.listen, w.told, wallClock) /\ w.of = w.account
    BY <1>1, <1>4, <2>2, <2>3, <2>7, <2>8 DEF TierInv, AnswerIsTrue
  <2>11. w.tier = Deserved(w.told, wallClock)
    <3>1. /\ Running(w.premium, wallClock) <=> Grants(w.told, Panel!PremiumProducts, wallClock)
          /\ Running(w.listen, wallClock) <=> Grants(w.told, Panel!ListenProducts, wallClock)
      BY <2>10 DEF BothReduce, Reduces
    <3>2. tier = IF Running(u.premium, wallClock) THEN "premium"
                 ELSE IF Running(u.listen, wallClock) THEN "listen" ELSE "none"
      BY <2>2, <2>4 DEF Panel!TierOf, Panel!Lasts, Running, Panel!Forever
    <3> QED
      BY <2>7, <3>1, <3>2 DEF Deserved
  <2>12. Shown(w, wallClock)
    <3>1. w.judged = wallClock /\ w.authoritative
      BY <2>2, <2>7
    <3> QED
      BY <2>10, <2>11, <3>1 DEF Shown
  <2>13. ClaimInv(w, rest)
    <3>1. (w.timer => w.busy /\ ~w.claiming) /\ (w.busy => w.account # Nobody)
      BY <1>1, <2>3, <2>8 DEF ClaimInv
    <3>2. w.at <= w.asked
      BY <2>1, <2>2, <2>3, <2>7, <2>8
    <3>3. \A x \in rest : x.gen <= w.gen /\ x.dgen <= w.dgen /\ x.at <= w.asked
      BY <1>1, <2>3, <2>8 DEF ClaimInv
    <3> QED
      BY <2>9, <3>1, <3>2, <3>3 DEF ClaimInv, Counts
  <2>14. TierInv(w, rest, wallClock)
    BY <1>1, <2>9, <2>12 DEF TierInv, AnswerIsTrue
  <2>15. w.at >= v.at
    BY <1>1, <2>1, <2>2, <2>7 DEF VipOk
  <2> QED
    BY <1>1, <2>3, <2>6, <2>7, <2>8, <2>9, <2>13, <2>14, <2>15 DEF VipWeak, VipTypes
<1> QED
  BY <1>3, <1>4

-----------------------------------------------------------------------------
\* The panel shows the same and is as busy as it was.
LEMMA Relook ==
  ASSUME NEW v, NEW xs, NEW now, VipWeak(v, xs, now), NEW w, VipOk(w), Alike(w, v),
         w.dgen = v.dgen, w.asked = v.asked, w.busy = v.busy, w.timer => w.busy /\ ~w.claiming,
         \A x \in xs : Step(x, v) => ~w.timer /\ w.claiming
  PROVE  /\ VipWeak(w, xs, now) /\ Named(w, v)
         /\ \A x \in xs : Counts(x, w) = Counts(x, v) /\ Step(x, w) = Step(x, v)
<1>1. VipOk(v) /\ ClaimInv(v, xs) /\ TierInv(v, xs, now) /\ \A x \in xs : AskOk(x)
  BY DEF VipWeak, VipTypes
<1>2. \A x : /\ Counts(x, w) = Counts(x, v) /\ Step(x, w) = Step(x, v)
             /\ Refreshing(x, w) = Refreshing(x, v)
  BY DEF Counts, Refreshing, Step, Alike
<1>3. ClaimInv(w, xs)
  <2>1. \A x \in xs : /\ x.gen <= w.gen /\ x.dgen <= w.dgen /\ x.at <= w.asked
                      /\ Counts(x, w) => w.account # Nobody /\ w.at < x.at
                      /\ Refreshing(x, w) => ~w.busy
                      /\ Step(x, w) => w.busy /\ ~w.timer /\ w.claiming
    BY <1>1, <1>2 DEF ClaimInv, Alike
  <2> QED
    BY <1>1, <1>2, <2>1 DEF ClaimInv, Alike
<1>4. TierInv(w, xs, now)
  <2>1. Shown(w, now)
    BY <1>1 DEF TierInv, Shown, Alike
  <2> QED
    BY <1>1, <1>2, <2>1 DEF TierInv, AnswerIsTrue, Alike
<1> QED
  BY <1>1, <1>2, <1>3, <1>4 DEF VipWeak, VipTypes, Named, Alike

\* What a step of the entitlements has to come to.
Begun(ds, xs) == \A a \in ds : a.kind \in {"claim", "ad"} => \E b \in xs : b.kind = a.kind /\ b.at = a.at
VipGoal == VipInv' /\ Panel!NewerAnswers /\ Panel!NothingBegun
Outside == page' = page /\ products' = products /\ wallClock' = wallClock

LEMMA VipArrives ==
  ASSUME VipInv, Outside, NEW w, NEW ds, Panel!Gives(Panel!State(w, ds)),
         VipWeak(w, ds, wallClock), InHand(w, ds), w.account = vip.account,
         w.gen >= vip.gen, w.at >= vip.at, vip.busy /\ vip.cancelled => Begun(ds, asks)
  PROVE  VipGoal
<1>1. vip' = w /\ asks' = ds
  BY VipParts DEF Panel!Gives
<1>2. VipInvOf(w, ds, wallClock) /\ w.account = page.user /\ Upstairs(products, wallClock)
  BY DEF VipInv, VipInvOf
<1>3. VipInvOf(vip', asks', wallClock') /\ vip'.account = page'.user /\ Upstairs(products', wallClock')
  BY <1>1, <1>2 DEF Outside
<1>4. VipInv'
  BY <1>3 DEF VipInv, VipInvOf, VipWeak, VipTypes, VipOk, AskOk, ClaimInv, InHand, TierInv, Shown, AnswerIsTrue,
              Counts, Refreshing, Step, Upstairs, BothReduce, Reduces, Running, Grants, Deserved
<1>5. Panel!NewerAnswers
  BY <1>1 DEF Panel!NewerAnswers
<1>6. Panel!NothingBegun
  BY <1>1 DEF Panel!NothingBegun, Begun
<1> QED
  BY <1>4, <1>5, <1>6 DEF VipGoal

LEMMA VipNow ==
  ASSUME VipInv
  PROVE  /\ VipWeak(vip, asks, wallClock) /\ InHand(vip, asks) /\ vip.account = page.user
         /\ VipOk(vip) /\ ClaimInv(vip, asks) /\ TierInv(vip, asks, wallClock)
         /\ \A x \in asks : AskOk(x)
         /\ wallClock \in Nat /\ products.of \in [Accounts -> Entitlements]
         /\ vip.at >= vip.at /\ vip.gen >= vip.gen
BY DEF VipInv, VipInvOf, VipWeak, VipTypes, Upstairs, VipOk

LEMMA RestIs == ASSUME Panel!Rest PROVE Outside /\ calls' = calls /\ native' = native
BY DEF Panel!Rest, Panel!accountVars, Outside

LEMMA NewerBegun ==
  ASSUME NEW ds, NEW xs, NEW kind, kind \in {"none", "detail", "confirm"}, Newer(ds, xs, kind)
  PROVE  Begun(ds, xs)
BY DEF Newer, Begun

LEMMA RefreshPressed ==
  ASSUME VipInv, Panel!PressVipRefresh
  PROVE  VipGoal
<1>1. Panel!Gives(Panel!Refresh(Panel!State(vip, asks))) /\ Outside
  BY RestIs DEF Panel!PressVipRefresh, Panel!NowVip
<1>2. PICK w, ds : /\ Panel!Refresh(Panel!State(vip, asks)) = Panel!State(w, ds)
                   /\ VipWeak(w, ds, wallClock) /\ InHand(w, ds) /\ Named(w, vip)
                   /\ Newer(ds, asks, "detail")
  BY VipNow, Refreshes
<1>3. Begun(ds, asks)
  BY <1>2, NewerBegun
<1>4. w.account = vip.account /\ w.gen >= vip.gen /\ w.at >= vip.at
  BY <1>2, VipNow DEF Named
<1> QED
  BY <1>1, <1>2, <1>3, <1>4, VipArrives

LEMMA ClaimPressed ==
  ASSUME VipInv, Panel!Claim
  PROVE  VipGoal
<1> DEFINE v == Panel!BeginClaim
<1>1. PICK ys : ys = Panel!CancelAsks(asks, {"detail"})
  OBVIOUS
<1>2. /\ Panel!Gives(Panel!RequestClaim(Panel!State(v, ys), "day")) /\ Outside
      /\ vip.account # Nobody /\ ~vip.busy
  BY <1>1, RestIs DEF Panel!Claim
<1>3. VipWeak(vip, ys, wallClock)
  BY <1>1, VipNow, AsksCancelled
<1>4. VipOk(vip) /\ ClaimInv(vip, ys) /\ TierInv(vip, ys, wallClock) /\ \A x \in ys : AskOk(x)
  BY <1>3 DEF VipWeak, VipTypes
<1>5. /\ VipOk(v) /\ v.gen = vip.gen + 1 /\ v.dgen = vip.dgen + 1 /\ v.busy = TRUE
      /\ v.account = vip.account /\ v.tier = vip.tier /\ v.premium = vip.premium
      /\ v.listen = vip.listen /\ v.authoritative = vip.authoritative
  BY ONLY <1>4 DEF VipOk, VipFields, Panel!BeginClaim
<1>6. /\ v.told = vip.told /\ v.judged = vip.judged /\ v.of = vip.of /\ v.at = vip.at
      /\ v.timer = vip.timer /\ v.asked = vip.asked
  BY ONLY <1>4 DEF VipOk, VipFields, Panel!BeginClaim
<1> HIDE DEF v
<1>7. \A x \in ys : /\ ~Counts(x, v) /\ ~Refreshing(x, v) /\ ~Step(x, v)
                    /\ x.gen <= v.gen /\ x.dgen <= v.dgen /\ x.at <= v.asked
  <2>1. \A x \in ys : x.gen <= v.gen /\ x.dgen <= v.dgen /\ x.at <= v.asked /\ x.gen # v.gen
    BY <1>4, <1>5, <1>6 DEF ClaimInv, VipOk, AskOk
  <2> QED
    BY <2>1 DEF Counts, Refreshing, Step
<1>8. ~v.timer /\ v.account # Nobody /\ v.busy
  BY <1>2, <1>4, <1>5, <1>6 DEF ClaimInv
<1>9. ClaimInv(v, ys)
  BY <1>4, <1>6, <1>7, <1>8 DEF ClaimInv
<1>10. TierInv(v, ys, wallClock)
  <2>1. Shown(v, wallClock)
    BY <1>4, <1>5, <1>6 DEF TierInv, Shown
  <2> QED
    BY <1>4, <1>7, <2>1 DEF TierInv, AnswerIsTrue
<1>11. VipWeak(v, ys, wallClock)
  BY <1>4, <1>5, <1>9, <1>10 DEF VipWeak, VipTypes
<1>12. PICK w, ds : /\ Panel!RequestClaim(Panel!State(v, ys), "day") = Panel!State(w, ds)
                    /\ VipWeak(w, ds, wallClock) /\ InHand(w, ds) /\ Named(w, v)
  BY <1>7, <1>8, <1>11, RequestsClaim
<1>13. w.account = vip.account /\ w.gen >= vip.gen /\ w.at >= vip.at
  BY <1>4, <1>5, <1>6, <1>12 DEF Named, VipOk
<1> QED
  BY <1>2, <1>12, <1>13, VipArrives

LEMMA ClaimCancelled ==
  ASSUME VipInv, Panel!CancelClaim
  PROVE  VipGoal
<1> DEFINE v == [vip EXCEPT !.cancelled = TRUE, !.timer = FALSE]
<1>1. /\ VipWeak(vip, asks, wallClock) /\ VipOk(vip) /\ ClaimInv(vip, asks) /\ InHand(vip, asks)
  BY VipNow
<1>2. /\ Outside /\ vip.busy /\ ~vip.cancelled
      /\ Panel!Gives(IF vip.claiming THEN Panel!State(v, asks) ELSE Panel!Finish(Panel!State(v, asks)))
  BY RestIs DEF Panel!CancelClaim
<1>3. /\ VipOk(v) /\ Alike(v, vip) /\ v.dgen = vip.dgen /\ v.asked = vip.asked /\ v.busy = vip.busy
      /\ ~v.timer /\ v.claiming = vip.claiming
  BY ONLY <1>1 DEF VipOk, VipFields, Alike
<1> HIDE DEF v
<1>4. \A x \in asks : Step(x, vip) => ~v.timer /\ v.claiming
  BY <1>1, <1>3 DEF ClaimInv
<1>5. /\ VipWeak(v, asks, wallClock) /\ Named(v, vip)
      /\ \A x \in asks : Step(x, v) = Step(x, vip)
  BY <1>1, <1>3, <1>4, Relook
<1>6. v.account = vip.account /\ v.gen >= vip.gen /\ v.at >= vip.at
  BY <1>1, <1>5 DEF Named, VipOk
<1>7. CASE vip.claiming
  <2>1. InHand(v, asks)
    BY <1>1, <1>2, <1>5, <1>7 DEF InHand, ClaimInv
  <2> QED
    BY <1>2, <1>5, <1>6, <1>7, <2>1, VipArrives
<1>8. CASE ~vip.claiming
  <2>1. \A x \in asks : ~Step(x, v)
    BY <1>1, <1>5, <1>8 DEF ClaimInv
  <2>2. PICK w : /\ Panel!Finish(Panel!State(v, asks)) = Panel!State(w, asks)
                 /\ VipWeak(w, asks, wallClock) /\ InHand(w, asks) /\ Named(w, v)
    BY <1>5, <2>1, Finishes
  <2>3. w.account = vip.account /\ w.gen >= vip.gen /\ w.at >= vip.at
    BY <1>6, <2>2 DEF Named
  <2> QED
    BY <1>2, <1>8, <2>2, <2>3, VipArrives
<1> QED
  BY <1>7, <1>8

LEMMA ConfirmTimerFires ==
  ASSUME VipInv, Panel!ConfirmTimer
  PROVE  VipGoal
<1> DEFINE v == [vip EXCEPT !.timer = FALSE]
<1>1. /\ VipWeak(vip, asks, wallClock) /\ VipOk(vip) /\ ClaimInv(vip, asks) /\ InHand(vip, asks)
  BY VipNow
<1>2. Outside /\ vip.timer /\ Panel!Gives(Panel!Confirm(Panel!State(v, asks)))
  BY RestIs DEF Panel!ConfirmTimer
<1>3. /\ VipOk(v) /\ Alike(v, vip) /\ v.dgen = vip.dgen /\ v.asked = vip.asked /\ v.busy = vip.busy
      /\ ~v.timer /\ v.claiming = vip.claiming
  BY ONLY <1>1 DEF VipOk, VipFields, Alike
<1> HIDE DEF v
<1>4. /\ vip.busy /\ vip.account # Nobody
      /\ \A x \in asks : ~Step(x, vip) /\ ~Refreshing(x, vip)
  BY <1>1, <1>2 DEF ClaimInv
<1>5. /\ VipWeak(v, asks, wallClock) /\ Named(v, vip)
      /\ \A x \in asks : Counts(x, v) = Counts(x, vip)
  <2>1. \A x \in asks : Step(x, vip) => ~v.timer /\ v.claiming
    BY <1>4
  <2>2. v.timer => v.busy /\ ~v.claiming
    BY <1>3
  <2> QED
    BY <1>1, <1>3, <2>1, <2>2, Relook
<1>6. v.account = vip.account /\ v.gen >= vip.gen /\ v.at >= vip.at
  BY <1>1, <1>5 DEF Named, VipOk
<1>7. PICK w, ds : /\ Panel!Confirm(Panel!State(v, asks)) = Panel!State(w, ds)
                   /\ VipWeak(w, ds, wallClock) /\ InHand(w, ds) /\ Named(w, v)
                   /\ \A d \in ds : d \in asks \/ d.kind = "confirm"
  <2>1. \A x \in asks : ~Counts(x, v)
    BY <1>4, <1>5 DEF Counts
  <2>2. v.account # Nobody /\ v.busy /\ ~v.timer
    BY <1>3, <1>4, <1>6
  <2> QED
    BY <1>5, <2>1, <2>2, ConfirmsClaim
<1>8. Begun(ds, asks)
  BY <1>7 DEF Begun
<1>9. w.account = vip.account /\ w.gen >= vip.gen /\ w.at >= vip.at
  BY <1>6, <1>7 DEF Named
<1> QED
  BY <1>2, <1>7, <1>8, <1>9, VipArrives

\* A route answers.
LEMMA Replied ==
  ASSUME VipInv, Outside, vip' = vip, NEW a, a \in asks, NEW answer, Panel!Replies(a, answer),
         answer.known => /\ BothReduce(answer.premium, answer.listen, answer.rows, wallClock)
                         /\ Counts(a, vip) => answer.of = vip.account
  PROVE  VipGoal
<1> DEFINE d == [a EXCEPT !.done = TRUE, !.answer = answer]
           ds == (asks \ {a}) \cup {d}
<1>1. /\ VipWeak(vip, asks, wallClock) /\ VipOk(vip) /\ ClaimInv(vip, asks) /\ InHand(vip, asks)
      /\ TierInv(vip, asks, wallClock) /\ \A x \in asks : AskOk(x)
  BY VipNow
<1>2. /\ AskOk(d) /\ d.kind = a.kind /\ d.gen = a.gen /\ d.dgen = a.dgen /\ d.at = a.at
      /\ d.answer = answer
  <2>1. AskOk(a)
    BY <1>1
  <2> QED
    BY ONLY <2>1 DEF AskOk, AskFields
<1>3. asks' = ds
  BY DEF Panel!Replies
<1> HIDE DEF d
<1>4. \A x \in ds : x = d \/ (x \in asks /\ x # a)
  OBVIOUS
<1>5. Counts(d, vip) = Counts(a, vip) /\ Refreshing(d, vip) = Refreshing(a, vip) /\ Step(d, vip) = Step(a, vip)
  BY <1>2 DEF Counts, Refreshing, Step
<1>6. ClaimInv(vip, ds)
  <2>1. \A x \in ds : /\ x.gen <= vip.gen /\ x.dgen <= vip.dgen /\ x.at <= vip.asked
                      /\ Counts(x, vip) => vip.account # Nobody /\ vip.at < x.at
                      /\ Refreshing(x, vip) => ~vip.busy
                      /\ Step(x, vip) => vip.busy /\ ~vip.timer /\ vip.claiming
    BY <1>1, <1>2, <1>4, <1>5 DEF ClaimInv
  <2>2. \A x, y \in ds : Counts(x, vip) /\ Counts(y, vip) => x = y
    BY <1>1, <1>4, <1>5 DEF ClaimInv
  <2> QED
    BY <1>1, <2>1, <2>2 DEF ClaimInv
<1>7. TierInv(vip, ds, wallClock)
  <2>1. AnswerIsTrue(d, vip, wallClock)
    BY <1>2, <1>5 DEF AnswerIsTrue
  <2> QED
    BY <1>1, <1>4, <2>1 DEF TierInv
<1>8. InHand(vip, ds)
  BY <1>1, <1>4, <1>5 DEF InHand
<1>9. Begun(ds, asks)
  BY <1>2, <1>4 DEF Begun
<1>10. VipWeak(vip, ds, wallClock)
  BY <1>1, <1>2, <1>4, <1>6, <1>7 DEF VipWeak, VipTypes
<1>11. Panel!Gives(Panel!State(vip, ds))
  BY <1>3, VipParts DEF Panel!Gives
<1> QED
  BY <1>8, <1>9, <1>10, <1>11, VipArrives, VipNow

\* A refusal is none of the account panel's business.
LEMMA TroubleKeeps ==
  ASSUME PanelInv, page' = page, calls' = calls, native' = [native EXCEPT !.trouble = native.trouble + 1]
  PROVE  PanelInv' /\ page'.at >= page.at
<1>1. TypesOf(page, calls, native) /\ SessionInv(page, calls, native) /\ NativeInv(page, calls, native)
  BY DEF PanelInv, PanelInvOf
<1>2. native \in NativeType
  BY <1>1 DEF TypesOf
<1>3. PICK k : k = native.trouble + 1
  OBVIOUS
<1>4. k \in Nat
  BY <1>2, <1>3 DEF NativeType
<1>5. /\ native' \in NativeType /\ native'.user = native.user /\ native'.attempt = native.attempt
      /\ native'.changes = native.changes
  <2>1. native' = [native EXCEPT !.trouble = k]
    BY <1>3
  <2> QED
    BY ONLY <1>2, <1>4, <2>1 DEF NativeType
<1>6. TypesOf(page', calls', native')
  BY <1>1, <1>5 DEF TypesOf
<1>7. SessionInv(page', calls', native') /\ NativeInv(page', calls', native')
  BY <1>1, <1>5 DEF SessionInv, NativeInv
<1>8. PanelInvOf(page', calls', native')
  BY <1>6, <1>7 DEF PanelInv, PanelInvOf
<1>9. PanelInv'
  BY <1>8 DEF PanelInv, PanelInvOf, TypesOf, AttemptInv, Open, Alive, SessionInv, NativeInv, Settled,
              Login, Session, PageOk
<1> QED
  BY <1>1, <1>9 DEF TypesOf, PageOk

LEMMA NotKnown == ~Panel!NoAnswer.known
BY DEF Panel!NoAnswer

LEMMA DetailServed ==
  ASSUME VipInv, PanelInv, vip' = vip, wallClock' = wallClock, NEW a, a \in asks, Panel!VipDetail(a)
  PROVE  VipGoal
<1> DEFINE rows == products.of[native.user]
           answer == [Panel!NoAnswer EXCEPT !.known = TRUE, !.of = native.user, !.rows = rows,
                                            !.premium = Panel!PickEntitlementBucket(rows, Panel!PremiumProducts),
                                            !.listen = Panel!PickEntitlementBucket(rows, Panel!ListenProducts)]
<1>1. Panel!Replies(a, answer) /\ native.user # Nobody /\ Outside
  BY DEF Panel!VipDetail, Panel!OnlyAnswered, Outside
<1>2. native \in NativeType /\ NativeInv(page, calls, native)
  BY DEF PanelInv, PanelInvOf, TypesOf
<1>3. native.user \in Accounts
  BY <1>1, <1>2 DEF NativeType, Users
<1>4. IsFiniteSet(rows) /\ \A row \in rows : row.end \in Nat
  BY <1>3, VipNow, PanelAssumption
<1>5. /\ Reduces(Panel!PickEntitlementBucket(rows, Panel!PremiumProducts), rows, Panel!PremiumProducts, wallClock)
      /\ Reduces(Panel!PickEntitlementBucket(rows, Panel!ListenProducts), rows, Panel!ListenProducts, wallClock)
  <2> HIDE DEF rows
  <2> QED
    BY <1>4, VipNow, BucketReduces
<1>6. /\ answer.of = native.user /\ answer.rows = rows
      /\ answer.premium = Panel!PickEntitlementBucket(rows, Panel!PremiumProducts)
      /\ answer.listen = Panel!PickEntitlementBucket(rows, Panel!ListenProducts)
  BY DEF Panel!NoAnswer
<1> HIDE DEF answer, rows
<1>7. BothReduce(answer.premium, answer.listen, answer.rows, wallClock)
  BY <1>5, <1>6 DEF BothReduce
<1>8. Counts(a, vip) => answer.of = vip.account
  <2>1. Counts(a, vip) => vip.account # Nobody /\ vip.account = page.user
    BY VipNow DEF ClaimInv
  <2> QED
    BY <1>1, <1>2, <1>6, <2>1 DEF NativeInv
<1> QED
  BY <1>1, <1>7, <1>8, Replied

LEMMA Served ==
  ASSUME VipInv, PanelInv, NEW a, a \in asks, Panel!Serve(a)
  PROVE  VipGoal /\ PanelInv' /\ page'.at >= page.at
<1>1. vip' = vip /\ wallClock' = wallClock
  BY DEF Panel!Serve
<1>2. CASE Panel!VipDetail(a)
  <2>1. page' = page /\ calls' = calls /\ native' = native
    BY <1>2 DEF Panel!VipDetail, Panel!OnlyAnswered
  <2> QED
    BY <1>1, <1>2, <2>1, DetailServed, PanelStands DEF accountVars
<1>3. ASSUME NEW answer, ~answer.known, Panel!Replies(a, answer), page' = page, products' = products
      PROVE  VipGoal
  BY <1>1, <1>3, Replied DEF Outside
<1>4. ~[Panel!NoAnswer EXCEPT !.accepted = TRUE].known
  BY DEF Panel!NoAnswer
<1>5. \A reason : ~[Panel!NoAnswer EXCEPT !.reason = reason].known
  BY DEF Panel!NoAnswer
<1>6. ASSUME Panel!Claimed(a), Panel!OnlyAnswered PROVE VipGoal
  <2>1. page' = page /\ products' = products
    BY <1>6 DEF Panel!OnlyAnswered
  <2>2. CASE Panel!Replies(a, [Panel!NoAnswer EXCEPT !.accepted = TRUE])
    BY <1>3, <1>4, <2>1, <2>2
  <2>3. CASE \E code \in {131001, 297002} :
               Panel!Replies(a, [Panel!NoAnswer EXCEPT !.reason = Panel!ClassifyClaimCode(code)])
    <3>1. PICK reason : Panel!Replies(a, [Panel!NoAnswer EXCEPT !.reason = reason])
      BY <2>3
    <3> QED
      BY <1>3, <1>5, <2>1, <3>1
  <2> QED
    BY <1>6, <2>2, <2>3 DEF Panel!Claimed
<1>7. CASE Panel!ClaimVip(a) \/ Panel!UpgradeVipReward(a)
  <2>1. Panel!Claimed(a) /\ Panel!OnlyAnswered
    BY <1>7 DEF Panel!ClaimVip, Panel!UpgradeVipReward
  <2>2. page' = page /\ calls' = calls /\ native' = native
    BY <2>1 DEF Panel!OnlyAnswered
  <2> QED
    BY <1>6, <2>1, <2>2, PanelStands DEF accountVars
<1>8. CASE Panel!ReportAd(a)
  <2>1. Panel!Replies(a, Panel!NoAnswer) /\ page' = page /\ calls' = calls /\ native' = native /\ products' = products
    BY <1>8 DEF Panel!ReportAd, Panel!OnlyAnswered
  <2> QED
    BY <1>3, <2>1, NotKnown, PanelStands DEF accountVars
<1>9. CASE Panel!VipRefused(a)
  <2>1. Panel!Replies(a, Panel!NoAnswer) /\ page' = page /\ calls' = calls /\ products' = products
    BY <1>9 DEF Panel!VipRefused
  <2>2. native' = native \/ native' = [native EXCEPT !.trouble = native.trouble + 1]
    BY <1>9 DEF Panel!VipRefused
  <2>3. VipGoal
    BY <1>3, <2>1, NotKnown
  <2> QED
    BY <2>1, <2>2, <2>3, PanelStands, TroubleKeeps DEF accountVars
<1> QED
  BY <1>2, <1>7, <1>8, <1>9 DEF Panel!Serve

\* An answer nobody waits for.
LEMMA Passed ==
  ASSUME VipInv, Outside, NEW a, a \in asks, ~Step(a, vip), Panel!Gives(Panel!Past(a))
  PROVE  VipGoal
<1> DEFINE rest == asks \ {a}
<1>1. VipWeak(vip, rest, wallClock)
  BY VipNow, AsksFewer
<1>2. InHand(vip, rest)
  BY VipNow DEF InHand
<1>3. Begun(rest, asks)
  BY DEF Begun
<1>4. Panel!Gives(Panel!State(vip, rest))
  BY DEF Panel!Past
<1> QED
  BY <1>1, <1>2, <1>3, <1>4, VipNow, VipArrives

\* The request of a claim comes back, and the panel is v by then.
LEMMA GoesBack ==
  ASSUME NEW v, NEW xs, NEW now, VipWeak(v, xs, now), v.busy, ~v.timer,
         \A x \in xs : ~Counts(x, v)
  PROVE  LET w == [v EXCEPT !.claiming = FALSE]
         IN  /\ VipWeak(w, xs, now) /\ Named(w, v) /\ VipOk(w) /\ ~w.claiming
             /\ w.busy = v.busy /\ w.timer = v.timer /\ w.cancelled = v.cancelled
             /\ \A x \in xs : ~Counts(x, w) /\ ~Step(x, w)
<1> DEFINE w == [v EXCEPT !.claiming = FALSE]
<1>1. VipOk(v)
  BY DEF VipWeak, VipTypes
<1>2. /\ VipOk(w) /\ Alike(w, v) /\ w.dgen = v.dgen /\ w.asked = v.asked /\ w.busy = v.busy
      /\ w.timer = v.timer /\ w.claiming = FALSE /\ w.cancelled = v.cancelled
  BY ONLY <1>1 DEF VipOk, VipFields, Alike
<1> HIDE DEF w
<1>3. \A x \in xs : Step(x, v) => ~w.timer /\ w.claiming
  BY DEF Counts
<1>4. w.timer => w.busy /\ ~w.claiming
  BY <1>2
<1>5. VipWeak(v, xs, now)
  OBVIOUS
<1>6. /\ VipWeak(w, xs, now) /\ Named(w, v)
      /\ \A x \in xs : Counts(x, w) = Counts(x, v) /\ Step(x, w) = Step(x, v)
  BY ONLY <1>2, <1>3, <1>4, <1>5, Relook
<1> QED
  BY <1>2, <1>6 DEF Counts, w

LEMMA DetailHeard ==
  ASSUME VipInv, Outside, NEW a, a \in asks, Panel!HearVipDetail(a)
  PROVE  VipGoal
<1>1. /\ VipWeak(vip, asks, wallClock) /\ VipOk(vip) /\ ClaimInv(vip, asks) /\ InHand(vip, asks)
      /\ wallClock \in Nat /\ a.kind = "detail"
  BY VipNow DEF Panel!HearVipDetail
<1>2. CASE ~(a.gen = vip.gen /\ a.dgen = vip.dgen)
  <2>1. Panel!Gives(Panel!Past(a))
    BY <1>2 DEF Panel!HearVipDetail, Panel!Current
  <2>2. ~Step(a, vip)
    BY <1>1 DEF Step
  <2> QED
    BY <2>1, <2>2, Passed
<1>3. CASE a.gen = vip.gen /\ a.dgen = vip.dgen
  <2> DEFINE v == [vip EXCEPT !.loading = FALSE]
             w == Panel!Apply(v, a)
  <2>1. Panel!Gives(Panel!State(w, asks \ {a}))
    BY <1>3 DEF Panel!HearVipDetail, Panel!Current
  <2>2. /\ VipOk(v) /\ Alike(v, vip) /\ v.dgen = vip.dgen /\ v.asked = vip.asked /\ v.busy = vip.busy
        /\ v.timer = vip.timer /\ v.claiming = vip.claiming
    BY ONLY <1>1 DEF VipOk, VipFields, Alike
  <2> HIDE DEF v, w
  <2>3. \A x \in asks : Step(x, vip) => ~v.timer /\ v.claiming
    BY <1>1, <2>2 DEF ClaimInv
  <2>4. v.timer => v.busy /\ ~v.claiming
    BY <1>1, <2>2 DEF ClaimInv
  <2>5. /\ VipWeak(v, asks, wallClock) /\ Named(v, vip)
        /\ \A x \in asks : Counts(x, v) = Counts(x, vip) /\ Step(x, v) = Step(x, vip)
    BY <1>1, <2>2, <2>3, <2>4, Relook
  <2>6. Counts(a, v) /\ ~vip.busy
    <3>1. Refreshing(a, vip)
      BY <1>1, <1>3 DEF Refreshing
    <3> QED
      BY <1>1, <2>5, <3>1 DEF Counts, ClaimInv
  <2>7. /\ VipWeak(w, asks \ {a}, wallClock)
        /\ w.account = v.account /\ w.gen = v.gen /\ w.at >= v.at /\ w.busy = v.busy
    BY <1>1, <2>5, <2>6, Applies DEF w
  <2>8. InHand(w, asks \ {a})
    BY <2>2, <2>6, <2>7 DEF InHand
  <2>9. Begun(asks \ {a}, asks)
    BY DEF Begun
  <2>10. w.account = vip.account /\ w.gen >= vip.gen /\ w.at >= vip.at
    BY <1>1, <2>5, <2>7 DEF Named, VipOk
  <2> QED
    BY <2>1, <2>7, <2>8, <2>9, <2>10, VipArrives
<1> QED
  BY <1>2, <1>3

\* The step of a claim that comes back is the only request that counts.
LEMMA StepHeard ==
  ASSUME VipInv, NEW a, a \in asks, a.kind \in {"claim", "confirm", "ad"}, a.gen = vip.gen
  PROVE  /\ Step(a, vip) /\ Counts(a, vip) /\ vip.busy /\ ~vip.timer /\ vip.account # Nobody
         /\ \A x \in asks \ {a} : ~Counts(x, vip)
         /\ VipWeak(vip, asks \ {a}, wallClock)
<1>1. Step(a, vip) /\ Counts(a, vip)
  BY DEF Step, Counts
<1>2. ClaimInv(vip, asks) /\ VipWeak(vip, asks \ {a}, wallClock)
  BY VipNow, AsksFewer
<1>3. vip.busy /\ ~vip.timer /\ vip.account # Nobody
  BY <1>1, <1>2 DEF ClaimInv
<1>4. \A x \in asks \ {a} : ~Counts(x, vip)
  BY <1>1, <1>2 DEF ClaimInv
<1> QED
  BY <1>1, <1>2, <1>3, <1>4

LEMMA ClaimHeard ==
  ASSUME VipInv, Outside, NEW a, a \in asks, Panel!HearClaim(a)
  PROVE  VipGoal
<1> DEFINE rest == asks \ {a}
<1>1. VipOk(vip) /\ a.kind = "claim"
  BY VipNow DEF Panel!HearClaim
<1>2. CASE a.gen # vip.gen
  <2>1. Panel!Gives(Panel!Past(a)) /\ ~Step(a, vip)
    BY <1>2 DEF Panel!HearClaim, Panel!Current, Step
  <2> QED
    BY <2>1, Passed
<1>3. CASE a.gen = vip.gen
  <2>1. /\ vip.busy /\ ~vip.timer /\ vip.account # Nobody
        /\ \A x \in rest : ~Counts(x, vip)
        /\ VipWeak(vip, rest, wallClock)
    BY <1>1, <1>3, StepHeard
  <2>2. PICK next : \/ Panel!Gives(Panel!Finish(Panel!Back(vip, a)))
                    \/ Panel!Gives(Panel!Confirm(Panel!Back([vip EXCEPT !.stage = next, !.attempts = 0], a)))
    BY <1>3 DEF Panel!HearClaim, Panel!Current
  <2>3. CASE Panel!Gives(Panel!Finish(Panel!Back(vip, a)))
    <3>1. PICK v : v = [vip EXCEPT !.claiming = FALSE]
      OBVIOUS
    <3>2. VipWeak(v, rest, wallClock) /\ Named(v, vip) /\ \A x \in rest : ~Step(x, v)
      BY <2>1, <3>1, GoesBack
    <3>3. PICK w : /\ Panel!Finish(Panel!State(v, rest)) = Panel!State(w, rest)
                   /\ VipWeak(w, rest, wallClock) /\ InHand(w, rest) /\ Named(w, v)
      BY <3>2, Finishes
    <3>4. Panel!Gives(Panel!State(w, rest))
      BY <2>3, <3>1, <3>3 DEF Panel!Back
    <3>5. Begun(rest, asks)
      BY DEF Begun
    <3>6. w.account = vip.account /\ w.gen >= vip.gen /\ w.at >= vip.at
      BY <1>1, <3>2, <3>3 DEF Named, VipOk
    <3> QED
      BY <3>3, <3>4, <3>5, <3>6, VipArrives
  <2>4. CASE Panel!Gives(Panel!Confirm(Panel!Back([vip EXCEPT !.stage = next, !.attempts = 0], a)))
    <3>1. PICK u : u = [vip EXCEPT !.stage = next, !.attempts = 0]
      OBVIOUS
    <3>2. /\ VipOk(u) /\ Alike(u, vip) /\ u.dgen = vip.dgen /\ u.asked = vip.asked /\ u.busy = vip.busy
          /\ u.timer = vip.timer /\ u.claiming = vip.claiming
      BY ONLY <1>1, <3>1 DEF VipOk, VipFields, Alike
    <3>3. \A x \in rest : ~Step(x, vip)
      BY <2>1 DEF Counts
    <3>4. /\ VipWeak(u, rest, wallClock) /\ Named(u, vip)
          /\ \A x \in rest : Counts(x, u) = Counts(x, vip)
      <4>1. u.timer => u.busy /\ ~u.claiming
        BY <2>1, <3>2
      <4>2. \A x \in rest : Step(x, vip) => ~u.timer /\ u.claiming
        BY <3>3
      <4>3. VipWeak(vip, rest, wallClock)
        BY <2>1
      <4> QED
        BY ONLY <3>2, <4>1, <4>2, <4>3, Relook
    <3>5. PICK v : v = [u EXCEPT !.claiming = FALSE]
      OBVIOUS
    <3>6. /\ VipWeak(v, rest, wallClock) /\ Named(v, u) /\ v.busy = u.busy /\ v.timer = u.timer
          /\ \A x \in rest : ~Counts(x, v)
      <4>1. u.busy /\ ~u.timer /\ \A x \in rest : ~Counts(x, u)
        BY <2>1, <3>2, <3>4
      <4> QED
        BY <3>4, <3>5, <4>1, GoesBack
    <3>7. v.account # Nobody /\ v.busy /\ ~v.timer
      BY <2>1, <3>2, <3>4, <3>6 DEF Named
    <3>8. PICK w, ds : /\ Panel!Confirm(Panel!State(v, rest)) = Panel!State(w, ds)
                       /\ VipWeak(w, ds, wallClock) /\ InHand(w, ds) /\ Named(w, v)
                       /\ \A d \in ds : d \in rest \/ d.kind = "confirm"
      BY <3>6, <3>7, ConfirmsClaim
    <3>9. Panel!Gives(Panel!State(w, ds))
      BY <2>4, <3>1, <3>5, <3>8 DEF Panel!Back
    <3>10. Begun(ds, asks)
      BY <3>8 DEF Begun
    <3>11. w.account = vip.account /\ w.gen >= vip.gen /\ w.at >= vip.at
      BY <1>1, <3>4, <3>6, <3>8 DEF Named, VipOk
    <3> QED
      BY <3>8, <3>9, <3>10, <3>11, VipArrives
  <2> QED
    BY <2>2, <2>3, <2>4
<1> QED
  BY <1>2, <1>3

LEMMA AdHeard ==
  ASSUME VipInv, Outside, NEW a, a \in asks, Panel!HearAd(a)
  PROVE  VipGoal
<1> DEFINE rest == asks \ {a}
<1>1. VipOk(vip) /\ a.kind = "ad"
  BY VipNow DEF Panel!HearAd
<1>2. CASE a.gen # vip.gen
  <2>1. Panel!Gives(Panel!Past(a)) /\ ~Step(a, vip)
    BY <1>2 DEF Panel!HearAd, Panel!Current, Step
  <2> QED
    BY <2>1, Passed
<1>3. CASE a.gen = vip.gen
  <2>1. /\ vip.busy /\ ~vip.timer /\ vip.account # Nobody
        /\ \A x \in rest : ~Counts(x, vip)
        /\ VipWeak(vip, rest, wallClock)
    BY <1>1, <1>3, StepHeard
  <2>2. PICK v : v = [vip EXCEPT !.claiming = FALSE]
    OBVIOUS
  <2>3. PICK route : route = "upgrade"
    OBVIOUS
  <2>4. Panel!Gives(Panel!RequestClaim(Panel!State(v, rest), route))
    BY <1>3, <2>2, <2>3 DEF Panel!HearAd, Panel!Current, Panel!Back
  <2>5. /\ VipWeak(v, rest, wallClock) /\ Named(v, vip) /\ v.busy = vip.busy /\ v.timer = vip.timer
        /\ v.cancelled = vip.cancelled /\ \A x \in rest : ~Counts(x, v)
    BY <2>1, <2>2, GoesBack
  <2>6. v.account # Nobody /\ v.busy /\ ~v.timer
    BY <2>1, <2>5 DEF Named
  <2>7. PICK w, ds : /\ Panel!RequestClaim(Panel!State(v, rest), route) = Panel!State(w, ds)
                     /\ VipWeak(w, ds, wallClock) /\ InHand(w, ds) /\ Named(w, v)
                     /\ v.cancelled => ds = rest
    BY <2>5, <2>6, RequestsClaim
  <2>8. vip.busy /\ vip.cancelled => Begun(ds, asks)
    BY <2>5, <2>7 DEF Begun
  <2>9. w.account = vip.account /\ w.gen >= vip.gen /\ w.at >= vip.at
    BY <1>1, <2>5, <2>7 DEF Named, VipOk
  <2> QED
    BY <2>4, <2>7, <2>8, <2>9, VipArrives
<1> QED
  BY <1>2, <1>3

\* The answer of a confirmation is applied to the panel as it is.
LEMMA AppliesNow ==
  ASSUME VipInv, NEW a, a \in asks, Counts(a, vip)
  PROVE  /\ VipWeak(Panel!Apply(vip, a), asks \ {a}, wallClock)
         /\ Panel!Apply(vip, a).account = vip.account /\ Panel!Apply(vip, a).gen = vip.gen
         /\ Panel!Apply(vip, a).at >= vip.at /\ Panel!Apply(vip, a).busy = vip.busy
         /\ Panel!Apply(vip, a).timer = vip.timer /\ Panel!Apply(vip, a).cancelled = vip.cancelled
         /\ \A x \in asks \ {a} : ~Counts(x, Panel!Apply(vip, a))
<1>1. VipWeak(vip, asks, wallClock) /\ wallClock \in Nat
  BY VipNow
<1>2. a \in asks /\ Counts(a, vip)
  OBVIOUS
<1> QED
  BY ONLY <1>1, <1>2, Applies

LEMMA ConfirmHeard ==
  ASSUME VipInv, Outside, NEW a, a \in asks, Panel!HearConfirm(a)
  PROVE  VipGoal
<1> DEFINE rest == asks \ {a}
           v == Panel!Apply(vip, a)
           s == Panel!Back(v, a)
<1>1. VipOk(vip) /\ a.kind = "confirm" /\ wallClock \in Nat /\ VipWeak(vip, asks, wallClock)
  BY VipNow DEF Panel!HearConfirm
<1>2. CASE a.gen # vip.gen
  <2>1. Panel!Gives(Panel!Past(a)) /\ ~Step(a, vip)
    BY <1>2 DEF Panel!HearConfirm, Panel!Current, Step
  <2> QED
    BY <2>1, Passed
<1>3. CASE a.gen = vip.gen
  <2>1. Counts(a, vip) /\ vip.busy /\ ~vip.timer /\ vip.account # Nobody
    BY <1>1, <1>3, StepHeard
  <2>2. /\ VipWeak(v, rest, wallClock)
        /\ v.account = vip.account /\ v.gen = vip.gen /\ v.at >= vip.at
        /\ v.busy = vip.busy /\ v.timer = vip.timer /\ v.cancelled = vip.cancelled
        /\ \A x \in rest : ~Counts(x, v)
    BY <2>1, AppliesNow
  <2>3. \/ Panel!Gives(Panel!Finish(s))
        \/ ~v.cancelled /\ Panel!Gives(Panel!Advance(Panel!Back([v EXCEPT !.stage = "upgrade"], a)))
        \/ Panel!Gives(Panel!State([s.vip EXCEPT !.timer = TRUE], s.asks))
    BY <1>3 DEF Panel!HearConfirm, Panel!Current
  <2> HIDE DEF v
  <2>4. VipOk(v) /\ ClaimInv(v, rest) /\ vip.gen \in Nat
    BY <1>1, <2>2 DEF VipWeak, VipTypes, VipOk
  <2>5. PICK b : b = [v EXCEPT !.claiming = FALSE]
    OBVIOUS
  <2>6. /\ VipWeak(b, rest, wallClock) /\ Named(b, v) /\ VipOk(b) /\ ~b.claiming
        /\ b.busy = v.busy /\ b.timer = v.timer
        /\ \A x \in rest : ~Counts(x, b) /\ ~Step(x, b)
    BY <2>1, <2>2, <2>5, GoesBack
  <2>7. s = Panel!State(b, rest)
    BY <2>5 DEF Panel!Back
  <2> HIDE DEF s
  <2>8. ASSUME NEW w, Named(w, v)
        PROVE  w.account = vip.account /\ w.gen >= vip.gen /\ w.at >= vip.at
    BY <2>2, <2>4, <2>8 DEF Named
  <2>9. CASE Panel!Gives(Panel!Finish(s))
    <3>1. PICK w : /\ Panel!Finish(Panel!State(b, rest)) = Panel!State(w, rest)
                   /\ VipWeak(w, rest, wallClock) /\ InHand(w, rest) /\ Named(w, b)
      BY <2>6, Finishes
    <3>2. Panel!Gives(Panel!State(w, rest)) /\ Begun(rest, asks) /\ Named(w, v)
      BY <2>6, <2>7, <2>9, <3>1 DEF Begun, Named
    <3> QED
      BY <2>8, <3>1, <3>2, VipArrives
  <2>10. CASE ~v.cancelled /\ Panel!Gives(Panel!Advance(Panel!Back([v EXCEPT !.stage = "upgrade"], a)))
    <3>1. PICK u : u = [v EXCEPT !.stage = "upgrade"]
      OBVIOUS
    <3>2. /\ VipOk(u) /\ Alike(u, v) /\ u.dgen = v.dgen /\ u.asked = v.asked /\ u.busy = v.busy
          /\ u.timer = v.timer /\ u.claiming = v.claiming /\ u.cancelled = v.cancelled
      BY ONLY <2>4, <3>1 DEF VipOk, VipFields, Alike
    <3>3. /\ VipWeak(u, rest, wallClock) /\ Named(u, v)
          /\ \A x \in rest : Counts(x, u) = Counts(x, v)
      <4>1. u.timer => u.busy /\ ~u.claiming
        BY <2>1, <2>2, <3>2
      <4>2. \A x \in rest : Step(x, v) => ~u.timer /\ u.claiming
        BY <2>2 DEF Counts
      <4> QED
        BY <2>2, <3>2, <4>1, <4>2, Relook
    <3>4. PICK t : t = [u EXCEPT !.claiming = FALSE]
      OBVIOUS
    <3>5. /\ VipWeak(t, rest, wallClock) /\ Named(t, u) /\ t.busy = u.busy /\ t.timer = u.timer
          /\ t.cancelled = u.cancelled /\ \A x \in rest : ~Counts(x, t)
      <4>1. u.busy /\ ~u.timer /\ \A x \in rest : ~Counts(x, u)
        BY <2>1, <2>2, <3>2, <3>3
      <4> QED
        BY <3>3, <3>4, <4>1, GoesBack
    <3>6. t.account # Nobody /\ t.busy /\ ~t.timer /\ ~t.cancelled
      BY <2>1, <2>2, <2>10, <3>2, <3>3, <3>5 DEF Named
    <3>7. PICK w, ds : /\ Panel!Advance(Panel!State(t, rest)) = Panel!State(w, ds)
                       /\ VipWeak(w, ds, wallClock) /\ InHand(w, ds) /\ Named(w, t)
      BY <3>5, <3>6, RequestsClaim
    <3>8. Panel!Gives(Panel!State(w, ds)) /\ Named(w, v)
      BY <2>10, <3>1, <3>3, <3>4, <3>5, <3>7 DEF Panel!Back, Named
    <3>9. ~vip.cancelled
      BY <2>2, <2>10
    <3> QED
      BY <2>8, <3>7, <3>8, <3>9, VipArrives
  <2>11. CASE Panel!Gives(Panel!State([s.vip EXCEPT !.timer = TRUE], s.asks))
    <3>1. PICK w : w = [b EXCEPT !.timer = TRUE]
      OBVIOUS
    <3>2. /\ VipOk(w) /\ Alike(w, b) /\ w.dgen = b.dgen /\ w.asked = b.asked /\ w.busy = b.busy
          /\ w.timer = TRUE /\ w.claiming = b.claiming
      BY ONLY <2>6, <3>1 DEF VipOk, VipFields, Alike
    <3>3. Panel!Gives(Panel!State(w, rest))
      BY <2>7, <2>11, <3>1, VipParts
    <3>4. VipWeak(w, rest, wallClock) /\ Named(w, b)
      <4>1. w.timer => w.busy /\ ~w.claiming
        BY <2>1, <2>2, <2>6, <3>2
      <4>2. \A x \in rest : Step(x, b) => ~w.timer /\ w.claiming
        BY <2>6
      <4> QED
        BY <2>6, <3>2, <4>1, <4>2, Relook
    <3>5. InHand(w, rest) /\ Begun(rest, asks) /\ Named(w, v)
      BY <2>6, <3>2, <3>4 DEF InHand, Begun, Named
    <3> QED
      BY <2>8, <3>3, <3>4, <3>5, VipArrives
  <2> QED
    BY <2>3, <2>9, <2>10, <2>11
<1> QED
  BY <1>2, <1>3

LEMMA VipLands ==
  ASSUME VipInv, NEW w, NEW ds, NEW now, vip' = w, asks' = ds, wallClock' = now,
         VipWeak(w, ds, now), InHand(w, ds), w.account = page'.user, Upstairs(products', now),
         w.gen >= vip.gen, w.account = vip.account => w.at >= vip.at,
         vip.busy /\ vip.cancelled => Begun(ds, asks)
  PROVE  VipGoal
<1>1. VipInvOf(vip', asks', wallClock') /\ vip'.account = page'.user /\ Upstairs(products', wallClock')
  BY DEF VipInvOf
<1>2. VipInv'
  BY <1>1 DEF VipInv, VipInvOf, VipWeak, VipTypes, VipOk, AskOk, ClaimInv, InHand, TierInv, Shown, AnswerIsTrue,
              Counts, Refreshing, Step, Upstairs, BothReduce, Reduces, Running, Grants, Deserved
<1>3. Panel!NewerAnswers
  BY DEF Panel!NewerAnswers
<1>4. Panel!NothingBegun
  BY DEF Panel!NothingBegun, Begun
<1> QED
  BY <1>2, <1>3, <1>4 DEF VipGoal

LEMMA ExpiryFires ==
  ASSUME VipInv, Panel!ExpiryTimer
  PROVE  VipGoal
<1>1. PICK tier : tier = Panel!TierOf(vip)
  OBVIOUS
<1>2. PICK u : u = [vip EXCEPT !.tier = tier, !.judged = wallClock]
  OBVIOUS
<1>3. vip' = u /\ asks' = asks /\ Outside
  BY <1>1, <1>2, RestIs DEF Panel!ExpiryTimer
<1>4. VipOk(vip) /\ ClaimInv(vip, asks) /\ TierInv(vip, asks, wallClock) /\ wallClock \in Nat
  BY VipNow
<1>5. /\ VipOk(u) /\ Named(u, vip) /\ u.tier = tier /\ u.judged = wallClock /\ u.premium = vip.premium
      /\ u.listen = vip.listen /\ u.authoritative = vip.authoritative /\ u.told = vip.told /\ u.of = vip.of
  BY ONLY <1>2, <1>4 DEF VipOk, VipFields, Named
<1>6. /\ u.dgen = vip.dgen /\ u.asked = vip.asked /\ u.busy = vip.busy /\ u.timer = vip.timer
      /\ u.claiming = vip.claiming
  BY ONLY <1>2, <1>4 DEF VipOk, VipFields
<1>7. \A x : /\ Counts(x, u) = Counts(x, vip) /\ Step(x, u) = Step(x, vip)
             /\ Refreshing(x, u) = Refreshing(x, vip)
  BY <1>5, <1>6 DEF Counts, Refreshing, Step, Named
<1>8. ClaimInv(u, asks)
  <2>1. \A x \in asks : /\ x.gen <= u.gen /\ x.dgen <= u.dgen /\ x.at <= u.asked
                        /\ Counts(x, u) => u.account # Nobody /\ u.at < x.at
                        /\ Refreshing(x, u) => ~u.busy
                        /\ Step(x, u) => u.busy /\ ~u.timer /\ u.claiming
    BY <1>4, <1>5, <1>6, <1>7 DEF ClaimInv, Named
  <2>2. \A x, y \in asks : Counts(x, u) /\ Counts(y, u) => x = y
    BY <1>4, <1>7 DEF ClaimInv
  <2>3. (u.timer => u.busy /\ ~u.claiming) /\ (u.busy => u.account # Nobody)
    BY <1>4, <1>5, <1>6 DEF ClaimInv, Named
  <2>4. u.at <= u.asked
    BY <1>4, <1>5, <1>6 DEF ClaimInv, Named
  <2> QED
    BY <2>1, <2>2, <2>3, <2>4 DEF ClaimInv
<1>9. Shown(u, wallClock)
  <2>1. tier = IF Running(vip.premium, wallClock) THEN "premium"
               ELSE IF Running(vip.listen, wallClock) THEN "listen"
               ELSE IF vip.authoritative THEN "none" ELSE "unknown"
    BY <1>1 DEF Panel!TierOf, Panel!Lasts, Running, Panel!Forever
  <2>2. CASE vip.authoritative
    <3>1. vip.of = vip.account /\ BothReduce(vip.premium, vip.listen, vip.told, wallClock)
      BY <1>4, <2>2 DEF TierInv, Shown
    <3>2. /\ Running(vip.premium, wallClock) <=> Grants(vip.told, Panel!PremiumProducts, wallClock)
          /\ Running(vip.listen, wallClock) <=> Grants(vip.told, Panel!ListenProducts, wallClock)
      BY <1>4, <3>1 DEF BothReduce, Reduces
    <3>3. tier = Deserved(vip.told, wallClock)
      BY <2>1, <2>2, <3>2 DEF Deserved
    <3>4. u.judged <= wallClock /\ u.authoritative
      BY <1>4, <1>5, <2>2
    <3>5. u.of = u.account
      BY <1>5, <3>1 DEF Named
    <3>6. BothReduce(u.premium, u.listen, u.told, wallClock) /\ u.tier = Deserved(u.told, u.judged)
      BY <1>5, <3>1, <3>3
    <3> QED
      BY <3>4, <3>5, <3>6 DEF Shown
  <2>3. CASE ~vip.authoritative
    <3>1. vip.premium = Panel!NoBucket /\ vip.listen = Panel!NoBucket
      BY <1>4, <2>3 DEF TierInv, Shown
    <3>2. tier = "unknown"
      BY <2>1, <2>3, <3>1 DEF Running, Panel!NoBucket
    <3>3. u.judged <= wallClock /\ ~u.authoritative
      BY <1>4, <1>5, <2>3
    <3>4. u.premium = Panel!NoBucket /\ u.listen = Panel!NoBucket /\ u.tier = "unknown"
      BY <1>5, <3>1, <3>2
    <3> QED
      BY <3>3, <3>4 DEF Shown
  <2> QED
    BY <2>2, <2>3
<1>10. TierInv(u, asks, wallClock)
  BY <1>4, <1>5, <1>7, <1>9 DEF TierInv, AnswerIsTrue, Named
<1>11. VipWeak(u, asks, wallClock) /\ InHand(u, asks)
  <2>1. InHand(vip, asks) /\ \A x \in asks : AskOk(x)
    BY VipNow
  <2> QED
    BY <1>5, <1>6, <1>7, <1>8, <1>10, <2>1 DEF VipWeak, VipTypes, InHand
<1>12. Panel!Gives(Panel!State(u, asks))
  BY <1>3, VipParts DEF Panel!Gives
<1>13. Begun(asks, asks) /\ u.account = vip.account /\ u.gen >= vip.gen /\ u.at >= vip.at
  BY <1>4, <1>5 DEF Begun, Named, VipOk
<1> QED
  BY <1>3, <1>11, <1>12, <1>13, VipArrives

\* What upstream grants changes nothing here until it is asked for.
LEMMA Granted ==
  ASSUME VipInv, PanelInv, Panel!Grant
  PROVE  VipGoal
<1>1. /\ page' = page /\ native.user # Nobody /\ vip' = vip /\ asks' = asks /\ wallClock' = wallClock
      /\ \E rows \in Entitlements : products'.of = [products.of EXCEPT ![native.user] = rows]
  BY DEF Panel!Grant, Panel!accountVars
<1>2. native.user \in Accounts
  BY <1>1 DEF PanelInv, PanelInvOf, TypesOf, NativeType, Users
<1>3. Upstairs(products', wallClock)
  BY <1>1, <1>2, VipNow DEF Upstairs
<1>4. Begun(asks, asks)
  BY DEF Begun
<1> QED
  BY <1>1, <1>3, <1>4, VipNow, VipLands

LEMMA Ticked ==
  ASSUME VipInv, Panel!Tick
  PROVE  VipGoal
<1> DEFINE now == wallClock + 1
<1>1. page' = page /\ vip' = vip /\ asks' = asks /\ products' = products /\ wallClock' = now
  BY DEF Panel!Tick, Panel!accountVars
<1>2. wallClock \in Nat /\ now \in Nat /\ wallClock <= now
  BY VipNow
<1>3. VipOk(vip) /\ ClaimInv(vip, asks) /\ TierInv(vip, asks, wallClock) /\ \A x \in asks : AskOk(x)
  BY VipNow
<1> HIDE DEF now
<1>4. \A premium, listen, rows : BothReduce(premium, listen, rows, wallClock) => BothReduce(premium, listen, rows, now)
  <2>1. \A t \in Nat : t >= now => t >= wallClock
    BY <1>2
  <2> QED
    BY <2>1 DEF BothReduce, Reduces
<1>5. Shown(vip, now)
  <2>1. vip.judged <= now
    BY <1>2, <1>3 DEF TierInv, Shown, VipOk
  <2> QED
    BY <1>3, <1>4, <2>1 DEF TierInv, Shown
<1>6. TierInv(vip, asks, now)
  BY <1>3, <1>4, <1>5 DEF TierInv, AnswerIsTrue
<1>7. VipWeak(vip, asks, now)
  BY <1>3, <1>6 DEF VipWeak, VipTypes
<1>8. Upstairs(products', now) /\ Begun(asks, asks)
  BY <1>1, <1>2, VipNow DEF Upstairs, Begun
<1> QED
  BY <1>1, <1>7, <1>8, VipNow, VipLands

\* Another account: the panel starts anew, and none of its requests counts.
LEMMA BlankFits ==
  ASSUME VipInv, NEW user, user \in Users
  PROVE  LET v == [Panel!Blank(user) EXCEPT !.gen = vip.gen + 1, !.dgen = vip.dgen + 1,
                                            !.claiming = vip.claiming, !.asked = vip.asked]
             ys == Panel!CancelAsks(asks, Panel!ClaimKinds \cup {"detail"})
         IN  /\ VipWeak(v, ys, wallClock) /\ InHand(v, ys) /\ Newer(ys, asks, "none")
             /\ v.account = user /\ v.gen >= vip.gen
<1>1. PICK ys : ys = Panel!CancelAsks(asks, Panel!ClaimKinds \cup {"detail"})
  OBVIOUS
<1>2. PICK kinds : kinds = Panel!ClaimKinds \cup {"detail"}
  OBVIOUS
<1>3. VipWeak(vip, ys, wallClock) /\ Newer(ys, asks, "none")
  BY <1>1, <1>2, VipNow, AsksCancelled
<1>4. VipOk(vip) /\ ClaimInv(vip, ys) /\ TierInv(vip, ys, wallClock) /\ (\A x \in ys : AskOk(x)) /\ wallClock \in Nat
  BY <1>3, VipNow DEF VipWeak, VipTypes
<1>5. PICK gen, dgen, n, claiming : /\ gen = vip.gen + 1 /\ dgen = vip.dgen + 1 /\ n = vip.asked
                                        /\ claiming = vip.claiming
  OBVIOUS
<1>6. gen \in Nat /\ dgen \in Nat /\ n \in Nat /\ gen > vip.gen /\ dgen > vip.dgen
  BY <1>4, <1>5 DEF VipOk
<1>7. PICK v : v = [Panel!Blank(user) EXCEPT !.gen = gen, !.dgen = dgen, !.claiming = claiming, !.asked = n]
  OBVIOUS
<1>8. /\ VipOk(v) /\ v.account = user /\ v.gen = gen /\ v.dgen = dgen /\ v.asked = n
      /\ v.judged = 0 /\ v.at = 0
  BY ONLY <1>6, <1>7, user \in Users DEF VipOk, VipFields, Panel!Blank
<1>9. /\ ~v.busy /\ ~v.timer /\ ~v.authoritative /\ v.tier = "unknown"
      /\ v.premium = Panel!NoBucket /\ v.listen = Panel!NoBucket
  BY ONLY <1>7 DEF Panel!Blank
<1>10. \A x \in ys : /\ x.gen <= v.gen /\ x.dgen <= v.dgen /\ x.at <= v.asked /\ x.gen # v.gen
  BY <1>4, <1>5, <1>6, <1>8 DEF ClaimInv, VipOk, AskOk
<1>11. \A x \in ys : ~Counts(x, v) /\ ~Refreshing(x, v) /\ ~Step(x, v)
  BY <1>10 DEF Counts, Refreshing, Step
<1>12. v.at <= v.asked
  BY <1>6, <1>8
<1>13. ClaimInv(v, ys)
  BY <1>9, <1>10, <1>11, <1>12 DEF ClaimInv
<1>14. TierInv(v, ys, wallClock)
  <2>1. v.judged <= wallClock
    BY <1>4, <1>8
  <2>2. Shown(v, wallClock)
    BY <1>9, <2>1 DEF Shown
  <2> QED
    BY <1>4, <1>11, <2>2 DEF TierInv, AnswerIsTrue
<1>15. VipWeak(v, ys, wallClock) /\ InHand(v, ys)
  BY <1>4, <1>8, <1>9, <1>13, <1>14 DEF VipWeak, VipTypes, InHand
<1>16. v.gen >= vip.gen
  BY <1>4, <1>6, <1>8 DEF VipOk
<1> QED
  BY ONLY <1>1, <1>3, <1>5, <1>7, <1>8, <1>15, <1>16

LEMMA AccountStepped ==
  ASSUME VipInv, PanelInv, Panel!AccountStep
  PROVE  VipGoal /\ PanelInv' /\ page'.at >= page.at
<1>1. PanelInv' /\ page'.at >= page.at
  BY AccountKeeps DEF Panel!AccountStep
<1>2. products' = products /\ wallClock' = wallClock
  BY DEF Panel!AccountStep
<1>3. Upstairs(products', wallClock)
  BY <1>2, VipNow DEF Upstairs
<1>4. CASE page'.user = page.user
  <2>1. vip' = vip /\ asks' = asks
    BY <1>4 DEF Panel!AccountStep
  <2>2. Begun(asks, asks) /\ vip.account = page'.user
    BY <1>4, VipNow DEF Begun
  <2>3. VipGoal
    BY <1>2, <1>3, <2>1, <2>2, VipNow, VipLands
  <2> QED
    BY <1>1, <2>3
<1>5. CASE page'.user # page.user
  <2>1. PICK user : user = page'.user
    OBVIOUS
  <2>2. user \in Users
    BY <1>1, <2>1 DEF PanelInv, PanelInvOf, TypesOf, PageOk, Users
  <2>3. PICK v : v = [Panel!Blank(user) EXCEPT !.gen = vip.gen + 1, !.dgen = vip.dgen + 1,
                                               !.claiming = vip.claiming, !.asked = vip.asked]
    OBVIOUS
  <2>4. PICK ys : ys = Panel!CancelAsks(asks, Panel!ClaimKinds \cup {"detail"})
    OBVIOUS
  <2>5. /\ VipWeak(v, ys, wallClock) /\ InHand(v, ys) /\ Newer(ys, asks, "none")
        /\ v.account = user /\ v.gen >= vip.gen
    BY <2>2, <2>3, <2>4, BlankFits
  <2>6. PICK w, ds : /\ Panel!Refresh(Panel!State(v, ys)) = Panel!State(w, ds)
                     /\ VipWeak(w, ds, wallClock) /\ InHand(w, ds) /\ Named(w, v)
                     /\ Newer(ds, ys, "detail")
    BY <2>5, Refreshes
  <2>7. Panel!SetAccount(Panel!NowVip, user) = Panel!Refresh(Panel!State(v, ys))
    BY <2>3, <2>4, VipParts DEF Panel!SetAccount, Panel!NowVip
  <2>8. vip' = w /\ asks' = ds
    BY <1>5, <2>1, <2>6, <2>7, VipParts DEF Panel!AccountStep, Panel!Gives
  <2>9. Begun(ds, asks)
    <3>1. \A y \in ys : y.kind # "none"
      BY <2>5 DEF VipWeak, VipTypes, AskOk
    <3> QED
      BY <2>5, <2>6, <3>1 DEF Newer, Begun
  <2>10. w.account = page'.user /\ w.account # vip.account /\ w.gen >= vip.gen
    BY <1>5, <2>1, <2>5, <2>6, VipNow DEF Named
  <2>11. VipGoal
    BY <1>2, <1>3, <2>6, <2>8, <2>9, <2>10, VipLands
  <2> QED
    BY <1>1, <2>11
<1> QED
  BY <1>4, <1>5

LEMMA VipHeard ==
  ASSUME VipInv, NEW a, a \in asks, Panel!HearVip(a)
  PROVE  VipGoal
BY RestIs, DetailHeard, ClaimHeard, ConfirmHeard, AdHeard DEF Panel!HearVip

\* Every step of the panel with its entitlements.
LEMMA VipKeeps ==
  ASSUME VipInv, PanelInv, Panel!VipNext
  PROVE  VipGoal /\ PanelInv' /\ page'.at >= page.at
<1>1. CASE Panel!AccountStep
  BY <1>1, AccountStepped
<1>2. ASSUME NEW a, a \in asks, Panel!Serve(a)
      PROVE  VipGoal /\ PanelInv' /\ page'.at >= page.at
  BY <1>2, Served
<1>3. ASSUME VipGoal, page' = page, calls' = calls, native' = native
      PROVE  VipGoal /\ PanelInv' /\ page'.at >= page.at
  BY <1>3, PanelStands DEF accountVars
<1>4. ASSUME Panel!Rest PROVE page' = page /\ calls' = calls /\ native' = native
  BY <1>4, RestIs DEF Outside
<1>5. ASSUME NEW a, a \in asks, Panel!HearVip(a)
      PROVE  VipGoal /\ PanelInv' /\ page'.at >= page.at
  <2>1. Panel!Rest
    BY <1>5 DEF Panel!HearVip
  <2> QED
    BY <1>3, <1>4, <1>5, <2>1, VipHeard
<1>6. CASE Panel!PressVipRefresh
  BY <1>3, <1>4, <1>6, RefreshPressed DEF Panel!PressVipRefresh
<1>7. CASE Panel!Claim
  BY <1>3, <1>4, <1>7, ClaimPressed DEF Panel!Claim
<1>8. CASE Panel!CancelClaim
  BY <1>3, <1>4, <1>8, ClaimCancelled DEF Panel!CancelClaim
<1>9. CASE Panel!ConfirmTimer
  BY <1>3, <1>4, <1>9, ConfirmTimerFires DEF Panel!ConfirmTimer
<1>10. CASE Panel!ExpiryTimer
  BY <1>3, <1>4, <1>10, ExpiryFires DEF Panel!ExpiryTimer
<1>11. CASE Panel!Grant \/ Panel!Tick
  <2>1. page' = page /\ calls' = calls /\ native' = native
    BY <1>11 DEF Panel!Grant, Panel!Tick, Panel!accountVars
  <2> QED
    BY <1>3, <1>11, <2>1, Granted, Ticked
<1> QED
  BY <1>1, <1>2, <1>5, <1>6, <1>7, <1>8, <1>9, <1>10, <1>11 DEF Panel!VipNext

LEMMA VipStands ==
  ASSUME VipInv, UNCHANGED accountVars, UNCHANGED vipVars
  PROVE  VipGoal
<1>1. page' = page /\ vip' = vip /\ asks' = asks /\ products' = products /\ wallClock' = wallClock
  BY DEF accountVars, vipVars
<1>2. Upstairs(products', wallClock) /\ Begun(asks, asks)
  BY <1>1, VipNow DEF Upstairs, Begun
<1> QED
  BY <1>1, <1>2, VipNow, VipLands

LEMMA VipBegins ==
  ASSUME NEW begun, begun \in Nat, NEW trouble, trouble \in Nat, Panel!VipInit(begun, trouble)
  PROVE  PanelInv /\ VipInv
<1>1. PanelInv /\ page.user = Nobody
  BY PanelBegins DEF Panel!VipInit
<1>2. VipInv
  <2>1. vip = Panel!Blank(Nobody) /\ asks = {} /\ wallClock = 0 /\ products.of \in [Accounts -> Entitlements]
    BY DEF Panel!VipInit
  <2>2. /\ VipOk(vip) /\ vip.account = Nobody /\ ~vip.busy /\ ~vip.timer /\ ~vip.authoritative
        /\ vip.tier = "unknown" /\ vip.premium = Panel!NoBucket /\ vip.listen = Panel!NoBucket
        /\ vip.judged = 0 /\ vip.at = 0 /\ vip.asked = 0
    BY ONLY <2>1 DEF VipOk, VipFields, Panel!Blank, Users
  <2>3. ClaimInv(vip, asks) /\ InHand(vip, asks)
    BY <2>1, <2>2 DEF ClaimInv, InHand
  <2>4. TierInv(vip, asks, wallClock)
    BY <2>1, <2>2 DEF TierInv, Shown
  <2> QED
    BY <1>1, <2>1, <2>2, <2>3, <2>4 DEF VipInv, VipInvOf, VipWeak, VipTypes, Upstairs
<1> QED
  BY <1>1, <1>2

-----------------------------------------------------------------------------
(* History                                                                   *)

HistoryFields == {"account", "gen", "ready", "active", "loading", "scope", "remote"}
HistoryOk(p, cs) ==
  /\ DOMAIN p = HistoryFields /\ p.gen \in Nat
  /\ \A c \in cs : c.gen \in Nat /\ c.gen <= p.gen
  /\ \A c, d \in cs : c.gen = d.gen => c = d
Awaited(p, cs) == p.loading <=> \E c \in cs : c.gen = p.gen
HistoryInv == HistoryOk(history, heard) /\ Awaited(history, heard)

LEMMA HistoryRefreshed ==
  ASSUME NEW p, HistoryOk(p, heard), Lately!Refresh(p)
  PROVE  HistoryOk(history', heard') /\ Awaited(history', heard')
<1>1. PICK loading : loading = (p.ready /\ p.account # Nobody)
  OBVIOUS
<1>2. PICK q : q = [p EXCEPT !.gen = p.gen + 1, !.loading = loading]
  OBVIOUS
<1>3. DOMAIN q = HistoryFields /\ q.gen = p.gen + 1 /\ q.loading = loading
  BY ONLY <1>2, HistoryOk(p, heard) DEF HistoryOk, HistoryFields
<1>4. history' = q /\ heard' = IF q.loading THEN heard \cup {[gen |-> q.gen, of |-> q.account]} ELSE heard
  BY <1>1, <1>2 DEF Lately!Refresh
<1>5. q.gen \in Nat /\ \A c \in heard : c.gen \in Nat /\ c.gen <= q.gen /\ c.gen # q.gen
  BY <1>3 DEF HistoryOk
<1>6. PICK new : new = [gen |-> q.gen, of |-> q.account]
  OBVIOUS
<1>7. new.gen = q.gen
  BY <1>6
<1>8. CASE q.loading
  <2>1. heard' = heard \cup {new}
    BY <1>4, <1>6, <1>8
  <2>2. HistoryOk(q, heard \cup {new})
    BY <1>3, <1>5, <1>7 DEF HistoryOk
  <2>3. Awaited(q, heard \cup {new})
    BY <1>7, <1>8 DEF Awaited
  <2> QED
    BY <1>4, <2>1, <2>2, <2>3
<1>9. CASE ~q.loading
  <2>1. heard' = heard
    BY <1>4, <1>9
  <2>2. HistoryOk(q, heard) /\ Awaited(q, heard)
    BY <1>3, <1>5, <1>9 DEF HistoryOk, Awaited
  <2> QED
    BY <1>4, <2>1, <2>2
<1> QED
  BY <1>8, <1>9

\* What the invariant does not look at.
LEMMA HistoryRepainted ==
  ASSUME HistoryInv, history'.gen = history.gen, history'.loading = history.loading,
         DOMAIN history' = HistoryFields, heard' = heard
  PROVE  HistoryOk(history', heard') /\ Awaited(history', heard')
BY DEF HistoryInv, HistoryOk, Awaited

LEMMA HistorySilent ==
  ASSUME HistoryInv, history'.gen = history.gen + 1, ~history'.loading,
         DOMAIN history' = HistoryFields, heard' = heard
  PROVE  HistoryOk(history', heard') /\ Awaited(history', heard')
<1>1. \A c \in heard : c.gen <= history'.gen /\ c.gen # history'.gen
  BY DEF HistoryInv, HistoryOk
<1> QED
  BY <1>1 DEF HistoryInv, HistoryOk, Awaited

LEMMA HistoryAnswered ==
  ASSUME HistoryInv, NEW c, c \in heard, Lately!HearHistory(c)
  PROVE  HistoryOk(history', heard') /\ Awaited(history', heard')
<1>1. HistoryOk(history, heard) /\ Awaited(history, heard) /\ heard' = heard \ {c}
  BY DEF HistoryInv, Lately!HearHistory
<1>2. CASE c.gen # history.gen
  <2>1. history' = history
    BY <1>2 DEF Lately!HearHistory, Lately!Own
  <2> QED
    BY <1>1, <1>2, <2>1 DEF HistoryOk, Awaited
<1>3. CASE c.gen = history.gen
  <2>1. \/ history' = [history EXCEPT !.loading = FALSE]
        \/ \E rows : history' = [history EXCEPT !.loading = FALSE, !.remote = rows]
    BY <1>3 DEF Lately!HearHistory, Lately!Own
  <2>2. DOMAIN history' = HistoryFields /\ history'.gen = history.gen /\ ~history'.loading
    BY <1>1, <2>1 DEF HistoryOk, HistoryFields
  <2>3. \A d \in heard' : d.gen # history.gen
    BY <1>1, <1>3 DEF HistoryOk
  <2> QED
    BY <1>1, <2>2, <2>3 DEF HistoryOk, Awaited
<1> QED
  BY <1>2, <1>3

LEMMA HistoryKeeps ==
  ASSUME HistoryInv, [Lately!HistoryNext]_historyVars
  PROVE  HistoryInv'
<1>1. HistoryOk(history, heard) /\ Awaited(history, heard)
  BY DEF HistoryInv
<1> SUFFICES HistoryOk(history', heard') /\ Awaited(history', heard')
  BY DEF HistoryInv, HistoryOk, Awaited
<1>2. CASE Lately!Ready
  <2>1. PICK p : p = [history EXCEPT !.ready = TRUE]
    OBVIOUS
  <2>2. DOMAIN p = HistoryFields /\ p.gen = history.gen /\ p.loading = history.loading
    BY ONLY <1>1, <2>1 DEF HistoryOk, HistoryFields
  <2>3. HistoryOk(p, heard)
    BY <1>1, <2>2 DEF HistoryOk
  <2>4. Lately!Refresh(p) \/ (history' = p /\ heard' = heard)
    BY <1>2, <2>1 DEF Lately!Ready
  <2> QED
    BY <2>2, <2>3, <2>4, HistoryRefreshed, HistoryRepainted
<1>3. CASE Lately!PressRefresh
  BY <1>1, <1>3, HistoryRefreshed DEF Lately!PressRefresh
<1>4. ASSUME NEW account, Lately!SetAccount(account)
      PROVE  HistoryOk(history', heard') /\ Awaited(history', heard')
  <2>1. PICK p : p = [history EXCEPT !.account = account, !.gen = history.gen + 1, !.remote = <<>>, !.loading = FALSE]
    OBVIOUS
  <2>2. DOMAIN p = HistoryFields /\ p.gen = history.gen + 1 /\ ~p.loading
    BY ONLY <1>1, <2>1 DEF HistoryOk, HistoryFields
  <2>3. HistoryOk(p, heard)
    BY <1>1, <2>2 DEF HistoryOk
  <2>4. Lately!Refresh(p) \/ (history' = p /\ heard' = heard)
    BY <1>4, <2>1 DEF Lately!SetAccount
  <2> QED
    BY <2>2, <2>3, <2>4, HistoryRefreshed, HistorySilent
<1>5. ASSUME NEW active, Lately!SetActive(active)
      PROVE  HistoryOk(history', heard') /\ Awaited(history', heard')
  <2>1. PICK p : p = [history EXCEPT !.active = TRUE]
    OBVIOUS
  <2>2. DOMAIN p = HistoryFields /\ p.gen = history.gen
    BY ONLY <1>1, <2>1 DEF HistoryOk, HistoryFields
  <2>3. HistoryOk(p, heard)
    BY <1>1, <2>2 DEF HistoryOk
  <2>4. PICK q : q = [history EXCEPT !.active = FALSE, !.gen = history.gen + 1, !.loading = FALSE]
    OBVIOUS
  <2>5. DOMAIN q = HistoryFields /\ q.gen = history.gen + 1 /\ ~q.loading
    BY ONLY <1>1, <2>4 DEF HistoryOk, HistoryFields
  <2>6. Lately!Refresh(p) \/ (history' = q /\ heard' = heard)
    BY <1>5, <2>1, <2>4 DEF Lately!SetActive
  <2> QED
    BY <2>3, <2>5, <2>6, HistoryRefreshed, HistorySilent
<1>6. ASSUME NEW scope, Lately!SetScope(scope)
      PROVE  HistoryOk(history', heard') /\ Awaited(history', heard')
  <2>1. heard' = heard /\ history' = [history EXCEPT !.scope = scope]
    BY <1>6 DEF Lately!SetScope
  <2>2. DOMAIN history' = HistoryFields /\ history'.gen = history.gen /\ history'.loading = history.loading
    BY ONLY <1>1, <2>1 DEF HistoryOk, HistoryFields
  <2> QED
    BY <2>1, <2>2, HistoryRepainted
<1>7. CASE UNCHANGED <<history, heard>>
  BY <1>1, <1>7
<1>8. ASSUME NEW x, Lately!Started(x) PROVE UNCHANGED <<history, heard>>
  BY <1>8 DEF Lately!Started
<1>9. ASSUME UNCHANGED historyVars PROVE UNCHANGED <<history, heard>>
  BY <1>9 DEF historyVars
<1> QED
  BY <1>2, <1>3, <1>4, <1>5, <1>6, <1>7, <1>8, <1>9, HistoryAnswered DEF Lately!HistoryNext

LEMMA HistoryBegins == ASSUME Lately!HistoryInit PROVE HistoryInv
BY DEF Lately!HistoryInit, HistoryInv, HistoryOk, Awaited, HistoryFields

LEMMA HistoryMeans == ASSUME HistoryInv PROVE Lately!HistoryIsAwaited
BY DEF HistoryInv, Awaited, Lately!HistoryIsAwaited

-----------------------------------------------------------------------------
(* Home                                                                      *)

HomeFields == {"account", "gen", "meta", "pending", "metadata", "ready", "active", "day", "daily",
               "attempted", "lists", "albums"}
HomeOk(p) == /\ DOMAIN p = HomeFields
             /\ p.gen \in Nat /\ p.meta \in Nat /\ p.pending \in Nat /\ p.metadata \in Nat
             /\ p.daily \in Seq({p.daily[i] : i \in DOMAIN p.daily})
HomeCallOk(c) == /\ DOMAIN c = {"what", "gen", "meta", "id"} /\ c.gen \in Nat /\ c.meta \in Nat
                 /\ c.what \in {"recommend", "top", "albums", "lists", "album"}
HomeTypes(p, cs) == /\ HomeOk(p) /\ IsFiniteSet(cs) /\ \A c \in cs : HomeCallOk(c)
                    /\ \A c \in cs : c.gen <= p.gen /\ c.meta <= p.meta

\* What the page waits for, and the albums whose names it waits for.
Waits(p, cs) == {c \in cs : c.gen = p.gen /\ c.what # "album"}
Looks(p, cs) == {c \in cs : c.gen = p.gen /\ c.meta = p.meta /\ c.what = "album"}
IsSongs(c) == c.what \in {"recommend", "top"}

\* over answers were heard and not counted yet.
HomeGood(p, cs, over) ==
  /\ HomeTypes(p, cs)
  /\ p.pending = Cardinality(Waits(p, cs)) + over
  /\ p.metadata = Cardinality(Looks(p, cs)) /\ p.metadata <= HomeAtOnce
  /\ \A c \in Looks(p, cs) : c.id \in p.attempted
  /\ \A c, d \in Waits(p, cs) : IsSongs(c) /\ IsSongs(d) => c = d
  /\ ~p.ready => cs = {}
HomeInv == HomeGood(home, homeCalls, 0)

LEMMA HomeParts ==
  ASSUME NEW p, NEW cs, NEW rows
  PROVE  /\ First!At(p, cs, rows).page = p /\ First!At(p, cs, rows).calls = cs
         /\ First!At(p, cs, rows).feed = rows
BY DEF First!At

\* The page in other words, and with other songs.
LEMMA HomeRepainted ==
  ASSUME NEW p, NEW cs, NEW over, HomeGood(p, cs, over), NEW q, HomeOk(q),
         q.gen = p.gen, q.meta = p.meta, q.pending = p.pending, q.metadata = p.metadata,
         q.attempted = p.attempted, p.ready => q.ready
  PROVE  HomeGood(q, cs, over)
BY DEF HomeGood, HomeTypes, Waits, Looks

LEMMA HomeCardinality == \A S : First!Cardinality(S) = Cardinality(S)
BY DEF First!Cardinality, Cardinality, First!IsFiniteSet, IsFiniteSet

LEMMA AskedIs ==
  ASSUME NEW p, HomeOk(p), NEW what, what \in {"recommend", "top", "albums", "lists", "album"}, NEW id
  PROVE  LET c == First!Asked(what, p, id)
         IN  HomeCallOk(c) /\ c.what = what /\ c.gen = p.gen /\ c.meta = p.meta /\ c.id = id
BY DEF First!Asked, HomeOk, HomeCallOk

\* One name more is asked for.
LEMMA AlbumAsked ==
  ASSUME NEW p, NEW cs, NEW over, HomeGood(p, cs, over), p.ready, NEW id, id \notin p.attempted,
         p.metadata < HomeAtOnce
  PROVE  LET q == [p EXCEPT !.metadata = p.metadata + 1, !.attempted = p.attempted \cup {id}]
             ds == cs \cup {First!Asked("album", p, id)}
         IN  /\ HomeGood(q, ds, over) /\ q.gen = p.gen /\ q.meta = p.meta /\ q.ready = p.ready
<1>1. PICK m, A : m = p.metadata + 1 /\ A = p.attempted \cup {id}
  OBVIOUS
<1>2. PICK q : q = [p EXCEPT !.metadata = m, !.attempted = A]
  OBVIOUS
<1>3. PICK what : what = "album"
  OBVIOUS
<1>4. PICK c : c = First!Asked(what, p, id)
  OBVIOUS
<1>5. /\ HomeOk(p) /\ IsFiniteSet(cs) /\ (\A x \in cs : HomeCallOk(x))
      /\ (\A x \in cs : x.gen <= p.gen /\ x.meta <= p.meta)
      /\ p.metadata = Cardinality(Looks(p, cs))
  BY DEF HomeGood, HomeTypes
<1>6. m \in Nat /\ m <= HomeAtOnce
  BY <1>1, <1>5, HomeAssumption DEF HomeOk
<1>7. /\ HomeOk(q) /\ q.gen = p.gen /\ q.meta = p.meta /\ q.ready = p.ready /\ q.metadata = m
      /\ q.attempted = A /\ q.pending = p.pending
  <2>1. /\ DOMAIN q = HomeFields /\ q.gen = p.gen /\ q.meta = p.meta /\ q.ready = p.ready /\ q.metadata = m
        /\ q.attempted = A /\ q.pending = p.pending /\ q.daily = p.daily
    BY ONLY <1>2, <1>5 DEF HomeOk, HomeFields
  <2> QED
    BY <1>5, <1>6, <2>1 DEF HomeOk
<1>8. HomeCallOk(c) /\ c.what = "album" /\ c.gen = p.gen /\ c.meta = p.meta /\ c.id = id
  <2>1. what \in {"recommend", "top", "albums", "lists", "album"}
    BY <1>3
  <2> QED
    BY ONLY <1>3, <1>4, <1>5, <2>1, AskedIs
<1> DEFINE ds == cs \cup {c}
<1>9. HomeTypes(q, ds)
  <2>1. IsFiniteSet(ds)
    BY <1>5, FS_AddElement
  <2>2. c.gen <= q.gen /\ c.meta <= q.meta
    BY <1>5, <1>7, <1>8 DEF HomeOk
  <2> QED
    BY <1>5, <1>7, <1>8, <2>1, <2>2 DEF HomeTypes
<1>10. Waits(q, ds) = Waits(p, cs)
  BY <1>7, <1>8 DEF Waits
<1>11. Looks(q, ds) = Looks(p, cs) \cup {c} /\ c \notin Looks(p, cs)
  <2>1. c \notin Looks(p, cs)
    BY <1>8 DEF HomeGood
  <2> QED
    BY <1>7, <1>8, <2>1 DEF Looks
<1>12. Cardinality(Looks(q, ds)) = m
  <2>1. IsFiniteSet(Looks(p, cs))
    BY <1>5, FS_Subset DEF Looks
  <2> QED
    BY <1>1, <1>5, <1>11, <2>1, FS_AddElement
<1>13. \A x \in Looks(q, ds) : x.id \in q.attempted
  BY <1>1, <1>7, <1>8, <1>11 DEF HomeGood
<1>14. HomeGood(q, ds, over)
  BY <1>6, <1>7, <1>9, <1>10, <1>12, <1>13 DEF HomeGood
<1> QED
  BY <1>1, <1>2, <1>3, <1>4, <1>7, <1>14

LEMMA FirstMax ==
  ASSUME NEW S \in SUBSET Nat, S # {}, NEW bound \in Nat, \A n \in S : n <= bound
  PROVE  First!Max(S) \in S /\ \A m \in S : m <= First!Max(S)
<1>1. \E n \in S : \A m \in S : m <= n
  BY GreatestMember
<1> QED
  BY <1>1 DEF First!Max

\* What the page may become while the names are asked for.
Ids(p)        == p.attempted \cup {p.daily[i].album : i \in DOMAIN p.daily}
Asks(p, cs)   == cs \cup {First!Asked("album", p, id) : id \in Ids(p)}
Contents(p)   == {p[x] : x \in HomeFields} \cup Nat \cup SUBSET Ids(p)
Within(p, q)  == /\ q.gen = p.gen /\ q.meta = p.meta /\ q.ready = p.ready /\ q.attempted \subseteq Ids(p)
                 /\ \A x \in HomeFields : q[x] \in Contents(p)
Reached(p, cs, rows) == {First!At(p, cs, rows)} \cup
  {First!At(q, ds, rows) : q \in [HomeFields -> Contents(p)], ds \in SUBSET Asks(p, cs)}
Asking(p, cs, rows, over) ==
  {v \in Reached(p, cs, rows) : /\ HomeGood(v.page, v.calls, over) /\ Within(p, v.page)
                                /\ v.calls \subseteq Asks(p, cs) /\ v.feed = rows}

LEMMA AskingBegins ==
  ASSUME NEW p, NEW cs, NEW over, HomeGood(p, cs, over), NEW rows
  PROVE  First!At(p, cs, rows) \in Asking(p, cs, rows, over)
<1>1. Within(p, p)
  BY DEF Within, Ids, Contents
<1>2. First!At(p, cs, rows) \in Reached(p, cs, rows) /\ cs \subseteq Asks(p, cs)
  BY DEF Reached, Asks
<1> QED
  BY <1>1, <1>2, HomeParts DEF Asking

LEMMA AskingStays ==
  ASSUME NEW p, NEW cs, NEW over, HomeGood(p, cs, over), p.ready, NEW rows,
         NEW v, v \in Asking(p, cs, rows, over), NEW row, row.album \in Ids(p)
  PROVE  First!AskAlbum(v, row) \in Asking(p, cs, rows, over)
<1> DEFINE more == /\ v.page.metadata < HomeAtOnce /\ First!Cardinality(v.page.attempted) < HomeLookups
                   /\ First!Missing(v.page, row)
<1>1. /\ HomeGood(v.page, v.calls, over) /\ Within(p, v.page) /\ v.calls \subseteq Asks(p, cs) /\ v.feed = rows
  BY DEF Asking
<1>2. CASE ~more
  <2>1. First!AskAlbum(v, row) = v
    BY <1>2 DEF First!AskAlbum
  <2> QED
    BY <2>1
<1>3. CASE more
  <2>1. PICK id : id = row.album
    OBVIOUS
  <2>2. PICK q : q = [v.page EXCEPT !.metadata = v.page.metadata + 1, !.attempted = v.page.attempted \cup {id}]
    OBVIOUS
  <2>3. PICK ds : ds = v.calls \cup {First!Asked("album", v.page, id)}
    OBVIOUS
  <2>4. First!AskAlbum(v, row) = First!At(q, ds, rows)
    BY <1>1, <1>3, <2>1, <2>2, <2>3 DEF First!AskAlbum
  <2>5. HomeGood(q, ds, over) /\ q.gen = p.gen /\ q.meta = p.meta /\ q.ready = p.ready
    <3>1. v.page.ready /\ id \notin v.page.attempted /\ v.page.metadata < HomeAtOnce
      BY <1>1, <1>3, <2>1 DEF Within, First!Missing
    <3>2. HomeGood(v.page, v.calls, over)
      BY <1>1
    <3>3. HomeGood(q, ds, over) /\ q.gen = v.page.gen /\ q.meta = v.page.meta /\ q.ready = v.page.ready
      BY ONLY <2>2, <2>3, <3>1, <3>2, AlbumAsked
    <3> QED
      BY <1>1, <3>3 DEF Within
  <2>6. PICK m, A : m = v.page.metadata + 1 /\ A = v.page.attempted \cup {id}
    OBVIOUS
  <2>7. m \in Contents(p) /\ A \in Contents(p) /\ A \subseteq Ids(p)
    <3>1. v.page.metadata \in Nat /\ v.page.attempted \subseteq Ids(p)
      BY <1>1 DEF HomeGood, HomeTypes, HomeOk, Within
    <3> QED
      BY <2>1, <2>6, <3>1 DEF Contents
  <2>8. q \in [HomeFields -> Contents(p)] /\ q.attempted = A
    <3>1. DOMAIN v.page = HomeFields /\ \A x \in HomeFields : v.page[x] \in Contents(p)
      BY <1>1 DEF HomeGood, HomeTypes, HomeOk, Within
    <3>2. q = [v.page EXCEPT !.metadata = m, !.attempted = A]
      BY <2>2, <2>6
    <3> QED
      BY ONLY <2>7, <3>1, <3>2 DEF HomeFields
  <2>9. ds \subseteq Asks(p, cs)
    <3>1. First!Asked("album", v.page, id) = First!Asked("album", p, id)
      BY <1>1 DEF First!Asked, Within
    <3> QED
      BY <1>1, <2>1, <2>3, <3>1 DEF Asks
  <2>10. First!At(q, ds, rows) \in Reached(p, cs, rows)
    BY <2>8, <2>9 DEF Reached
  <2>11. Within(p, q)
    BY <2>5, <2>7, <2>8 DEF Within
  <2> QED
    BY <2>4, <2>5, <2>9, <2>10, <2>11, HomeParts DEF Asking
<1> QED
  BY <1>2, <1>3

\* The names that are asked for along the songs: what holds before a song and is
\* kept by it holds after the last one.
LEMMA AlbumsFold ==
  ASSUME NEW p, p.daily \in Seq({p.daily[i] : i \in DOMAIN p.daily}), NEW base, base.page = p,
         NEW V, base \in V, p.ready => \A v \in V, i \in DOMAIN p.daily : First!AskAlbum(v, p.daily[i]) \in V
  PROVE  First!LoadAlbumMetadata(base) \in V
<1>1. CASE ~(p.active /\ p.ready)
  BY <1>1 DEF First!LoadAlbumMetadata
<1>2. CASE p.active /\ p.ready
  <2> DEFINE list == p.daily
             D == 1..Len(list)
             P(it) == it = [s \in SUBSET D |-> IF s = {} THEN base
                              ELSE First!AskAlbum(it[s \ {First!Max(s)}], list[First!Max(s)])]
             choice == [s \in SUBSET D |-> First!Max(s)]
             g == [x \in D \X V |-> First!AskAlbum(x[2], list[x[1]])]
  <2>1. D = DOMAIN list /\ Len(list) \in Nat
    OBVIOUS
  <2>2. First!LoadAlbumMetadata(base) = (CHOOSE it : P(it))[D]
    <3>1. First!LoadAlbumMetadata(base) = First!FoldLeft(First!AskAlbum, base, list)
      BY <1>2 DEF First!LoadAlbumMetadata
    <3> HIDE DEF D, list
    <3>2. First!LoadAlbumMetadata(base) = (CHOOSE it : P(it))[DOMAIN list]
      BY <2>1, <3>1, Zenon DEF First!FoldLeft, First!MapThenFoldSet
    <3> QED
      BY <2>1, <3>2
  <2>3. IsFiniteSet(D) /\ base \in V
    BY <2>1, FS_Interval
  <2>4. \A s \in SUBSET D : s # {} => choice[s] \in s /\ choice[s] = First!Max(s)
    <3> SUFFICES ASSUME NEW s \in SUBSET D, s # {} PROVE First!Max(s) \in s
      OBVIOUS
    <3>1. s \in SUBSET Nat /\ \A n \in s : n <= Len(list)
      BY <2>1
    <3> QED
      BY <2>1, <3>1, FirstMax
  <2>5. \A x \in D, v \in V : g[<<x, v>>] = First!AskAlbum(v, list[x]) /\ g[<<x, v>>] \in V
    <3>1. \A x \in D, v \in V : First!AskAlbum(v, list[x]) \in V
      BY <1>2, <2>1
    <3> HIDE DEF D, list
    <3>2. \A x \in D, v \in V : g[<<x, v>>] = First!AskAlbum(v, list[x])
      OBVIOUS
    <3> QED
      BY <3>1, <3>2
  <2> HIDE DEF choice, g, D, list
  <2>6. PICK it : it \in [SUBSET D -> V] /\ FoldOf(it, D, base, choice, g)
    BY <2>3, <2>4, <2>5, FoldExists
  <2>7. P(it)
    <3>1. ASSUME NEW s \in SUBSET D
          PROVE  it[s] = IF s = {} THEN base ELSE First!AskAlbum(it[s \ {First!Max(s)}], list[First!Max(s)])
      <4>1. CASE s = {}
        BY <2>6, <4>1 DEF FoldOf
      <4>2. CASE s # {}
        <5>1. it[s] = g[<<choice[s], it[s \ {choice[s]}]>>]
          BY <2>6, <4>2 DEF FoldOf
        <5>2. choice[s] \in D /\ it[s \ {choice[s]}] \in V
          BY <2>4, <2>6, <4>2
        <5> QED
          BY <2>4, <2>5, <4>2, <5>1, <5>2
      <4> QED
        BY <4>1, <4>2
    <3> QED
      BY <2>6, <3>1
  <2>8. P(CHOOSE jt : P(jt))
    <3> HIDE DEF P
    <3> QED
      BY <2>7
  <2>9. PICK jt : P(jt) /\ First!LoadAlbumMetadata(base) = jt[D]
    <3> HIDE DEF P
    <3> QED
      BY <2>2, <2>8
  <2> DEFINE R == {s \in SUBSET D : jt[s] \in V}
  <2>10. ASSUME NEW s \in SUBSET D, \A x \in s : s \ {x} \in R
         PROVE  jt[s] \in V
    <3>1. jt[s] = IF s = {} THEN base ELSE First!AskAlbum(jt[s \ {First!Max(s)}], list[First!Max(s)])
      BY <2>9
    <3>2. CASE s # {}
      <4>1. First!Max(s) \in s
        BY <2>4, <3>2
      <4>2. jt[s \ {First!Max(s)}] \in V /\ First!Max(s) \in D
        BY <2>10, <4>1
      <4> QED
        BY <2>5, <3>1, <3>2, <4>2
    <3> QED
      BY <2>3, <3>1, <3>2
  <2>11. \A s \in SUBSET D : (\A x \in s : s \ {x} \in R) => s \in R
    BY <2>10
  <2>12. D \in R
    <3> HIDE DEF R, P
    <3>1. SUBSET D \subseteq R
      BY <2>3, <2>11, SubsetInduction
    <3> QED
      BY <3>1
  <2> QED
    BY <2>9, <2>12
<1> QED
  BY <1>1, <1>2

\* The page stays what it is while they are asked for.
LEMMA AlbumsAsked ==
  ASSUME NEW p, NEW cs, NEW over, HomeGood(p, cs, over), NEW rows
  PROVE  \E q, ds : /\ First!LoadAlbumMetadata(First!At(p, cs, rows)) = First!At(q, ds, rows)
                    /\ HomeGood(q, ds, over)
<1>1. PICK V, base : V = Asking(p, cs, rows, over) /\ base = First!At(p, cs, rows)
  OBVIOUS
<1>2. base \in V /\ base.page = p
  BY <1>1, AskingBegins, HomeParts
<1>3. p.daily \in Seq({p.daily[i] : i \in DOMAIN p.daily})
  BY DEF HomeGood, HomeTypes, HomeOk
<1>4. ASSUME p.ready, NEW v \in V, NEW i \in DOMAIN p.daily PROVE First!AskAlbum(v, p.daily[i]) \in V
  <2>1. PICK row : row = p.daily[i]
    OBVIOUS
  <2>2. row.album \in Ids(p)
    BY <1>4, <2>1 DEF Ids
  <2> QED
    BY <1>1, <1>4, <2>1, <2>2, AskingStays
<1>5. PICK v : v \in V /\ First!LoadAlbumMetadata(base) = v
  BY <1>2, <1>3, <1>4, AlbumsFold
<1>6. HomeGood(v.page, v.calls, over) /\ v = First!At(v.page, v.calls, rows)
  BY <1>1, <1>5, HomeParts DEF Asking, Reached
<1> QED
  BY <1>1, <1>5, <1>6

LEMMA HomeArrives ==
  ASSUME NEW q, NEW ds, NEW rows, First!Becomes(First!At(q, ds, rows)), HomeGood(q, ds, 0)
  PROVE  HomeGood(home', homeCalls', 0)
BY HomeParts DEF First!Becomes

\* Everything is asked for again.
LEMMA RefreshBegins ==
  ASSUME NEW p, NEW cs, HomeTypes(p, cs), p.ready, ~(p.pending > 0), NEW rows
  PROVE  \E q, ds : /\ First!Refresh(First!At(p, cs, rows)) = First!At(q, ds, rows)
                    /\ HomeGood(q, ds, 0)
<1>1. PICK g, m : g = p.gen + 1 /\ m = p.meta + 1
  OBVIOUS
<1>2. PICK q : q = [p EXCEPT !.gen = g, !.meta = m, !.metadata = 0, !.attempted = {}, !.day = today,
                             !.pending = 4]
  OBVIOUS
<1>3. PICK what, what1, what2 :
        what = (IF q.account = Nobody THEN "top" ELSE "recommend") /\ what1 = "albums" /\ what2 = "lists"
  OBVIOUS
<1>4. PICK a, b, c, d : /\ a = First!Asked(what, q, q.account) /\ b = First!Asked(what1, q, 0)
                        /\ c = First!Asked(what2, q, 2) /\ d = First!Asked(what2, q, 5)
  OBVIOUS
<1>5. PICK ds : ds = cs \cup {a, b, c, d}
  OBVIOUS
<1>6. HomeOk(p) /\ IsFiniteSet(cs) /\ \A x \in cs : HomeCallOk(x) /\ x.gen <= p.gen /\ x.meta <= p.meta
  BY DEF HomeTypes
<1>7. g \in Nat /\ m \in Nat /\ \A x \in cs : x.gen < g /\ x.meta < m
  BY <1>1, <1>6 DEF HomeOk, HomeCallOk
<1>8. /\ DOMAIN q = HomeFields /\ q.gen = g /\ q.meta = m /\ q.metadata = 0 /\ q.attempted = {}
      /\ q.pending = 4 /\ q.ready = p.ready /\ q.daily = p.daily /\ q.account = p.account
  BY ONLY <1>2, <1>6 DEF HomeOk, HomeFields
<1>9. HomeOk(q)
  BY <1>6, <1>7, <1>8 DEF HomeOk
<1>10. First!Refresh(First!At(p, cs, rows)) = First!At(q, ds, rows)
  <2>1. {First!Asked("lists", q, x) : x \in First!Sorts} = {c, d}
    BY <1>3, <1>4 DEF First!Sorts
  <2>2. First!Refresh(First!At(p, cs, rows)) =
          First!At(q, cs \cup {a, b} \cup {First!Asked("lists", q, x) : x \in First!Sorts}, rows)
    <3>1. PICK s : s = First!At(p, cs, rows)
      OBVIOUS
    <3>2. s.page = p /\ s.calls = cs /\ s.feed = rows
      BY <3>1, HomeParts
    <3>3. q = [s.page EXCEPT !.gen = s.page.gen + 1, !.meta = s.page.meta + 1, !.metadata = 0, !.attempted = {},
                             !.day = today, !.pending = 4]
      BY <1>1, <1>2, <3>2
    <3>4. s.page.ready /\ ~(s.page.pending > 0)
      BY <3>2
    <3>5. First!Refresh(s) =
            First!At(q, s.calls \cup {First!Asked(IF q.account = Nobody THEN "top" ELSE "recommend", q, q.account),
                                      First!Asked("albums", q, 0)}
                                \cup {First!Asked("lists", q, x) : x \in First!Sorts}, s.feed)
      BY ONLY <3>3, <3>4 DEF First!Refresh
    <3>6. a = First!Asked(IF q.account = Nobody THEN "top" ELSE "recommend", q, q.account) /\ b = First!Asked("albums", q, 0)
      BY <1>3, <1>4
    <3> QED
      BY <3>1, <3>2, <3>5, <3>6
  <2> QED
    BY <1>5, <2>1, <2>2
<1>11. /\ HomeCallOk(a) /\ a.what = what /\ a.gen = g /\ a.meta = m
       /\ HomeCallOk(b) /\ b.what = "albums" /\ b.gen = g /\ b.meta = m
       /\ HomeCallOk(c) /\ c.what = "lists" /\ c.gen = g /\ c.meta = m /\ c.id = 2
       /\ HomeCallOk(d) /\ d.what = "lists" /\ d.gen = g /\ d.meta = m /\ d.id = 5
  <2>1. /\ what \in {"recommend", "top", "albums", "lists", "album"}
        /\ what1 \in {"recommend", "top", "albums", "lists", "album"}
        /\ what2 \in {"recommend", "top", "albums", "lists", "album"}
    BY <1>3
  <2>2. HomeCallOk(a) /\ a.what = what /\ a.gen = g /\ a.meta = m
    BY <1>4, <1>8, <1>9, <2>1, AskedIs
  <2>3. HomeCallOk(b) /\ b.what = what1 /\ b.gen = g /\ b.meta = m
    BY <1>4, <1>8, <1>9, <2>1, AskedIs
  <2>4. HomeCallOk(c) /\ c.what = what2 /\ c.gen = g /\ c.meta = m /\ c.id = 2
    BY <1>4, <1>8, <1>9, <2>1, AskedIs
  <2>5. HomeCallOk(d) /\ d.what = what2 /\ d.gen = g /\ d.meta = m /\ d.id = 5
    BY <1>4, <1>8, <1>9, <2>1, AskedIs
  <2> QED
    BY <1>3, <2>2, <2>3, <2>4, <2>5
<1>12. /\ what # "albums" /\ what # "lists" /\ what # "album" /\ a # b /\ a # c /\ a # d /\ b # c /\ b # d /\ c # d
  BY <1>3, <1>11
<1>13. IsFiniteSet({a, b, c, d}) /\ Cardinality({a, b, c, d}) = 4
  <2>1. IsFiniteSet({}) /\ Cardinality({}) = 0
    BY FS_EmptySet
  <2>2. IsFiniteSet({a}) /\ Cardinality({a}) = 1
    BY FS_Singleton
  <2>3. IsFiniteSet({a} \cup {b}) /\ Cardinality({a} \cup {b}) = 2
    <3>1. b \notin {a} /\ 1 + 1 = 2
      BY <1>12
    <3> QED
      BY <2>2, <3>1, FS_AddElement
  <2>4. IsFiniteSet({a} \cup {b} \cup {c}) /\ Cardinality({a} \cup {b} \cup {c}) = 3
    BY <1>12, <2>3, FS_AddElement
  <2>5. IsFiniteSet({a} \cup {b} \cup {c} \cup {d}) /\ Cardinality({a} \cup {b} \cup {c} \cup {d}) = 4
    BY <1>12, <2>4, FS_AddElement
  <2>6. {a} \cup {b} \cup {c} \cup {d} = {a, b, c, d}
    OBVIOUS
  <2> QED
    BY <2>5, <2>6
<1>14. Waits(q, ds) = {a, b, c, d} /\ Looks(q, ds) = {}
  <2>1. \A x \in cs : x.gen # q.gen
    BY <1>6, <1>7, <1>8 DEF HomeCallOk
  <2> QED
    BY <1>5, <1>8, <1>11, <1>12, <2>1 DEF Waits, Looks
<1>15. HomeTypes(q, ds)
  <2>1. IsFiniteSet(ds)
    BY <1>5, <1>6, <1>13, FS_Union
  <2>2. \A x \in ds : HomeCallOk(x) /\ x.gen <= q.gen /\ x.meta <= q.meta
    BY <1>5, <1>6, <1>7, <1>8, <1>11 DEF HomeCallOk
  <2> QED
    BY <1>9, <2>1, <2>2 DEF HomeTypes
<1>16. Cardinality(Looks(q, ds)) = 0
  BY <1>14, FS_EmptySet
<1>17. \A x, y \in Waits(q, ds) : IsSongs(x) /\ IsSongs(y) => x = y
  BY <1>11, <1>14 DEF IsSongs
<1>18. HomeGood(q, ds, 0)
  BY <1>8, <1>13, <1>14, <1>15, <1>16, <1>17, HomeAssumption DEF HomeGood
<1> QED
  BY <1>10, <1>18

LEMMA HomeRefreshed ==
  ASSUME NEW p, NEW cs, HomeGood(p, cs, 0), NEW rows
  PROVE  \E q, ds : /\ First!Refresh(First!At(p, cs, rows)) = First!At(q, ds, rows)
                    /\ HomeGood(q, ds, 0)
<1>1. CASE ~p.ready \/ p.pending > 0
  BY <1>1, HomeParts DEF First!Refresh
<1>2. CASE p.ready /\ ~(p.pending > 0)
  BY <1>2, RefreshBegins DEF HomeGood
<1> QED
  BY <1>1, <1>2

\* An answer nothing waits for, and one that is waited for.
LEMMA HomeDropped ==
  ASSUME NEW p, NEW cs, HomeGood(p, cs, 0), NEW c, c \in cs, c \notin Waits(p, cs), c \notin Looks(p, cs)
  PROVE  HomeGood(p, cs \ {c}, 0)
<1>1. Waits(p, cs \ {c}) = Waits(p, cs) /\ Looks(p, cs \ {c}) = Looks(p, cs)
  BY DEF Waits, Looks
<1>2. HomeTypes(p, cs \ {c})
  BY FS_RemoveElement DEF HomeGood, HomeTypes
<1> QED
  BY <1>1, <1>2 DEF HomeGood

LEMMA HomeCounted ==
  ASSUME NEW p, NEW cs, HomeGood(p, cs, 0), NEW c, c \in Waits(p, cs)
  PROVE  HomeGood(p, cs \ {c}, 1)
<1>1. Waits(p, cs \ {c}) = Waits(p, cs) \ {c} /\ Looks(p, cs \ {c}) = Looks(p, cs)
  BY DEF Waits, Looks
<1>2. HomeTypes(p, cs \ {c})
  BY FS_RemoveElement DEF HomeGood, HomeTypes
<1>3. IsFiniteSet(Waits(p, cs)) /\ Cardinality(Waits(p, cs)) \in Nat
  BY FS_Subset, FS_CardinalityType DEF HomeGood, HomeTypes, Waits
<1>4. Cardinality(Waits(p, cs) \ {c}) = Cardinality(Waits(p, cs)) - 1
  BY <1>3, FS_RemoveElement
<1>5. p.pending = Cardinality(Waits(p, cs \ {c})) + 1
  <2>1. PICK n, k : n = Cardinality(Waits(p, cs)) /\ k = Cardinality(Waits(p, cs \ {c}))
    OBVIOUS
  <2>2. n \in Nat /\ k = n - 1 /\ p.pending = n + 0
    BY <1>1, <1>3, <1>4, <2>1 DEF HomeGood
  <2>3. p.pending = k + 1
    BY ONLY <2>2
  <2> QED
    BY <2>1, <2>3
<1> QED
  BY <1>1, <1>2, <1>5 DEF HomeGood

LEMMA HomeDone ==
  ASSUME NEW p, NEW cs, HomeGood(p, cs, 1), NEW rows
  PROVE  \E q : First!Done(First!At(p, cs, rows)) = First!At(q, cs, rows) /\ HomeGood(q, cs, 0)
<1>1. PICK n : n = p.pending - 1
  OBVIOUS
<1>2. PICK q : q = [p EXCEPT !.pending = n]
  OBVIOUS
<1>3. First!Done(First!At(p, cs, rows)) = First!At(q, cs, rows)
  BY <1>1, <1>2, HomeParts DEF First!Done
<1>4. HomeOk(p) /\ IsFiniteSet(Waits(p, cs)) /\ Cardinality(Waits(p, cs)) \in Nat
  BY FS_Subset, FS_CardinalityType DEF HomeGood, HomeTypes, Waits
<1>5. n = Cardinality(Waits(p, cs)) + 0 /\ n \in Nat
  BY <1>1, <1>4 DEF HomeGood
<1>6. /\ DOMAIN q = HomeFields /\ q.gen = p.gen /\ q.meta = p.meta /\ q.metadata = p.metadata
      /\ q.attempted = p.attempted /\ q.pending = n /\ q.ready = p.ready /\ q.daily = p.daily
  BY ONLY <1>2, <1>4 DEF HomeOk, HomeFields
<1>7. HomeOk(q)
  BY <1>4, <1>5, <1>6 DEF HomeOk
<1>8. Waits(q, cs) = Waits(p, cs) /\ Looks(q, cs) = Looks(p, cs)
  BY <1>6 DEF Waits, Looks
<1>9. HomeTypes(q, cs)
  BY <1>6, <1>7 DEF HomeGood, HomeTypes
<1>10. HomeGood(q, cs, 0)
  BY <1>5, <1>6, <1>8, <1>9 DEF HomeGood
<1> QED
  BY <1>3, <1>10

\* A list of songs in other words is a list.
LEMMA SongsAre ==
  ASSUME NEW rows, rows \in Seq({rows[i] : i \in DOMAIN rows}), NEW songs, DOMAIN songs = DOMAIN rows,
         songs = [i \in DOMAIN rows |-> songs[i]]
  PROVE  songs \in Seq({songs[i] : i \in DOMAIN songs})
<1>1. Len(rows) \in Nat /\ DOMAIN rows = 1..Len(rows)
  OBVIOUS
<1>2. songs \in [1..Len(rows) -> {songs[i] : i \in DOMAIN songs}]
  BY <1>1
<1> QED
  BY <1>1, <1>2, SeqDef

LEMMA HomeReady ==
  ASSUME HomeInv, First!Ready
  PROVE  HomeGood(home', homeCalls', 0)
<1>1. PICK p : p = [home EXCEPT !.ready = TRUE]
  OBVIOUS
<1>2. HomeGood(home, homeCalls, 0) /\ HomeOk(home)
  BY DEF HomeInv, HomeGood, HomeTypes
<1>3. /\ DOMAIN p = HomeFields /\ p.gen = home.gen /\ p.meta = home.meta /\ p.metadata = home.metadata
      /\ p.attempted = home.attempted /\ p.pending = home.pending /\ p.ready = TRUE /\ p.daily = home.daily
  BY ONLY <1>1, <1>2 DEF HomeOk, HomeFields
<1>4. HomeOk(p)
  BY <1>2, <1>3 DEF HomeOk
<1>5. HomeGood(p, homeCalls, 0)
  BY <1>2, <1>3, <1>4, HomeRepainted
<1>6. \/ First!Becomes(First!Refresh(First!At(p, homeCalls, feed)))
      \/ First!Becomes(First!At(p, homeCalls, feed))
  BY <1>1 DEF First!Ready
<1> QED
  BY <1>5, <1>6, HomeRefreshed, HomeArrives

LEMMA HomeAccountSet ==
  ASSUME HomeInv, NEW account, First!SetAccount(account)
  PROVE  HomeGood(home', homeCalls', 0)
<1>1. PICK lists : lists = [x \in First!Sorts |-> <<>>]
  OBVIOUS
<1>2. PICK g : g = home.gen + 1
  OBVIOUS
<1>3. PICK p : p = [home EXCEPT !.account = account, !.gen = g, !.daily = <<>>, !.albums = FALSE,
                                !.lists = lists, !.pending = 0]
  OBVIOUS
<1>4. First!Becomes(First!Refresh(First!At(p, homeCalls, <<>>)))
  BY <1>1, <1>2, <1>3 DEF First!SetAccount
<1>5. /\ HomeGood(home, homeCalls, 0) /\ HomeOk(home) /\ g \in Nat
      /\ IsFiniteSet(homeCalls) /\ \A c \in homeCalls : HomeCallOk(c) /\ c.gen <= home.gen /\ c.meta <= home.meta
  BY <1>2 DEF HomeInv, HomeGood, HomeTypes, HomeOk
<1>6. /\ DOMAIN p = HomeFields /\ p.gen = g /\ p.meta = home.meta /\ p.metadata = home.metadata
      /\ p.attempted = home.attempted /\ p.pending = 0 /\ p.ready = home.ready /\ p.daily = <<>>
  BY ONLY <1>3, <1>5 DEF HomeOk, HomeFields
<1>7. HomeOk(p)
  BY <1>5, <1>6 DEF HomeOk
<1>8. HomeTypes(p, homeCalls)
  BY <1>2, <1>5, <1>6, <1>7 DEF HomeTypes, HomeOk, HomeCallOk
<1>9. CASE home.ready
  <2>1. p.ready /\ ~(p.pending > 0)
    BY <1>6, <1>9
  <2>2. PICK q, ds : /\ First!Refresh(First!At(p, homeCalls, <<>>)) = First!At(q, ds, <<>>)
                     /\ HomeGood(q, ds, 0)
    BY <1>8, <2>1, RefreshBegins
  <2> QED
    BY <1>4, <2>2, HomeArrives
<1>10. CASE ~home.ready
  <2>1. homeCalls = {}
    BY <1>5, <1>10 DEF HomeGood
  <2>2. Waits(p, homeCalls) = {} /\ Looks(p, homeCalls) = {} /\ Looks(home, homeCalls) = {}
    BY <2>1 DEF Waits, Looks
  <2>3. Cardinality({}) = 0
    BY FS_EmptySet
  <2>4. p.metadata = 0
    BY <1>5, <1>6, <2>2, <2>3 DEF HomeGood
  <2>5. HomeGood(p, homeCalls, 0)
    <3>1. Cardinality(Waits(p, homeCalls)) = 0 /\ Cardinality(Looks(p, homeCalls)) = 0
      BY <2>2, <2>3
    <3>2. p.pending = Cardinality(Waits(p, homeCalls)) + 0
      BY <1>6, <3>1
    <3>3. p.metadata = Cardinality(Looks(p, homeCalls)) /\ p.metadata <= HomeAtOnce
      BY <2>4, <3>1, HomeAssumption
    <3>4. /\ \A c \in Looks(p, homeCalls) : c.id \in p.attempted
          /\ \A c, d \in Waits(p, homeCalls) : IsSongs(c) /\ IsSongs(d) => c = d
      BY <2>2
    <3> QED
      BY <1>8, <2>1, <3>2, <3>3, <3>4 DEF HomeGood
  <2>6. PICK q, ds : /\ First!Refresh(First!At(p, homeCalls, <<>>)) = First!At(q, ds, <<>>)
                     /\ HomeGood(q, ds, 0)
    BY <2>5, HomeRefreshed
  <2> QED
    BY <1>4, <2>6, HomeArrives
<1> QED
  BY <1>9, <1>10

LEMMA HomeActivated ==
  ASSUME HomeInv, First!SetActive
  PROVE  HomeGood(home', homeCalls', 0)
<1>1. PICK active, m : active = ~home.active /\ m = home.meta + 1
  OBVIOUS
<1>2. PICK p, q : /\ p = [home EXCEPT !.active = active]
                  /\ q = [p EXCEPT !.meta = m, !.metadata = 0]
  OBVIOUS
<1>3. HomeGood(home, homeCalls, 0) /\ HomeOk(home) /\ m \in Nat
  BY <1>1 DEF HomeInv, HomeGood, HomeTypes, HomeOk
<1>4. /\ DOMAIN p = HomeFields /\ p.gen = home.gen /\ p.meta = home.meta /\ p.metadata = home.metadata
      /\ p.attempted = home.attempted /\ p.pending = home.pending /\ p.ready = home.ready /\ p.daily = home.daily
  BY ONLY <1>2, <1>3 DEF HomeOk, HomeFields
<1>5. HomeOk(p)
  BY <1>3, <1>4 DEF HomeOk
<1>6. HomeGood(p, homeCalls, 0)
  BY <1>3, <1>4, <1>5, HomeRepainted
<1>7. /\ DOMAIN q = HomeFields /\ q.gen = p.gen /\ q.meta = m /\ q.metadata = 0
      /\ q.attempted = p.attempted /\ q.pending = p.pending /\ q.ready = p.ready /\ q.daily = p.daily
  BY ONLY <1>2, <1>4 DEF HomeFields
<1>8. HomeGood(q, homeCalls, 0)
  <2>1. HomeOk(q)
    BY <1>3, <1>5, <1>7 DEF HomeOk
  <2>2. \A c \in homeCalls : HomeCallOk(c) /\ c.gen <= home.gen /\ c.meta <= home.meta
    BY <1>3 DEF HomeGood, HomeTypes
  <2>3. \A c \in homeCalls : c.gen <= q.gen /\ c.meta <= q.meta /\ c.meta # q.meta
    BY <1>1, <1>3, <1>4, <1>7, <2>2 DEF HomeOk, HomeCallOk
  <2>4. Waits(q, homeCalls) = Waits(p, homeCalls) /\ Looks(q, homeCalls) = {}
    BY <1>7, <2>3 DEF Waits, Looks
  <2>5. Cardinality(Looks(q, homeCalls)) = 0
    BY <2>4, FS_EmptySet
  <2>6. HomeTypes(q, homeCalls)
    BY <1>6, <2>1, <2>3 DEF HomeGood, HomeTypes
  <2> QED
    BY <1>6, <1>7, <2>4, <2>5, <2>6, HomeAssumption DEF HomeGood
<1>9. \/ First!Becomes(First!At(q, homeCalls, feed))
      \/ First!Becomes(First!Refresh(First!At(p, homeCalls, feed)))
      \/ First!Becomes(First!LoadAlbumMetadata(First!At(p, homeCalls, feed)))
  BY <1>1, <1>2 DEF First!SetActive
<1> QED
  BY <1>6, <1>8, <1>9, HomeRefreshed, AlbumsAsked, HomeArrives

LEMMA HomeSongsHeard ==
  ASSUME HomeInv, NEW c, c \in homeCalls, First!HearSongs(c)
  PROVE  HomeGood(home', homeCalls', 0)
<1> DEFINE rest == homeCalls \ {c}
<1>1. HomeGood(home, homeCalls, 0) /\ HomeOk(home) /\ IsSongs(c) /\ HomeCallOk(c)
  BY DEF HomeInv, HomeGood, HomeTypes, First!HearSongs, IsSongs
<1>2. CASE c.gen # home.gen
  <2>1. First!Becomes(First!At(home, rest, feed))
    BY <1>2 DEF First!HearSongs, First!Own, First!Heard, First!Rest
  <2>2. c \notin Waits(home, homeCalls) /\ c \notin Looks(home, homeCalls)
    BY <1>2 DEF Waits, Looks
  <2>3. HomeGood(home, rest, 0)
    BY <1>1, <2>2, HomeDropped
  <2> QED
    BY <2>1, <2>3, HomeArrives
<1>3. CASE c.gen = home.gen
  <2>1. c \in Waits(home, homeCalls)
    BY <1>1, <1>3 DEF Waits, IsSongs
  <2>2. HomeGood(home, rest, 1)
    BY <1>1, <2>1, HomeCounted
  <2>3. PICK rows \in {<<>>, HomeAlbums} :
          LET songs == [i \in DOMAIN rows |-> [album |-> rows[i], named |-> FALSE, of |-> c.id]]
              shown == First!At([home EXCEPT !.daily = songs], rest, songs)
          IN  First!Becomes(IF rows = <<>> /\ c.what = "recommend"
                            THEN First!At(home, rest \cup {[c EXCEPT !.what = "top"]}, feed)
                            ELSE First!Done(IF rows = <<>> THEN First!At(home, rest, feed)
                                            ELSE First!LoadAlbumMetadata(shown)))
    BY <1>3 DEF First!HearSongs, First!Own, First!Heard, First!Rest
  <2>4. PICK songs : songs = [i \in DOMAIN rows |-> [album |-> rows[i], named |-> FALSE, of |-> c.id]]
    OBVIOUS
  <2>5. CASE rows = <<>> /\ c.what = "recommend"
    <3>1. PICK d : d = [c EXCEPT !.what = "top"]
      OBVIOUS
    <3>2. First!Becomes(First!At(home, rest \cup {d}, feed))
      BY <2>3, <2>5, <3>1
    <3>3. HomeCallOk(d) /\ d.what = "top" /\ d.gen = c.gen /\ d.meta = c.meta
      BY ONLY <1>1, <3>1 DEF HomeCallOk
    <3>4. d \notin homeCalls
      <4>1. d \in homeCalls => d \in Waits(home, homeCalls) /\ IsSongs(d)
        BY <1>3, <3>3 DEF Waits, IsSongs
      <4>2. d # c
        BY <2>5, <3>3
      <4> QED
        BY <1>1, <2>1, <4>1, <4>2 DEF HomeGood
    <3>5. HomeTypes(home, rest \cup {d})
      <4>1. HomeTypes(home, rest)
        BY <2>2 DEF HomeGood
      <4>2. c.gen <= home.gen /\ c.meta <= home.meta
        BY <1>1 DEF HomeGood, HomeTypes
      <4> QED
        BY <3>3, <4>1, <4>2, FS_AddElement DEF HomeTypes
    <3>6. /\ Waits(home, rest \cup {d}) = Waits(home, rest) \cup {d} /\ d \notin Waits(home, rest)
          /\ Looks(home, rest \cup {d}) = Looks(home, rest)
      BY <1>3, <3>3, <3>4 DEF Waits, Looks
    <3>7. home.pending = Cardinality(Waits(home, rest \cup {d})) + 0
      <4>1. PICK n, k : n = Cardinality(Waits(home, rest)) /\ k = Cardinality(Waits(home, rest \cup {d}))
        OBVIOUS
      <4>2. IsFiniteSet(Waits(home, rest))
        BY <2>2, FS_Subset DEF HomeGood, HomeTypes, Waits
      <4>3. n \in Nat /\ k = n + 1
        BY <3>6, <4>1, <4>2, FS_AddElement, FS_CardinalityType
      <4>4. home.pending = n + 1
        BY <2>2, <4>1 DEF HomeGood
      <4>5. home.pending = k + 0
        BY ONLY <4>3, <4>4
      <4> QED
        BY <4>1, <4>5
    <3>8. \A x, y \in Waits(home, rest \cup {d}) : IsSongs(x) /\ IsSongs(y) => x = y
      <4>1. \A x \in Waits(home, rest) : ~IsSongs(x)
        BY <1>1, <2>1 DEF HomeGood, Waits
      <4> QED
        BY <3>6, <4>1
    <3>9. home.ready
      BY <1>1 DEF HomeGood
    <3>10. HomeGood(home, rest \cup {d}, 0)
      BY <2>2, <3>5, <3>6, <3>7, <3>8, <3>9 DEF HomeGood
    <3> QED
      BY <3>2, <3>10, HomeArrives
  <2>6. CASE ~(rows = <<>> /\ c.what = "recommend") /\ rows = <<>>
    <3>1. First!Becomes(First!Done(First!At(home, rest, feed)))
      BY <2>3, <2>6
    <3> QED
      BY <2>2, <3>1, HomeDone, HomeArrives
  <2>7. CASE rows # <<>>
    <3>1. PICK p : p = [home EXCEPT !.daily = songs]
      OBVIOUS
    <3>2. First!Becomes(First!Done(First!LoadAlbumMetadata(First!At(p, rest, songs))))
      BY <2>3, <2>4, <2>7, <3>1
    <3>3. songs \in Seq({songs[i] : i \in DOMAIN songs})
      <4>1. rows \in Seq({rows[i] : i \in DOMAIN rows})
        BY <2>7, HomeAssumption
      <4>2. DOMAIN songs = DOMAIN rows /\ songs = [i \in DOMAIN rows |-> songs[i]]
        BY <2>4
      <4> QED
        BY <4>1, <4>2, SongsAre
    <3>4. /\ DOMAIN p = HomeFields /\ p.gen = home.gen /\ p.meta = home.meta /\ p.metadata = home.metadata
          /\ p.attempted = home.attempted /\ p.pending = home.pending /\ p.ready = home.ready /\ p.daily = songs
      BY ONLY <1>1, <3>1 DEF HomeOk, HomeFields
    <3>5. HomeOk(p)
      BY <1>1, <3>3, <3>4 DEF HomeOk
    <3>6. HomeGood(p, rest, 1)
      BY <2>2, <3>4, <3>5, HomeRepainted
    <3>7. PICK q, ds : /\ First!LoadAlbumMetadata(First!At(p, rest, songs)) = First!At(q, ds, songs)
                       /\ HomeGood(q, ds, 1)
      BY <3>6, AlbumsAsked
    <3> QED
      BY <3>2, <3>7, HomeDone, HomeArrives
  <2> QED
    BY <2>5, <2>6, <2>7
<1> QED
  BY <1>2, <1>3

\* A shelf or the albums: one answer fewer is waited for.
LEMMA HomeShelfHeard ==
  ASSUME HomeInv, NEW c, c \in homeCalls, First!HearLists(c) \/ First!HearAlbums(c)
  PROVE  HomeGood(home', homeCalls', 0)
<1> DEFINE rest == homeCalls \ {c}
<1>1. HomeGood(home, homeCalls, 0) /\ HomeOk(home) /\ c.what # "album"
  BY DEF HomeInv, HomeGood, HomeTypes, First!HearLists, First!HearAlbums
<1>2. CASE c.gen # home.gen
  <2>1. First!Becomes(First!At(home, rest, feed))
    BY <1>2 DEF First!HearLists, First!HearAlbums, First!Own, First!Heard, First!Rest
  <2>2. c \notin Waits(home, homeCalls) /\ c \notin Looks(home, homeCalls)
    BY <1>2 DEF Waits, Looks
  <2>3. HomeGood(home, rest, 0)
    BY <1>1, <2>2, HomeDropped
  <2> QED
    BY <2>1, <2>3, HomeArrives
<1>3. CASE c.gen = home.gen
  <2>1. c \in Waits(home, homeCalls)
    BY <1>1, <1>3 DEF Waits
  <2>2. HomeGood(home, rest, 1)
    BY <1>1, <2>1, HomeCounted
  <2>3. \E p : /\ First!Becomes(First!Done(First!At(p, rest, feed)))
               /\ \/ p = home
                  \/ \E lists : p = [home EXCEPT !.lists = lists]
                  \/ \E some : p = [home EXCEPT !.albums = some]
    <3>1. CASE First!HearLists(c)
      <4>1. PICK exchange \in {"ok", "network"} :
              LET answer == First!GetTopPlaylists(exchange, <<c.id>>)
                  lists == [home.lists EXCEPT ![c.id] = answer.rows]
              IN  First!Becomes(First!Done(IF answer.status = 1 THEN First!At([home EXCEPT !.lists = lists], rest, feed)
                                           ELSE First!At(home, rest, feed)))
        BY <1>3, <3>1 DEF First!HearLists, First!Own, First!Heard, First!Rest
      <4>2. CASE First!GetTopPlaylists(exchange, <<c.id>>).status = 1
        BY <4>1, <4>2
      <4>3. CASE First!GetTopPlaylists(exchange, <<c.id>>).status # 1
        BY <4>1, <4>3
      <4> QED
        BY <4>2, <4>3
    <3>2. CASE First!HearAlbums(c)
      BY <1>3, <3>2 DEF First!HearAlbums, First!Own, First!Heard, First!Rest
    <3> QED
      BY <3>1, <3>2
  <2>4. PICK p : /\ First!Becomes(First!Done(First!At(p, rest, feed)))
                 /\ \/ p = home
                    \/ \E lists : p = [home EXCEPT !.lists = lists]
                    \/ \E some : p = [home EXCEPT !.albums = some]
    BY <2>3
  <2>5. /\ DOMAIN p = HomeFields /\ p.gen = home.gen /\ p.meta = home.meta /\ p.metadata = home.metadata
        /\ p.attempted = home.attempted /\ p.pending = home.pending /\ p.ready = home.ready /\ p.daily = home.daily
    BY ONLY <1>1, <2>4 DEF HomeOk, HomeFields
  <2>6. HomeOk(p)
    BY <1>1, <2>5 DEF HomeOk
  <2>7. HomeGood(p, rest, 1)
    BY <2>2, <2>5, <2>6, HomeRepainted
  <2> QED
    BY <2>4, <2>7, HomeDone, HomeArrives
<1> QED
  BY <1>2, <1>3

\* The name of an album: a place is free, and the next is asked for.
LEMMA HomeAlbumHeard ==
  ASSUME HomeInv, NEW c, c \in homeCalls, First!HearAlbum(c)
  PROVE  HomeGood(home', homeCalls', 0)
<1> DEFINE rest == homeCalls \ {c}
<1>1. HomeGood(home, homeCalls, 0) /\ HomeOk(home) /\ HomeCallOk(c) /\ c.what = "album"
  BY DEF HomeInv, HomeGood, HomeTypes, First!HearAlbum
<1>2. CASE c.gen # home.gen \/ c.meta # home.meta
  <2>1. First!Becomes(First!At(home, rest, feed))
    BY <1>2 DEF First!HearAlbum, First!Own, First!Heard, First!Rest
  <2>2. c \notin Waits(home, homeCalls) /\ c \notin Looks(home, homeCalls)
    BY <1>1, <1>2 DEF Waits, Looks
  <2>3. HomeGood(home, rest, 0)
    BY <1>1, <2>2, HomeDropped
  <2> QED
    BY <2>1, <2>3, HomeArrives
<1>3. CASE c.gen = home.gen /\ c.meta = home.meta
  <2>1. PICK n : n = home.metadata - 1
    OBVIOUS
  <2>2. PICK p : p = [home EXCEPT !.metadata = n]
    OBVIOUS
  <2>3. PICK songs : songs = First!Named(home.daily, c.id)
    OBVIOUS
  <2>4. PICK q : q = [p EXCEPT !.daily = songs]
    OBVIOUS
  <2>5. \/ First!Becomes(First!LoadAlbumMetadata(First!At(q, rest, songs)))
        \/ First!Becomes(First!LoadAlbumMetadata(First!At(p, rest, feed)))
    BY <1>3, <2>1, <2>2, <2>3, <2>4 DEF First!HearAlbum, First!Own, First!Heard, First!Rest
  <2>6. c \in Looks(home, homeCalls) /\ c \notin Waits(home, homeCalls)
    BY <1>1, <1>3 DEF Looks, Waits
  <2>7. /\ Looks(home, rest) = Looks(home, homeCalls) \ {c} /\ Waits(home, rest) = Waits(home, homeCalls)
    BY <2>6 DEF Looks, Waits
  <2>8. n \in Nat /\ n = Cardinality(Looks(home, rest)) /\ n <= HomeAtOnce
    <3>1. IsFiniteSet(Looks(home, homeCalls))
      BY <1>1, FS_Subset DEF HomeGood, HomeTypes, Looks
    <3>2. PICK k, l : k = Cardinality(Looks(home, homeCalls)) /\ l = Cardinality(Looks(home, rest))
      OBVIOUS
    <3>3. IsFiniteSet(Looks(home, rest))
      BY <2>7, <3>1, FS_RemoveElement
    <3>4. l = k - 1 /\ k \in Nat /\ l \in Nat
      BY <2>6, <2>7, <3>1, <3>2, <3>3, FS_RemoveElement, FS_CardinalityType
    <3>5. home.metadata = k /\ k <= HomeAtOnce
      BY <1>1, <3>2 DEF HomeGood
    <3>6. n \in Nat /\ n = l /\ n <= HomeAtOnce
      BY ONLY <2>1, <3>4, <3>5, HomeAssumption
    <3> QED
      BY <3>2, <3>6
  <2>9. /\ DOMAIN p = HomeFields /\ p.gen = home.gen /\ p.meta = home.meta /\ p.metadata = n
        /\ p.attempted = home.attempted /\ p.pending = home.pending /\ p.ready = home.ready /\ p.daily = home.daily
    BY ONLY <1>1, <2>2 DEF HomeOk, HomeFields
  <2>10. HomeOk(p)
    BY <1>1, <2>8, <2>9 DEF HomeOk
  <2>11. HomeGood(p, rest, 0)
    <3>1. Waits(p, rest) = Waits(home, homeCalls) /\ Looks(p, rest) = Looks(home, rest)
      BY <2>7, <2>9 DEF Waits, Looks
    <3>2. HomeTypes(p, rest)
      BY <1>1, <2>9, <2>10, FS_Subset DEF HomeGood, HomeTypes
    <3>3. p.pending = Cardinality(Waits(p, rest)) + 0
      BY <1>1, <2>9, <3>1 DEF HomeGood
    <3>4. p.metadata = Cardinality(Looks(p, rest)) /\ p.metadata <= HomeAtOnce
      BY <2>8, <2>9, <3>1
    <3>5. /\ \A x \in Looks(p, rest) : x.id \in p.attempted
          /\ \A x, y \in Waits(p, rest) : IsSongs(x) /\ IsSongs(y) => x = y
          /\ ~p.ready => rest = {}
      BY <1>1, <2>7, <2>9, <3>1 DEF HomeGood
    <3> QED
      BY <3>2, <3>3, <3>4, <3>5 DEF HomeGood
  <2>12. HomeGood(q, rest, 0)
    <3>1. songs \in Seq({songs[i] : i \in DOMAIN songs})
      <4>1. home.daily \in Seq({home.daily[i] : i \in DOMAIN home.daily})
        BY <1>1 DEF HomeOk
      <4>2. DOMAIN songs = DOMAIN home.daily /\ songs = [i \in DOMAIN home.daily |-> songs[i]]
        BY <2>3 DEF First!Named
      <4> QED
        BY <4>1, <4>2, SongsAre
    <3>2. /\ DOMAIN q = HomeFields /\ q.gen = p.gen /\ q.meta = p.meta /\ q.metadata = p.metadata
          /\ q.attempted = p.attempted /\ q.pending = p.pending /\ q.ready = p.ready /\ q.daily = songs
      BY ONLY <2>4, <2>9 DEF HomeFields
    <3>3. HomeOk(q)
      BY <2>10, <3>1, <3>2 DEF HomeOk
    <3> QED
      BY <2>11, <3>2, <3>3, HomeRepainted
  <2>13. CASE First!Becomes(First!LoadAlbumMetadata(First!At(q, rest, songs)))
    BY <2>12, <2>13, AlbumsAsked, HomeArrives
  <2>14. CASE First!Becomes(First!LoadAlbumMetadata(First!At(p, rest, feed)))
    BY <2>11, <2>14, AlbumsAsked, HomeArrives
  <2> QED
    BY <2>5, <2>13, <2>14
<1> QED
  BY <1>2, <1>3

LEMMA HomeKeeps ==
  ASSUME HomeInv, [First!HomeNext]_First!homeVars
  PROVE  HomeInv'
<1>1. HomeGood(home, homeCalls, 0)
  BY DEF HomeInv
<1>2. HomeGood(home', homeCalls', 0)
  <2>1. CASE First!Ready
    BY <2>1, HomeReady
  <2>2. CASE First!PressRefresh \/ First!DayTimer
    <3>1. First!Becomes(First!Refresh(First!At(home, homeCalls, feed)))
      BY <2>2 DEF First!PressRefresh, First!DayTimer, First!Now
    <3> QED
      BY <1>1, <3>1, HomeRefreshed, HomeArrives
  <2>3. CASE First!SetActive
    BY <2>3, HomeActivated
  <2>4. CASE First!NextDay \/ UNCHANGED First!homeVars
    BY <1>1, <2>4 DEF First!NextDay, First!homeVars
  <2>5. ASSUME NEW account, First!SetAccount(account)
        PROVE  HomeGood(home', homeCalls', 0)
    BY <2>5, HomeAccountSet
  <2>6. ASSUME NEW c, c \in homeCalls,
               \/ First!HearSongs(c)
               \/ First!HearLists(c)
               \/ First!HearAlbums(c)
               \/ First!HearAlbum(c)
        PROVE  HomeGood(home', homeCalls', 0)
    BY <2>6, HomeSongsHeard, HomeShelfHeard, HomeAlbumHeard
  <2> QED
    BY <2>1, <2>2, <2>3, <2>4, <2>5, <2>6 DEF First!HomeNext
<1> QED
  BY <1>2 DEF HomeInv, HomeGood, HomeTypes, HomeOk, Waits, Looks

LEMMA HomeBegins == First!HomeInit => HomeInv
<1> SUFFICES ASSUME First!HomeInit PROVE HomeGood(home, homeCalls, 0)
  BY DEF HomeInv
<1>1. /\ home = [account |-> Nobody, gen |-> 0, meta |-> 0, pending |-> 0, metadata |-> 0,
                 ready |-> FALSE, active |-> TRUE, day |-> 0, daily |-> <<>>, attempted |-> {},
                 lists |-> [x \in First!Sorts |-> <<>>], albums |-> FALSE]
      /\ homeCalls = {}
  BY DEF First!HomeInit
<1>2. HomeOk(home) /\ home.pending = 0 /\ home.metadata = 0
  BY <1>1 DEF HomeOk, HomeFields
<1>3. HomeTypes(home, homeCalls)
  BY <1>1, <1>2, FS_EmptySet DEF HomeTypes
<1>4. Waits(home, homeCalls) = {} /\ Looks(home, homeCalls) = {}
  BY <1>1 DEF Waits, Looks
<1>5. Cardinality(Waits(home, homeCalls)) = 0 /\ Cardinality(Looks(home, homeCalls)) = 0
  BY <1>4, FS_EmptySet
<1>6. home.pending = Cardinality(Waits(home, homeCalls)) + 0
  BY <1>2, <1>5
<1>7. home.metadata = Cardinality(Looks(home, homeCalls)) /\ home.metadata <= HomeAtOnce
  BY <1>2, <1>5, HomeAssumption
<1> QED
  BY <1>1, <1>3, <1>4, <1>6, <1>7 DEF HomeGood

LEMMA HomeMeans == HomeInv => First!LoadingEnds
<1> SUFFICES ASSUME HomeInv PROVE First!LoadingEnds
  OBVIOUS
<1>1. /\ {c \in homeCalls : First!Own(c) /\ c.what # "album"} = Waits(home, homeCalls)
      /\ {c \in homeCalls : First!Own(c) /\ c.meta = home.meta /\ c.what = "album"} = Looks(home, homeCalls)
  BY DEF Waits, Looks, First!Own
<1>2. Cardinality(Waits(home, homeCalls)) \in Nat
  BY FS_Subset, FS_CardinalityType DEF HomeInv, HomeGood, HomeTypes, Waits
<1>3. home.pending = Cardinality(Waits(home, homeCalls))
  <2>1. PICK n : n = Cardinality(Waits(home, homeCalls))
    OBVIOUS
  <2>2. home.pending = n + 0 /\ n \in Nat
    BY <1>2, <2>1 DEF HomeInv, HomeGood
  <2>3. home.pending = n
    BY ONLY <2>2
  <2> QED
    BY <2>1, <2>3
<1>4. home.metadata = Cardinality(Looks(home, homeCalls)) /\ home.metadata <= HomeAtOnce
  BY DEF HomeInv, HomeGood
<1> QED
  BY <1>1, <1>3, <1>4, HomeCardinality DEF First!LoadingEnds

-----------------------------------------------------------------------------
(* The pages                                                                 *)

PanelStrong == /\ suite \in {"account", "vip"} => PanelInv
               /\ suite = "vip" => VipInv
PanelMoves  == /\ suite \in {"account", "vip"} => Panel!MovesForward
               /\ suite = "vip" => Panel!NewerAnswers
PanelStops  == suite = "vip" => Panel!NothingBegun

LEMMA PanelStrongBegins == PagesInit => PanelStrong
<1> SUFFICES ASSUME PagesInit PROVE PanelStrong
  OBVIOUS
<1>1. CASE suite = "account"
  <2>1. PICK begun, trouble : begun = 0 /\ trouble = 0
    OBVIOUS
  <2>2. Panel!AccountInit(begun, trouble) /\ begun \in Nat /\ trouble \in Nat
    BY <1>1, <2>1 DEF PagesInit
  <2>3. PanelInv
    BY <2>2, PanelBegins
  <2> QED
    BY <1>1, <2>3 DEF PanelStrong
<1>2. CASE suite = "vip"
  <2>1. PICK begun, trouble : begun = MaxAttempts - 1 /\ trouble = MaxTroubles
    OBVIOUS
  <2>2. Panel!VipInit(begun, trouble) /\ begun \in Nat /\ trouble \in Nat
    BY <1>2, <2>1, PanelAssumption DEF PagesInit
  <2>3. PanelInv /\ VipInv
    BY <2>2, VipBegins
  <2> QED
    BY <2>3 DEF PanelStrong
<1> QED
  BY <1>1, <1>2 DEF PanelStrong

LEMMA PanelStrongSteps ==
  PanelStrong /\ [UNCHANGED suite /\ PagesNext]_<<suite, pageVars>> => PanelStrong' /\ PanelMoves /\ PanelStops
<1> SUFFICES ASSUME PanelStrong, [UNCHANGED suite /\ PagesNext]_<<suite, pageVars>>
             PROVE  PanelStrong' /\ PanelMoves /\ PanelStops
  OBVIOUS
<1>1. suite' = suite
  OBVIOUS
<1>2. CASE suite = "account"
  <2>1. PanelInv /\ (Panel!AccountNext \/ UNCHANGED accountVars)
    BY <1>2 DEF PanelStrong, PagesNext, pageVars
  <2>2. PanelInv' /\ page'.at >= page.at
    BY <2>1, AccountKeeps, PanelStands
  <2> QED
    BY <1>1, <1>2, <2>2 DEF PanelStrong, PanelMoves, PanelStops, Panel!MovesForward
<1>3. CASE suite = "vip"
  <2>1. PanelInv /\ VipInv
    BY <1>3 DEF PanelStrong
  <2>2. Panel!VipNext \/ (UNCHANGED accountVars /\ UNCHANGED vipVars)
    BY <1>3 DEF PagesNext, pageVars
  <2>3. VipGoal /\ PanelInv' /\ page'.at >= page.at
    BY <2>1, <2>2, VipKeeps, VipStands, PanelStands
  <2> QED
    BY <1>1, <1>3, <2>3 DEF PanelStrong, PanelMoves, PanelStops, Panel!MovesForward, VipGoal
<1>4. CASE suite \notin {"account", "vip"}
  BY <1>1, <1>4 DEF PanelStrong, PanelMoves, PanelStops
<1> QED
  BY <1>2, <1>3, <1>4

\* The account panel and its entitlements are what the invariants say in every
\* state: one request of the attempt and one for the session count at a time
\* (AccountController), one request of the entitlements (VipController), and
\* the answers that count are about the account shown.
THEOREM PanelIsSound == PagesSpec => []PanelStrong
BY PanelStrongBegins, PanelStrongSteps, PTL DEF PagesSpec

\* The panel never shows an older session than it has shown, nor entitlements
\* asked for before those on the screen, whatever order the answers come in.
THEOREM SessionsMoveForwardCorrect == PagesSpec => SessionsMoveForward
<1>1. PanelStrong /\ [UNCHANGED suite /\ PagesNext]_<<suite, pageVars>> => [PanelMoves]_<<suite, pageVars>>
  BY PanelStrongSteps
<1> QED
  BY <1>1, PanelIsSound, PTL DEF PagesSpec, SessionsMoveForward, PanelMoves

\* The tier on the screen is what the products of the signed-in account grant at
\* the moment it was judged, though the panel judges by two buckets reduced earlier.
THEOREM TierIsTrueCorrect == PagesSpec => []TierIsTrue
<1>1. PanelStrong => TierIsTrue
  <2> SUFFICES ASSUME VipInv PROVE Panel!TierIsTrue
    BY DEF PanelStrong, TierIsTrue
  <2>1. vip.tier # "unknown" => vip.of = vip.account /\ vip.account = page.user /\ vip.tier = Deserved(vip.told, vip.judged)
    BY VipNow DEF TierInv, Shown
  <2> QED
    BY <2>1 DEF Panel!TierIsTrue, Deserved, Grants, Panel!Forever
<1> QED
  BY <1>1, PanelIsSound, PTL

\* A claim the user has stopped asks for nothing more.
THEOREM StopIsFinalCorrect == PagesSpec => StopIsFinal
<1>1. PanelStrong /\ [UNCHANGED suite /\ PagesNext]_<<suite, pageVars>> => [PanelStops]_<<suite, pageVars>>
  BY PanelStrongSteps
<1> QED
  BY <1>1, PanelIsSound, PTL DEF PagesSpec, StopIsFinal, PanelStops

-----------------------------------------------------------------------------
(* The first page and what was played                                        *)

HomeStrong == suite = "home" => HomeInv
HistoryStrong == suite = "history" => HistoryInv

LEMMA HomeIsSound == PagesSpec => []HomeStrong
<1>1. PagesInit => HomeStrong
  BY HomeBegins DEF PagesInit, HomeStrong
<1>2. HomeStrong /\ [UNCHANGED suite /\ PagesNext]_<<suite, pageVars>> => HomeStrong'
  <2> SUFFICES ASSUME HomeStrong, [UNCHANGED suite /\ PagesNext]_<<suite, pageVars>>, suite = "home"
               PROVE  HomeInv'
    BY DEF HomeStrong, pageVars
  <2>1. HomeInv
    BY DEF HomeStrong
  <2>2. First!HomeNext \/ UNCHANGED First!homeVars
    BY DEF PagesNext, pageVars, homeVars, First!homeVars
  <2> QED
    BY <2>1, <2>2, HomeKeeps
<1> QED
  BY <1>1, <1>2, PTL DEF PagesSpec

LEMMA HistoryIsSound == PagesSpec => []HistoryStrong
<1>1. PagesInit => HistoryStrong
  BY HistoryBegins DEF PagesInit, HistoryStrong
<1>2. HistoryStrong /\ [UNCHANGED suite /\ PagesNext]_<<suite, pageVars>> => HistoryStrong'
  <2> SUFFICES ASSUME HistoryStrong, [UNCHANGED suite /\ PagesNext]_<<suite, pageVars>>, suite = "history"
               PROVE  HistoryInv'
    BY DEF HistoryStrong, pageVars
  <2>1. HistoryInv
    BY DEF HistoryStrong
  <2>2. [Lately!HistoryNext]_historyVars
    BY DEF PagesNext, pageVars
  <2> QED
    BY <2>1, <2>2, HistoryKeeps
<1> QED
  BY <1>1, <1>2, PTL DEF PagesSpec

\* A code on the screen is being polled for, a claim that is busy has a step
\* under way, and a page that loads waits for exactly the requests that are out:
\* no order of answers, sign-ins and switches leaves one of them waiting for
\* nothing (AccountController, VipController, HomeController, HistoryController).
THEOREM PanelIsAliveCorrect == PagesSpec => []PanelIsAlive
<1>1. PanelStrong /\ HomeStrong /\ HistoryStrong => PanelIsAlive
  <2>1. PanelInv => Panel!CodeIsAlive
    BY DEF PanelInv, PanelInvOf, Alive, Login, Panel!CodeIsAlive, Panel!LoginKinds
  <2>2. VipInv => Panel!ClaimIsInHand
    BY DEF VipInv, VipInvOf, InHand, Step, Panel!ClaimIsInHand, Panel!ClaimKinds
  <2> QED
    BY <2>1, <2>2, HomeMeans, HistoryMeans DEF PanelStrong, HomeStrong, HistoryStrong, PanelIsAlive
<1> QED
  BY <1>1, PanelIsSound, HomeIsSound, HistoryIsSound, PTL

-----------------------------------------------------------------------------
(* Whose it is that shows: the first page                                    *)

\* The songs shown are the account's own, and so are the requests that count.
HomePage(p) == /\ DOMAIN p = HomeFields /\ p.gen \in Nat /\ p.metadata \in Int
               /\ p.daily \in Seq({p.daily[i] : i \in DOMAIN p.daily})
Shelved(p)  == /\ DOMAIN p.lists = First!Sorts
               /\ \A x \in First!Sorts : p.lists[x] \in {<<>>, <<x>>}
OwnSongs(p) == \A i \in DOMAIN p.daily : p.daily[i].of = p.account
OwnCalls(p, cs) == \A c \in cs : /\ HomeCallOk(c) /\ c.gen <= p.gen
                                 /\ IsSongs(c) /\ c.gen = p.gen => c.id = p.account
                                 /\ c.what = "lists" => c.id \in First!Sorts
HomeOwned(p, cs, rows) == HomePage(p) /\ Shelved(p) /\ OwnSongs(p) /\ OwnCalls(p, cs) /\ rows = p.daily

\* A page that shows the same.
LEMMA HomeOwnSame ==
  ASSUME NEW p, NEW cs, NEW rows, HomeOwned(p, cs, rows), NEW q, DOMAIN q = HomeFields, q.gen = p.gen,
         q.metadata \in Int, q.daily = p.daily, q.account = p.account, q.lists = p.lists
  PROVE  HomeOwned(q, cs, rows)
BY DEF HomeOwned, HomePage, Shelved, OwnSongs, OwnCalls

LEMMA AlbumCallOwned ==
  ASSUME NEW p, HomePage(p), p.meta \in Nat, NEW id
  PROVE  LET c == First!Asked("album", p, id)
         IN  HomeCallOk(c) /\ c.gen = p.gen /\ ~IsSongs(c) /\ c.what # "lists"
BY DEF First!Asked, HomePage, HomeCallOk, IsSongs

LEMMA HomeOwnAsks ==
  ASSUME NEW p, NEW cs, NEW rows, HomeOwned(p, cs, rows), p.meta \in Nat
  PROVE  \E q, ds : /\ First!LoadAlbumMetadata(First!At(p, cs, rows)) = First!At(q, ds, rows)
                    /\ HomeOwned(q, ds, rows) /\ q.pending = p.pending
<1> DEFINE Page(m, A) == [p EXCEPT !.metadata = m, !.attempted = A]
           Calls(B) == cs \cup {First!Asked("album", p, id) : id \in B}
           Asked == Int \X (SUBSET Ids(p)) \X (SUBSET Ids(p))
           Fetched(x) == First!At(Page(x[1], x[2]), Calls(x[3]), rows)
           base == First!At(p, cs, rows)
           V == {base} \cup {Fetched(x) : x \in Asked}
<1>1. HomePage(p) /\ DOMAIN p = HomeFields /\ p.metadata \in Int /\ p.attempted \in SUBSET Ids(p)
  BY DEF HomeOwned, HomePage, Ids
<1>2. base \in V
  OBVIOUS
<1>0. /\ \A v \in V : v = base \/ \E m, A, B : /\ m \in Int /\ A \in SUBSET Ids(p) /\ B \in SUBSET Ids(p)
                                   /\ v = First!At(Page(m, A), Calls(B), rows)
      /\ \A m, A, B : m \in Int /\ A \in SUBSET Ids(p) /\ B \in SUBSET Ids(p) =>
           First!At(Page(m, A), Calls(B), rows) \in V
  <2> HIDE DEF Page, Calls
  <2>1. \A x \in Asked : x[1] \in Int /\ x[2] \in SUBSET Ids(p) /\ x[3] \in SUBSET Ids(p)
    OBVIOUS
  <2>2. \A m, A, B : m \in Int /\ A \in SUBSET Ids(p) /\ B \in SUBSET Ids(p) =>
          <<m, A, B>> \in Asked /\ Fetched(<<m, A, B>>) = First!At(Page(m, A), Calls(B), rows)
    OBVIOUS
  <2> HIDE DEF Asked, base
  <2>3. ASSUME NEW v \in V, v # base
        PROVE  \E m, A, B : /\ m \in Int /\ A \in SUBSET Ids(p) /\ B \in SUBSET Ids(p)
                            /\ v = First!At(Page(m, A), Calls(B), rows)
    <3>1. PICK x \in Asked : v = Fetched(x)
      BY <2>3
    <3> HIDE DEF V
    <3> QED
      BY <2>1, <3>1
  <2>4. ASSUME NEW m, NEW A, NEW B, m \in Int /\ A \in SUBSET Ids(p) /\ B \in SUBSET Ids(p)
        PROVE  First!At(Page(m, A), Calls(B), rows) \in V
    <3>1. PICK x \in Asked : Fetched(x) = First!At(Page(m, A), Calls(B), rows)
      BY <2>2, <2>4
    <3> HIDE DEF Fetched
    <3> QED
      BY <3>1
  <2> QED
    BY <2>3, <2>4
<1> HIDE DEF V
<1>3. ASSUME NEW v \in V, NEW i \in DOMAIN p.daily PROVE First!AskAlbum(v, p.daily[i]) \in V
  <2>1. PICK q, m, A, B : /\ m \in Int /\ A \in SUBSET Ids(p) /\ B \in SUBSET Ids(p)
                          /\ v = First!At(q, Calls(B), rows)
                          /\ q = Page(m, A) \/ (q = p /\ m = p.metadata /\ A = p.attempted)
    <3>1. CASE v = base
      <4>1. cs = Calls({}) /\ {} \in SUBSET Ids(p)
        OBVIOUS
      <4>2. v = First!At(p, Calls({}), rows)
        BY <3>1, <4>1
      <4>3. PICK m, A, B : m = p.metadata /\ A = p.attempted /\ B = {}
        OBVIOUS
      <4> HIDE DEF Page, Calls, base
      <4> QED
        BY <1>1, <4>1, <4>2, <4>3
    <3>2. CASE v # base
      <4>1. PICK m, A, B : /\ m \in Int /\ A \in SUBSET Ids(p) /\ B \in SUBSET Ids(p)
                           /\ v = First!At(Page(m, A), Calls(B), rows)
        <5> HIDE DEF Page, Calls, base
        <5> QED
          BY <1>0, <3>2
      <4>2. PICK q : q = Page(m, A)
        OBVIOUS
      <4> HIDE DEF Page, Calls, base
      <4> QED
        BY <4>1, <4>2
    <3> QED
      BY <3>1, <3>2
  <2>2. PICK row, id : row = p.daily[i] /\ id = row.album /\ id \in Ids(p)
    BY DEF Ids
  <2>3. q = Page(m, A) \/ (q = p /\ m = p.metadata /\ A = p.attempted)
    BY <2>1
  <2>4. v.page = q /\ v.calls = Calls(B) /\ v.feed = rows
    BY <2>1, HomeParts
  <2>5. q.metadata = m /\ q.attempted = A /\ q.gen = p.gen /\ q.meta = p.meta
    BY ONLY <1>1, <2>3 DEF HomeFields
  <2>6. [q EXCEPT !.metadata = q.metadata + 1, !.attempted = q.attempted \cup {id}] = Page(m + 1, A \cup {id})
    BY ONLY <1>1, <2>3, <2>5 DEF HomeFields
  <2>7. Calls(B) \cup {First!Asked("album", q, id)} = Calls(B \cup {id})
    <3>1. First!Asked("album", q, id) = First!Asked("album", p, id)
      BY <2>5 DEF First!Asked
    <3> QED
      BY <3>1
  <2>8. \/ First!AskAlbum(v, row) = v
        \/ First!AskAlbum(v, row) = First!At(Page(m + 1, A \cup {id}), Calls(B \cup {id}), rows)
    <3>1. \/ First!AskAlbum(v, row) = v
          \/ First!AskAlbum(v, row) =
               First!At([v.page EXCEPT !.metadata = v.page.metadata + 1, !.attempted = v.page.attempted \cup {row.album}],
                        v.calls \cup {First!Asked("album", v.page, row.album)}, v.feed)
      BY DEF First!AskAlbum
    <3> HIDE DEF Page, Calls
    <3> QED
      BY <2>2, <2>4, <2>6, <2>7, <3>1
  <2>9. PICK n, A1, B1 : n = m + 1 /\ A1 = A \cup {id} /\ B1 = B \cup {id}
    OBVIOUS
  <2>10. n \in Int /\ A1 \in SUBSET Ids(p) /\ B1 \in SUBSET Ids(p)
    BY <2>1, <2>2, <2>9
  <2>11. First!At(Page(n, A1), Calls(B1), rows) \in V
    <3> HIDE DEF Page, Calls
    <3> QED
      BY <2>10, <1>0
  <2> HIDE DEF V, Page, Calls
  <2> QED
    BY <1>3, <2>2, <2>8, <2>9, <2>11
<1>4. First!LoadAlbumMetadata(base) \in V
  <2>1. base.page = p /\ p.daily \in Seq({p.daily[i] : i \in DOMAIN p.daily})
    BY <1>1, HomeParts DEF HomePage
  <2> HIDE DEF V, base
  <2> QED
    BY <1>2, <1>3, <2>1, AlbumsFold
<1> SUFFICES ASSUME First!LoadAlbumMetadata(base) # base
             PROVE  \E q, ds : First!LoadAlbumMetadata(base) = First!At(q, ds, rows) /\ HomeOwned(q, ds, rows) /\ q.pending = p.pending
  OBVIOUS
<1>5. PICK m, A, B : /\ m \in Int /\ A \in SUBSET Ids(p) /\ B \in SUBSET Ids(p)
                     /\ First!LoadAlbumMetadata(base) = First!At(Page(m, A), Calls(B), rows)
  BY <1>0, <1>4
<1>6. PICK q : q = Page(m, A)
  OBVIOUS
<1>7. /\ DOMAIN q = HomeFields /\ q.gen = p.gen /\ q.metadata = m /\ q.daily = p.daily
      /\ q.account = p.account /\ q.lists = p.lists /\ q.pending = p.pending
  BY ONLY <1>1, <1>6 DEF HomeFields
<1>8. HomeOwned(q, cs, rows)
  BY <1>5, <1>7, HomeOwnSame
<1>9. \A c \in Calls(B) : c \in cs \/ (HomeCallOk(c) /\ c.gen = p.gen /\ ~IsSongs(c) /\ c.what # "lists")
  BY <1>1, AlbumCallOwned
<1>10. p.gen \in Nat
  BY <1>1 DEF HomePage
<1>11. OwnCalls(q, Calls(B))
  <2> HIDE DEF Calls
  <2> QED
    BY <1>7, <1>8, <1>9, <1>10 DEF HomeOwned, OwnCalls
<1> HIDE DEF Calls
<1>12. HomeOwned(q, Calls(B), rows)
  BY <1>8, <1>11 DEF HomeOwned
<1> QED
  BY <1>5, <1>6, <1>7, <1>12

LEMMA HomeOwnRefreshed ==
  ASSUME NEW p, NEW cs, NEW rows, HomeOwned(p, cs, rows), p.meta \in Nat
  PROVE  \E q, ds : First!Refresh(First!At(p, cs, rows)) = First!At(q, ds, rows) /\ HomeOwned(q, ds, rows)
<1>1. PICK g, m : g = p.gen + 1 /\ m = p.meta + 1
  OBVIOUS
<1>2. PICK q : q = [p EXCEPT !.gen = g, !.meta = m, !.metadata = 0, !.attempted = {}, !.day = today,
                             !.pending = 4]
  OBVIOUS
<1>3. DOMAIN p = HomeFields /\ p.gen \in Nat /\ g \in Nat /\ m \in Nat
  BY <1>1 DEF HomeOwned, HomePage
<1>4. /\ DOMAIN q = HomeFields /\ q.gen = g /\ q.meta = m /\ q.metadata = 0 /\ q.daily = p.daily
      /\ q.account = p.account /\ q.lists = p.lists
  BY ONLY <1>2, <1>3 DEF HomeFields
<1>5. PICK songs : songs = (IF q.account = Nobody THEN "top" ELSE "recommend") /\ songs \in {"top", "recommend"}
  OBVIOUS
<1>6. PICK new : new = {First!Asked(songs, q, q.account), First!Asked("albums", q, 0)}
                         \cup {First!Asked("lists", q, x) : x \in First!Sorts}
  OBVIOUS
<1>7. \A c \in new : /\ HomeCallOk(c) /\ c.gen = g
                     /\ IsSongs(c) => c.id = p.account
                     /\ c.what = "lists" => c.id \in First!Sorts
  BY <1>3, <1>4, <1>5, <1>6 DEF First!Asked, HomeCallOk, IsSongs
<1>8. \A c \in cs : /\ HomeCallOk(c) /\ c.gen <= g /\ c.gen # g
                    /\ c.what = "lists" => c.id \in First!Sorts
  BY <1>1, <1>3 DEF HomeOwned, OwnCalls, HomeCallOk
<1>9. OwnCalls(q, cs \cup new)
  BY <1>3, <1>4, <1>7, <1>8 DEF OwnCalls
<1>10. HomeOwned(q, cs \cup new, rows)
  BY <1>3, <1>4, <1>9 DEF HomeOwned, HomePage, Shelved, OwnSongs
<1>11. \/ First!Refresh(First!At(p, cs, rows)) = First!At(p, cs, rows)
       \/ First!Refresh(First!At(p, cs, rows)) = First!At(q, cs \cup new, rows)
  <2>1. PICK s : s = First!At(p, cs, rows)
    OBVIOUS
  <2>2. s.page = p /\ s.calls = cs /\ s.feed = rows
    BY <2>1, HomeParts
  <2>3. q = [s.page EXCEPT !.gen = s.page.gen + 1, !.meta = s.page.meta + 1, !.metadata = 0, !.attempted = {},
                           !.day = today, !.pending = 4]
    BY <1>1, <1>2, <2>2
  <2>4. \/ First!Refresh(s) = s
        \/ First!Refresh(s) =
             First!At(q, s.calls \cup {First!Asked(IF q.account = Nobody THEN "top" ELSE "recommend", q, q.account),
                                       First!Asked("albums", q, 0)}
                                 \cup {First!Asked("lists", q, x) : x \in First!Sorts}, s.feed)
    BY ONLY <2>3 DEF First!Refresh
  <2>5. s.calls \cup {First!Asked(songs, q, q.account), First!Asked("albums", q, 0)}
                \cup {First!Asked("lists", q, x) : x \in First!Sorts} = cs \cup new
    BY <1>6, <2>2
  <2> QED
    BY <1>5, <2>1, <2>2, <2>4, <2>5
<1> QED
  BY <1>10, <1>11

LEMMA HomeOwnDone ==
  ASSUME NEW p, NEW cs, NEW rows, HomeOwned(p, cs, rows), p.pending \in Int, First!Becomes(First!Done(First!At(p, cs, rows)))
  PROVE  HomeOwned(home', homeCalls', feed')
<1>1. PICK n : n = p.pending - 1
  OBVIOUS
<1>2. PICK q : q = [p EXCEPT !.pending = n]
  OBVIOUS
<1>3. DOMAIN p = HomeFields /\ p.metadata \in Int
  BY DEF HomeOwned, HomePage
<1>4. /\ DOMAIN q = HomeFields /\ q.gen = p.gen /\ q.metadata = p.metadata /\ q.daily = p.daily
      /\ q.account = p.account /\ q.lists = p.lists
  BY ONLY <1>2, <1>3 DEF HomeFields
<1>5. HomeOwned(q, cs, rows)
  BY <1>3, <1>4, HomeOwnSame
<1>6. home' = q /\ homeCalls' = cs /\ feed' = rows
  BY <1>1, <1>2, HomeParts DEF First!Becomes, First!Done
<1> QED
  BY <1>5, <1>6

LEMMA HomeOwnArrives ==
  ASSUME NEW p, NEW cs, NEW rows, HomeOwned(p, cs, rows), First!Becomes(First!At(p, cs, rows))
  PROVE  HomeOwned(home', homeCalls', feed')
BY HomeParts DEF First!Becomes

LEMMA HomeOwnFewer ==
  ASSUME NEW p, NEW cs, NEW rows, HomeOwned(p, cs, rows), NEW c
  PROVE  HomeOwned(p, cs \ {c}, rows)
BY DEF HomeOwned, OwnCalls

LEMMA HomeOwnReady ==
  ASSUME HomeOwned(home, homeCalls, feed), home.meta \in Nat, First!Ready
  PROVE  HomeOwned(home', homeCalls', feed')
<1>1. PICK p : p = [home EXCEPT !.ready = TRUE]
  OBVIOUS
<1>2. DOMAIN home = HomeFields /\ home.metadata \in Int
  BY DEF HomeOwned, HomePage
<1>3. /\ DOMAIN p = HomeFields /\ p.gen = home.gen /\ p.metadata = home.metadata /\ p.daily = home.daily
      /\ p.account = home.account /\ p.lists = home.lists /\ p.meta = home.meta
  BY ONLY <1>1, <1>2 DEF HomeFields
<1>4. HomeOwned(p, homeCalls, feed)
  BY <1>2, <1>3, HomeOwnSame
<1>5. \/ First!Becomes(First!Refresh(First!At(p, homeCalls, feed)))
      \/ First!Becomes(First!At(p, homeCalls, feed))
  BY <1>1 DEF First!Ready
<1> QED
  BY <1>3, <1>4, <1>5, HomeOwnRefreshed, HomeOwnArrives

LEMMA HomeOwnAccount ==
  ASSUME HomeOwned(home, homeCalls, feed), home.meta \in Nat, NEW account, First!SetAccount(account)
  PROVE  HomeOwned(home', homeCalls', feed')
<1>1. PICK lists, g, none : lists = [x \in First!Sorts |-> <<>>] /\ g = home.gen + 1 /\ none = <<>>
  OBVIOUS
<1>2. PICK p : p = [home EXCEPT !.account = account, !.gen = g, !.daily = none, !.albums = FALSE,
                                !.lists = lists, !.pending = 0]
  OBVIOUS
<1>3. /\ DOMAIN home = HomeFields /\ home.metadata \in Int /\ home.gen \in Nat /\ g \in Nat
      /\ OwnCalls(home, homeCalls)
  BY <1>1 DEF HomeOwned, HomePage
<1>4. /\ DOMAIN p = HomeFields /\ p.gen = g /\ p.metadata = home.metadata /\ p.daily = none
      /\ p.account = account /\ p.lists = lists /\ p.meta = home.meta
  BY ONLY <1>2, <1>3 DEF HomeFields
<1>5. First!Becomes(First!Refresh(First!At(p, homeCalls, none)))
  BY <1>1, <1>2 DEF First!SetAccount
<1>6. OwnCalls(p, homeCalls)
  BY <1>1, <1>3, <1>4 DEF OwnCalls, HomeCallOk
<1>7. HomePage(p) /\ Shelved(p) /\ OwnSongs(p)
  <2>1. HomePage(p) /\ OwnSongs(p)
    BY <1>1, <1>3, <1>4 DEF HomePage, OwnSongs
  <2>2. Shelved(p)
    BY <1>1, <1>4 DEF Shelved
  <2> QED
    BY <2>1, <2>2
<1>8. HomeOwned(p, homeCalls, none)
  BY <1>4, <1>6, <1>7 DEF HomeOwned
<1> QED
  BY <1>4, <1>5, <1>8, HomeOwnRefreshed, HomeOwnArrives

LEMMA HomeOwnActive ==
  ASSUME HomeOwned(home, homeCalls, feed), home.meta \in Nat, First!SetActive
  PROVE  HomeOwned(home', homeCalls', feed')
<1>1. PICK active, m : active = ~home.active /\ m = home.meta + 1
  OBVIOUS
<1>2. PICK p, q : /\ p = [home EXCEPT !.active = active]
                  /\ q = [p EXCEPT !.meta = m, !.metadata = 0]
  OBVIOUS
<1>3. DOMAIN home = HomeFields /\ home.metadata \in Int
  BY DEF HomeOwned, HomePage
<1>4. /\ DOMAIN p = HomeFields /\ p.gen = home.gen /\ p.metadata = home.metadata /\ p.daily = home.daily
      /\ p.account = home.account /\ p.lists = home.lists /\ p.meta = home.meta
  BY ONLY <1>2, <1>3 DEF HomeFields
<1>5. /\ DOMAIN q = HomeFields /\ q.gen = p.gen /\ q.metadata = 0 /\ q.daily = p.daily
      /\ q.account = p.account /\ q.lists = p.lists
  BY ONLY <1>2, <1>4 DEF HomeFields
<1>6. HomeOwned(p, homeCalls, feed)
  BY <1>3, <1>4, HomeOwnSame
<1>7. HomeOwned(q, homeCalls, feed)
  BY <1>5, <1>6, HomeOwnSame
<1>8. \/ First!Becomes(First!At(q, homeCalls, feed))
      \/ First!Becomes(First!Refresh(First!At(p, homeCalls, feed)))
      \/ First!Becomes(First!LoadAlbumMetadata(First!At(p, homeCalls, feed)))
  BY <1>1, <1>2 DEF First!SetActive
<1> QED
  BY <1>4, <1>6, <1>7, <1>8, HomeOwnRefreshed, HomeOwnAsks, HomeOwnArrives

LEMMA HomeOwnSongs ==
  ASSUME HomeOwned(home, homeCalls, feed), home.meta \in Nat, home.pending \in Int,
         NEW c, c \in homeCalls, First!HearSongs(c)
  PROVE  HomeOwned(home', homeCalls', feed')
<1> DEFINE rest == homeCalls \ {c}
<1>1. /\ HomeOwned(home, rest, feed) /\ HomeCallOk(c) /\ c.gen <= home.gen /\ IsSongs(c)
      /\ c.gen = home.gen => c.id = home.account
  BY HomeOwnFewer DEF HomeOwned, OwnCalls, First!HearSongs, IsSongs
<1>2. CASE c.gen # home.gen
  <2>1. First!Becomes(First!At(home, rest, feed))
    BY <1>2 DEF First!HearSongs, First!Own, First!Heard, First!Rest
  <2> QED
    BY <1>1, <2>1, HomeOwnArrives
<1>3. CASE c.gen = home.gen
  <2>1. PICK rows \in {<<>>, HomeAlbums} :
          LET songs == [i \in DOMAIN rows |-> [album |-> rows[i], named |-> FALSE, of |-> c.id]]
              shown == First!At([home EXCEPT !.daily = songs], rest, songs)
          IN  First!Becomes(IF rows = <<>> /\ c.what = "recommend"
                            THEN First!At(home, rest \cup {[c EXCEPT !.what = "top"]}, feed)
                            ELSE First!Done(IF rows = <<>> THEN First!At(home, rest, feed)
                                            ELSE First!LoadAlbumMetadata(shown)))
    BY <1>3 DEF First!HearSongs, First!Own, First!Heard, First!Rest
  <2>2. PICK songs : songs = [i \in DOMAIN rows |-> [album |-> rows[i], named |-> FALSE, of |-> c.id]]
    OBVIOUS
  <2>3. CASE rows = <<>> /\ c.what = "recommend"
    <3>1. PICK d : d = [c EXCEPT !.what = "top"]
      OBVIOUS
    <3>2. First!Becomes(First!At(home, rest \cup {d}, feed))
      BY <2>1, <2>3, <3>1
    <3>3. HomeCallOk(d) /\ d.what = "top" /\ d.gen = c.gen /\ d.id = c.id
      BY ONLY <1>1, <3>1 DEF HomeCallOk
    <3>4. HomeOwned(home, rest \cup {d}, feed)
      BY <1>1, <1>3, <3>3 DEF HomeOwned, OwnCalls
    <3> QED
      BY <3>2, <3>4, HomeOwnArrives
  <2>4. CASE ~(rows = <<>> /\ c.what = "recommend") /\ rows = <<>>
    <3>1. First!Becomes(First!Done(First!At(home, rest, feed)))
      BY <2>1, <2>4
    <3> QED
      BY <1>1, <3>1, HomeOwnDone
  <2>5. CASE rows # <<>>
    <3>1. PICK p : p = [home EXCEPT !.daily = songs]
      OBVIOUS
    <3>2. First!Becomes(First!Done(First!LoadAlbumMetadata(First!At(p, rest, songs))))
      BY <2>1, <2>2, <2>5, <3>1
    <3>3. songs \in Seq({songs[i] : i \in DOMAIN songs})
      <4>1. rows \in Seq({rows[i] : i \in DOMAIN rows})
        BY <2>5, HomeAssumption
      <4>2. DOMAIN songs = DOMAIN rows /\ songs = [i \in DOMAIN rows |-> songs[i]]
        BY <2>2
      <4> QED
        BY <4>1, <4>2, SongsAre
    <3>4. DOMAIN home = HomeFields /\ home.gen \in Nat /\ home.metadata \in Int /\ Shelved(home) /\ OwnCalls(home, rest)
      BY <1>1 DEF HomeOwned, HomePage
    <3>5. /\ DOMAIN p = HomeFields /\ p.gen = home.gen /\ p.metadata = home.metadata /\ p.daily = songs
          /\ p.account = home.account /\ p.lists = home.lists /\ p.meta = home.meta /\ p.pending = home.pending
      BY ONLY <3>1, <3>4 DEF HomeFields
    <3>6. \A i \in DOMAIN songs : songs[i].of = home.account
      BY <1>1, <1>3, <2>2
    <3>7. HomeOwned(p, rest, songs)
      BY <3>3, <3>4, <3>5, <3>6 DEF HomeOwned, HomePage, Shelved, OwnSongs, OwnCalls
    <3>8. PICK q, ds : /\ First!LoadAlbumMetadata(First!At(p, rest, songs)) = First!At(q, ds, songs)
                       /\ HomeOwned(q, ds, songs) /\ q.pending = p.pending
      BY <3>5, <3>7, HomeOwnAsks
    <3> QED
      BY <3>2, <3>5, <3>8, HomeOwnDone
  <2> QED
    BY <2>3, <2>4, <2>5
<1> QED
  BY <1>2, <1>3

LEMMA HomeOwnShelf ==
  ASSUME HomeOwned(home, homeCalls, feed), home.meta \in Nat, home.pending \in Int,
         NEW c, c \in homeCalls, First!HearLists(c) \/ First!HearAlbums(c)
  PROVE  HomeOwned(home', homeCalls', feed')
<1> DEFINE rest == homeCalls \ {c}
<1>1. /\ HomeOwned(home, rest, feed)
      /\ c.what = "lists" => c.id \in First!Sorts
  BY HomeOwnFewer DEF HomeOwned, OwnCalls
<1>2. DOMAIN home = HomeFields /\ home.metadata \in Int /\ Shelved(home)
  BY DEF HomeOwned, HomePage
<1>3. CASE First!Becomes(First!At(home, rest, feed)) \/ First!Becomes(First!Done(First!At(home, rest, feed)))
  BY <1>1, <1>3, HomeOwnArrives, HomeOwnDone
<1>4. ASSUME NEW lists, c.id \in First!Sorts, lists = [home.lists EXCEPT ![c.id] = <<c.id>>],
             First!Becomes(First!Done(First!At([home EXCEPT !.lists = lists], rest, feed)))
      PROVE  HomeOwned(home', homeCalls', feed')
  <2>1. PICK p : p = [home EXCEPT !.lists = lists]
    OBVIOUS
  <2>2. /\ DOMAIN p = HomeFields /\ p.gen = home.gen /\ p.metadata = home.metadata /\ p.daily = home.daily
        /\ p.account = home.account /\ p.lists = lists /\ p.pending = home.pending
    BY ONLY <1>2, <2>1 DEF HomeFields
  <2>3. Shelved(p)
    BY <1>2, <1>4, <2>2 DEF Shelved
  <2>4. HomeOwned(p, rest, feed)
    BY <1>1, <2>2, <2>3 DEF HomeOwned, HomePage, OwnSongs, OwnCalls
  <2> QED
    BY <1>4, <2>1, <2>2, <2>4, HomeOwnDone
<1>5. ASSUME NEW some, First!Becomes(First!Done(First!At([home EXCEPT !.albums = some], rest, feed)))
      PROVE  HomeOwned(home', homeCalls', feed')
  <2>1. PICK p : p = [home EXCEPT !.albums = some]
    OBVIOUS
  <2>2. /\ DOMAIN p = HomeFields /\ p.gen = home.gen /\ p.metadata = home.metadata /\ p.daily = home.daily
        /\ p.account = home.account /\ p.lists = home.lists /\ p.pending = home.pending
    BY ONLY <1>2, <2>1 DEF HomeFields
  <2>3. HomeOwned(p, rest, feed)
    BY <1>1, <1>2, <2>2, HomeOwnSame
  <2> QED
    BY <1>5, <2>1, <2>2, <2>3, HomeOwnDone
<1>6. CASE First!HearLists(c)
  <2>1. PICK exchange \in {"ok", "network"} :
          LET answer == First!GetTopPlaylists(exchange, <<c.id>>)
              lists == [home.lists EXCEPT ![c.id] = answer.rows]
          IN  First!Becomes(IF c.gen # home.gen THEN First!At(home, rest, feed)
                ELSE First!Done(IF answer.status = 1 THEN First!At([home EXCEPT !.lists = lists], rest, feed)
                                ELSE First!At(home, rest, feed)))
    BY <1>6 DEF First!HearLists, First!Own, First!Heard, First!Rest
  <2>2. PICK answer : answer = First!GetTopPlaylists(exchange, <<c.id>>)
    OBVIOUS
  <2>3. answer.status = 1 => answer.rows = <<c.id>>
    BY <2>2 DEF First!GetTopPlaylists, First!Discovery, First!ErrorPlaylistDiscovery
  <2>4. c.id \in First!Sorts
    BY <1>1, <1>6 DEF First!HearLists
  <2>5. PICK lists : lists = [home.lists EXCEPT ![c.id] = answer.rows]
    OBVIOUS
  <2>6. CASE c.gen # home.gen \/ answer.status # 1
    <3>1. First!Becomes(First!At(home, rest, feed)) \/ First!Becomes(First!Done(First!At(home, rest, feed)))
      BY <2>1, <2>2, <2>6
    <3> QED
      BY <1>3, <3>1
  <2>7. CASE c.gen = home.gen /\ answer.status = 1
    <3>1. First!Becomes(First!Done(First!At([home EXCEPT !.lists = lists], rest, feed)))
      BY <2>1, <2>2, <2>5, <2>7
    <3>2. lists = [home.lists EXCEPT ![c.id] = <<c.id>>]
      BY <2>3, <2>5, <2>7
    <3> QED
      BY <1>4, <2>4, <3>1, <3>2
  <2> QED
    BY <2>6, <2>7
<1>7. CASE First!HearAlbums(c)
  <2>1. \/ First!Becomes(First!At(home, rest, feed))
        \/ \E some : First!Becomes(First!Done(First!At([home EXCEPT !.albums = some], rest, feed)))
    BY <1>7 DEF First!HearAlbums, First!Own, First!Heard, First!Rest
  <2> QED
    BY <1>3, <1>5, <2>1
<1> QED
  BY <1>6, <1>7

LEMMA HomeOwnAlbum ==
  ASSUME HomeOwned(home, homeCalls, feed), home.meta \in Nat, NEW c, c \in homeCalls, First!HearAlbum(c)
  PROVE  HomeOwned(home', homeCalls', feed')
<1> DEFINE rest == homeCalls \ {c}
<1>1. HomeOwned(home, rest, feed)
  BY HomeOwnFewer
<1>2. PICK n, songs : n = home.metadata - 1 /\ songs = First!Named(home.daily, c.id)
  OBVIOUS
<1>3. PICK p, q : p = [home EXCEPT !.metadata = n] /\ q = [p EXCEPT !.daily = songs]
  OBVIOUS
<1>4. \/ First!Becomes(First!At(home, rest, feed))
      \/ First!Becomes(First!LoadAlbumMetadata(First!At(q, rest, songs)))
      \/ First!Becomes(First!LoadAlbumMetadata(First!At(p, rest, feed)))
  BY <1>2, <1>3 DEF First!HearAlbum, First!Own, First!Heard, First!Rest
<1>5. /\ DOMAIN home = HomeFields /\ home.metadata \in Int /\ n \in Int
      /\ home.daily \in Seq({home.daily[i] : i \in DOMAIN home.daily})
      /\ \A i \in DOMAIN home.daily : home.daily[i].of = home.account
  BY <1>1, <1>2 DEF HomeOwned, HomePage, OwnSongs
<1>6. /\ DOMAIN p = HomeFields /\ p.gen = home.gen /\ p.metadata = n /\ p.daily = home.daily
      /\ p.account = home.account /\ p.lists = home.lists /\ p.meta = home.meta
  BY ONLY <1>3, <1>5 DEF HomeFields
<1>7. /\ DOMAIN q = HomeFields /\ q.gen = home.gen /\ q.metadata = n /\ q.daily = songs
      /\ q.account = home.account /\ q.lists = home.lists /\ q.meta = home.meta
  BY ONLY <1>3, <1>6 DEF HomeFields
<1>8. HomeOwned(p, rest, feed)
  BY <1>1, <1>5, <1>6, HomeOwnSame
<1>9. /\ songs \in Seq({songs[i] : i \in DOMAIN songs})
      /\ \A i \in DOMAIN songs : songs[i].of = home.account
  <2>1. DOMAIN songs = DOMAIN home.daily /\ songs = [i \in DOMAIN home.daily |-> songs[i]]
    BY <1>2 DEF First!Named
  <2>2. \A i \in DOMAIN home.daily : songs[i].of = home.daily[i].of
    BY <1>2 DEF First!Named
  <2>3. PICK old : old = home.daily
    OBVIOUS
  <2>4. old \in Seq({old[i] : i \in DOMAIN old}) /\ DOMAIN songs = DOMAIN old
    BY <1>5, <2>1, <2>3
  <2>5. songs = [i \in DOMAIN old |-> songs[i]]
    BY ONLY <2>1, <2>3
  <2>6. songs \in Seq({songs[i] : i \in DOMAIN songs})
    BY ONLY <2>4, <2>5, SongsAre
  <2>7. \A i \in DOMAIN songs : songs[i].of = home.account
    BY ONLY <1>5, <2>1, <2>2
  <2> QED
    BY ONLY <2>6, <2>7
<1>10. HomeOwned(q, rest, songs)
  BY <1>1, <1>5, <1>7, <1>9 DEF HomeOwned, HomePage, Shelved, OwnSongs, OwnCalls
<1> QED
  BY <1>1, <1>4, <1>6, <1>7, <1>8, <1>10, HomeOwnAsks, HomeOwnArrives

LEMMA HomeOwnKeeps ==
  ASSUME HomeOwned(home, homeCalls, feed), home.meta \in Nat, home.pending \in Int, [First!HomeNext]_First!homeVars
  PROVE  HomeOwned(home', homeCalls', feed')
<1>1. CASE First!Ready
  BY <1>1, HomeOwnReady
<1>2. CASE First!PressRefresh \/ First!DayTimer
  <2>1. First!Becomes(First!Refresh(First!At(home, homeCalls, feed)))
    BY <1>2 DEF First!PressRefresh, First!DayTimer, First!Now
  <2> QED
    BY <2>1, HomeOwnRefreshed, HomeOwnArrives
<1>3. CASE First!SetActive
  BY <1>3, HomeOwnActive
<1>4. CASE First!NextDay \/ UNCHANGED First!homeVars
  BY <1>4 DEF First!NextDay, First!homeVars
<1>5. ASSUME NEW account, First!SetAccount(account) PROVE HomeOwned(home', homeCalls', feed')
  BY <1>5, HomeOwnAccount
<1>6. ASSUME NEW c, c \in homeCalls,
             \/ First!HearSongs(c)
             \/ First!HearLists(c)
             \/ First!HearAlbums(c)
             \/ First!HearAlbum(c)
      PROVE  HomeOwned(home', homeCalls', feed')
  BY <1>6, HomeOwnSongs, HomeOwnShelf, HomeOwnAlbum
<1> QED
  BY <1>1, <1>2, <1>3, <1>4, <1>5, <1>6 DEF First!HomeNext

LEMMA HomeOwnBegins == ASSUME First!HomeInit PROVE HomeOwned(home, homeCalls, feed)
<1>1. /\ home = [account |-> Nobody, gen |-> 0, meta |-> 0, pending |-> 0, metadata |-> 0,
                 ready |-> FALSE, active |-> TRUE, day |-> 0, daily |-> <<>>, attempted |-> {},
                 lists |-> [x \in First!Sorts |-> <<>>], albums |-> FALSE]
      /\ homeCalls = {} /\ feed = <<>>
  BY DEF First!HomeInit
<1>2. DOMAIN home = HomeFields /\ home.gen = 0 /\ home.metadata = 0 /\ home.daily = <<>>
      /\ home.lists = [x \in First!Sorts |-> <<>>]
  BY <1>1 DEF HomeFields
<1>3. HomePage(home) /\ OwnSongs(home)
  BY <1>2 DEF HomePage, OwnSongs
<1>4. Shelved(home) /\ OwnCalls(home, homeCalls)
  BY <1>1, <1>2 DEF Shelved, OwnCalls
<1> QED
  BY <1>1, <1>2, <1>3, <1>4 DEF HomeOwned

LEMMA HomeOwnMeans == HomeOwned(home, homeCalls, feed) => First!HomeIsOfAccount
BY DEF HomeOwned, Shelved, OwnSongs, First!HomeIsOfAccount

-----------------------------------------------------------------------------
(* Whose it is: what was played                                              *)

\* How many of the entries of a list are newer than one.
Rank(rows, S, i) == Lately!Cardinality({j \in S : Lately!Newer(rows, j, i)})

LEMMA HistoryCardinality == \A S : Lately!Cardinality(S) = Cardinality(S)
BY DEF Lately!Cardinality, Cardinality, Lately!IsFiniteSet, IsFiniteSet

\* Of two positions one is newer, and what is newer than the newer one is newer than the other.
LEMMA NewerOrders ==
  ASSUME NEW rows, NEW S \in SUBSET Nat, \A i \in S : rows[i].at \in Int
  PROVE  /\ \A i, j \in S : i # j => Lately!Newer(rows, i, j) \/ Lately!Newer(rows, j, i)
         /\ \A i \in S : ~Lately!Newer(rows, i, i)
         /\ \A i, j, k \in S : Lately!Newer(rows, i, j) /\ Lately!Newer(rows, j, k) => Lately!Newer(rows, i, k)
<1> DEFINE at == [i \in S |-> rows[i].at]
<1>1. \A i \in S : at[i] \in Int /\ i \in Nat
  OBVIOUS
<1>2. \A i, j \in S : Lately!Newer(rows, i, j) <=> at[i] > at[j] \/ (at[i] = at[j] /\ i < j)
  BY DEF Lately!Newer
<1> HIDE DEF at
<1> QED
  BY ONLY <1>1, <1>2

\* The positions have as many ranks as there are positions.
LEMMA RanksAre ==
  ASSUME NEW rows, NEW S \in SUBSET Nat, IsFiniteSet(S), \A i \in S : rows[i].at \in Int
  PROVE  /\ \A i \in S : Rank(rows, S, i) \in 0..(Cardinality(S) - 1)
         /\ \A i, j \in S : Lately!Newer(rows, i, j) => Rank(rows, S, i) < Rank(rows, S, j)
         /\ \A n \in 0..(Cardinality(S) - 1) : \E i \in S : Rank(rows, S, i) = n
<1> DEFINE Over(i) == {j \in S : Lately!Newer(rows, j, i)}
<1>0. \A i : Rank(rows, S, i) = Cardinality(Over(i))
  BY HistoryCardinality DEF Rank
<1>1. Cardinality(S) \in Nat /\ \A T \in SUBSET S : IsFiniteSet(T) /\ Cardinality(T) \in Nat
  BY FS_Subset, FS_CardinalityType
<1>2. /\ \A i, j \in S : i # j => Lately!Newer(rows, i, j) \/ Lately!Newer(rows, j, i)
      /\ \A i \in S : ~Lately!Newer(rows, i, i)
      /\ \A i, j, k \in S : Lately!Newer(rows, i, j) /\ Lately!Newer(rows, j, k) => Lately!Newer(rows, i, k)
  BY NewerOrders
<1>3. ASSUME NEW i \in S, NEW T \in SUBSET S, Over(i) \subseteq T, i \in T
      PROVE  Cardinality(Over(i)) < Cardinality(T)
  <2>1. Over(i) \subseteq T \ {i}
    BY <1>2, <1>3
  <2>2. IsFiniteSet(T) /\ IsFiniteSet(T \ {i}) /\ Cardinality(T) \in Nat
    BY <1>1
  <2>3. Cardinality(T \ {i}) = Cardinality(T) - 1
    BY <1>3, <2>2, FS_RemoveElement
  <2>4. Cardinality(Over(i)) <= Cardinality(T \ {i})
    BY <2>1, <2>2, FS_Subset
  <2>5. PICK a, b, c : a = Cardinality(Over(i)) /\ b = Cardinality(T) /\ c = Cardinality(T \ {i})
    OBVIOUS
  <2>6. a \in Nat /\ b \in Nat /\ c = b - 1 /\ a <= c
    BY <1>1, <2>2, <2>3, <2>4, <2>5
  <2>7. a < b
    BY ONLY <2>6
  <2> QED
    BY <2>5, <2>7
<1> HIDE DEF Over
<1>4. ASSUME NEW i \in S PROVE Rank(rows, S, i) \in 0..(Cardinality(S) - 1)
  <2>1. Over(i) \subseteq S
    BY DEF Over
  <2>2. Cardinality(Over(i)) < Cardinality(S) /\ Cardinality(Over(i)) \in Nat
    BY <1>1, <1>3, <2>1
  <2> QED
    BY <1>1, <2>2, <1>0
<1>5. ASSUME NEW i \in S, NEW j \in S, Lately!Newer(rows, i, j)
      PROVE  Rank(rows, S, i) < Rank(rows, S, j)
  <2>1. Over(i) \subseteq Over(j) /\ i \in Over(j)
    BY <1>2, <1>5 DEF Over
  <2>2. Over(j) \subseteq S
    BY DEF Over
  <2> QED
    BY <1>0, <1>3, <2>1, <2>2
<1>6. \A n \in 0..(Cardinality(S) - 1) : \E i \in S : Rank(rows, S, i) = n
  <2> DEFINE T == 0..(Cardinality(S) - 1)
             rank == [i \in S |-> Rank(rows, S, i)]
  <2>1. IsFiniteSet(T) /\ Cardinality(T) = Cardinality(S)
    <3>1. PICK n : n = Cardinality(S) /\ n \in Nat
      BY <1>1
    <3>2. PICK m : m = n - 1 /\ m \in Int
      BY <3>1
    <3>3. PICK z \in Int : z = 0
      OBVIOUS
    <3>4. IsFiniteSet(z..m) /\ Cardinality(z..m) = IF z > m THEN 0 ELSE m - z + 1
      BY <3>2, <3>3, FS_Interval
    <3>5. (IF z > m THEN 0 ELSE m - z + 1) = n
      BY ONLY <3>1, <3>2, <3>3
    <3> QED
      BY <3>1, <3>2, <3>3, <3>4, <3>5
  <2>2. rank \in [S -> T] /\ \A i, j \in S : rank[i] = rank[j] => i = j
    <3>1. \A i, j \in S : i # j => Rank(rows, S, i) # Rank(rows, S, j)
      <4> SUFFICES ASSUME NEW i \in S, NEW j \in S, i # j, Rank(rows, S, i) = Rank(rows, S, j) PROVE FALSE
        OBVIOUS
      <4>1. PICK n : n \in Int /\ n = Rank(rows, S, i) /\ n = Rank(rows, S, j)
        BY <1>4
      <4>2. n < n
        BY <1>2, <1>5, <4>1
      <4> QED
        BY ONLY <4>1, <4>2
    <3> QED
      BY <1>4, <3>1
  <2> HIDE DEF T, rank
  <2>3. rank \in Injection(S, T)
    BY <2>2 DEF Injection, IsInjective
  <2>4. rank \in Surjection(S, T)
    BY <2>1, <2>3, FS_Injection
  <2>5. \A n \in T : \E i \in S : rank[i] = n
    BY <2>4 DEF Surjection
  <2> QED
    BY <2>5 DEF T, rank
<1> QED
  BY <1>4, <1>5, <1>6

\* The order of the positions: each one once, the newest first.
LEMMA NewestOrders ==
  ASSUME NEW rows, NEW S \in SUBSET Nat, IsFiniteSet(S), \A i \in S : rows[i].at \in Int
  PROVE  LET order == Lately!Newest(rows, S)
         IN  /\ DOMAIN order = 1..Cardinality(S) /\ Cardinality(S) \in Nat
             /\ \A k \in DOMAIN order : order[k] \in S
             /\ \A i \in S : \E k \in DOMAIN order : order[k] = i
             /\ \A k, l \in DOMAIN order : k < l => Lately!Newer(rows, order[k], order[l])
<1> DEFINE N == Cardinality(S)
           order == Lately!Newest(rows, S)
           Place(k, i) == i \in S /\ Rank(rows, S, i) = k - 1
<1>1. N \in Nat
  BY FS_CardinalityType
<1>2. order = [k \in 1..N |-> CHOOSE i \in S : Rank(rows, S, i) = k - 1]
  <2>1. order = [k \in 1..Lately!Cardinality(S) |-> CHOOSE i \in S : Rank(rows, S, i) = k - 1]
    BY DEF Lately!Newest, Rank
  <2> QED
    BY <2>1, HistoryCardinality
<1> HIDE DEF order
<1>3. ASSUME NEW k \in 1..N PROVE order[k] \in S /\ Rank(rows, S, order[k]) = k - 1
  <2>1. k - 1 \in 0..(N - 1)
    BY <1>1
  <2>2. \E i \in S : Rank(rows, S, i) = k - 1
    BY <2>1, RanksAre
  <2> QED
    BY <1>2, <2>2
<1>4. DOMAIN order = 1..N
  BY <1>2
<1>5. ASSUME NEW k \in 1..N, NEW l \in 1..N, k < l PROVE Lately!Newer(rows, order[k], order[l])
  <2>1. order[k] # order[l]
    <3>1. k - 1 # l - 1
      BY ONLY <1>1, <1>5
    <3> QED
      BY <1>3, <3>1
  <2>2. PICK i, j : i = order[k] /\ j = order[l]
    OBVIOUS
  <2>3. i \in S /\ j \in S /\ i # j /\ Rank(rows, S, i) = k - 1 /\ Rank(rows, S, j) = l - 1
    BY <1>3, <2>1, <2>2
  <2>4. ~(l - 1 < k - 1)
    BY ONLY <1>1, <1>5
  <2>5. ~Lately!Newer(rows, j, i)
    BY <2>3, <2>4, RanksAre
  <2>6. Lately!Newer(rows, i, j)
    BY <2>3, <2>5, NewerOrders
  <2> QED
    BY <2>2, <2>6
<1>6. ASSUME NEW i \in S PROVE \E k \in 1..N : order[k] = i
  <2>1. PICK n : n = Rank(rows, S, i) /\ n \in 0..(N - 1)
    BY RanksAre
  <2>2. n + 1 \in 1..N /\ (n + 1) - 1 = n
    BY <1>1, <2>1
  <2>3. PICK k : k = n + 1 /\ k \in 1..N /\ k - 1 = n
    BY <2>2
  <2>4. order[k] \in S /\ Rank(rows, S, order[k]) = n
    BY <1>3, <2>3
  <2>5. order[k] = i
    <3> SUFFICES ASSUME order[k] # i PROVE FALSE
      OBVIOUS
    <3>1. PICK j : j = order[k]
      OBVIOUS
    <3>2. n < n
      BY <2>1, <2>4, <3>1, NewerOrders, RanksAre
    <3> QED
      BY ONLY <2>1, <3>2, <1>1
  <2> QED
    BY <2>3, <2>5
<1> QED
  BY <1>1, <1>3, <1>4, <1>5, <1>6 DEF order

LEMMA LatelyMax ==
  ASSUME NEW S \in SUBSET Nat, S # {}, NEW bound \in Nat, \A n \in S : n <= bound
  PROVE  Lately!Max(S) \in S
<1>1. \E n \in S : \A m \in S : m <= n
  BY GreatestMember
<1> QED
  BY <1>1 DEF Lately!Max

\* What is left of the records are records.
LEMMA WithoutKeeps ==
  ASSUME NEW V, NEW rows, rows \in Seq(V), NEW x
  PROVE  Lately!Without(rows, x) \in Seq(V)
<1> DEFINE D == DOMAIN rows
           choice == [s \in SUBSET D |-> Lately!Max(s)]
           drop == {i \in D : rows[i].song = x}
           P(it) == it = [s \in SUBSET D |->
                      IF s = {} THEN <<>>
                      ELSE IF rows[Lately!Max(s)].song = x THEN it[s \ {Lately!Max(s)}]
                      ELSE Append(it[s \ {Lately!Max(s)}], rows[Lately!Max(s)])]
<1>1. Lately!Without(rows, x) = (CHOOSE it : P(it))[D]
  BY Zenon DEF Lately!Without, Lately!MapThenFoldSet
<1>2. D = 1..Len(rows) /\ Len(rows) \in Nat
  OBVIOUS
<1>3. \A s \in SUBSET D : s # {} => choice[s] = Lately!Max(s) /\ choice[s] \in s
  <2> SUFFICES ASSUME NEW s \in SUBSET D, s # {} PROVE Lately!Max(s) \in s
    OBVIOUS
  <2>1. s \in SUBSET Nat /\ \A n \in s : n <= Len(rows)
    BY <1>2
  <2> QED
    BY <1>2, <2>1, LatelyMax
<1>4. ASSUME NEW it PROVE P(it) <=> FilterOf(it, rows, choice, drop)
  <2>1. \A s \in SUBSET D :
          (IF s = {} THEN <<>>
           ELSE IF rows[Lately!Max(s)].song = x THEN it[s \ {Lately!Max(s)}]
           ELSE Append(it[s \ {Lately!Max(s)}], rows[Lately!Max(s)]))
          = (IF s = {} THEN <<>>
             ELSE IF choice[s] \in drop THEN it[s \ {choice[s]}]
             ELSE Append(it[s \ {choice[s]}], rows[choice[s]]))
    <3> SUFFICES ASSUME NEW s \in SUBSET D, s # {}
                 PROVE  choice[s] = Lately!Max(s) /\ (choice[s] \in drop <=> rows[Lately!Max(s)].song = x)
      OBVIOUS
    <3> HIDE DEF choice
    <3> QED
      BY <1>3
  <2> HIDE DEF choice, drop
  <2> QED
    BY <2>1 DEF FilterOf
<1> HIDE DEF choice, drop, P
<1>5. (\E it : P(it)) /\ \A it : P(it) => it[D] \in Seq(V)
  BY <1>3, <1>4, FilterKeeps
<1>6. P(CHOOSE it : P(it))
  BY <1>5
<1> QED
  BY <1>1, <1>5, <1>6

\* The records of a list: of one account, or of nobody.
LocalRows     == [song : Played, at : Int, of : {Nobody}]
RemoteSongs   == UNION {{rows[i].song : i \in DOMAIN rows} : rows \in Remote}
RemoteRows(a) == [song : RemoteSongs, at : Int, of : {a}]
HistoryOwned(p, cs, rs) == /\ rs \in Seq(LocalRows) /\ p.remote \in Seq(RemoteRows(p.account))
                           /\ \A c \in cs : c.gen = p.gen => c.of = p.account

LEMMA FirstIs ==
  ASSUME NEW V, NEW rows, rows \in Seq(V), NEW n, n \in Nat
  PROVE  /\ Lately!First(rows, n) \in Seq(V)
         /\ Len(Lately!First(rows, n)) = IF Len(rows) < n THEN Len(rows) ELSE n
         /\ \A i \in DOMAIN Lately!First(rows, n) : Lately!First(rows, n)[i] = rows[i] /\ i \in DOMAIN rows
<1>1. PICK one \in Int : one = 1
  OBVIOUS
<1>2. PICK m \in Nat : m = (IF Len(rows) < n THEN Len(rows) ELSE n) /\ m <= Len(rows)
  OBVIOUS
<1>3. PICK t : t = Lately!First(rows, n) /\ t = SubSeq(rows, one, m)
  BY <1>1, <1>2 DEF Lately!First
<1>4. \A i \in one..m : rows[i] \in V
  <2>1. Len(rows) \in Nat /\ \A i \in 1..Len(rows) : rows[i] \in V
    OBVIOUS
  <2>2. \A i \in one..m : i \in 1..Len(rows)
    BY ONLY <1>1, <1>2, <2>1
  <2> QED
    BY ONLY <2>1, <2>2
<1>5. /\ t \in Seq(V) /\ Len(t) = IF one <= m THEN m - one + 1 ELSE 0
      /\ \A i \in 1..(m - one + 1) : t[i] = rows[one + i - 1]
  <2>1. m \in Int
    OBVIOUS
  <2>2. /\ SubSeq(rows, one, m) \in Seq(V)
        /\ Len(SubSeq(rows, one, m)) = IF one <= m THEN m - one + 1 ELSE 0
        /\ \A i \in 1..(m - one + 1) : SubSeq(rows, one, m)[i] = rows[one + i - 1]
    BY ONLY <1>4, <2>1, one \in Int, SubSeqProperties
  <2> QED
    BY ONLY <1>3, <2>2
<1>6. t \in Seq(V) /\ Len(t) = m /\ DOMAIN t = 1..m
  <2>1. (IF one <= m THEN m - one + 1 ELSE 0) = m
    BY ONLY <1>1, m \in Nat
  <2>2. t \in Seq(V) /\ Len(t) = m
    BY ONLY <1>5, <2>1
  <2> QED
    BY ONLY <2>2
<1>7. \A i \in 1..m : t[i] = rows[i]
  <2> SUFFICES ASSUME NEW i \in 1..m PROVE t[i] = rows[i]
    OBVIOUS
  <2>1. i \in 1..(m - one + 1) /\ one + i - 1 = i
    BY ONLY <1>1, i \in 1..m, m \in Nat
  <2> QED
    BY <1>5, <2>1
<1> QED
  <2>1. \A i \in 1..m : i \in DOMAIN rows
    BY ONLY <1>2, rows \in Seq(V), m \in Nat
  <2> QED
    BY ONLY <1>2, <1>3, <1>6, <1>7, <2>1

\* The page as the rows of both lists, and the places of those that are shown.
LEMMA HistoryShows ==
  ASSUME HistoryOwned(history, heard, recent)
  PROVE  Lately!HistoryIsOfAccount
<1> DEFINE X == LocalRows \cup RemoteRows(history.account)
           rows == recent \o history.remote
           within == {i \in DOMAIN rows : history.scope = "all" \/ rows[i].at >= Recently}
           once == {i \in within : \A j \in within : rows[j].song = rows[i].song => ~Lately!Newer(rows, j, i)}
           order == Lately!Newest(rows, once)
           list == [k \in DOMAIN order |-> rows[order[k]]]
           N == Cardinality(once)
<1>1. /\ rows \in Seq(X) /\ DOMAIN rows = 1..Len(rows) /\ Len(rows) \in Nat
      /\ \A k \in DOMAIN recent : k \in DOMAIN rows /\ rows[k] = recent[k]
  <2>1. recent \in Seq(X) /\ history.remote \in Seq(X)
    BY DEF HistoryOwned
  <2> HIDE DEF X
  <2>2. rows \in Seq(X) /\ Len(rows) = Len(recent) + Len(history.remote)
    BY <2>1, ConcatProperties
  <2>3. \A i \in 1..(Len(recent) + Len(history.remote)) :
          rows[i] = IF i <= Len(recent) THEN recent[i] ELSE history.remote[i - Len(recent)]
    BY <2>1, ConcatProperties
  <2>4. DOMAIN recent = 1..Len(recent) /\ Len(recent) \in Nat /\ Len(history.remote) \in Nat
    BY <2>1
  <2> HIDE DEF rows
  <2>5. DOMAIN rows = 1..Len(rows)
    BY <2>2
  <2> QED
    BY <2>2, <2>3, <2>4, <2>5
<1>2. \A i \in DOMAIN rows : rows[i].at \in Int /\ rows[i].of \in {Nobody, history.account}
  <2>1. \A e \in X : e.at \in Int /\ e.of \in {Nobody, history.account}
    BY DEF LocalRows, RemoteRows
  <2> HIDE DEF X, rows
  <2> QED
    BY <1>1, <2>1
<1>3. Lately!tracks = Lately!First(list, Kept)
  BY Zenon DEF Lately!tracks
<1> HIDE DEF X, rows
<1>4. /\ within \in SUBSET Nat /\ once \in SUBSET Nat /\ once \subseteq within /\ within \subseteq DOMAIN rows
      /\ IsFiniteSet(within) /\ IsFiniteSet(once)
  <2>1. IsFiniteSet(DOMAIN rows)
    BY <1>1, FS_Interval
  <2> QED
    BY <1>1, <2>1, FS_Subset
<1>5. /\ \A i \in within : i \in DOMAIN rows /\ rows[i].at \in Int
      /\ \A i \in DOMAIN rows : i \notin within => history.scope # "all" /\ ~(rows[i].at >= Recently)
      /\ \A i \in within : history.scope # "all" => rows[i].at >= Recently
      /\ \A i \in DOMAIN rows : rows[i].at >= Recently => i \in within
  BY <1>2, <1>4
<1>6. /\ \A i \in once, j \in within : rows[j].song = rows[i].song => ~Lately!Newer(rows, j, i)
      /\ \A i \in within : (\A j \in within : rows[j].song = rows[i].song => ~Lately!Newer(rows, j, i)) => i \in once
  OBVIOUS
<1> HIDE DEF within, once
<1>7. /\ DOMAIN order = 1..N /\ N \in Nat
      /\ \A k \in DOMAIN order : order[k] \in once
      /\ \A i \in once : \E k \in DOMAIN order : order[k] = i
      /\ \A k, l \in DOMAIN order : k < l => Lately!Newer(rows, order[k], order[l])
  <2>1. \A i \in once : rows[i].at \in Int
    BY <1>4, <1>5
  <2> QED
    BY <1>4, <2>1, NewestOrders
<1> HIDE DEF order, N
<1>8. list \in Seq(X) /\ Len(list) = N /\ DOMAIN list = 1..N /\ \A k \in 1..N : list[k] = rows[order[k]]
  <2>1. \A k \in 1..N : rows[order[k]] \in X
    <3>1. \A i \in DOMAIN rows : rows[i] \in X
      BY <1>1
    <3>2. \A k \in 1..N : order[k] \in DOMAIN rows
      BY <1>4, <1>7
    <3> QED
      BY <3>1, <3>2
  <2>2. list \in [1..N -> X]
    BY <1>7, <2>1
  <2>3. list \in Seq(X) /\ Len(list) = N
    BY <1>7, <2>2
  <2> QED
    BY <1>7, <2>3
<1> HIDE DEF list
<1>9. /\ Len(Lately!tracks) = (IF N < Kept THEN N ELSE Kept)
      /\ DOMAIN Lately!tracks = 1..Len(Lately!tracks)
      /\ \A i \in DOMAIN Lately!tracks : i \in 1..N /\ Lately!tracks[i] = rows[order[i]]
  <2>1. Kept \in Nat
    BY HistoryAssumption
  <2>2. PICK t : t = Lately!First(list, Kept)
    OBVIOUS
  <2>3. t \in Seq(X) /\ Len(t) = (IF N < Kept THEN N ELSE Kept) /\ \A i \in DOMAIN t : t[i] = list[i] /\ i \in DOMAIN list
    BY <1>8, <2>1, <2>2, FirstIs
  <2> QED
    BY <1>3, <1>8, <2>2, <2>3
<1>10. \A i, j \in within : Lately!Newer(rows, i, j) <=>
                              rows[i].at > rows[j].at \/ (rows[i].at = rows[j].at /\ i < j)
  BY DEF Lately!Newer
<1>11. ASSUME NEW k \in 1..N
       PROVE  /\ rows[order[k]].of \in {Nobody, history.account}
              /\ \A j \in DOMAIN rows : rows[j].song = rows[order[k]].song => rows[j].at <= rows[order[k]].at
              /\ \A l \in 1..N : l > k => /\ rows[order[l]].song # rows[order[k]].song
                                          /\ rows[order[l]].at <= rows[order[k]].at
  <2>1. PICK i : i = order[k] /\ i \in once /\ i \in within /\ i \in DOMAIN rows
    BY <1>4, <1>7
  <2>2. rows[i].of \in {Nobody, history.account} /\ rows[i].at \in Int
    BY <1>2, <2>1
  <2>3. ASSUME NEW j \in DOMAIN rows, rows[j].song = rows[i].song
        PROVE  rows[j].at <= rows[i].at
    <3>1. rows[j].at \in Int
      BY <1>2
    <3>2. CASE j \in within
      <4>1. ~Lately!Newer(rows, j, i)
        BY <1>6, <2>1, <2>3, <3>2
      <4>2. ~(rows[j].at > rows[i].at)
        BY <1>10, <2>1, <3>2, <4>1
      <4> QED
        BY ONLY <2>2, <3>1, <4>2
    <3>3. CASE j \notin within
      <4>1. ~(rows[j].at >= Recently) /\ rows[i].at >= Recently /\ Recently \in Int
        BY <1>5, <2>1, <3>3, HistoryAssumption
      <4> QED
        BY ONLY <2>2, <3>1, <4>1
    <3> QED
      BY <3>2, <3>3
  <2>4. ASSUME NEW l \in 1..N, l > k
        PROVE  rows[order[l]].song # rows[i].song /\ rows[order[l]].at <= rows[i].at
    <3>1. PICK j : j = order[l] /\ j \in once /\ j \in within /\ j \in DOMAIN rows
      BY <1>4, <1>7
    <3>2. k < l
      BY ONLY <2>4, <1>7, k \in 1..N
    <3>3. Lately!Newer(rows, i, j)
      BY <1>7, <2>1, <3>1, <3>2
    <3>4. rows[j].song # rows[i].song
      BY <1>6, <2>1, <3>1, <3>3
    <3>5. rows[i].at > rows[j].at \/ rows[i].at = rows[j].at
      BY <1>10, <2>1, <3>1, <3>3
    <3>6. rows[j].at \in Int
      BY <1>2, <3>1
    <3>7. rows[j].at <= rows[i].at
      BY ONLY <2>2, <3>5, <3>6
    <3> QED
      BY <3>1, <3>4, <3>7
  <2> QED
    BY <2>1, <2>2, <2>3, <2>4
<1>12. ASSUME NEW k \in DOMAIN recent, recent[k].at >= Recently
       PROVE  Lately!Shown(recent[k], Lately!tracks) \/ Len(Lately!tracks) = Kept
  <2>1. k \in within /\ rows[k] = recent[k]
    BY <1>1, <1>5, <1>12
  <2> DEFINE T == {j \in within : rows[j].song = rows[k].song}
             first == Lately!Newest(rows, T)
  <2>2. T \in SUBSET Nat /\ IsFiniteSet(T) /\ k \in T /\ \A j \in T : rows[j].at \in Int /\ j \in within
    BY <1>4, <1>5, <2>1, FS_Subset
  <2>3. /\ DOMAIN first = 1..Cardinality(T) /\ Cardinality(T) \in Nat
        /\ \A n \in DOMAIN first : first[n] \in T
        /\ \A j \in T : \E n \in DOMAIN first : first[n] = j
        /\ \A m, n \in DOMAIN first : m < n => Lately!Newer(rows, first[m], first[n])
    <3> HIDE DEF T
    <3> QED
      BY <2>2, NewestOrders
  <2>4. \A j \in T : rows[j].song = rows[k].song
    OBVIOUS
  <2>5. \A j \in within : rows[j].song = rows[k].song => j \in T
    OBVIOUS
  <2> HIDE DEF T, first
  <2>6. 1 \in DOMAIN first
    BY <2>2, <2>3
  <2>7. PICK i : i = first[1] /\ i \in T
    BY <2>3, <2>6
  <2>8. ASSUME NEW j \in within, rows[j].song = rows[i].song PROVE ~Lately!Newer(rows, j, i)
    <3>1. j \in T
      BY <2>4, <2>5, <2>7, <2>8
    <3>2. PICK n \in DOMAIN first : first[n] = j
      BY <2>3, <3>1
    <3>3. CASE n = 1
      BY <2>2, <2>7, <3>1, <3>2, <3>3, NewerOrders
    <3>4. CASE n # 1
      <4>1. 1 < n
        BY ONLY <2>3, <3>2, <3>4
      <4>2. Lately!Newer(rows, i, j)
        BY <2>3, <2>6, <2>7, <3>2, <4>1
      <4>3. \A x, y, z \in T : Lately!Newer(rows, x, y) /\ Lately!Newer(rows, y, z) => Lately!Newer(rows, x, z)
        BY <2>2, NewerOrders
      <4>4. ~Lately!Newer(rows, i, i)
        BY <2>2, <2>7, NewerOrders
      <4> QED
        BY <2>7, <3>1, <4>2, <4>3, <4>4
    <3> QED
      BY <3>3, <3>4
  <2>9. i \in once
    BY <1>6, <2>2, <2>7, <2>8
  <2>10. PICK m \in 1..N : order[m] = i
    BY <1>7, <2>9
  <2>11. CASE m \in DOMAIN Lately!tracks
    BY <1>9, <2>1, <2>4, <2>7, <2>10, <2>11 DEF Lately!Shown
  <2>12. CASE m \notin DOMAIN Lately!tracks
    <3>1. PICK n : n = Len(Lately!tracks) /\ n = (IF N < Kept THEN N ELSE Kept)
      BY <1>9
    <3>2. ~(m \in 1..n)
      BY <1>9, <2>12, <3>1
    <3>3. n = Kept
      BY ONLY <1>7, <3>1, <3>2, HistoryAssumption, m \in 1..N
    <3> QED
      BY <3>1, <3>3
  <2> QED
    BY <2>11, <2>12
<1>13. \A i \in DOMAIN Lately!tracks :
         /\ Lately!tracks[i].of \in {Nobody, history.account}
         /\ \A j \in DOMAIN rows : rows[j].song = Lately!tracks[i].song => rows[j].at <= Lately!tracks[i].at
         /\ \A j \in DOMAIN Lately!tracks :
              j > i => Lately!tracks[j].song # Lately!tracks[i].song /\ Lately!tracks[j].at <= Lately!tracks[i].at
  BY <1>9, <1>11
<1> QED
  BY <1>12, <1>13 DEF Lately!HistoryIsOfAccount, rows

HistoryWhole(p, cs, rs) == HistoryOk(p, cs) /\ HistoryOwned(p, cs, rs)

LEMMA HistoryRefreshOwns ==
  ASSUME NEW p, HistoryWhole(p, heard, recent), Lately!Refresh(p)
  PROVE  HistoryOwned(history', heard', recent)
<1>1. PICK loading, g : loading = (p.ready /\ p.account # Nobody) /\ g = p.gen + 1
  OBVIOUS
<1>2. PICK q : q = [p EXCEPT !.gen = g, !.loading = loading]
  OBVIOUS
<1>3. DOMAIN p = HistoryFields /\ p.gen \in Nat /\ \A c \in heard : c.gen \in Nat /\ c.gen <= p.gen
  BY DEF HistoryWhole, HistoryOk
<1>4. DOMAIN q = HistoryFields /\ q.gen = g /\ q.account = p.account /\ q.remote = p.remote
  BY ONLY <1>2, <1>3 DEF HistoryFields
<1>5. PICK new : new = [gen |-> q.gen, of |-> q.account]
  OBVIOUS
<1>6. history' = q /\ (heard' = heard \cup {new} \/ heard' = heard)
  BY <1>1, <1>2, <1>5 DEF Lately!Refresh
<1>7. new.gen = g /\ new.of = p.account /\ \A c \in heard : c.gen # g
  BY <1>1, <1>3, <1>4, <1>5
<1>8. \A c \in heard' : c.gen = q.gen => c.of = q.account
  BY <1>4, <1>6, <1>7
<1> QED
  BY <1>4, <1>6, <1>8 DEF HistoryWhole, HistoryOwned

LEMMA HistoryOwnKeeps ==
  ASSUME HistoryWhole(history, heard, recent), instant \in Int, [Lately!HistoryNext]_historyVars
  PROVE  HistoryOwned(history', heard', recent') /\ instant' \in Int
<1>1. /\ DOMAIN history = HistoryFields /\ history.gen \in Nat
      /\ \A c \in heard : c.gen \in Nat /\ c.gen <= history.gen
      /\ HistoryOwned(history, heard, recent)
  BY DEF HistoryWhole, HistoryOk
<1>2. ASSUME NEW p, DOMAIN p = HistoryFields, p.gen = history.gen, p.account = history.account, p.remote = history.remote
      PROVE  HistoryWhole(p, heard, recent)
  BY <1>2, HistoryWhole(history, heard, recent) DEF HistoryWhole, HistoryOk, HistoryOwned
<1>3. CASE Lately!Ready
  <2>1. PICK p : p = [history EXCEPT !.ready = TRUE]
    OBVIOUS
  <2>2. /\ DOMAIN p = HistoryFields /\ p.gen = history.gen /\ p.account = history.account
        /\ p.remote = history.remote
    BY ONLY <1>1, <2>1 DEF HistoryFields
  <2>3. /\ Lately!Refresh(p) \/ (history' = p /\ heard' = heard)
        /\ recent' = recent /\ instant' = instant
    BY <1>3, <2>1 DEF Lately!Ready
  <2> QED
    BY <1>2, <2>2, <2>3, HistoryRefreshOwns DEF HistoryWhole
<1>4. CASE Lately!PressRefresh
  BY <1>4, HistoryRefreshOwns DEF Lately!PressRefresh
<1>5. ASSUME NEW account, Lately!SetAccount(account)
      PROVE  HistoryOwned(history', heard', recent') /\ instant' \in Int
  <2>1. PICK g, none : g = history.gen + 1 /\ none = <<>>
    OBVIOUS
  <2>2. PICK p : p = [history EXCEPT !.account = account, !.gen = g, !.remote = none, !.loading = FALSE]
    OBVIOUS
  <2>3. DOMAIN p = HistoryFields /\ p.gen = g /\ p.account = account /\ p.remote = none
    BY ONLY <1>1, <2>2 DEF HistoryFields
  <2>4. none \in Seq(RemoteRows(account))
    BY <2>1
  <2>5. g \in Nat /\ \A c \in heard : c.gen <= g /\ c.gen # g
    BY <1>1, <2>1
  <2>6. HistoryWhole(p, heard, recent)
    <3>1. HistoryOk(p, heard)
      BY <2>3, <2>5, HistoryWhole(history, heard, recent) DEF HistoryWhole, HistoryOk
    <3>2. HistoryOwned(p, heard, recent)
      BY <1>1, <2>3, <2>4, <2>5 DEF HistoryOwned
    <3> QED
      BY <3>1, <3>2 DEF HistoryWhole
  <2>7. /\ Lately!Refresh(p) \/ (history' = p /\ heard' = heard)
        /\ recent' = recent /\ instant' = instant
    BY <1>5, <2>1, <2>2 DEF Lately!SetAccount
  <2> QED
    BY <2>6, <2>7, HistoryRefreshOwns DEF HistoryWhole
<1>6. ASSUME NEW active, Lately!SetActive(active)
      PROVE  HistoryOwned(history', heard', recent') /\ instant' \in Int
  <2>1. PICK g : g = history.gen + 1
    OBVIOUS
  <2>2. PICK p, q : /\ p = [history EXCEPT !.active = TRUE]
                    /\ q = [history EXCEPT !.active = FALSE, !.gen = g, !.loading = FALSE]
    OBVIOUS
  <2>3. /\ DOMAIN p = HistoryFields /\ p.gen = history.gen /\ p.account = history.account
        /\ p.remote = history.remote
    BY ONLY <1>1, <2>2 DEF HistoryFields
  <2>4. q.gen = g /\ q.account = history.account /\ q.remote = history.remote
    BY ONLY <1>1, <2>2 DEF HistoryFields
  <2>5. \A c \in heard : c.gen # g
    BY <1>1, <2>1
  <2>6. HistoryOwned(q, heard, recent)
    BY <1>1, <2>4, <2>5 DEF HistoryOwned
  <2>7. /\ Lately!Refresh(p) \/ (history' = q /\ heard' = heard)
        /\ recent' = recent /\ instant' = instant
    BY <1>6, <2>1, <2>2 DEF Lately!SetActive
  <2> QED
    BY <1>2, <2>3, <2>6, <2>7, HistoryRefreshOwns
<1>7. ASSUME NEW scope, Lately!SetScope(scope)
      PROVE  HistoryOwned(history', heard', recent') /\ instant' \in Int
  <2>1. /\ history' = [history EXCEPT !.scope = scope]
        /\ heard' = heard /\ recent' = recent /\ instant' = instant
    BY <1>7 DEF Lately!SetScope
  <2>2. /\ history'.gen = history.gen /\ history'.account = history.account
        /\ history'.remote = history.remote
    BY ONLY <1>1, <2>1 DEF HistoryFields
  <2> QED
    BY <1>1, <2>1, <2>2 DEF HistoryOwned
<1>8. ASSUME NEW x, x \in Played, Lately!Started(x)
      PROVE  HistoryOwned(history', heard', recent') /\ instant' \in Int
  <2>1. PICK n : n = instant + 1 /\ n \in Int
    OBVIOUS
  <2>2. PICK e : e = Lately!Entry(x, n, Nobody)
    OBVIOUS
  <2>3. PICK rest, rows : rest = Lately!Without(recent, x) /\ rows = <<e>> \o rest
    OBVIOUS
  <2>4. /\ history' = history /\ heard' = heard /\ instant' = n
        /\ recent' = Lately!First(rows, Kept)
    BY <1>8, <2>1, <2>2, <2>3 DEF Lately!Started
  <2>5. e \in LocalRows
    BY <1>8, <2>1, <2>2 DEF LocalRows, Lately!Entry
  <2>6. recent \in Seq(LocalRows)
    BY <1>1 DEF HistoryOwned
  <2>7. rest \in Seq(LocalRows) /\ <<e>> \in Seq(LocalRows)
    BY <2>3, <2>5, <2>6, WithoutKeeps
  <2>8. rows \in Seq(LocalRows)
    BY <2>3, <2>7, ConcatProperties
  <2>9. recent' \in Seq(LocalRows)
    BY <2>4, <2>8, FirstIs, HistoryAssumption
  <2> QED
    BY <1>1, <2>1, <2>4, <2>9 DEF HistoryOwned
<1>9. ASSUME NEW c, c \in heard, Lately!HearHistory(c)
      PROVE  HistoryOwned(history', heard', recent') /\ instant' \in Int
  <2>1. heard' = heard \ {c} /\ recent' = recent /\ instant' = instant
    BY <1>9 DEF Lately!HearHistory
  <2>2. ASSUME NEW q, NEW rows, DOMAIN q = HistoryFields, q.gen = history.gen, q.account = history.account,
               q.remote = rows, rows \in Seq(RemoteRows(history.account)), history' = q
        PROVE  HistoryOwned(history', heard', recent')
    BY <1>1, <2>1, <2>2 DEF HistoryOwned
  <2>3. CASE history' = history
    BY <1>1, <2>1, <2>3 DEF HistoryOwned
  <2>4. CASE history' = [history EXCEPT !.loading = FALSE]
    <3>1. PICK q : q = history' /\ q = [history EXCEPT !.loading = FALSE]
      BY <2>4
    <3>2. /\ DOMAIN q = HistoryFields /\ q.gen = history.gen /\ q.account = history.account
          /\ q.remote = history.remote
      BY ONLY <1>1, <3>1 DEF HistoryFields
    <3> QED
      BY <1>1, <2>1, <2>2, <3>1, <3>2 DEF HistoryOwned
  <2>5. ASSUME c.gen = history.gen, NEW rows, rows \in Remote,
               history' = [history EXCEPT !.loading = FALSE,
                             !.remote = [i \in DOMAIN rows |-> Lately!Entry(rows[i].song, rows[i].at, c.of)]]
        PROVE  HistoryOwned(history', heard', recent')
    <3>1. PICK list : list = [i \in DOMAIN rows |-> Lately!Entry(rows[i].song, rows[i].at, c.of)]
      OBVIOUS
    <3>2. PICK q : q = history' /\ q = [history EXCEPT !.loading = FALSE, !.remote = list]
      BY <2>5, <3>1
    <3>3. /\ DOMAIN q = HistoryFields /\ q.gen = history.gen /\ q.account = history.account
          /\ q.remote = list
      BY ONLY <1>1, <3>2 DEF HistoryFields
    <3>4. /\ rows \in Seq({rows[i] : i \in DOMAIN rows})
          /\ \A i \in DOMAIN rows : rows[i].at \in Int /\ rows[i].song \in RemoteSongs
      <4>1. rows \in Seq({rows[i] : i \in DOMAIN rows}) /\ \A i \in DOMAIN rows : rows[i].at \in Int
        BY <2>5, HistoryAssumption
      <4>2. PICK S : S = {rows[i].song : i \in DOMAIN rows}
        OBVIOUS
      <4>3. S \in {{known[i].song : i \in DOMAIN known} : known \in Remote}
        BY <2>5, <4>2
      <4>4. S \subseteq RemoteSongs
        BY <4>3 DEF RemoteSongs
      <4> QED
        BY <4>1, <4>2, <4>4
    <3>5. c.of = history.account
      BY <1>1, <1>9, <2>5 DEF HistoryOwned
    <3>6. DOMAIN rows = 1..Len(rows) /\ Len(rows) \in Nat
      BY <3>4
    <3>7. \A i \in DOMAIN rows : Lately!Entry(rows[i].song, rows[i].at, c.of) \in RemoteRows(history.account)
      BY <3>4, <3>5 DEF RemoteRows, Lately!Entry
    <3>8. list \in [1..Len(rows) -> RemoteRows(history.account)]
      BY <3>1, <3>6, <3>7
    <3>9. list \in Seq(RemoteRows(history.account))
      BY <3>6, <3>8, SeqDef
    <3> QED
      BY <2>2, <3>2, <3>3, <3>9
  <2> QED
    BY <1>9, <2>1, <2>3, <2>4, <2>5 DEF Lately!HearHistory, Lately!Own
<1>10. CASE UNCHANGED historyVars
  BY <1>1, <1>10 DEF historyVars
<1> QED
  BY <1>3, <1>4, <1>5, <1>6, <1>7, <1>8, <1>9, <1>10 DEF Lately!HistoryNext

LEMMA HistoryOwnBegins == ASSUME Lately!HistoryInit PROVE HistoryOwned(history, heard, recent) /\ instant \in Int
<1>1. /\ history.remote = <<>> /\ heard = {} /\ instant = 1
      /\ recent = <<>> \/ \E x \in Played : recent = <<Lately!Entry(x, 1, Nobody)>>
  BY DEF Lately!HistoryInit
<1>2. recent \in Seq(LocalRows)
  <2>1. \A x \in Played : Lately!Entry(x, 1, Nobody) \in LocalRows
    BY DEF LocalRows, Lately!Entry
  <2>2. CASE recent = <<>>
    BY <2>2
  <2>3. ASSUME NEW x \in Played, recent = <<Lately!Entry(x, 1, Nobody)>>
        PROVE  recent \in Seq(LocalRows)
    <3>1. PICK e : e = Lately!Entry(x, 1, Nobody) /\ e \in LocalRows
      BY <2>1
    <3> QED
      BY <2>3, <3>1
  <2> QED
    BY <1>1, <2>2, <2>3
<1> QED
  BY <1>1, <1>2 DEF HistoryOwned

-----------------------------------------------------------------------------
(* Whose it is: the favourites                                               *)

FavFields == {"account", "generation", "load", "confirmed", "fileIds", "pages", "loading", "complete",
              "mutating", "reload", "total", "outbox", "liked"}
SendFields == {"kind", "account", "generation", "load", "page", "song", "rev", "result", "rows", "total"}
WorldFields == {"f", "d", "n", "w"}
ToldFields == {"seen", "wish", "wishes", "loads", "switches", "trouble"}

Listed(list) == {list[i] : i \in DOMAIN list}

\* The program's copy of a list, and a request for it or to change it, belong
\* to one account; what was answered was seen in that account's list.
FavPage(f) == /\ DOMAIN f = FavFields /\ f.account \in Accounts \cup {Nobody}
              /\ f.load \in Nat /\ f.generation \in Nat
FavSend(m) == /\ DOMAIN m = SendFields /\ m.account \in Accounts /\ m.page \in Int
              /\ m.load \in Nat /\ m.generation \in Nat /\ m.kind \in {"page", "add", "remove"}
FavLists(c, seen) == /\ DOMAIN c = Accounts /\ DOMAIN seen = Accounts
                     /\ \A x \in Accounts : /\ seen[x] \in Seq(Listed(seen[x]))
                                            /\ c[x] \in Seq(Listed(seen[x]))
SeenIn(m, seen) == /\ \A i \in DOMAIN m.rows : m.rows[i].hash \in Listed(seen[m.account]) \cup {NoHash}
                   /\ m.kind = "add" /\ m.result = "ok" => m.song \in Listed(seen[m.account])
SendOwned(m, f) == /\ m.load <= f.load /\ m.generation <= f.generation
                   /\ m.load = f.load => m.account = f.account
                   /\ m.generation = f.generation => m.account = f.account
OwnSends(f, n, seen) == \A m \in n : FavSend(m) /\ SeenIn(m, seen) /\ SendOwned(m, f)
OwnLikes(f, seen) == f.account \in Accounts => f.confirmed \subseteq Listed(seen[f.account])
FavOwned(f, c, n, seen) == FavPage(f) /\ FavLists(c, seen) /\ OwnSends(f, n, seen) /\ OwnLikes(f, seen)

\* A page of the same load of the same account.
LEMMA FavOwnSame ==
  ASSUME NEW f, NEW c, NEW n, NEW seen, FavOwned(f, c, n, seen), NEW g, DOMAIN g = FavFields,
         g.account = f.account, g.load = f.load, g.generation = f.generation,
         OwnLikes(g, seen)
  PROVE  FavOwned(g, c, n, seen)
BY DEF FavOwned, FavPage, OwnSends, SendOwned

LEMMA FavOwnFewer ==
  ASSUME NEW f, NEW c, NEW n, NEW seen, FavOwned(f, c, n, seen), NEW m
  PROVE  FavOwned(f, c, n \ {m}, seen)
BY DEF FavOwned, OwnSends

\* What is sent now is of the account that is set.
LEMMA FavOwnSends ==
  ASSUME NEW f, NEW c, NEW n, NEW seen, FavOwned(f, c, n, seen), f.account # Nobody \/ f.account \in Accounts,
         NEW kind \in {"page", "add", "remove"}, NEW number \in Int, NEW song, NEW rev
  PROVE  FavOwned(f, c, n \cup {Favs!Send(kind, f, number, song, rev)}, seen)
<1>1. PICK m : m = [kind |-> kind, account |-> f.account, generation |-> f.generation, load |-> f.load,
                    page |-> number, song |-> song, rev |-> rev, result |-> "none", rows |-> <<>>, total |-> 0]
  OBVIOUS
<1>2. m = Favs!Send(kind, f, number, song, rev)
  BY <1>1 DEF Favs!Send
<1>3. /\ f.account \in Accounts \cup {Nobody} /\ f.load \in Nat /\ f.generation \in Nat
  BY DEF FavOwned, FavPage
<1>4. /\ DOMAIN m = SendFields /\ m.kind = kind /\ m.account = f.account /\ m.load = f.load /\ m.generation = f.generation
      /\ m.page = number /\ m.result = "none" /\ m.rows = <<>>
  BY ONLY <1>1 DEF SendFields
<1>5. FavSend(m)
  BY <1>3, <1>4 DEF FavSend
<1>6. SeenIn(m, seen) /\ SendOwned(m, f)
  BY <1>3, <1>4 DEF SeenIn, SendOwned
<1>7. OwnSends(f, n \cup {m}, seen)
  BY <1>5, <1>6 DEF FavOwned, OwnSends
<1> QED
  BY <1>2, <1>7 DEF FavOwned

\* retry() begins a load of the same account.
LEMMA FavOwnRetried ==
  ASSUME NEW x, DOMAIN x = WorldFields, NEW c, NEW seen, FavOwned(x.f, c, x.n, seen)
  PROVE  LET y == Favs!Retry(x) IN DOMAIN y = WorldFields /\ FavOwned(y.f, c, y.n, seen)
<1>1. CASE x.f.account = Nobody \/ ~x.f.liked
  BY <1>1 DEF Favs!Retry
<1>2. CASE ~(x.f.account = Nobody \/ ~x.f.liked) /\ x.f.mutating
  <2>1. PICK f : f = [x.f EXCEPT !.reload = TRUE]
    OBVIOUS
  <2>2. PICK y : y = [x EXCEPT !.f = f]
    OBVIOUS
  <2>3. Favs!Retry(x) = y
    BY <1>2, <2>1, <2>2 DEF Favs!Retry
  <2>4. DOMAIN x.f = FavFields /\ OwnLikes(x.f, seen)
    BY DEF FavOwned, FavPage
  <2>5. DOMAIN f = FavFields /\ f.account = x.f.account /\ f.load = x.f.load
        /\ f.generation = x.f.generation /\ f.confirmed = x.f.confirmed
    BY ONLY <2>1, <2>4 DEF FavFields
  <2>6. DOMAIN y = WorldFields /\ y.f = f /\ y.n = x.n
    BY ONLY DOMAIN x = WorldFields, <2>2 DEF WorldFields
  <2>7. FavOwned(f, c, x.n, seen)
    BY <2>4, <2>5, FavOwnSame DEF OwnLikes
  <2> QED
    BY <2>3, <2>6, <2>7
<1>3. CASE ~(x.f.account = Nobody \/ ~x.f.liked) /\ ~x.f.mutating
  <2>1. PICK f : f = [x.f EXCEPT !.reload = FALSE, !.load = @ + 1, !.pages = {}, !.total = 0,
                            !.loading = TRUE, !.complete = FALSE]
    OBVIOUS
  <2>2. PICK n : n = x.n \cup {Favs!Send("page", f, 1, NoHash, 0)}
    OBVIOUS
  <2>3. PICK y : y = [x EXCEPT !.f = f, !.n = n]
    OBVIOUS
  <2>4. Favs!Retry(x) = y
    BY <1>3, <2>1, <2>2, <2>3 DEF Favs!Retry
  <2>5. DOMAIN x.f = FavFields /\ OwnLikes(x.f, seen) /\ x.f.load \in Nat /\ x.f.generation \in Nat
    BY DEF FavOwned, FavPage
  <2>6. DOMAIN f = FavFields /\ f.account = x.f.account /\ f.load = x.f.load + 1
        /\ f.generation = x.f.generation /\ f.confirmed = x.f.confirmed
    BY ONLY <2>1, <2>5 DEF FavFields
  <2>7. DOMAIN y = WorldFields /\ y.f = f /\ y.n = n
    BY ONLY DOMAIN x = WorldFields, <2>3 DEF WorldFields
  <2>8. FavOwned(f, c, x.n, seen)
    <3>1. FavPage(f) /\ OwnLikes(f, seen)
      BY <2>5, <2>6 DEF FavPage, OwnLikes, FavOwned
    <3>2. ASSUME NEW m \in x.n PROVE FavSend(m) /\ SeenIn(m, seen) /\ SendOwned(m, f)
      <4>1. FavSend(m) /\ SeenIn(m, seen) /\ SendOwned(m, x.f)
        BY <3>2 DEF FavOwned, OwnSends
      <4> QED
        BY <4>1, <2>5, <2>6 DEF SendOwned, FavSend
    <3> QED
      BY <3>1, <3>2 DEF FavOwned, OwnSends
  <2>9. FavOwned(f, c, n, seen)
    BY <1>3, <2>2, <2>6, <2>8, FavOwnSends
  <2> QED
    BY <2>4, <2>7, <2>9
<1> QED
  BY <1>1, <1>2, <1>3

\* flushNext() sends what the account that is set has in its outbox.
LEMMA FavOwnFlushed ==
  ASSUME NEW x, DOMAIN x = WorldFields, NEW c, NEW seen, FavOwned(x.f, c, x.n, seen)
  PROVE  LET y == Favs!FlushNext(x) IN DOMAIN y = WorldFields /\ FavOwned(y.f, c, y.n, seen)
<1>1. CASE x.f.mutating \/ ~x.f.complete \/ x.f.account = Nobody \/ x.f.outbox = <<>>
  BY <1>1 DEF Favs!FlushNext
<1>2. CASE ~(x.f.mutating \/ ~x.f.complete \/ x.f.account = Nobody \/ x.f.outbox = <<>>)
  <2> DEFINE due  == {i \in DOMAIN x.f.outbox : ~Favs!Holds(x.f, x.f.outbox[i])}
             some == IF due = {} THEN <<>> ELSE SubSeq(x.f.outbox, Favs!Min(due), Len(x.f.outbox))
             gone == {x.f.outbox[i].song : i \in 1..Len(x.f.outbox) - Len(some)}
             left == [x.f EXCEPT !.outbox = some]
             wish == [x.w EXCEPT ![left.account] =
                        [s \in FavoriteSongs |-> IF s \in gone THEN "none" ELSE @[s]]]
             kept == [x EXCEPT !.f = left, !.d = Favs!Saved(@, left), !.w = wish]
             sent == Favs!Send(IF some[1].desired THEN "add" ELSE "remove", left, 0, some[1].song, some[1].rev)
             done == [kept EXCEPT !.f = [left EXCEPT !.mutating = TRUE], !.n = @ \cup {sent}]
  <2>1. Favs!FlushNext(x) = kept \/ Favs!FlushNext(x) = done
    BY <1>2, Zenon DEF Favs!FlushNext
  <2>2. PICK rest : rest = some
    OBVIOUS
  <2>3. PICK f : f = [x.f EXCEPT !.outbox = rest]
    OBVIOUS
  <2>4. PICK d, w : d = Favs!Saved(x.d, f) /\ w = wish
    OBVIOUS
  <2>5. PICK y : y = [x EXCEPT !.f = f, !.d = d, !.w = w]
    OBVIOUS
  <2>6. PICK g, m : g = [f EXCEPT !.mutating = TRUE]
                    /\ m = Favs!Send(IF rest[1].desired THEN "add" ELSE "remove", f, 0, rest[1].song, rest[1].rev)
    OBVIOUS
  <2>7. PICK z : z = [y EXCEPT !.f = g, !.n = @ \cup {m}]
    OBVIOUS
  <2>8. Favs!FlushNext(x) = y \/ Favs!FlushNext(x) = z
    <3>1. left = f
      BY ONLY <2>2, <2>3
    <3>2. kept = [x EXCEPT !.f = left, !.d = Favs!Saved(x.d, left), !.w = wish]
      OBVIOUS
    <3> HIDE DEF left, wish, some
    <3>3. kept = y
      BY <2>4, <2>5, <3>1, <3>2
    <3>4. sent = m
      BY <2>2, <2>6, <3>1
    <3> HIDE DEF kept, sent
    <3>5. done = z
      BY <2>6, <2>7, <3>1, <3>3, <3>4
    <3> QED
      BY <2>1, <3>3, <3>5
  <2>9. DOMAIN x.f = FavFields /\ OwnLikes(x.f, seen) /\ x.f.account # Nobody
    BY <1>2 DEF FavOwned, FavPage
  <2>10. DOMAIN f = FavFields /\ f.account = x.f.account /\ f.load = x.f.load
        /\ f.generation = x.f.generation /\ f.confirmed = x.f.confirmed
    BY ONLY <2>3, <2>9 DEF FavFields
  <2>11. DOMAIN g = FavFields /\ g.account = x.f.account /\ g.load = x.f.load
        /\ g.generation = x.f.generation /\ g.confirmed = x.f.confirmed
    BY ONLY <2>6, <2>10 DEF FavFields
  <2>12. DOMAIN y = WorldFields /\ y.f = f /\ y.n = x.n
    BY ONLY DOMAIN x = WorldFields, <2>5 DEF WorldFields
  <2>13. DOMAIN z = WorldFields /\ z.f = g /\ z.n = x.n \cup {m}
    BY ONLY <2>7, <2>12 DEF WorldFields
  <2>14. FavOwned(f, c, x.n, seen)
    BY <2>9, <2>10, FavOwnSame DEF OwnLikes
  <2>15. FavOwned(f, c, x.n \cup {m}, seen)
    BY <2>6, <2>9, <2>10, <2>14, FavOwnSends
  <2>16. FavOwned(g, c, x.n \cup {m}, seen)
    BY <2>9, <2>10, <2>11, <2>15, FavOwnSame DEF OwnLikes
  <2> QED
    BY <2>8, <2>12, <2>13, <2>14, <2>16
<1> QED
  BY <1>1, <1>2

LEMMA FavsMaxOf ==
  ASSUME NEW a \in Int, NEW b \in Int, NEW S, S = {a, b}
  PROVE  /\ Favs!Max(S) \in Int /\ Favs!Max(S) >= a /\ Favs!Max(S) >= b
         /\ Favs!Min(S) \in Int /\ Favs!Min(S) <= a /\ Favs!Min(S) <= b
<1>1. (\E x \in S : \A y \in S : x >= y) /\ (\E x \in S : \A y \in S : x <= y)
  OBVIOUS
<1>2. Favs!Max(S) \in S /\ \A y \in S : Favs!Max(S) >= y
  BY <1>1 DEF Favs!Max
<1>3. Favs!Min(S) \in S /\ \A y \in S : Favs!Min(S) <= y
  BY <1>1 DEF Favs!Min
<1> QED
  BY <1>2, <1>3

\* The rows of a page are of the list.
LEMMA PageIsOfList ==
  ASSUME NEW V, NEW list, list \in Seq(V), NEW number \in Int, NEW exchange, NEW counted
  PROVE  LET rows == Favs!GetTracks(list, number, exchange, counted).rows
         IN  \A i \in DOMAIN rows : rows[i].hash \in V
<1>1. PICK k : k = Favs!Clamp(number, 1, 1000)
  OBVIOUS
<1>2. PICK j : j = Favs!Clamp(FavoritePage, 1, 200)
  OBVIOUS
<1>3. \A x \in Int, hi \in Int : hi >= 1 => Favs!Clamp(x, 1, hi) \in Int /\ Favs!Clamp(x, 1, hi) >= 1
  <2> SUFFICES ASSUME NEW x \in Int, NEW hi \in Int, hi >= 1
               PROVE  Favs!Clamp(x, 1, hi) \in Int /\ Favs!Clamp(x, 1, hi) >= 1
    OBVIOUS
<2>1. PICK one \in Int : one = 1
    OBVIOUS
  <2>6. PICK S : S = {x, hi}
    OBVIOUS
  <2>2. PICK y, T : y = Favs!Min(S) /\ T = {one, y}
    OBVIOUS
  <2>3. y \in Int
    BY <2>2, <2>6, FavsMaxOf
  <2>4. Favs!Max(T) \in Int /\ Favs!Max(T) >= one
    BY <2>2, <2>3, FavsMaxOf
  <2>5. Favs!Clamp(x, 1, hi) = Favs!Max(T)
    BY <2>1, <2>2, <2>6, Zenon DEF Favs!Clamp
  <2> QED
    BY <2>1, <2>4, <2>5
<1>4. k \in Int /\ k >= 1 /\ j \in Int /\ j >= 1
  BY <1>1, <1>2, <1>3, FavoritesAssumption
<1>5. PICK begin : begin = (k - 1) * j
  OBVIOUS
<1>6. begin = Favs!BeginIdx(number)
  BY <1>1, <1>2, <1>5 DEF Favs!BeginIdx
<1>7. begin \in Nat
  <2>1. k - 1 \in Nat /\ j \in Nat
    BY <1>4
  <2>2. \A p, q \in Nat : p * q \in Nat
    OBVIOUS
  <2> QED
    BY ONLY <1>5, <2>1, <2>2
<1>8. PICK ends, last : ends = {begin + FavoritePage, Len(list)} /\ last = Favs!Min(ends)
  OBVIOUS
<1>9. last \in Int /\ last <= Len(list)
  <2>1. begin + FavoritePage \in Int /\ Len(list) \in Int
    BY <1>7, FavoritesAssumption
  <2> QED
    BY <1>8, <2>1, FavsMaxOf
<1>10. PICK rows : rows = SubSeq(list, begin + 1, last)
  OBVIOUS
<1>11. rows = Favs!Rows(list, number)
  BY <1>6, <1>8, <1>10 DEF Favs!Rows
<1>12. \A i \in DOMAIN rows : rows[i] \in V
  <2>1. \A i \in 1..Len(list) : list[i] \in V
    OBVIOUS
  <2> QED
    BY <1>7, <1>9, <1>10, <2>1
<1>13. PICK answer : answer = Favs!GetTracks(list, number, exchange, counted)
  OBVIOUS
<1>14. CASE Favs!Readable(exchange)
  <2>1. answer.rows = [i \in DOMAIN rows |-> [hash |-> rows[i], fileId |-> AudioId[rows[i]]]]
    BY <1>11, <1>13, <1>14 DEF Favs!GetTracks, Favs!BuildTracksFromUpstream, Favs!NormalizeTrack
  <2> QED
    BY <1>12, <1>13, <2>1
<1>15. CASE ~Favs!Readable(exchange)
  <2>1. answer.rows = <<>>
    BY <1>13, <1>15 DEF Favs!GetTracks, Favs!ErrorTracks
  <2> QED
    BY <1>13, <2>1
<1> QED
  BY <1>14, <1>15

LEMMA FavsMax ==
  ASSUME NEW S \in SUBSET Nat, S # {}, NEW bound \in Nat, \A n \in S : n <= bound
  PROVE  Favs!Max(S) \in S
<1>1. \E n \in S : \A m \in S : m <= n
  BY GreatestMember
<1> QED
  BY <1>1 DEF Favs!Max

\* What a deletion leaves of a list is of the list.
LEMMA DeletedKeeps ==
  ASSUME NEW V, NEW list, list \in Seq(V), NEW id
  PROVE  Favs!DeletePlaylistTracks(list, id) \in Seq(V)
<1> DEFINE D == DOMAIN list
           choice == [s \in SUBSET D |-> Favs!Max(s)]
           drop == {i \in D : Favs!NormalizeTrack(list[i]).fileId = id}
           P(it) == it = [s \in SUBSET D |->
                      IF s = {} THEN <<>>
                      ELSE IF Favs!NormalizeTrack(list[Favs!Max(s)]).fileId = id THEN it[s \ {Favs!Max(s)}]
                      ELSE Append(it[s \ {Favs!Max(s)}], list[Favs!Max(s)])]
<1>1. Favs!DeletePlaylistTracks(list, id) = (CHOOSE it : P(it))[D]
  BY Zenon DEF Favs!DeletePlaylistTracks, Favs!FoldLeft, Favs!MapThenFoldSet
<1>2. D = 1..Len(list) /\ Len(list) \in Nat
  OBVIOUS
<1>3. \A s \in SUBSET D : s # {} => choice[s] = Favs!Max(s) /\ choice[s] \in s
  <2> SUFFICES ASSUME NEW s \in SUBSET D, s # {} PROVE Favs!Max(s) \in s
    OBVIOUS
  <2>1. s \in SUBSET Nat /\ \A n \in s : n <= Len(list)
    BY <1>2
  <2> QED
    BY <1>2, <2>1, FavsMax
<1>4. ASSUME NEW it PROVE P(it) <=> FilterOf(it, list, choice, drop)
  <2>1. \A s \in SUBSET D :
          (IF s = {} THEN <<>>
           ELSE IF Favs!NormalizeTrack(list[Favs!Max(s)]).fileId = id THEN it[s \ {Favs!Max(s)}]
           ELSE Append(it[s \ {Favs!Max(s)}], list[Favs!Max(s)]))
          = (IF s = {} THEN <<>>
             ELSE IF choice[s] \in drop THEN it[s \ {choice[s]}]
             ELSE Append(it[s \ {choice[s]}], list[choice[s]]))
    <3> SUFFICES ASSUME NEW s \in SUBSET D, s # {}
                 PROVE  choice[s] = Favs!Max(s)
                        /\ (choice[s] \in drop <=> Favs!NormalizeTrack(list[Favs!Max(s)]).fileId = id)
      OBVIOUS
    <3> HIDE DEF choice
    <3> QED
      BY <1>3
  <2> HIDE DEF choice, drop
  <2> QED
    BY <2>1 DEF FilterOf
<1> HIDE DEF choice, drop, P
<1>5. (\E it : P(it)) /\ \A it : P(it) => it[D] \in Seq(V)
  BY <1>3, <1>4, FilterKeeps
<1>6. P(CHOOSE it : P(it))
  BY <1>5
<1> QED
  BY <1>1, <1>5, <1>6

FavTold(f, c, n, t) == FavOwned(f, c, n, t.seen) /\ DOMAIN t = ToldFields

\* What a step of the controller comes to.
LEMMA FavOwnBecomes ==
  ASSUME FavTold(fav, cloud, net, told), NEW y, FavOwned(y.f, cloud, y.n, told.seen), Favs!Become(y),
         UNCHANGED cloud, DOMAIN told' = ToldFields, told'.seen = told.seen
  PROVE  FavTold(fav', cloud', net', told')
BY DEF FavTold, Favs!Become

LEMMA WorldIs ==
  ASSUME NEW f, NEW d, NEW n
  PROVE  LET x == Favs!World(f, d, n) IN DOMAIN x = WorldFields /\ x.f = f /\ x.n = n
<1>1. PICK w, x : w = told.wish /\ x = [f |-> f, d |-> d, n |-> n, w |-> w]
  OBVIOUS
<1>2. x = Favs!World(f, d, n)
  BY <1>1 DEF Favs!World
<1>3. DOMAIN x = WorldFields /\ x.f = f /\ x.n = n
  BY ONLY <1>1 DEF WorldFields
<1> QED
  BY <1>2, <1>3

LEMMA FavOwnAccount ==
  ASSUME FavTold(fav, cloud, net, told), NEW a, a \in Accounts \cup {Nobody}, Favs!setAccount(a)
  PROVE  FavTold(fav', cloud', net', told')
<1>1. PICK box : box = IF a = Nobody THEN <<>> ELSE disk.outbox[a]
  OBVIOUS
<1>2. PICK gen, load : gen = fav.generation + 1 /\ load = fav.load + 1
  OBVIOUS
<1>3. PICK fresh : fresh = [account |-> Nobody, generation |-> 0, load |-> 0, confirmed |-> {}, fileIds |-> {},
          pages |-> {}, loading |-> FALSE, complete |-> FALSE, mutating |-> FALSE,
          reload |-> FALSE, total |-> 0, outbox |-> <<>>, liked |-> FALSE]
  OBVIOUS
<1>4. PICK g : g = [fresh EXCEPT !.account = a, !.generation = gen, !.load = load, !.outbox = box]
  OBVIOUS
<1>5. PICK k, t : k = told.switches + 1 /\ t = [told EXCEPT !.switches = k]
  OBVIOUS
<1>6. fav' = g /\ told' = t /\ cloud' = cloud /\ net' = net
  BY <1>1, <1>2, <1>3, <1>4, <1>5 DEF Favs!setAccount, Favs!Fresh
<1>7. DOMAIN fresh = FavFields /\ fresh.confirmed = {}
  BY ONLY <1>3 DEF FavFields
<1>8. DOMAIN g = FavFields /\ g.account = a /\ g.generation = gen /\ g.load = load /\ g.confirmed = {}
  BY ONLY <1>4, <1>7 DEF FavFields
<1>9. DOMAIN told = ToldFields /\ fav.generation \in Nat /\ fav.load \in Nat
  BY DEF FavTold, FavOwned, FavPage
<1>10. DOMAIN t = ToldFields /\ t.seen = told.seen
  BY ONLY <1>5, <1>9 DEF ToldFields
<1>11. FavPage(g) /\ OwnLikes(g, told.seen)
  BY <1>2, <1>8, <1>9 DEF FavPage, OwnLikes
<1>12. ASSUME NEW m \in net PROVE FavSend(m) /\ SeenIn(m, told.seen) /\ SendOwned(m, g)
  <2>1. FavSend(m) /\ SeenIn(m, told.seen) /\ SendOwned(m, fav)
    BY <1>12 DEF FavTold, FavOwned, OwnSends
  <2> QED
    BY <1>2, <1>8, <1>9, <2>1 DEF SendOwned, FavSend
<1>13. FavOwned(g, cloud, net, told.seen)
  BY <1>11, <1>12 DEF FavTold, FavOwned, OwnSends
<1> QED
  BY <1>6, <1>10, <1>13 DEF FavTold

LEMMA FavOwnRestart ==
  ASSUME FavTold(fav, cloud, net, told), Favs!Restart
  PROVE  FavTold(fav', cloud', net', told')
<1>1. PICK g : g = [account |-> Nobody, generation |-> 0, load |-> 0, confirmed |-> {}, fileIds |-> {},
          pages |-> {}, loading |-> FALSE, complete |-> FALSE, mutating |-> FALSE,
          reload |-> FALSE, total |-> 0, outbox |-> <<>>, liked |-> FALSE]
  OBVIOUS
<1>2. PICK k, t : k = told.switches + 1 /\ t = [told EXCEPT !.switches = k]
  OBVIOUS
<1>3. fav' = g /\ told' = t /\ cloud' = cloud /\ net' = {}
  BY <1>1, <1>2 DEF Favs!Restart, Favs!Fresh
<1>4. DOMAIN g = FavFields /\ g.account = Nobody /\ g.load = 0 /\ g.generation = 0 /\ g.confirmed = {}
  BY ONLY <1>1 DEF FavFields
<1>5. DOMAIN told = ToldFields /\ FavLists(cloud, told.seen)
  BY DEF FavTold, FavOwned
<1>6. DOMAIN t = ToldFields /\ t.seen = told.seen
  BY ONLY <1>2, <1>5 DEF ToldFields
<1>7. FavPage(g) /\ OwnLikes(g, told.seen) /\ OwnSends(g, {}, told.seen)
  BY <1>4 DEF FavPage, OwnLikes, OwnSends
<1> QED
  BY <1>3, <1>5, <1>6, <1>7 DEF FavTold, FavOwned

\* The account's lists arrive, or are asked for again.
LEMMA FavOwnLoads ==
  ASSUME FavTold(fav, cloud, net, told), Favs!setPlaylists \/ Favs!retry
  PROVE  FavTold(fav', cloud', net', told')
<1>1. PICK k, t : k = told.loads + 1 /\ t = [told EXCEPT !.loads = k]
  OBVIOUS
<1>2. PICK g : g = [fav EXCEPT !.liked = TRUE]
  OBVIOUS
<1>3. PICK x, y : x = Favs!World(fav, disk, net) /\ y = Favs!World(g, disk, net)
  OBVIOUS
<1>4. /\ told' = t /\ UNCHANGED cloud
      /\ Favs!Become(Favs!Retry(x)) \/ Favs!Become(Favs!Retry(y))
  BY <1>1, <1>2, <1>3 DEF Favs!setPlaylists, Favs!retry
<1>5. DOMAIN told = ToldFields /\ DOMAIN fav = FavFields /\ OwnLikes(fav, told.seen)
      /\ FavOwned(fav, cloud, net, told.seen)
  BY DEF FavTold, FavOwned, FavPage
<1>6. DOMAIN t = ToldFields /\ t.seen = told.seen
  BY ONLY <1>1, <1>5 DEF ToldFields
<1>7. DOMAIN g = FavFields /\ g.account = fav.account /\ g.load = fav.load
      /\ g.generation = fav.generation /\ g.confirmed = fav.confirmed
  BY ONLY <1>2, <1>5 DEF FavFields
<1>8. FavOwned(g, cloud, net, told.seen)
  BY <1>5, <1>7, FavOwnSame DEF OwnLikes
<1>9. DOMAIN x = WorldFields /\ x.f = fav /\ x.n = net /\ DOMAIN y = WorldFields /\ y.f = g /\ y.n = net
  BY <1>3, WorldIs
<1>10. PICK p, q : p = Favs!Retry(x) /\ q = Favs!Retry(y)
  OBVIOUS
<1>11. FavOwned(p.f, cloud, p.n, told.seen) /\ FavOwned(q.f, cloud, q.n, told.seen)
  BY <1>5, <1>8, <1>9, <1>10, FavOwnRetried
<1> QED
  BY <1>4, <1>6, <1>10, <1>11, FavOwnBecomes

\* A wish goes into the outbox, and the outbox on its way.
LEMMA FavOwnWished ==
  ASSUME FavTold(fav, cloud, net, told), NEW box, NEW d, NEW wish,
         NEW x, x = [Favs!World([fav EXCEPT !.outbox = box], d, net) EXCEPT !.w = wish]
  PROVE  LET y == Favs!FlushNext(x) IN FavOwned(y.f, cloud, y.n, told.seen)
<1>1. PICK f : f = [fav EXCEPT !.outbox = box]
  OBVIOUS
<1>2. PICK v : v = Favs!World(f, d, net)
  OBVIOUS
<1>3. x = [v EXCEPT !.w = wish]
  BY <1>1, <1>2
<1>4. DOMAIN v = WorldFields /\ v.f = f /\ v.n = net
  BY <1>2, WorldIs
<1>5. DOMAIN x = WorldFields /\ x.f = f /\ x.n = net
  BY ONLY <1>3, <1>4 DEF WorldFields
<1>6. DOMAIN fav = FavFields /\ OwnLikes(fav, told.seen) /\ FavOwned(fav, cloud, net, told.seen)
  BY DEF FavTold, FavOwned, FavPage
<1>7. DOMAIN f = FavFields /\ f.account = fav.account /\ f.load = fav.load
      /\ f.generation = fav.generation /\ f.confirmed = fav.confirmed
  BY ONLY <1>1, <1>6 DEF FavFields
<1>8. FavOwned(f, cloud, net, told.seen)
  BY <1>6, <1>7, FavOwnSame DEF OwnLikes
<1> QED
  BY <1>5, <1>8, FavOwnFlushed

LEMMA FavOwnWishes ==
  ASSUME FavTold(fav, cloud, net, told), Favs!syncLocal \/ \E s \in FavoriteSongs : Favs!toggle(s)
  PROVE  FavTold(fav', cloud', net', told')
<1>1. PICK k : k = told.wishes + 1
  OBVIOUS
<1>2. DOMAIN told = ToldFields
  BY DEF FavTold
<1>3. CASE fav' = fav /\ cloud' = cloud /\ net' = net /\ told' = [told EXCEPT !.wishes = @ + 1]
  <2>1. PICK t : t = [told EXCEPT !.wishes = k]
    OBVIOUS
  <2>2. DOMAIN t = ToldFields /\ t.seen = told.seen
    BY ONLY <1>2, <2>1 DEF ToldFields
  <2>3. told' = t
    BY <1>1, <1>3, <2>1
  <2> QED
    BY <1>3, <2>2, <2>3 DEF FavTold
<1>4. ASSUME NEW box, NEW d, NEW wish, NEW x,
             x = [Favs!World([fav EXCEPT !.outbox = box], d, net) EXCEPT !.w = wish],
             Favs!Become(Favs!FlushNext(x)), UNCHANGED cloud,
             told' = [told EXCEPT !.wishes = @ + 1, !.wish = Favs!FlushNext(x).w]
      PROVE  FavTold(fav', cloud', net', told')
  <2>1. PICK y, w : y = Favs!FlushNext(x) /\ w = y.w
    OBVIOUS
  <2>2. PICK t : t = [told EXCEPT !.wishes = k, !.wish = w]
    OBVIOUS
  <2>3. DOMAIN t = ToldFields /\ t.seen = told.seen
    BY ONLY <1>2, <2>2 DEF ToldFields
  <2>4. told' = t
    BY <1>1, <1>4, <2>1, <2>2
  <2>5. FavOwned(y.f, cloud, y.n, told.seen)
    BY <1>4, <2>1, FavOwnWished
  <2> QED
    BY <1>4, <2>1, <2>3, <2>4, <2>5, FavOwnBecomes
<1>5. CASE Favs!syncLocal
  <2> DEFINE s == CHOOSE s \in disk.local : ~Favs!IsFavorite(s)
             box == Append(fav.outbox, [song |-> s, desired |-> TRUE, rev |-> told.wishes + 1])
             f == [fav EXCEPT !.outbox = box]
             x == [Favs!World(f, Favs!Saved(disk, f), net) EXCEPT !.w = Favs!Wished(f, s, "liked")]
  <2>1. /\ Favs!Become(Favs!FlushNext(x)) /\ UNCHANGED cloud
        /\ told' = [told EXCEPT !.wishes = @ + 1, !.wish = Favs!FlushNext(x).w]
    BY <1>5, Zenon DEF Favs!syncLocal
  <2>2. PICK any, d, wish : any = box /\ d = Favs!Saved(disk, f) /\ wish = Favs!Wished(f, s, "liked")
    OBVIOUS
  <2>3. x = [Favs!World([fav EXCEPT !.outbox = any], d, net) EXCEPT !.w = wish]
    BY <2>2
  <2> HIDE DEF x
  <2> QED
    BY <1>4, <2>1, <2>3
<1>6. ASSUME NEW s \in FavoriteSongs, Favs!toggle(s) PROVE FavTold(fav', cloud', net', told')
  <2>1. CASE ~Favs!LoggedIn
    BY <1>3, <1>6, <2>1 DEF Favs!toggle
  <2>2. CASE Favs!LoggedIn
    <3> DEFINE desired == ~Favs!IsFavorite(s)
               box == Append(Favs!Without(fav.outbox, s), [song |-> s, desired |-> desired, rev |-> told.wishes + 1])
               f == [fav EXCEPT !.outbox = box]
               liking == IF desired THEN "liked" ELSE "unliked"
               x == [Favs!World(f, Favs!Saved(disk, f), net) EXCEPT !.w = Favs!Wished(f, s, liking)]
    <3>1. /\ Favs!Become(Favs!FlushNext(x)) /\ UNCHANGED cloud
          /\ told' = [told EXCEPT !.wishes = @ + 1, !.wish = Favs!FlushNext(x).w]
      BY <1>6, <2>2, Zenon DEF Favs!toggle
    <3>2. PICK any, d, wish : any = box /\ d = Favs!Saved(disk, f) /\ wish = Favs!Wished(f, s, liking)
      OBVIOUS
    <3>3. x = [Favs!World([fav EXCEPT !.outbox = any], d, net) EXCEPT !.w = wish]
      BY <3>2
    <3> HIDE DEF x
    <3> QED
      BY <1>4, <3>1, <3>3
  <2> QED
    BY <2>1, <2>2
<1> QED
  BY <1>5, <1>6

LEMMA FavOwnModifies ==
  ASSUME FavTold(fav, cloud, net, told), NEW s, NEW kind \in {"add", "remove"}, Favs!modifyPlaylist(s, kind)
  PROVE  FavTold(fav', cloud', net', told')
<1>1. PICK k, t : k = told.wishes + 1 /\ t = [told EXCEPT !.wishes = k]
  OBVIOUS
<1>2. PICK z \in Int : z = 0
  OBVIOUS
<1>3. /\ net' = net \cup {Favs!Send(kind, fav, z, s, z)} /\ told' = t /\ fav' = fav /\ cloud' = cloud
      /\ fav.account # Nobody
  BY <1>1, <1>2 DEF Favs!modifyPlaylist, Favs!LoggedIn
<1>4. DOMAIN told = ToldFields /\ FavOwned(fav, cloud, net, told.seen)
  BY DEF FavTold
<1>5. DOMAIN t = ToldFields /\ t.seen = told.seen
  BY ONLY <1>1, <1>4 DEF ToldFields
<1>6. FavOwned(fav, cloud, net', told.seen)
  BY <1>3, <1>4, FavOwnSends
<1> QED
  BY <1>3, <1>5, <1>6 DEF FavTold

LEMMA FavOwnModified ==
  ASSUME FavTold(fav, cloud, net, told), NEW m, m \in net, Favs!Modified(m)
  PROVE  FavTold(fav', cloud', net', told')
<1>1. PICK x : x = Favs!World(fav, disk, net \ {m})
  OBVIOUS
<1>2. PICK y : y = Favs!Retry(x)
  OBVIOUS
<1>3. (Favs!Become(x) \/ Favs!Become(y)) /\ UNCHANGED <<cloud, told>>
  BY <1>1, <1>2 DEF Favs!Modified
<1>4. FavOwned(fav, cloud, net \ {m}, told.seen) /\ DOMAIN told = ToldFields
  BY FavOwnFewer DEF FavTold
<1>5. DOMAIN x = WorldFields /\ x.f = fav /\ x.n = net \ {m}
  BY <1>1, WorldIs
<1>6. FavOwned(x.f, cloud, x.n, told.seen) /\ FavOwned(y.f, cloud, y.n, told.seen)
  BY <1>2, <1>4, <1>5, FavOwnRetried
<1> QED
  BY <1>3, <1>4, <1>6, FavOwnBecomes

\* The page that loads shows, with songs that were seen in the account's list.
LEMMA FavOwnShows ==
  ASSUME FavTold(fav, cloud, net, told), NEW m, NEW g, DOMAIN g = FavFields,
         g.account = fav.account, g.load = fav.load, g.generation = fav.generation,
         OwnLikes(g, told.seen), NEW d
  PROVE  LET x == Favs!World(g, d, net \ {m})
         IN  /\ DOMAIN x = WorldFields /\ x.f = g /\ x.n = net \ {m}
             /\ FavOwned(x.f, cloud, x.n, told.seen)
<1>1. FavOwned(fav, cloud, net \ {m}, told.seen)
  BY FavOwnFewer DEF FavTold
<1>2. FavOwned(g, cloud, net \ {m}, told.seen)
  BY <1>1, FavOwnSame
<1> QED
  BY <1>2, WorldIs

LEMMA FavOwnMutated ==
  ASSUME FavTold(fav, cloud, net, told), NEW m, m \in net, Favs!Mutated(m)
  PROVE  FavTold(fav', cloud', net', told')
<1>1. /\ DOMAIN fav = FavFields /\ OwnLikes(fav, told.seen) /\ DOMAIN told = ToldFields
      /\ FavSend(m) /\ SeenIn(m, told.seen) /\ SendOwned(m, fav)
  BY DEF FavTold, FavOwned, FavPage, OwnSends
<1>2. CASE ~Favs!OwnRequest(m)
  <2>1. PICK x : x = Favs!World(fav, disk, net \ {m})
    OBVIOUS
  <2>2. Favs!Become(x) /\ UNCHANGED <<cloud, told>>
    BY <1>2, <2>1 DEF Favs!Mutated
  <2>3. FavOwned(x.f, cloud, x.n, told.seen)
    BY <1>1, <2>1, FavOwnShows
  <2> QED
    BY <1>1, <2>2, <2>3, FavOwnBecomes
<1>3. CASE Favs!OwnRequest(m)
  <2> DEFINE liked == IF m.result # "ok" THEN fav.confirmed
                      ELSE IF m.kind = "add" THEN fav.confirmed \cup {m.song} ELSE fav.confirmed \ {m.song}
             ids == IF m.result = "ok" /\ m.kind = "remove" THEN fav.fileIds \ {m.song} ELSE fav.fileIds
             first == [fav EXCEPT !.mutating = FALSE, !.confirmed = liked, !.fileIds = ids]
             box == SelectSeq(first.outbox, LAMBDA o : o.rev # m.rev)
             then == [first EXCEPT !.outbox = box]
  <2>1. PICK p, q : p = liked /\ q = ids
    OBVIOUS
  <2>2. PICK f : f = [fav EXCEPT !.mutating = FALSE, !.confirmed = p, !.fileIds = q]
    OBVIOUS
  <2>3. first = f
    BY ONLY <2>1, <2>2
  <2>4. PICK any : any = box
    OBVIOUS
  <2>5. PICK g : g = [f EXCEPT !.outbox = any]
    OBVIOUS
  <2>6. PICK v, x : v = Favs!World(f, disk, net \ {m}) /\ x = Favs!World(g, Favs!Saved(disk, g), net \ {m})
    OBVIOUS
  <2>7. PICK y, z : y = Favs!Retry(x) /\ z = Favs!FlushNext(x)
    OBVIOUS
  <2>8. /\ UNCHANGED cloud
        /\ \/ Favs!Become(v) /\ UNCHANGED told
           \/ Favs!Become(y) /\ told' = [told EXCEPT !.wish = y.w]
           \/ Favs!Become(z) /\ told' = [told EXCEPT !.wish = z.w]
    <3>1. then = g
      BY ONLY <2>3, <2>4, <2>5
    <3>2. DOMAIN fav = FavFields
      BY <1>1
    <3>3. /\ UNCHANGED cloud
          /\ \/ Favs!Become(Favs!World(first, disk, net \ {m})) /\ UNCHANGED told
             \/ LET w == Favs!Retry(Favs!World(then, Favs!Saved(disk, then), net \ {m}))
                IN  Favs!Become(w) /\ told' = [told EXCEPT !.wish = w.w]
             \/ LET w == Favs!FlushNext(Favs!World(then, Favs!Saved(disk, then), net \ {m}))
                IN  Favs!Become(w) /\ told' = [told EXCEPT !.wish = w.w]
      BY <1>3, Zenon DEF Favs!Mutated
    <3> HIDE DEF first, then
    <3> QED
      BY <2>3, <2>6, <2>7, <3>1, <3>3
  <2>9. DOMAIN f = FavFields /\ f.account = fav.account /\ f.load = fav.load
        /\ f.generation = fav.generation /\ f.confirmed = p
    BY ONLY <1>1, <2>2 DEF FavFields
  <2>10. DOMAIN g = FavFields /\ g.account = fav.account /\ g.load = fav.load
        /\ g.generation = fav.generation /\ g.confirmed = p
    BY ONLY <2>5, <2>9 DEF FavFields
  <2>11. fav.account \in Accounts => p \subseteq Listed(told.seen[fav.account])
    <3>1. m.account = fav.account
      BY <1>1, <1>3 DEF Favs!OwnRequest, SendOwned
    <3> QED
      BY <1>1, <2>1, <3>1 DEF OwnLikes, SeenIn
  <2>12. OwnLikes(f, told.seen) /\ OwnLikes(g, told.seen)
    BY <2>9, <2>10, <2>11 DEF OwnLikes
  <2>13. FavOwned(v.f, cloud, v.n, told.seen)
    BY <2>6, <2>9, <2>12, FavOwnShows
  <2>14. DOMAIN x = WorldFields /\ FavOwned(x.f, cloud, x.n, told.seen)
    BY <2>6, <2>10, <2>12, FavOwnShows
  <2>15. FavOwned(y.f, cloud, y.n, told.seen) /\ FavOwned(z.f, cloud, z.n, told.seen)
    BY <2>7, <2>14, FavOwnRetried, FavOwnFlushed
  <2>16. DOMAIN told' = ToldFields /\ told'.seen = told.seen
    <3>1. PICK a, b : a = [told EXCEPT !.wish = y.w] /\ b = [told EXCEPT !.wish = z.w]
      OBVIOUS
    <3>2. DOMAIN told = ToldFields
      BY <1>1
    <3>3. /\ DOMAIN a = ToldFields /\ a.seen = told.seen
          /\ DOMAIN b = ToldFields /\ b.seen = told.seen
      BY ONLY <3>1, <3>2 DEF ToldFields
    <3> QED
      BY <2>8, <3>1, <3>2, <3>3
  <2> QED
    BY <2>8, <2>13, <2>15, <2>16, FavOwnBecomes
<1> QED
  BY <1>2, <1>3

LEMMA FavOwnPage ==
  ASSUME FavTold(fav, cloud, net, told), NEW m, m \in net, Favs!PageLoaded(m)
  PROVE  FavTold(fav', cloud', net', told')
<1>1. /\ DOMAIN fav = FavFields /\ OwnLikes(fav, told.seen) /\ DOMAIN told = ToldFields
      /\ FavSend(m) /\ SeenIn(m, told.seen) /\ SendOwned(m, fav)
  BY DEF FavTold, FavOwned, FavPage, OwnSends
<1>2. CASE ~Favs!OwnPage(m)
  <2>1. PICK x : x = Favs!World(fav, disk, net \ {m})
    OBVIOUS
  <2>2. Favs!Become(x) /\ UNCHANGED <<cloud, told>>
    BY <1>2, <2>1 DEF Favs!PageLoaded
  <2>3. FavOwned(x.f, cloud, x.n, told.seen)
    BY <1>1, <2>1, FavOwnShows
  <2> QED
    BY <1>1, <2>2, <2>3, FavOwnBecomes
<1>3. CASE Favs!OwnPage(m) /\ m.result # "ok"
  <2>1. PICK g : g = [fav EXCEPT !.loading = FALSE]
    OBVIOUS
  <2>2. PICK x : x = Favs!World(g, disk, net \ {m})
    OBVIOUS
  <2>3. Favs!Become(x) /\ UNCHANGED <<cloud, told>>
    BY <1>3, <2>1, <2>2 DEF Favs!PageLoaded
  <2>4. DOMAIN g = FavFields /\ g.account = fav.account /\ g.load = fav.load
        /\ g.generation = fav.generation /\ g.confirmed = fav.confirmed
    BY ONLY <1>1, <2>1 DEF FavFields
  <2>5. FavOwned(x.f, cloud, x.n, told.seen)
    BY <1>1, <2>2, <2>4, FavOwnShows DEF OwnLikes
  <2> QED
    BY <1>1, <2>3, <2>5, FavOwnBecomes
<1>4. CASE Favs!OwnPage(m) /\ m.result = "ok"
  <2> DEFINE first == IF m.page = 1 THEN [fav EXCEPT !.confirmed = {}, !.fileIds = {}] ELSE fav
             total == Favs!Max({fav.total, m.total})
             again == m.rows # <<>> /\ m.rows \in fav.pages
             songs == {m.rows[i].hash : i \in DOMAIN m.rows} \ {NoHash}
             f     == [first EXCEPT !.total = total, !.pages = @ \cup {m.rows},
                                    !.confirmed = @ \cup songs, !.fileIds = @ \cup songs]
             short == Len(m.rows) < FavoritePage
             all   == Favs!Cardinality(f.confirmed) >= total
             ended == (total > 0 /\ all) \/ short
             whole == total = 0 \/ all
             g     == IF again THEN [first EXCEPT !.total = total, !.loading = FALSE]
                      ELSE IF ended THEN [f EXCEPT !.loading = FALSE, !.complete = whole]
                      ELSE IF m.page >= PageLimit THEN [f EXCEPT !.loading = FALSE] ELSE f
             next  == IF g.loading THEN {Favs!Send("page", g, m.page + 1, NoHash, 0)} ELSE {}
             x     == Favs!World(g, disk, (net \ {m}) \cup next)
             y     == IF g.complete /\ ~again THEN Favs!FlushNext(x) ELSE x
  <2>1. Favs!Become(y) /\ told' = [told EXCEPT !.wish = y.w] /\ UNCHANGED cloud
    BY <1>4, Zenon DEF Favs!PageLoaded
  <2>2. PICK sum, seen, full : sum = total /\ seen = songs /\ full = whole
    OBVIOUS
  <2>3. PICK p : p = first
    OBVIOUS
  <2>4. /\ DOMAIN p = FavFields /\ p.account = fav.account /\ p.load = fav.load
        /\ p.generation = fav.generation /\ (p.confirmed = fav.confirmed \/ p.confirmed = {})
    <3>1. PICK q : q = [fav EXCEPT !.confirmed = {}, !.fileIds = {}]
      OBVIOUS
    <3>2. DOMAIN q = FavFields /\ q.account = fav.account /\ q.load = fav.load
          /\ q.generation = fav.generation /\ q.confirmed = {}
      BY ONLY <1>1, <3>1 DEF FavFields
    <3>3. p = q \/ p = fav
      BY <2>3, <3>1
    <3> QED
      BY <1>1, <3>2, <3>3
  <2>5. PICK turned, had, ids : turned = p.pages \cup {m.rows} /\ had = p.confirmed \cup seen /\ ids = p.fileIds \cup seen
    OBVIOUS
  <2>6. PICK r : r = [p EXCEPT !.total = sum, !.pages = turned, !.confirmed = had, !.fileIds = ids]
    OBVIOUS
  <2>7. f = r
    BY ONLY <2>2, <2>3, <2>5, <2>6
  <2>8. PICK r1, r2, r3 : /\ r1 = [p EXCEPT !.total = sum, !.loading = FALSE]
                          /\ r2 = [r EXCEPT !.loading = FALSE, !.complete = full]
                          /\ r3 = [r EXCEPT !.loading = FALSE]
    OBVIOUS
  <2>9. /\ DOMAIN r = FavFields /\ r.account = fav.account /\ r.load = fav.load
        /\ r.generation = fav.generation /\ r.confirmed = had
    BY ONLY <2>4, <2>6 DEF FavFields
  <2>10. /\ DOMAIN r1 = FavFields /\ r1.account = fav.account /\ r1.load = fav.load
         /\ r1.generation = fav.generation /\ r1.confirmed = p.confirmed
    BY ONLY <2>4, <2>8 DEF FavFields
  <2>11. /\ DOMAIN r2 = FavFields /\ r2.account = fav.account /\ r2.load = fav.load
         /\ r2.generation = fav.generation /\ r2.confirmed = had
    BY ONLY <2>9, <2>8 DEF FavFields
  <2>12. /\ DOMAIN r3 = FavFields /\ r3.account = fav.account /\ r3.load = fav.load
         /\ r3.generation = fav.generation /\ r3.confirmed = had
    BY ONLY <2>9, <2>8 DEF FavFields
  <2>13. PICK h : h = g
    <3> HIDE DEF g
    <3> QED
      OBVIOUS
  <2>14. h \in {r, r1, r2, r3}
    <3> HIDE DEF first, total, f, whole
    <3>1. [first EXCEPT !.total = total, !.loading = FALSE] = r1
      BY <2>2, <2>3, <2>8
    <3>2. [f EXCEPT !.loading = FALSE, !.complete = whole] = r2
      BY <2>2, <2>7, <2>8
    <3>3. [f EXCEPT !.loading = FALSE] = r3
      BY <2>7, <2>8
    <3> HIDE DEF again, all, ended
    <3> QED
      BY <2>7, <2>13, <3>1, <3>2, <3>3
  <2>15. m.account = fav.account /\ fav.account \in Accounts /\ m.page \in Int
    BY <1>1, <1>4 DEF Favs!OwnPage, SendOwned, FavSend
  <2>16. had \subseteq Listed(told.seen[fav.account]) /\ p.confirmed \subseteq Listed(told.seen[fav.account])
    <3>1. seen \subseteq Listed(told.seen[fav.account])
      BY <1>1, <2>2, <2>15 DEF SeenIn
    <3> QED
      BY <1>1, <2>4, <2>5, <2>15, <3>1 DEF OwnLikes
  <2>17. /\ DOMAIN h = FavFields /\ h.account = fav.account /\ h.load = fav.load
         /\ h.generation = fav.generation /\ OwnLikes(h, told.seen)
    BY <2>9, <2>10, <2>11, <2>12, <2>14, <2>16 DEF OwnLikes
  <2>18. FavOwned(h, cloud, net \ {m}, told.seen)
    <3>1. FavOwned(fav, cloud, net \ {m}, told.seen)
      BY FavOwnFewer DEF FavTold
    <3> QED
      BY <2>17, <3>1, FavOwnSame
  <2>19. PICK sends : sends = (net \ {m}) \cup next
    OBVIOUS
  <2>26. PICK v : v = Favs!World(h, disk, sends)
    OBVIOUS
  <2>27. PICK w : w = Favs!FlushNext(v)
    OBVIOUS
  <2>20. FavOwned(h, cloud, sends, told.seen)
    <3>1. PICK number \in Int : number = m.page + 1
      BY <2>15
    <3>2. PICK s : s = Favs!Send("page", h, number, NoHash, 0)
      OBVIOUS
    <3>3. next = {} \/ next = {s}
      <4>1. s = Favs!Send("page", g, m.page + 1, NoHash, 0)
        <5> HIDE DEF g
        <5> QED
          BY <2>13, <3>1, <3>2
      <4> HIDE DEF g
      <4> QED
        BY <4>1
    <3>4. sends = net \ {m} \/ sends = (net \ {m}) \cup {s}
      <4> HIDE DEF next
      <4> QED
        BY <2>19, <3>3
    <3> QED
      BY <2>15, <2>17, <2>18, <3>2, <3>4, FavOwnSends
  <2>21. DOMAIN v = WorldFields /\ v.f = h /\ v.n = sends
    BY ONLY <2>26, WorldIs
  <2>22. FavOwned(v.f, cloud, v.n, told.seen) /\ FavOwned(w.f, cloud, w.n, told.seen)
    BY ONLY <2>20, <2>21, <2>27, FavOwnFlushed
  <2>23. y = v \/ y = w
    <3>1. x = v
      <4> HIDE DEF g, next
      <4> QED
        BY <2>13, <2>19, <2>26
    <3> HIDE DEF g, x
    <3> QED
      BY <2>27, <3>1
  <2> HIDE DEF y
  <2>24. PICK z : z = y
    OBVIOUS
  <2>25. DOMAIN told' = ToldFields /\ told'.seen = told.seen
    <3>1. PICK t, wish : wish = z.w /\ t = [told EXCEPT !.wish = wish]
      OBVIOUS
    <3>2. DOMAIN told = ToldFields
      BY <1>1
    <3>3. DOMAIN t = ToldFields /\ t.seen = told.seen
      BY ONLY <3>1, <3>2 DEF ToldFields
    <3>4. told' = t
      BY <2>1, <2>24, <3>1
    <3> QED
      BY <3>3, <3>4
  <2> QED
    BY <2>1, <2>22, <2>23, <2>25, FavOwnBecomes
<1> QED
  BY <1>2, <1>3, <1>4

\* A list the upstream has or had grows only.
SeenGrows(seen, more) == /\ DOMAIN more = Accounts
                         /\ \A x \in Accounts : Listed(seen[x]) \subseteq Listed(more[x])

LEMMA FavOwnGrows ==
  ASSUME NEW f, NEW n, NEW seen, NEW more, SeenGrows(seen, more), OwnSends(f, n, seen), OwnLikes(f, seen)
  PROVE  OwnSends(f, n, more) /\ OwnLikes(f, more)
<1>1. OwnLikes(f, more)
  BY DEF OwnLikes, SeenGrows
<1>2. ASSUME NEW m \in n PROVE FavSend(m) /\ SeenIn(m, more) /\ SendOwned(m, f)
  <2>1. FavSend(m) /\ SeenIn(m, seen) /\ SendOwned(m, f) /\ m.account \in Accounts
    BY <1>2 DEF OwnSends, FavSend
  <2>2. Listed(seen[m.account]) \subseteq Listed(more[m.account])
    BY <2>1 DEF SeenGrows
  <2> QED
    BY <2>1, <2>2 DEF SeenIn
<1> QED
  BY <1>1, <1>2 DEF OwnSends

LEMMA ListOf == ASSUME NEW list, NEW V, list \in Seq(V) PROVE list \in Seq(Listed(list))
<1>1. list \in [1..Len(list) -> V] /\ Len(list) \in Nat /\ DOMAIN list = 1..Len(list)
  OBVIOUS
<1>2. list \in [1..Len(list) -> Listed(list)]
  BY <1>1 DEF Listed
<1> QED
  BY <1>1, <1>2

LEMMA WiderList == ASSUME NEW V, NEW W, V \subseteq W, NEW list, list \in Seq(V) PROVE list \in Seq(W)
<1>1. list \in [1..Len(list) -> V] /\ Len(list) \in Nat
  OBVIOUS
<1>2. list \in [1..Len(list) -> W]
  BY <1>1
<1> QED
  BY <1>1, <1>2

\* What an account's list was seen to hold, after a song was added to it.
LEMMA SeenHolds ==
  ASSUME NEW c, NEW seen, FavLists(c, seen), NEW m, m.account \in Accounts
  PROVE  LET more == Favs!Seen(seen, m)
         IN  /\ SeenGrows(seen, more) /\ m.song \in Listed(more[m.account])
             /\ \A x \in Accounts : more[x] \in Seq(Listed(more[x]))
<1>1. PICK old, a, s : old = seen[m.account] /\ a = m.account /\ s = m.song
  OBVIOUS
<1>2. PICK new : new = IF s \in Favs!Range(old) THEN old ELSE Append(old, s)
  OBVIOUS
<1>3. PICK more : more = [seen EXCEPT ![a] = new]
  OBVIOUS
<1>4. more = Favs!Seen(seen, m)
  BY <1>1, <1>2, <1>3 DEF Favs!Seen
<1>5. /\ DOMAIN seen = Accounts /\ a \in Accounts /\ old = seen[a]
      /\ \A x \in Accounts : seen[x] \in Seq(Listed(seen[x]))
  BY <1>1 DEF FavLists
<1>6. DOMAIN more = Accounts /\ more[a] = new /\ \A x \in Accounts \ {a} : more[x] = seen[x]
  BY ONLY <1>3, <1>5
<1>7. old \in Seq(Listed(old))
  BY <1>5
<1>8. new \in Seq(Listed(new)) /\ s \in Listed(new) /\ Listed(old) \subseteq Listed(new)
  <2>1. CASE s \in Favs!Range(old)
    BY <1>2, <1>7, <2>1 DEF Favs!Range, Listed
  <2>2. CASE s \notin Favs!Range(old)
    <3>1. PICK V : V = Listed(old) \cup {s}
      OBVIOUS
    <3>2. old \in Seq(V)
      BY <1>7, <3>1, WiderList
    <3>3. PICK n : n = Len(old)
      OBVIOUS
    <3>4. new = Append(old, s) /\ s \in V
      BY <1>2, <2>2, <3>1
    <3>5. /\ new \in Seq(V) /\ DOMAIN new = 1..n+1 /\ n \in Nat /\ DOMAIN old = 1..n
          /\ new[n+1] = s /\ \A i \in 1..n : new[i] = old[i]
      BY ONLY <3>2, <3>3, <3>4
    <3>6. new \in Seq(Listed(new))
      BY <3>5, ListOf
    <3>7. s \in Listed(new)
      BY <3>5 DEF Listed
    <3>8. Listed(old) \subseteq Listed(new)
      BY <3>5 DEF Listed
    <3> QED
      BY <3>6, <3>7, <3>8
  <2> QED
    BY <2>1, <2>2
<1>9. SeenGrows(seen, more)
  BY <1>5, <1>6, <1>8 DEF SeenGrows
<1>10. \A x \in Accounts : more[x] \in Seq(Listed(more[x]))
  BY <1>5, <1>6, <1>8
<1> QED
  BY <1>1, <1>4, <1>6, <1>8, <1>9, <1>10

\* The upstream changes one list by one song, and what it sends of it is of it.
LEMMA FavOwnServes ==
  ASSUME FavTold(fav, cloud, net, told), NEW m, m \in net, Favs!Serve(m)
  PROVE  FavTold(fav', cloud', net', told')
<1>1. PICK exchange \in {"ok", "refused", "network", "deadline"}, reached, counted \in BOOLEAN :
        /\ reached \in Favs!Reached(exchange)
        /\ (exchange \in {"ok", "refused"} \/ told.trouble < 1)
        /\ LET list == cloud[m.account]
               part == Favs!GetTracks(list, m.page, exchange, counted)
               did  == reached /\ m.kind # "page"
               answer == IF m.kind = "page" THEN part.answer
                         ELSE IF m.kind = "add" THEN Favs!AddPlaylistTracksStructured(<<m.song>>, exchange)
                         ELSE Favs!PassThrough(exchange)
               result == IF answer.status = 1 THEN "ok" ELSE IF answer.transport THEN "transport" ELSE "refused"
           IN /\ net' = (net \ {m}) \cup {[m EXCEPT !.result = result, !.rows = part.rows, !.total = part.total]}
              /\ cloud' = IF ~did THEN cloud
                          ELSE [cloud EXCEPT ![m.account] =
                                  IF m.kind = "remove" THEN Favs!DeletePlaylistTracks(@, Favs!NormalizeTrack(m.song).fileId)
                                  ELSE IF m.song \in Favs!Range(@) THEN @ ELSE Favs!SendAddTracksPayload(@, <<m.song>>)]
              /\ told' = [told EXCEPT !.trouble = IF exchange \in {"ok", "refused"} THEN @ ELSE @ + 1,
                            !.seen = IF did /\ m.kind = "add" THEN Favs!Seen(@, m) ELSE @,
                            !.wish = IF m.rev # 0 /\ exchange \in {"ok", "refused"}
                                     THEN [@ EXCEPT ![m.account][m.song] = "none"] ELSE @]
  BY Zenon DEF Favs!Serve
<1>2. UNCHANGED fav
  BY DEF Favs!Serve
<1> DEFINE did == reached /\ m.kind # "page"
<1>3. PICK a, s, list : a = m.account /\ s = m.song /\ list = cloud[m.account]
  OBVIOUS
<1>4. PICK rows, sum : /\ rows = Favs!GetTracks(list, m.page, exchange, counted).rows
                       /\ sum = Favs!GetTracks(list, m.page, exchange, counted).total
  OBVIOUS
<1>5. PICK answer : answer = IF m.kind = "page" THEN Favs!GetTracks(list, m.page, exchange, counted).answer
                             ELSE IF m.kind = "add" THEN Favs!AddPlaylistTracksStructured(<<m.song>>, exchange)
                             ELSE Favs!PassThrough(exchange)
  OBVIOUS
<1>6. PICK result : result = IF answer.status = 1 THEN "ok" ELSE IF answer.transport THEN "transport" ELSE "refused"
  OBVIOUS
<1>7. PICK q : q = [m EXCEPT !.result = result, !.rows = rows, !.total = sum]
  OBVIOUS
<1>8. net' = (net \ {m}) \cup {q}
  BY <1>1, <1>3, <1>4, <1>5, <1>6, <1>7
<1>9. PICK new : new = IF m.kind = "remove" THEN Favs!DeletePlaylistTracks(list, Favs!NormalizeTrack(s).fileId)
                       ELSE IF s \in Favs!Range(list) THEN list ELSE Favs!SendAddTracksPayload(list, <<s>>)
  OBVIOUS
<1>10. cloud' = IF ~did THEN cloud ELSE [cloud EXCEPT ![a] = new]
  BY <1>1, <1>3, <1>9
<1>11. PICK more : more = IF did /\ m.kind = "add" THEN Favs!Seen(told.seen, m) ELSE told.seen
  OBVIOUS
<1>12. /\ DOMAIN told = ToldFields /\ FavPage(fav) /\ FavLists(cloud, told.seen)
       /\ OwnSends(fav, net, told.seen) /\ OwnLikes(fav, told.seen)
       /\ FavSend(m) /\ SeenIn(m, told.seen) /\ SendOwned(m, fav)
  BY DEF FavTold, FavOwned, OwnSends
<1>13. DOMAIN told' = ToldFields /\ told'.seen = more
  <2>1. PICK trouble, wish : /\ trouble = (IF exchange \in {"ok", "refused"} THEN told.trouble ELSE told.trouble + 1)
                             /\ wish = (IF m.rev # 0 /\ exchange \in {"ok", "refused"}
                                        THEN [told.wish EXCEPT ![m.account][m.song] = "none"] ELSE told.wish)
    OBVIOUS
  <2>2. PICK t : t = [told EXCEPT !.trouble = trouble, !.seen = more, !.wish = wish]
    OBVIOUS
  <2>3. told' = t
    BY <1>1, <1>11, <2>1, <2>2
  <2>4. DOMAIN told = ToldFields
    BY <1>12
  <2>5. DOMAIN t = ToldFields /\ t.seen = more
    BY ONLY <2>2, <2>4 DEF ToldFields
  <2> QED
    BY <2>3, <2>5
<1>14. a \in Accounts /\ DOMAIN m = SendFields /\ m.page \in Int /\ list = cloud[a]
  BY <1>3, <1>12 DEF FavSend
<1>15. /\ DOMAIN q = SendFields /\ q.kind = m.kind /\ q.account = a /\ q.generation = m.generation
       /\ q.load = m.load /\ q.page = m.page /\ q.song = s /\ q.result = result /\ q.rows = rows
  BY ONLY <1>3, <1>7, <1>14 DEF SendFields
<1>16. /\ DOMAIN cloud = Accounts /\ DOMAIN told.seen = Accounts /\ list \in Seq(Listed(told.seen[a]))
       /\ \A x \in Accounts : /\ told.seen[x] \in Seq(Listed(told.seen[x]))
                              /\ cloud[x] \in Seq(Listed(told.seen[x]))
  BY <1>12, <1>14 DEF FavLists
<1>17. /\ SeenGrows(told.seen, more)
       /\ \A x \in Accounts : more[x] \in Seq(Listed(more[x]))
       /\ did /\ m.kind = "add" => s \in Listed(more[a])
  <2>1. CASE did /\ m.kind = "add"
    <3>1. more = Favs!Seen(told.seen, m) /\ m.account \in Accounts
      BY <1>3, <1>11, <1>14, <2>1
    <3> QED
      BY <1>3, <1>12, <3>1, SeenHolds
  <2>2. CASE ~(did /\ m.kind = "add")
    <3>1. more = told.seen
      BY <1>11, <2>2
    <3> QED
      BY <1>16, <2>2, <3>1 DEF SeenGrows
  <2> QED
    BY <2>1, <2>2
<1>18. did => new \in Seq(Listed(more[a]))
  <2>1. list \in Seq(Listed(more[a]))
    BY <1>14, <1>16, <1>17, WiderList DEF SeenGrows
  <2>2. Favs!DeletePlaylistTracks(list, Favs!NormalizeTrack(s).fileId) \in Seq(Listed(more[a]))
    BY <2>1, DeletedKeeps
  <2>3. CASE did /\ m.kind = "add"
    <3>1. s \in Listed(more[a])
      BY <1>17, <2>3
    <3>2. PICK V, one : V = Listed(more[a]) /\ one = <<s>>
      OBVIOUS
    <3>3. one \in Seq(V) /\ list \in Seq(V)
      BY <2>1, <3>1, <3>2
    <3>4. list \o one \in Seq(V)
      BY ONLY <3>3
    <3> QED
      BY <1>9, <2>1, <2>3, <3>2, <3>4 DEF Favs!SendAddTracksPayload
  <2>4. CASE m.kind = "remove"
    BY <1>9, <2>2, <2>4
  <2>5. m.kind \in {"page", "add", "remove"}
    BY <1>12 DEF FavSend
  <2> QED
    BY <2>3, <2>4, <2>5
<1>19. FavLists(cloud', more)
  <2>1. \A x \in Accounts : cloud[x] \in Seq(Listed(more[x]))
    BY <1>16, <1>17, WiderList DEF SeenGrows
  <2>2. CASE ~did
    <3>1. cloud' = cloud
      BY <1>10, <2>2
    <3> QED
      BY <1>16, <1>17, <2>1, <3>1 DEF FavLists, SeenGrows
  <2>3. CASE did
    <3>1. PICK c : c = [cloud EXCEPT ![a] = new]
      OBVIOUS
    <3>2. cloud' = c
      BY <1>10, <2>3, <3>1
    <3>3. DOMAIN c = Accounts /\ c[a] = new /\ \A x \in Accounts \ {a} : c[x] = cloud[x]
      BY ONLY <1>14, <1>16, <3>1
    <3>4. \A x \in Accounts : c[x] \in Seq(Listed(more[x]))
      BY <1>18, <2>1, <2>3, <3>3
    <3> QED
      BY <1>17, <3>2, <3>3, <3>4 DEF FavLists, SeenGrows
  <2> QED
    BY <2>2, <2>3
<1>20. FavSend(q) /\ SendOwned(q, fav)
  BY <1>3, <1>12, <1>15 DEF FavSend, SendOwned
<1>21. SeenIn(q, more)
  <2>1. \A i \in DOMAIN rows : rows[i].hash \in Listed(more[a])
    <3>1. \A i \in DOMAIN rows : rows[i].hash \in Listed(told.seen[a])
      BY <1>4, <1>14, <1>16, PageIsOfList
    <3> QED
      BY <1>14, <1>17, <3>1 DEF SeenGrows
  <2>2. ASSUME m.kind = "add", result = "ok" PROVE s \in Listed(more[a])
    <3>1. answer.status = 1
      BY <1>6, <2>2
    <3>2. answer = Favs!AddPlaylistTracksStructured(<<m.song>>, exchange)
      BY <1>5, <2>2
    <3>3. exchange = "ok"
      BY <3>1, <3>2 DEF Favs!AddPlaylistTracksStructured, Favs!PassThrough, Favs!Answer
    <3>4. did
      BY <1>1, <2>2, <3>3 DEF Favs!Reached
    <3> QED
      BY <1>17, <2>2, <3>4
  <2> QED
    BY <1>15, <2>1, <2>2 DEF SeenIn
<1>22. OwnSends(fav, net \ {m}, more) /\ OwnLikes(fav, more)
  <2>1. OwnSends(fav, net \ {m}, told.seen)
    BY <1>12 DEF OwnSends
  <2> QED
    BY <1>12, <1>17, <2>1, FavOwnGrows
<1>23. OwnSends(fav, net', more)
  BY <1>8, <1>20, <1>21, <1>22 DEF OwnSends
<1> QED
  BY <1>2, <1>12, <1>13, <1>19, <1>22, <1>23 DEF FavTold, FavOwned

LEMMA FavOwnKeeps ==
  ASSUME FavTold(fav, cloud, net, told), [Favs!FavoritesNext]_favVars
  PROVE  FavTold(fav', cloud', net', told')
<1>1. CASE Favs!FavoritesNext
  <2>1. \/ \E a \in Accounts \cup {Nobody} : Favs!setAccount(a)
        \/ Favs!setPlaylists \/ Favs!retry
        \/ Favs!syncLocal \/ \E s \in FavoriteSongs : Favs!toggle(s)
        \/ Favs!Restart
        \/ \E s \in FavoriteSongs, kind \in {"add", "remove"} : Favs!modifyPlaylist(s, kind)
        \/ \E m \in net : Favs!Serve(m) \/ Favs!PageLoaded(m) \/ Favs!Mutated(m) \/ Favs!Modified(m)
    BY <1>1 DEF Favs!FavoritesNext
  <2>2. CASE \E a \in Accounts \cup {Nobody} : Favs!setAccount(a)
    BY <2>2, FavOwnAccount
  <2>3. CASE Favs!setPlaylists \/ Favs!retry
    BY <2>3, FavOwnLoads
  <2>4. CASE Favs!syncLocal \/ \E s \in FavoriteSongs : Favs!toggle(s)
    BY <2>4, FavOwnWishes
  <2>5. CASE Favs!Restart
    BY <2>5, FavOwnRestart
  <2>6. CASE \E s \in FavoriteSongs, kind \in {"add", "remove"} : Favs!modifyPlaylist(s, kind)
    BY <2>6, FavOwnModifies
  <2>7. CASE \E m \in net : Favs!Serve(m) \/ Favs!PageLoaded(m) \/ Favs!Mutated(m) \/ Favs!Modified(m)
    BY <2>7, FavOwnServes, FavOwnPage, FavOwnMutated, FavOwnModified
  <2> QED
    BY <2>1, <2>2, <2>3, <2>4, <2>5, <2>6, <2>7
<1>2. CASE UNCHANGED favVars
  BY <1>2 DEF favVars
<1> QED
  BY <1>1, <1>2

LEMMA FavOwnBegins == ASSUME Favs!FavoritesInit PROVE FavTold(fav, cloud, net, told)
<1>1. PICK wish : wish = [a \in Accounts |-> [s \in FavoriteSongs |-> "none"]]
  OBVIOUS
<1>2. /\ fav = [account |-> Nobody, generation |-> 0, load |-> 0, confirmed |-> {}, fileIds |-> {},
                pages |-> {}, loading |-> FALSE, complete |-> FALSE, mutating |-> FALSE,
                reload |-> FALSE, total |-> 0, outbox |-> <<>>, liked |-> FALSE]
      /\ cloud \in Clouds /\ net = {}
      /\ told = [seen |-> cloud, wish |-> wish, wishes |-> 0, loads |-> 0, switches |-> 0, trouble |-> 0]
  BY <1>1 DEF Favs!FavoritesInit, Favs!Fresh
<1>3. DOMAIN fav = FavFields /\ fav.account = Nobody /\ fav.load = 0 /\ fav.generation = 0 /\ fav.confirmed = {}
  BY ONLY <1>2 DEF FavFields
<1>4. DOMAIN told = ToldFields /\ told.seen = cloud
  BY ONLY <1>2 DEF ToldFields
<1>5. FavLists(cloud, told.seen)
  <2>1. DOMAIN cloud = Accounts /\ \A x \in Accounts : cloud[x] \in Seq({cloud[x][i] : i \in DOMAIN cloud[x]})
    BY <1>2, FavoritesAssumption
  <2> QED
    BY <1>4, <2>1 DEF FavLists, Listed
<1>6. FavPage(fav) /\ OwnLikes(fav, told.seen) /\ OwnSends(fav, net, told.seen)
  BY <1>2, <1>3 DEF FavPage, OwnLikes, OwnSends
<1> QED
  BY <1>4, <1>5, <1>6 DEF FavTold, FavOwned

LEMMA FavOwnMeans == FavTold(fav, cloud, net, told) => Favs!FavoritesAreOfAccount
BY DEF FavTold, FavOwned, FavPage, OwnLikes, Favs!FavoritesAreOfAccount, Favs!LoggedIn, Favs!Range, Listed

-----------------------------------------------------------------------------
(* Whose it is: the pages                                                    *)

HomeIsOwn == suite = "home" => HomeOwned(home, homeCalls, feed)
HistoryIsOwn == suite = "history" => HistoryOwned(history, heard, recent) /\ instant \in Int
FavoritesAreOwn == suite = "favorites" => FavTold(fav, cloud, net, told)

LEMMA HomeStaysOwn == PagesSpec => []HomeIsOwn
<1>1. PagesInit => HomeIsOwn
  BY HomeOwnBegins DEF PagesInit, HomeIsOwn
<1>2. HomeStrong /\ HomeIsOwn /\ [UNCHANGED suite /\ PagesNext]_<<suite, pageVars>> => HomeIsOwn'
  <2> SUFFICES ASSUME HomeStrong, HomeIsOwn, [UNCHANGED suite /\ PagesNext]_<<suite, pageVars>>, suite = "home"
               PROVE  HomeOwned(home', homeCalls', feed')
    BY DEF HomeIsOwn, pageVars
  <2>1. HomeOwned(home, homeCalls, feed) /\ home.meta \in Nat /\ home.pending \in Int
    BY DEF HomeIsOwn, HomeStrong, HomeInv, HomeGood, HomeTypes, HomeOk
  <2>2. [First!HomeNext]_First!homeVars
    BY DEF PagesNext, pageVars, homeVars, First!homeVars
  <2> QED
    BY <2>1, <2>2, HomeOwnKeeps
<1> QED
  BY <1>1, <1>2, HomeIsSound, PTL DEF PagesSpec

LEMMA HistoryStaysOwn == PagesSpec => []HistoryIsOwn
<1>1. PagesInit => HistoryIsOwn
  BY HistoryOwnBegins DEF PagesInit, HistoryIsOwn
<1>2. HistoryStrong /\ HistoryIsOwn /\ [UNCHANGED suite /\ PagesNext]_<<suite, pageVars>> => HistoryIsOwn'
  <2> SUFFICES ASSUME HistoryStrong, HistoryIsOwn, [UNCHANGED suite /\ PagesNext]_<<suite, pageVars>>,
                      suite = "history"
               PROVE  HistoryOwned(history', heard', recent') /\ instant' \in Int
    BY DEF HistoryIsOwn, pageVars
  <2>1. HistoryWhole(history, heard, recent) /\ instant \in Int
    BY DEF HistoryIsOwn, HistoryStrong, HistoryInv, HistoryWhole
  <2>2. [Lately!HistoryNext]_historyVars
    BY DEF PagesNext, pageVars
  <2> QED
    BY <2>1, <2>2, HistoryOwnKeeps
<1> QED
  BY <1>1, <1>2, HistoryIsSound, PTL DEF PagesSpec

LEMMA FavoritesStayOwn == PagesSpec => []FavoritesAreOwn
<1>1. PagesInit => FavoritesAreOwn
  BY FavOwnBegins DEF PagesInit, FavoritesAreOwn
<1>2. FavoritesAreOwn /\ [UNCHANGED suite /\ PagesNext]_<<suite, pageVars>> => FavoritesAreOwn'
  <2> SUFFICES ASSUME FavoritesAreOwn, [UNCHANGED suite /\ PagesNext]_<<suite, pageVars>>, suite = "favorites"
               PROVE  FavTold(fav', cloud', net', told')
    BY DEF FavoritesAreOwn, pageVars
  <2>1. FavTold(fav, cloud, net, told)
    BY DEF FavoritesAreOwn
  <2>2. [Favs!FavoritesNext]_favVars
    BY DEF PagesNext, pageVars
  <2> QED
    BY <2>1, <2>2, FavOwnKeeps
<1> QED
  BY <1>1, <1>2, PTL DEF PagesSpec

\* What is shown is of the account that is signed in, whatever answers come late:
\* a song is marked as a favourite only when that account's list was seen to hold
\* it, the songs of the first page and its shelves are those of the account and
\* of what was asked for, and what was played is the account's and in its order
\* (FavoriteController, HomeController, HistoryController).
THEOREM PagesAreOfAccountCorrect == PagesSpec => []PagesAreOfAccount
<1>1. FavoritesAreOwn /\ HomeIsOwn /\ HistoryIsOwn => PagesAreOfAccount
  BY FavOwnMeans, HomeOwnMeans, HistoryShows DEF FavoritesAreOwn, HomeIsOwn, HistoryIsOwn, PagesAreOfAccount
<1> QED
  BY <1>1, HomeStaysOwn, HistoryStaysOwn, FavoritesStayOwn, PTL

-----------------------------------------------------------------------------
(* A list is played whole: the songs of the first pages                      *)

\* A row joins those kept before it, and so do the rows of a list one by one.
Added(kept, row) == IF row = NoHash \/ Lib!Known(kept, row) THEN kept ELSE Append(kept, row)
Runs(h, kept, rows) == h[0] = kept /\ \A i \in 1..Len(rows) : h[i] = Added(h[i - 1], rows[i])

DistinctOf(it, kept, rows, choice) ==
  it = [s \in SUBSET DOMAIN rows |->
          IF s = {} THEN kept ELSE Added(it[s \ {choice[s]}], rows[choice[s]])]

Unfolds(it, kept, rows, choice) ==
  \A s \in SUBSET DOMAIN rows :
    it[s] = IF s = {} THEN kept ELSE Added(it[s \ {choice[s]}], rows[choice[s]])

LEMMA AddedIs ==
  ASSUME NEW V, NEW kept \in Seq(V), NEW row \in V
  PROVE  /\ Added(kept, row) \in Seq(V)
         /\ Listed(Added(kept, row)) \subseteq Listed(kept) \cup {row}
         /\ Len(Added(kept, row)) <= Len(kept) + 1
<1>1. CASE row = NoHash \/ Lib!Known(kept, row)
  BY <1>1 DEF Added
<1>2. CASE ~(row = NoHash \/ Lib!Known(kept, row))
  <2>1. PICK t : t = Append(kept, row)
    OBVIOUS
  <2>2. t \in Seq(V) /\ Len(t) = Len(kept) + 1 /\ DOMAIN t = 1..(Len(kept) + 1)
    BY <2>1
  <2>3. \A i \in 1..(Len(kept) + 1) : t[i] = IF i <= Len(kept) THEN kept[i] ELSE row
    BY <2>1
  <2>4. Listed(t) \subseteq Listed(kept) \cup {row}
    <3> SUFFICES ASSUME NEW i \in DOMAIN t PROVE t[i] \in Listed(kept) \cup {row}
      BY DEF Listed
    <3>1. CASE i <= Len(kept)
      <4>1. i \in DOMAIN kept
        BY <2>2, <3>1
      <4> QED
        BY <2>2, <2>3, <3>1, <4>1 DEF Listed
    <3> QED
      BY <2>2, <2>3, <3>1
  <2> QED
    BY <1>2, <2>1, <2>2, <2>4 DEF Added
<1> QED
  BY <1>1, <1>2

LEMMA DistinctFolds ==
  ASSUME NEW V, NEW rows, rows \in Seq(V), NEW kept \in Seq(V), NEW choice,
         \A s \in SUBSET DOMAIN rows : s # {} => choice[s] \in s
  PROVE  /\ \E it : DistinctOf(it, kept, rows, choice)
         /\ \A it : DistinctOf(it, kept, rows, choice) => Unfolds(it, kept, rows, choice)
<1> DEFINE D == DOMAIN rows
           W == Seq(V)
           g == [x \in D \X W |-> Added(x[2], rows[x[1]])]
           Pick(it, s) == IF s = {} THEN kept ELSE Added(it[s \ {choice[s]}], rows[choice[s]])
<1>1. IsFiniteSet(D) /\ kept \in W
  <2>1. D = 1..Len(rows) /\ Len(rows) \in Nat
    OBVIOUS
  <2> QED
    BY <2>1, FS_Interval
<1>2. \A x \in D, w \in W : g[<<x, w>>] = Added(w, rows[x]) /\ g[<<x, w>>] \in W
  <2>1. \A x \in D : rows[x] \in V
    OBVIOUS
  <2>2. \A x \in D, w \in W : Added(w, rows[x]) \in W
    BY <2>1, AddedIs
  <2> HIDE DEF D, W
  <2> QED
    BY <2>2
<1>3. \A it : DistinctOf(it, kept, rows, choice) <=> it = [s \in SUBSET D |-> Pick(it, s)]
  BY DEF DistinctOf
<1>4. \A s \in SUBSET D : s # {} => choice[s] \in s
  OBVIOUS
<1> HIDE DEF D, W, g
<1>5. \E it : DistinctOf(it, kept, rows, choice)
  <2>1. PICK it : it \in [SUBSET D -> W] /\ FoldOf(it, D, kept, choice, g)
    BY <1>1, <1>2, <1>4, FoldExists
  <2>2. ASSUME NEW s \in SUBSET D PROVE it[s] = Pick(it, s)
    <3>1. CASE s = {}
      BY <2>1, <3>1 DEF FoldOf
    <3>2. CASE s # {}
      <4>1. it[s] = g[<<choice[s], it[s \ {choice[s]}]>>]
        BY <2>1, <3>2 DEF FoldOf
      <4>2. choice[s] \in D /\ it[s \ {choice[s]}] \in W
        BY <1>4, <2>1, <3>2
      <4> QED
        BY <1>2, <3>2, <4>1, <4>2
    <3> QED
      BY <3>1, <3>2
  <2>3. it = [s \in SUBSET D |-> Pick(it, s)]
    <3> HIDE DEF Pick
    <3> QED
      BY <2>1, <2>2
  <2> QED
    BY <1>3, <2>3
<1>6. ASSUME NEW it, DistinctOf(it, kept, rows, choice), NEW s \in SUBSET D PROVE it[s] = Pick(it, s)
  <2>1. it = [t \in SUBSET D |-> Pick(it, t)]
    BY <1>3, <1>6
  <2>2. PICK f : f = [t \in SUBSET D |-> Pick(it, t)]
    OBVIOUS
  <2>3. f[s] = Pick(it, s)
    BY <2>2
  <2>4. it = f
    BY <2>1, <2>2
  <2> HIDE DEF Pick
  <2> QED
    BY <2>3, <2>4
<1> QED
  BY <1>5, <1>6 DEF D, Unfolds

LEMMA LibMax ==
  ASSUME NEW S \in SUBSET Nat, S # {}, NEW bound \in Nat, \A n \in S : n <= bound
  PROVE  Lib!Max(S) \in S /\ \A n \in S : n <= Lib!Max(S)
<1>1. \E n \in S : \A m \in S : m <= n
  BY GreatestMember
<1>2. \E n \in S : \A m \in S : n >= m
  BY <1>1
<1>3. Lib!Max(S) \in S /\ \A m \in S : Lib!Max(S) >= m
  BY <1>2 DEF Lib!Max
<1> QED
  BY <1>3

\* The rows are added from the first one on.
LEMMA DistinctIs ==
  ASSUME NEW V, NEW rows, rows \in Seq(V), NEW kept \in Seq(V)
  PROVE  \E h : Runs(h, kept, rows) /\ Lib!Distinct(kept, rows) = h[Len(rows)]
<1> DEFINE D == DOMAIN rows
           choice == [s \in SUBSET D |-> Lib!Max(s)]
           P(it) == it = [s \in SUBSET D |->
                      IF s = {} THEN kept
                      ELSE IF rows[Lib!Max(s)] = NoHash \/ Lib!Known(it[s \ {Lib!Max(s)}], rows[Lib!Max(s)])
                           THEN it[s \ {Lib!Max(s)}]
                           ELSE Append(it[s \ {Lib!Max(s)}], rows[Lib!Max(s)])]
<1>1. Lib!Distinct(kept, rows) = (CHOOSE it : P(it))[D]
  BY Zenon DEF Lib!Distinct, Lib!FoldLeft, Lib!MapThenFoldSet
<1>2. D = 1..Len(rows) /\ Len(rows) \in Nat
  OBVIOUS
<1>3. \A s \in SUBSET D : s # {} => choice[s] = Lib!Max(s) /\ choice[s] \in s /\ \A n \in s : n <= choice[s]
  <2> SUFFICES ASSUME NEW s \in SUBSET D, s # {} PROVE Lib!Max(s) \in s /\ \A n \in s : n <= Lib!Max(s)
    OBVIOUS
  <2>1. s \in SUBSET Nat /\ \A n \in s : n <= Len(rows)
    BY <1>2
  <2> QED
    BY <1>2, <2>1, LibMax
<1>4. ASSUME NEW it PROVE P(it) <=> DistinctOf(it, kept, rows, choice)
  <2>1. \A s \in SUBSET D :
          (IF s = {} THEN kept
           ELSE IF rows[Lib!Max(s)] = NoHash \/ Lib!Known(it[s \ {Lib!Max(s)}], rows[Lib!Max(s)])
                THEN it[s \ {Lib!Max(s)}]
                ELSE Append(it[s \ {Lib!Max(s)}], rows[Lib!Max(s)]))
          = (IF s = {} THEN kept ELSE Added(it[s \ {choice[s]}], rows[choice[s]]))
    <3> SUFFICES ASSUME NEW s \in SUBSET D, s # {}
                 PROVE  choice[s] = Lib!Max(s)
      BY Zenon DEF Added
    <3> HIDE DEF choice
    <3> QED
      BY <1>3
  <2> HIDE DEF choice
  <2> QED
    BY <2>1 DEF DistinctOf
<1> HIDE DEF choice, P
<1>5. (\E it : P(it)) /\ \A it : P(it) => Unfolds(it, kept, rows, choice)
  <2>1. \A s \in SUBSET DOMAIN rows : s # {} => choice[s] \in s
    BY <1>3
  <2>2. /\ \E it : DistinctOf(it, kept, rows, choice)
        /\ \A it : DistinctOf(it, kept, rows, choice) => Unfolds(it, kept, rows, choice)
    BY <2>1, DistinctFolds
  <2> QED
    BY <1>4, <2>2
<1>6. PICK it : P(it) /\ it = (CHOOSE x : P(x))
  BY <1>5
<1>7. \A s \in SUBSET D : it[s] = IF s = {} THEN kept ELSE Added(it[s \ {choice[s]}], rows[choice[s]])
  BY <1>5, <1>6 DEF Unfolds
<1>8. PICK h : h = [n \in 0..Len(rows) |-> it[1..n]]
  OBVIOUS
<1>9. h[0] = kept
  <2>1. 0 \in 0..Len(rows) /\ 1..0 = {}
    BY <1>2
  <2>2. it[{}] = kept
    BY <1>7
  <2> QED
    BY <1>8, <2>1, <2>2
<1>10. ASSUME NEW i \in 1..Len(rows) PROVE h[i] = Added(h[i - 1], rows[i])
  <2>1. PICK s : s = 1..i
    OBVIOUS
  <2>2. s \in SUBSET D /\ s # {} /\ i \in s /\ \A n \in s : n <= i
    BY <1>2, <2>1
  <2>3. choice[s] = i
    <3>1. choice[s] \in s /\ i <= choice[s]
      BY <1>3, <2>2
    <3> QED
      BY <2>1, <2>2, <3>1
  <2>4. s \ {i} = 1..(i - 1)
    BY <2>1
  <2>5. it[s] = Added(it[1..(i - 1)], rows[i])
    BY <1>7, <2>2, <2>3, <2>4
  <2>6. h[i] = it[s] /\ h[i - 1] = it[1..(i - 1)]
    <3>1. i \in 0..Len(rows) /\ i - 1 \in 0..Len(rows)
      BY <1>2
    <3> QED
      BY <1>8, <2>1, <3>1
  <2> QED
    BY <2>5, <2>6
<1>11. Lib!Distinct(kept, rows) = h[Len(rows)]
  <2>1. Len(rows) \in 0..Len(rows)
    BY <1>2
  <2>2. h[Len(rows)] = it[D]
    BY <1>2, <1>8, <2>1
  <2>3. (CHOOSE x : P(x)) = it
    BY <1>6
  <2>4. PICK c : c = (CHOOSE x : P(x)) /\ c = it
    BY <2>3
  <2>5. Lib!Distinct(kept, rows) = c[D]
    BY <1>1, <2>4
  <2> QED
    BY <2>2, <2>4, <2>5
<1> QED
  BY <1>9, <1>10, <1>11 DEF Runs

LEMMA RunsStay ==
  ASSUME NEW V, NEW rows, rows \in Seq(V), NEW kept \in Seq(V), NEW h, Runs(h, kept, rows)
  PROVE  \A n \in 0..Len(rows) : /\ h[n] \in Seq(V) /\ Len(h[n]) <= Len(kept) + n
                                 /\ Listed(h[n]) \subseteq Listed(kept) \cup Listed(rows)
<1> DEFINE Ok(n) == /\ h[n] \in Seq(V) /\ Len(h[n]) <= Len(kept) + n
                    /\ Listed(h[n]) \subseteq Listed(kept) \cup Listed(rows)
           P == {n \in Nat : n <= Len(rows) => Ok(n)}
<1>1. 0 \in P
  BY DEF Runs
<1>2. ASSUME NEW n \in Nat, n \in P, n + 1 <= Len(rows) PROVE Ok(n + 1)
  <2>1. n <= Len(rows) /\ n + 1 \in 1..Len(rows) /\ (n + 1) - 1 = n
    BY <1>2
  <2>2. PICK k : k = h[n]
    OBVIOUS
  <2>3. k \in Seq(V) /\ Len(k) <= Len(kept) + n /\ Listed(k) \subseteq Listed(kept) \cup Listed(rows)
    BY <1>2, <2>1, <2>2
  <2>4. PICK row : row = rows[n + 1]
    OBVIOUS
  <2>5. row \in V /\ row \in Listed(rows)
    BY <2>1, <2>4 DEF Listed
  <2>6. h[n + 1] = Added(k, row)
    BY <2>1, <2>2, <2>4 DEF Runs
  <2>7. /\ Added(k, row) \in Seq(V) /\ Listed(Added(k, row)) \subseteq Listed(k) \cup {row}
        /\ Len(Added(k, row)) <= Len(k) + 1
    BY <2>3, <2>5, AddedIs
  <2>8. PICK t : t = Added(k, row)
    OBVIOUS
  <2>9. t \in Seq(V) /\ Listed(t) \subseteq Listed(kept) \cup Listed(rows) /\ Len(t) <= Len(kept) + (n + 1)
    <3>1. Len(t) \in Nat /\ Len(k) \in Nat /\ Len(kept) \in Nat /\ Len(t) <= Len(k) + 1
      BY <2>3, <2>7, <2>8
    <3>2. Len(t) <= Len(kept) + (n + 1)
      BY <3>1, <2>3
    <3>3. t \in Seq(V) /\ Listed(t) \subseteq Listed(kept) \cup Listed(rows)
      BY <2>3, <2>5, <2>7, <2>8
    <3> QED
      BY <3>2, <3>3
  <2> QED
    BY <2>6, <2>8, <2>9
<1>3. \A n \in Nat : n \in P => n + 1 \in P
  BY <1>2
<1> HIDE DEF Ok
<1>4. Nat \subseteq P
  <2> HIDE DEF P
  <2> QED
    BY <1>1, <1>3, NaturalInduction
<1>5. \A n \in 0..Len(rows) : Ok(n)
  BY <1>4
<1> QED
  BY <1>5 DEF Ok

\* Adding the rows that follow goes on as adding all of them does.
LEMMA RunsAgree ==
  ASSUME NEW V, NEW rows, rows \in Seq(V), NEW kept, NEW h, Runs(h, kept, rows),
         NEW begin \in Nat, NEW more, more \in Seq(V), begin + Len(more) <= Len(rows),
         \A i \in 1..Len(more) : more[i] = rows[begin + i],
         NEW k, Runs(k, h[begin], more)
  PROVE  k[Len(more)] = h[begin + Len(more)]
<1> DEFINE P == {n \in Nat : n <= Len(more) => k[n] = h[begin + n]}
<1>0. Len(more) \in Nat /\ Len(rows) \in Nat
  OBVIOUS
<1>1. 0 \in P
  BY DEF Runs
<1>2. ASSUME NEW n \in Nat, n \in P, n + 1 <= Len(more) PROVE k[n + 1] = h[begin + (n + 1)]
  <2>1. n + 1 \in 1..Len(more) /\ (n + 1) - 1 = n /\ k[n] = h[begin + n]
    BY <1>0, <1>2
  <2>2. PICK j : j = begin + (n + 1)
    OBVIOUS
  <2>3. j \in 1..Len(rows) /\ j - 1 = begin + n
    BY <1>0, <1>2, <2>2
  <2>4. h[j] = Added(h[begin + n], rows[j])
    BY <2>3 DEF Runs
  <2>5. k[n + 1] = Added(k[n], more[n + 1])
    BY <2>1 DEF Runs
  <2>6. more[n + 1] = rows[j]
    BY <2>1, <2>2
  <2> QED
    BY <2>1, <2>2, <2>4, <2>5, <2>6
<1>3. \A n \in Nat : n \in P => n + 1 \in P
  BY <1>2
<1>4. Nat \subseteq P
  <2> HIDE DEF P
  <2> QED
    BY <1>1, <1>3, NaturalInduction
<1> QED
  BY <1>0, <1>4

\* The songs are what is kept of the first rows of a list.
Part(songs, rows, n) == n \in 0..Len(rows) /\ \E h : Runs(h, <<>>, rows) /\ songs = h[n]

LEMMA PartBegins ==
  ASSUME NEW V, NEW rows, rows \in Seq(V)
  PROVE  Part(<<>>, rows, 0)
<1>1. <<>> \in Seq(V)
  OBVIOUS
<1>2. PICK h : Runs(h, <<>>, rows)
  BY <1>1, DistinctIs
<1> QED
  BY <1>2 DEF Part, Runs

LEMMA PartGrows ==
  ASSUME NEW V, NEW rows, rows \in Seq(V), NEW songs, NEW n, Part(songs, rows, n),
         NEW more, more \in Seq(V), n + Len(more) <= Len(rows),
         \A i \in 1..Len(more) : more[i] = rows[n + i]
  PROVE  Part(Lib!Distinct(songs, more), rows, n + Len(more))
<1>1. PICK h : Runs(h, <<>>, rows) /\ songs = h[n]
  BY DEF Part
<1>2. n \in Nat /\ n \in 0..Len(rows)
  BY DEF Part
<1>3. songs \in Seq(V)
  <2>1. <<>> \in Seq(V)
    OBVIOUS
  <2> QED
    BY <1>1, <1>2, <2>1, RunsStay
<1>4. PICK k : Runs(k, songs, more) /\ Lib!Distinct(songs, more) = k[Len(more)]
  BY <1>3, DistinctIs
<1>5. k[Len(more)] = h[n + Len(more)]
  BY <1>1, <1>2, <1>4, RunsAgree
<1>6. n + Len(more) \in 0..Len(rows)
  BY <1>2
<1> QED
  BY <1>1, <1>4, <1>5, <1>6 DEF Part

LEMMA PartIs ==
  ASSUME NEW V, NEW rows, rows \in Seq(V), NEW songs, NEW n, Part(songs, rows, n)
  PROVE  /\ songs \in Seq(V) /\ Len(songs) <= n
         /\ songs = Lib!Whole(SubSeq(rows, 1, n))
<1>1. PICK h : Runs(h, <<>>, rows) /\ songs = h[n]
  BY DEF Part
<1>2. n \in 0..Len(rows) /\ <<>> \in Seq(V) /\ Len(<<>>) = 0
  BY DEF Part
<1>3. songs \in Seq(V) /\ Len(songs) <= n
  <2>1. h[n] \in Seq(V) /\ Len(h[n]) <= 0 + n
    BY <1>1, <1>2, RunsStay
  <2> QED
    BY <1>1, <1>2, <2>1
<1>4. PICK first : first = SubSeq(rows, 1, n)
  OBVIOUS
<1>5. first \in Seq(V) /\ Len(first) = n /\ \A i \in 1..n : first[i] = rows[i]
  <2>1. PICK one \in Nat : one = 1
    OBVIOUS
  <2>2. PICK len \in Nat : len = Len(rows) /\ \A i \in 1..len : rows[i] \in V
    OBVIOUS
  <2>3. n \in Nat /\ n <= len
    BY <1>2, <2>2
  <2>4. \A i \in one..n : rows[i] \in V
    BY <2>1, <2>2, <2>3
  <2>5. /\ first \in Seq(V) /\ Len(first) = IF one <= n THEN n - one + 1 ELSE 0
        /\ \A i \in 1..(n - one + 1) : first[i] = rows[one + i - 1]
    BY <1>4, <2>1, <2>3, <2>4, SubSeqProperties
  <2>6. (IF one <= n THEN n - one + 1 ELSE 0) = n /\ n - one + 1 = n /\ \A i \in 1..n : one + i - 1 = i
    BY ONLY <2>1, <2>3
  <2> QED
    BY <2>5, <2>6
<1>6. PICK k : Runs(k, <<>>, first) /\ Lib!Distinct(<<>>, first) = k[Len(first)]
  BY <1>2, <1>5, DistinctIs
<1>7. PICK zero \in Nat : zero = 0
  OBVIOUS
<1>8. h[zero] = <<>> /\ zero + n = n /\ \A i \in 1..n : zero + i = i
  BY <1>1, <1>2, <1>7 DEF Runs
<1>9. Runs(k, h[zero], first) /\ zero + Len(first) <= Len(rows) /\ \A i \in 1..Len(first) : first[i] = rows[zero + i]
  BY <1>2, <1>5, <1>6, <1>8
<1>10. k[Len(first)] = h[zero + Len(first)]
  <2>1. first \in Seq(V)
    BY <1>5
  <2> QED
    BY ONLY <1>1, <1>7, <1>9, <2>1, rows \in Seq(V), RunsAgree
<1>11. Lib!Distinct(<<>>, first) = songs
  BY <1>1, <1>5, <1>6, <1>8, <1>10
<1> QED
  BY <1>3, <1>4, <1>11 DEF Lib!Whole

LEMMA DistinctStays ==
  ASSUME NEW V, NEW rows, rows \in Seq(V), NEW kept \in Seq(V)
  PROVE  /\ Lib!Distinct(kept, rows) \in Seq(V)
         /\ Listed(Lib!Distinct(kept, rows)) \subseteq Listed(kept) \cup Listed(rows)
<1>1. PICK h : Runs(h, kept, rows) /\ Lib!Distinct(kept, rows) = h[Len(rows)]
  BY DistinctIs
<1>2. Len(rows) \in 0..Len(rows)
  OBVIOUS
<1> QED
  BY <1>1, <1>2, RunsStay


LEMMA LibMaxOf ==
  ASSUME NEW a \in Int, NEW b \in Int, NEW S, S = {a, b}
  PROVE  /\ Lib!Max(S) = IF a >= b THEN a ELSE b
         /\ Lib!Min(S) = IF a <= b THEN a ELSE b
<1>1. (\E x \in S : \A y \in S : x >= y) /\ (\E x \in S : \A y \in S : x <= y)
  OBVIOUS
<1>2. Lib!Max(S) \in S /\ \A y \in S : Lib!Max(S) >= y
  BY <1>1 DEF Lib!Max
<1>3. Lib!Min(S) \in S /\ \A y \in S : Lib!Min(S) <= y
  BY <1>1 DEF Lib!Min
<1> QED
  BY <1>2, <1>3

LEMMA LibClamp ==
  ASSUME NEW hi \in Int, NEW x \in Int, 1 <= x, x <= hi
  PROVE  Lib!Clamp(x, 1, hi) = x
<1>1. PICK one \in Int : one = 1
  OBVIOUS
<1>2. PICK S : S = {x, hi}
  OBVIOUS
<1>3. PICK y, T : y = Lib!Min(S) /\ T = {one, y}
  OBVIOUS
<1>4. y = x
  BY <1>2, <1>3, LibMaxOf
<1>5. Lib!Max(T) = x
  BY <1>1, <1>3, <1>4, LibMaxOf
<1>6. Lib!Clamp(x, 1, hi) = Lib!Max(T)
  BY <1>1, <1>2, <1>3, Zenon DEF Lib!Clamp
<1> QED
  BY <1>5, <1>6

LEMMA PagesFollow ==
  ASSUME NEW number \in 1..1000
  PROVE  /\ Lib!BeginIdx(number) \in Nat
         /\ number = 1 => Lib!BeginIdx(number) = 0
         /\ number + 1 <= 1000 => Lib!BeginIdx(number + 1) = Lib!BeginIdx(number) + ShelfPage
<1>1. ShelfPage \in Int /\ 1 <= ShelfPage /\ ShelfPage <= 200
  BY LibraryAssumption
<1>2. PICK size : size = Lib!Clamp(ShelfPage, 1, 200) /\ size = ShelfPage
  BY <1>1, LibClamp
<1>3. \A k \in 1..1000 : Lib!Clamp(k, 1, 1000) = k
  BY LibClamp
<1>4. \A k \in 1..1000 : Lib!BeginIdx(k) = (k - 1) * size
  BY <1>2, <1>3 DEF Lib!BeginIdx
<1>5. PICK k : k = number - 1 /\ k \in Nat
  OBVIOUS
<1>6. Lib!BeginIdx(number) = k * size /\ size \in Nat
  BY <1>1, <1>2, <1>4, <1>5
<1>7. k * size \in Nat /\ (k + 1) * size = k * size + size /\ 0 * size = 0
  <2>1. \A p, q \in Nat : p * q \in Nat /\ (p + 1) * q = p * q + q /\ 0 * q = 0
    OBVIOUS
  <2> QED
    BY ONLY <2>1, <1>5, <1>6
<1>8. number + 1 <= 1000 => Lib!BeginIdx(number + 1) = (k + 1) * size
  BY <1>4, <1>5
<1> QED
  BY <1>2, <1>5, <1>6, <1>7, <1>8

\* A page of a list that begins within it.
PageFits(r, rows, begin) ==
  /\ begin + Len(r) <= Len(rows) /\ Len(r) <= ShelfPage
  /\ Len(r) < ShelfPage => begin + Len(r) = Len(rows)
  /\ \A i \in 1..Len(r) : r[i] = rows[begin + i]

LEMMA PageOfShelf ==
  ASSUME NEW V, NEW rows, rows \in Seq(V), NEW number, number \in 1..1000
  PROVE  /\ Lib!Rows(rows, number) \in Seq(V) /\ Listed(Lib!Rows(rows, number)) \subseteq Listed(rows)
         /\ Lib!BeginIdx(number) <= Len(rows) => PageFits(Lib!Rows(rows, number), rows, Lib!BeginIdx(number))
<1>1. PICK begin \in Nat : begin = Lib!BeginIdx(number)
  BY PagesFollow
<1>2. PICK len \in Nat : len = Len(rows)
  OBVIOUS
<1>3. PICK size \in Nat : size = ShelfPage /\ 1 <= size
  BY LibraryAssumption
<1>4. PICK far \in Nat : far = begin + size
  OBVIOUS
<1>5. PICK ends, last : ends = {far, len} /\ last = Lib!Min(ends)
  OBVIOUS
<1>6. last = IF far <= len THEN far ELSE len
  BY <1>5, LibMaxOf
<1>7. last \in Nat /\ last <= len
  BY <1>6
<1>8. PICK first \in Nat : first = begin + 1
  OBVIOUS
<1>9. PICK r : r = SubSeq(rows, first, last)
  OBVIOUS
<1>10. r = Lib!Rows(rows, number)
  BY <1>1, <1>2, <1>3, <1>4, <1>5, <1>8, <1>9 DEF Lib!Rows
<1>11. \A i \in first..last : i \in 1..len
  BY <1>7, <1>8
<1>12. \A i \in first..last : rows[i] \in V
  BY <1>2, <1>11
<1>13. /\ r \in Seq(V) /\ Len(r) = IF first <= last THEN last - first + 1 ELSE 0
       /\ \A i \in 1..(last - first + 1) : r[i] = rows[first + i - 1]
  BY <1>7, <1>9, <1>12, SubSeqProperties
<1>14. PICK count \in Nat : count = Len(r)
  BY <1>13
<1>15. count = IF begin < last THEN last - begin ELSE 0
  BY ONLY <1>7, <1>8, <1>13, <1>14
<1>16. ASSUME NEW i \in 1..count PROVE r[i] = rows[begin + i] /\ begin + i \in 1..len
  <2>1. i \in 1..(last - first + 1) /\ first + i - 1 = begin + i /\ begin + i \in 1..len
    BY ONLY <1>7, <1>8, <1>15, <1>16, begin \in Nat, count \in Nat, len \in Nat
  <2>2. r[i] = rows[first + i - 1]
    BY <1>13, <2>1
  <2> QED
    BY <2>1, <2>2
<1>17. Listed(r) \subseteq Listed(rows)
  <2>1. DOMAIN r = 1..count /\ DOMAIN rows = 1..len
    BY <1>2, <1>13, <1>14
  <2> QED
    BY <1>16, <2>1 DEF Listed
<1>18. ASSUME begin <= len
       PROVE  begin + count <= len /\ count <= size /\ (count < size => begin + count = len)
  BY ONLY <1>4, <1>6, <1>15, <1>18, begin \in Nat, count \in Nat, len \in Nat, size \in Nat, far \in Nat
<1>19. \A i \in 1..count : r[i] = rows[begin + i]
  BY <1>16
<1>20. begin <= len => PageFits(r, rows, begin)
  BY <1>2, <1>3, <1>14, <1>18, <1>19 DEF PageFits
<1> QED
  BY <1>1, <1>2, <1>10, <1>13, <1>17, <1>20

-----------------------------------------------------------------------------
(* A list is played whole: the library                                       *)

LibFields == {"account", "ready", "listEpoch", "lists", "listsLoading", "listPage", "listsMore", "epoch", "open"}
OpenFields == {"id", "tracks", "pages", "total", "loading", "complete", "pending"}
WireFields == {"kind", "epoch", "id", "page", "done", "ok", "rows", "total"}
AskedFields == {"rows", "still", "counted", "opens", "edits", "trouble"}

ShelfSongs == UNION {UNION {Listed(lists[id]) : id \in DOMAIN lists} : lists \in Shelves}
SongsOf(rows) == [i \in DOMAIN rows |-> rows[i].hash]

LibPage(l) == /\ DOMAIN l = LibFields /\ DOMAIN l.open = OpenFields /\ l.epoch \in Nat
              /\ l.open.tracks \in Seq(ShelfSongs) /\ l.open.id \in Owned \cup Public \cup {NoList}
LibShelf(s) == DOMAIN s = Owned \cup Public /\ \A id \in Owned \cup Public : s[id] \in Seq(ShelfSongs)
LibAsked(a) == DOMAIN a = AskedFields /\ a.rows \in Seq(ShelfSongs)

\* What is loaded is of the rows the list had, and a list taken for complete is all
\* that could be known of it.
LibHolds(o, a) == /\ Listed(o.tracks) \subseteq Listed(a.rows)
                  /\ o.complete /\ a.still => Lib!AsFarAsKnown(o.tracks, a.rows, a.counted)

\* A request of the present load asks for the page that follows those loaded; while
\* the list stays as it was, the pages before it and its answer are parts of it.
LibCall(m, l) == /\ DOMAIN m = WireFields
                 /\ m.kind = "tracks" => /\ l.ready /\ m.epoch \in Nat /\ m.epoch <= l.epoch
                                         /\ m.id \in Owned \cup Public /\ m.page \in 1..PageLimit
Latest(m, l) == m.kind = "tracks" /\ m.epoch = l.epoch
Follows(m, o, s, a) ==
  /\ m.id = o.id /\ ~o.complete /\ Listed(s[m.id]) \subseteq Listed(a.rows)
  /\ m.done /\ m.ok => /\ SongsOf(m.rows) \in Seq(ShelfSongs) /\ Len(SongsOf(m.rows)) = Len(m.rows)
                       /\ Listed(SongsOf(m.rows)) \subseteq Listed(a.rows)
FollowsStill(m, o, s, a) ==
  /\ s[m.id] = a.rows /\ a.counted = (m.id \notin Silent)
  /\ o.total \in Nat /\ (a.counted => o.total \in {0, Len(a.rows)})
  /\ Part(o.tracks, a.rows, Lib!BeginIdx(m.page))
  /\ m.done /\ m.ok => /\ SongsOf(m.rows) = Lib!Rows(a.rows, m.page)
                       /\ m.total = IF a.counted THEN Len(a.rows) ELSE Len(m.rows)
LibCalls(l, s, w, a) ==
  \A m \in w : LibCall(m, l) /\ (Latest(m, l) => Follows(m, l.open, s, a) /\ (a.still => FollowsStill(m, l.open, s, a)))
OneLatest(l, w) == \A m, k \in w : Latest(m, l) /\ Latest(k, l) => m = k

LibOwned(l, s, w, a) == /\ LibPage(l) /\ LibShelf(s) /\ LibAsked(a) /\ LibHolds(l.open, a)
                        /\ LibCalls(l, s, w, a) /\ OneLatest(l, w)
LibPlayed(p) == /\ Listed(p.tracks) \subseteq Listed(p.rows)
                /\ p.still => Lib!AsFarAsKnown(p.tracks, p.rows, p.counted)
LibInv == LibOwned(lib, shelf, wire, asked) /\ LibPlayed(played)

-----------------------------------------------------------------------------
LEMMA LibSame ==
  ASSUME NEW l, NEW s, NEW w, NEW a, LibOwned(l, s, w, a),
         NEW q, DOMAIN q = LibFields, DOMAIN q.open = OpenFields, q.epoch = l.epoch, l.ready => q.ready,
         q.open.id = l.open.id, q.open.tracks = l.open.tracks, q.open.total = l.open.total,
         q.open.complete = l.open.complete,
         NEW b, DOMAIN b = AskedFields, b.rows = a.rows, b.still = a.still, b.counted = a.counted
  PROVE  LibOwned(q, s, w, b)
<1>1. LibPage(q) /\ LibShelf(s) /\ LibAsked(b) /\ LibHolds(q.open, b) /\ OneLatest(q, w)
  BY DEF LibOwned, LibPage, LibAsked, LibHolds, OneLatest, Latest
<1>2. LibCalls(q, s, w, b)
  <2> SUFFICES ASSUME NEW m \in w
               PROVE  LibCall(m, q) /\ (Latest(m, q) => Follows(m, q.open, s, b) /\ (b.still => FollowsStill(m, q.open, s, b)))
    BY DEF LibCalls
  <2>1. LibCall(m, l) /\ (Latest(m, l) => Follows(m, l.open, s, a) /\ (a.still => FollowsStill(m, l.open, s, a)))
    BY DEF LibOwned, LibCalls
  <2> QED
    BY <2>1 DEF LibCall, Latest, Follows, FollowsStill
<1> QED
  BY <1>1, <1>2 DEF LibOwned

LEMMA LibFewer ==
  ASSUME NEW l, NEW s, NEW w, NEW a, LibOwned(l, s, w, a), NEW v, v \subseteq w
  PROVE  LibOwned(l, s, v, a)
BY DEF LibOwned, LibCalls, OneLatest

\* The request for the lists is none for songs.
LEMMA LibAsksLists ==
  ASSUME NEW l, NEW s, NEW w, NEW a, LibOwned(l, s, w, a), NEW m, DOMAIN m = WireFields, m.kind = "lists"
  PROVE  LibOwned(l, s, w \cup {m}, a)
BY DEF LibOwned, LibCalls, OneLatest, LibCall, Latest

\* A load that was given up: no request is of the present load.
LEMMA LibGivesUp ==
  ASSUME NEW l, NEW s, NEW w, NEW a, LibOwned(l, s, w, a),
         NEW q, LibPage(q), q.epoch = l.epoch + 1, l.ready => q.ready,
         NEW b, LibAsked(b), LibHolds(q.open, b)
  PROVE  LibOwned(q, s, w, b) /\ \A m \in w : ~Latest(m, q)
<1>1. ASSUME NEW m \in w PROVE LibCall(m, q) /\ ~Latest(m, q)
  <2>1. LibCall(m, l)
    BY DEF LibOwned, LibCalls
  <2>2. l.epoch \in Nat
    BY DEF LibOwned, LibPage
  <2> QED
    BY <2>1, <2>2 DEF LibCall, Latest
<1> QED
  BY <1>1 DEF LibOwned, LibCalls, OneLatest

\* The request of the present load.
LEMMA LibAsksSongs ==
  ASSUME NEW l, NEW s, NEW w, NEW a, LibOwned(l, s, w, a), \A m \in w : ~Latest(m, l),
         NEW n, LibCall(n, l), Follows(n, l.open, s, a), a.still => FollowsStill(n, l.open, s, a)
  PROVE  LibOwned(l, s, w \cup {n}, a)
BY DEF LibOwned, LibCalls, OneLatest

\* The answer of the present load was taken.
LEMMA LibTakes ==
  ASSUME NEW l, NEW s, NEW w, NEW a, LibOwned(l, s, w, a), NEW m \in w, Latest(m, l),
         NEW q, LibPage(q), q.epoch = l.epoch, q.ready = l.ready, LibHolds(q.open, a)
  PROVE  LibOwned(q, s, w \ {m}, a) /\ \A k \in w \ {m} : ~Latest(k, q)
<1>1. ASSUME NEW k \in w \ {m} PROVE LibCall(k, q) /\ ~Latest(k, q)
  <2>1. LibCall(k, l) /\ ~Latest(k, l)
    BY DEF LibOwned, LibCalls, OneLatest
  <2> QED
    BY <2>1 DEF LibCall, Latest
<1> QED
  BY <1>1 DEF LibOwned, LibCalls, OneLatest

LEMMA LibBegins ==
  ASSUME Lib!LibraryInit
  PROVE  LibInv
<1>1. /\ wire = {} /\ shelf \in Shelves
      /\ lib = [account |-> Nobody, ready |-> FALSE, listEpoch |-> 0, lists |-> {}, listsLoading |-> FALSE, listPage |-> 0,
                listsMore |-> FALSE, epoch |-> 0,
                open |-> [id |-> NoList, tracks |-> <<>>, pages |-> {}, total |-> 0,
                          loading |-> FALSE, complete |-> FALSE, pending |-> 0]]
      /\ played = [tracks |-> <<>>, rows |-> <<>>, still |-> TRUE, counted |-> TRUE]
      /\ asked = [rows |-> <<>>, still |-> TRUE, counted |-> TRUE, opens |-> 0, edits |-> 0, trouble |-> 0]
  BY DEF Lib!LibraryInit, Lib!Closed
<1>2. DOMAIN lib = LibFields /\ lib.epoch = 0 /\ DOMAIN lib.open = OpenFields /\ lib.open.tracks = <<>>
      /\ lib.open.id = NoList /\ ~lib.open.complete
  BY ONLY <1>1 DEF LibFields, OpenFields
<1>3. DOMAIN asked = AskedFields /\ asked.rows = <<>> /\ asked.still /\ played.tracks = <<>> /\ played.rows = <<>>
      /\ played.counted = TRUE
  BY ONLY <1>1 DEF AskedFields
<1>4. <<>> \in Seq(ShelfSongs) /\ Len(<<>>) = 0 /\ Listed(<<>>) = {}
  BY DEF Listed
<1>5. Lib!AsFarAsKnown(<<>>, <<>>, TRUE)
  <2>1. PICK none : none = <<>> /\ none \in Seq(ShelfSongs)
    BY <1>4
  <2>2. none = Lib!Whole(SubSeq(none, 1, 0))
    BY <2>1, PartBegins, PartIs
  <2>3. Len(none) = 0 /\ 0 \in 0..Len(none)
    BY <2>1
  <2> QED
    BY <2>1, <2>2, <2>3 DEF Lib!AsFarAsKnown
<1>6. LibShelf(shelf)
  <2>1. DOMAIN shelf = Owned \cup Public
    BY <1>1, LibraryAssumption
  <2>2. ASSUME NEW id \in Owned \cup Public PROVE shelf[id] \in Seq(ShelfSongs)
    <3>1. PICK t : t = shelf[id]
      OBVIOUS
    <3>2. t \in Seq(Listed(t))
      BY <1>1, <3>1, LibraryAssumption DEF Listed
    <3>3. Listed(t) \subseteq ShelfSongs
      BY <1>1, <2>1, <3>1 DEF ShelfSongs
    <3> QED
      BY <3>1, <3>2, <3>3
  <2> QED
    BY <2>1, <2>2 DEF LibShelf
<1>7. LibPage(lib) /\ LibAsked(asked) /\ LibHolds(lib.open, asked) /\ LibCalls(lib, shelf, wire, asked) /\ OneLatest(lib, wire)
  BY <1>1, <1>2, <1>3, <1>4 DEF LibPage, LibAsked, LibHolds, LibCalls, OneLatest
<1> QED
  BY <1>3, <1>4, <1>5, <1>6, <1>7 DEF LibInv, LibOwned, LibPlayed

\* refreshPlaylists() asks for the lists, of whatever account it was told of.
LEMMA LibRefreshes ==
  ASSUME NEW l, NEW s, NEW w, NEW a, LibOwned(l, s, w, a)
  PROVE  LET r == Lib!Refreshed(l, w) IN LibOwned(r.l, s, r.w, a)
<1>1. CASE l.account = Nobody \/ ~l.ready
  BY <1>1 DEF Lib!Refreshed
<1>2. CASE ~(l.account = Nobody \/ ~l.ready)
  <2>1. PICK n : n = [l EXCEPT !.listEpoch = @ + 1, !.listsLoading = TRUE]
    OBVIOUS
  <2>2. PICK m : m = [kind |-> "lists", epoch |-> n.listEpoch, id |-> l.account, page |-> 1, done |-> FALSE,
                      ok |-> FALSE, rows |-> <<>>, total |-> 0]
    OBVIOUS
  <2>3. Lib!Refreshed(l, w) = [l |-> n, w |-> w \cup {m}]
    BY <1>2, <2>1, <2>2 DEF Lib!Refreshed, Lib!Ask
  <2>4. DOMAIN l = LibFields /\ DOMAIN l.open = OpenFields /\ DOMAIN a = AskedFields
    BY DEF LibOwned, LibPage, LibAsked
  <2>5. DOMAIN n = LibFields /\ n.open = l.open /\ n.epoch = l.epoch /\ n.ready = l.ready
    BY ONLY <2>1, <2>4 DEF LibFields
  <2>6. LibOwned(n, s, w, a)
    BY <2>4, <2>5, LibSame
  <2>7. DOMAIN m = WireFields /\ m.kind = "lists"
    BY ONLY <2>2 DEF WireFields
  <2>8. LibOwned(n, s, w \cup {m}, a)
    BY <2>6, <2>7, LibAsksLists
  <2>9. PICK r : r = [l |-> n, w |-> w \cup {m}]
    OBVIOUS
  <2>10. r.l = n /\ r.w = w \cup {m}
    BY ONLY <2>9
  <2> QED
    BY <2>3, <2>8, <2>9, <2>10
<1> QED
  BY <1>1, <1>2

\* A closed list holds nothing.
LEMMA LibCloses ==
  ASSUME NEW o, DOMAIN o = OpenFields, o.tracks = <<>>, ~o.complete, NEW a
  PROVE  LibHolds(o, a) /\ o.tracks \in Seq(ShelfSongs)
BY DEF LibHolds, Listed

LEMMA LibAccount ==
  ASSUME LibInv, NEW account, Lib!setAccount(account)
  PROVE  LibInv'
<1>1. PICK c : c = [id |-> NoList, tracks |-> <<>>, pages |-> {}, total |-> 0,
                    loading |-> FALSE, complete |-> FALSE, pending |-> 0]
  OBVIOUS
<1>2. PICK q : q = [lib EXCEPT !.account = account, !.listEpoch = @ + 1, !.epoch = @ + 1,
                           !.lists = {}, !.listsLoading = FALSE, !.listsMore = FALSE, !.open = c]
  OBVIOUS
<1>3. PICK r : r = Lib!Refreshed(q, wire)
  OBVIOUS
<1>4. PICK b : b = [asked EXCEPT !.opens = @ + 1]
  OBVIOUS
<1>5. lib' = r.l /\ wire' = r.w /\ asked' = b /\ shelf' = shelf /\ played' = played
  BY <1>1, <1>2, <1>3, <1>4 DEF Lib!setAccount, Lib!Closed
<1>6. /\ LibOwned(lib, shelf, wire, asked) /\ LibPlayed(played) /\ DOMAIN lib = LibFields
      /\ DOMAIN asked = AskedFields /\ lib.epoch \in Nat /\ asked.rows \in Seq(ShelfSongs)
  BY DEF LibInv, LibOwned, LibPage, LibAsked
<1>7. DOMAIN c = OpenFields /\ c.tracks = <<>> /\ ~c.complete /\ c.id = NoList
  BY ONLY <1>1 DEF OpenFields
<1>8. DOMAIN q = LibFields /\ q.open = c /\ q.epoch = lib.epoch + 1 /\ q.ready = lib.ready
  BY ONLY <1>2, <1>6 DEF LibFields
<1>9. DOMAIN b = AskedFields /\ b.rows = asked.rows
  BY ONLY <1>4, <1>6 DEF AskedFields
<1>10. LibPage(q) /\ LibAsked(b) /\ LibHolds(q.open, b)
  BY <1>6, <1>7, <1>8, <1>9, LibCloses DEF LibPage, LibAsked
<1>11. LibOwned(q, shelf, wire, b)
  BY <1>6, <1>8, <1>10, LibGivesUp
<1>12. LibOwned(r.l, shelf, r.w, b)
  BY <1>3, <1>11, LibRefreshes
<1> QED
  BY <1>5, <1>6, <1>12 DEF LibInv

LEMMA LibLists ==
  ASSUME LibInv, Lib!refreshPlaylists \/ Lib!morePlaylists \/ Lib!ready
  PROVE  LibInv'
<1>1. /\ LibOwned(lib, shelf, wire, asked) /\ LibPlayed(played) /\ DOMAIN lib = LibFields
      /\ DOMAIN asked = AskedFields /\ DOMAIN lib.open = OpenFields
  BY DEF LibInv, LibOwned, LibPage, LibAsked
<1>2. CASE Lib!refreshPlaylists
  <2>1. PICK q : q = [lib EXCEPT !.listPage = 0]
    OBVIOUS
  <2>2. PICK r : r = Lib!Refreshed(q, wire)
    OBVIOUS
  <2>3. PICK b : b = [asked EXCEPT !.opens = @ + 1]
    OBVIOUS
  <2>4. lib' = r.l /\ wire' = r.w /\ asked' = b /\ shelf' = shelf /\ played' = played
    BY <1>2, <2>1, <2>2, <2>3 DEF Lib!refreshPlaylists
  <2>5. DOMAIN q = LibFields /\ q.open = lib.open /\ q.epoch = lib.epoch /\ q.ready = lib.ready
    BY ONLY <1>1, <2>1 DEF LibFields
  <2>6. DOMAIN b = AskedFields /\ b.rows = asked.rows /\ b.still = asked.still /\ b.counted = asked.counted
    BY ONLY <1>1, <2>3 DEF AskedFields
  <2>7. LibOwned(q, shelf, wire, b)
    BY <1>1, <2>5, <2>6, LibSame
  <2>8. LibOwned(r.l, shelf, r.w, b)
    BY <2>2, <2>7, LibRefreshes
  <2> QED
    BY <1>1, <2>4, <2>8 DEF LibInv
<1>3. CASE Lib!morePlaylists
  <2>1. PICK q : q = [lib EXCEPT !.listsLoading = TRUE]
    OBVIOUS
  <2>2. PICK m : m = [kind |-> "lists", epoch |-> lib.listEpoch, id |-> lib.account, page |-> lib.listPage + 1,
                      done |-> FALSE, ok |-> FALSE, rows |-> <<>>, total |-> 0]
    OBVIOUS
  <2>3. lib' = q /\ wire' = wire \cup {m} /\ asked' = asked /\ shelf' = shelf /\ played' = played
    BY <1>3, <2>1, <2>2 DEF Lib!morePlaylists, Lib!Ask
  <2>4. DOMAIN q = LibFields /\ q.open = lib.open /\ q.epoch = lib.epoch /\ q.ready = lib.ready
    BY ONLY <1>1, <2>1 DEF LibFields
  <2>5. DOMAIN m = WireFields /\ m.kind = "lists"
    BY ONLY <2>2 DEF WireFields
  <2>6. LibOwned(q, shelf, wire, asked)
    BY <1>1, <2>4, LibSame
  <2>7. LibOwned(q, shelf, wire \cup {m}, asked)
    BY <2>5, <2>6, LibAsksLists
  <2> QED
    BY <1>1, <2>3, <2>7 DEF LibInv
<1>4. CASE Lib!ready
  <2>1. PICK q : q = [lib EXCEPT !.ready = TRUE]
    OBVIOUS
  <2>2. lib' = q /\ wire' = wire /\ asked' = asked /\ shelf' = shelf /\ played' = played
    BY <1>4, <2>1 DEF Lib!ready
  <2>3. DOMAIN q = LibFields /\ q.open = lib.open /\ q.epoch = lib.epoch /\ q.ready
    BY ONLY <1>1, <2>1 DEF LibFields
  <2>4. LibOwned(q, shelf, wire, asked)
    BY <1>1, <2>3, LibSame
  <2> QED
    BY <1>1, <2>2, <2>4 DEF LibInv
<1> QED
  BY <1>2, <1>3, <1>4

\* A load begins with the first page, of the list as it is.
LEMMA LibOpens ==
  ASSUME LibInv, NEW id \in Owned \cup Public, Lib!Tracks(id), UNCHANGED <<shelf, played>>
  PROVE  LibInv'
<1>1. /\ LibOwned(lib, shelf, wire, asked) /\ LibPlayed(played) /\ DOMAIN lib = LibFields
      /\ DOMAIN asked = AskedFields /\ DOMAIN lib.open = OpenFields /\ lib.epoch \in Nat
      /\ shelf[id] \in Seq(ShelfSongs) /\ LibPage(lib) /\ id # NoList
  BY LibraryAssumption DEF LibInv, LibOwned, LibPage, LibAsked, LibShelf
<1>2. CASE lib.ready
  <2>1. PICK c : c = [id |-> NoList, tracks |-> <<>>, pages |-> {}, total |-> 0,
                      loading |-> FALSE, complete |-> FALSE, pending |-> 0]
    OBVIOUS
  <2>2. PICK o : o = [c EXCEPT !.id = id, !.loading = TRUE]
    OBVIOUS
  <2>3. PICK q : q = [lib EXCEPT !.epoch = @ + 1, !.open = o]
    OBVIOUS
  <2>4. PICK m : m = [kind |-> "tracks", epoch |-> lib.epoch + 1, id |-> id, page |-> 1, done |-> FALSE,
                      ok |-> FALSE, rows |-> <<>>, total |-> 0]
    OBVIOUS
  <2>5. PICK list : list = shelf[id]
    OBVIOUS
  <2>6. PICK b : b = [asked EXCEPT !.rows = list, !.still = TRUE, !.counted = id \notin Silent, !.opens = @ + 1]
    OBVIOUS
  <2>7. lib' = q /\ wire' = wire \cup {m} /\ asked' = b /\ shelf' = shelf /\ played' = played
    BY <1>1, <1>2, <2>1, <2>2, <2>3, <2>4, <2>5, <2>6 DEF Lib!Tracks, Lib!Closed, Lib!Ask
  <2>8. DOMAIN o = OpenFields /\ o.tracks = <<>> /\ ~o.complete /\ o.id = id /\ o.total = 0
    BY ONLY <2>1, <2>2 DEF OpenFields
  <2>9. DOMAIN q = LibFields /\ q.open = o /\ q.epoch = lib.epoch + 1 /\ q.ready = lib.ready
    BY ONLY <1>1, <2>3 DEF LibFields
  <2>10. DOMAIN b = AskedFields /\ b.rows = list /\ b.still /\ b.counted = (id \notin Silent)
    BY ONLY <1>1, <2>6 DEF AskedFields
  <2>11. DOMAIN m = WireFields /\ m.kind = "tracks" /\ m.epoch = lib.epoch + 1 /\ m.id = id /\ m.page = 1 /\ ~m.done
    BY ONLY <2>4 DEF WireFields
  <2>12. LibPage(q) /\ LibAsked(b) /\ LibHolds(q.open, b)
    BY <1>1, <2>5, <2>8, <2>9, <2>10, LibCloses DEF LibPage, LibAsked
  <2>13. LibOwned(q, shelf, wire, b) /\ \A k \in wire : ~Latest(k, q)
    BY <1>1, <2>9, <2>12, LibGivesUp
  <2>14. LibCall(m, q)
    BY <1>1, <1>2, <2>9, <2>11, LibraryAssumption DEF LibCall
  <2>15. Follows(m, q.open, shelf, b)
    BY <2>5, <2>8, <2>9, <2>10, <2>11 DEF Follows
  <2>16. FollowsStill(m, q.open, shelf, b)
    <3>1. Part(<<>>, list, 0)
      BY <1>1, <2>5, PartBegins
    <3>2. Lib!BeginIdx(m.page) = 0
      BY <2>11, PagesFollow
    <3> QED
      BY <2>5, <2>8, <2>9, <2>10, <2>11, <3>1, <3>2 DEF FollowsStill
  <2>17. LibOwned(q, shelf, wire \cup {m}, b)
    BY <2>13, <2>14, <2>15, <2>16, LibAsksSongs
  <2> QED
    BY <1>1, <2>7, <2>17 DEF LibInv
<1>3. CASE ~lib.ready
  <2>1. PICK o : o = [lib.open EXCEPT !.id = id]
    OBVIOUS
  <2>2. PICK q : q = [lib EXCEPT !.open = o]
    OBVIOUS
  <2>3. PICK b : b = [asked EXCEPT !.opens = @ + 1]
    OBVIOUS
  <2>4. lib' = q /\ wire' = wire /\ asked' = b /\ shelf' = shelf /\ played' = played
    BY <1>3, <2>1, <2>2, <2>3 DEF Lib!Tracks
  <2>5. DOMAIN o = OpenFields /\ o.tracks = lib.open.tracks /\ o.complete = lib.open.complete /\ o.id = id
    BY ONLY <1>1, <2>1 DEF OpenFields
  <2>6. DOMAIN q = LibFields /\ q.open = o /\ q.epoch = lib.epoch /\ q.ready = lib.ready
    BY ONLY <1>1, <2>2 DEF LibFields
  <2>7. DOMAIN b = AskedFields /\ b.rows = asked.rows /\ b.still = asked.still /\ b.counted = asked.counted
    BY ONLY <1>1, <2>3 DEF AskedFields
  <2>8. ASSUME NEW m \in wire PROVE LibCall(m, q) /\ m.kind # "tracks"
    BY <1>1, <1>3 DEF LibOwned, LibCalls, LibCall
  <2> QED
    BY <1>1, <2>4, <2>5, <2>6, <2>7, <2>8
       DEF LibInv, LibOwned, LibPage, LibAsked, LibHolds, LibCalls, OneLatest, Latest
<1> QED
  BY <1>2, <1>3

LEMMA LibCancels ==
  ASSUME LibInv, Lib!cancelTracks
  PROVE  LibInv'
<1>1. /\ LibOwned(lib, shelf, wire, asked) /\ LibPlayed(played) /\ DOMAIN lib = LibFields
      /\ DOMAIN asked = AskedFields /\ DOMAIN lib.open = OpenFields /\ lib.epoch \in Nat
  BY DEF LibInv, LibOwned, LibPage, LibAsked
<1>2. PICK o : o = [lib.open EXCEPT !.pending = 0, !.loading = FALSE]
  OBVIOUS
<1>3. PICK q : q = [lib EXCEPT !.epoch = @ + 1, !.open = o]
  OBVIOUS
<1>4. PICK b : b = [asked EXCEPT !.opens = @ + 1]
  OBVIOUS
<1>5. q = [lib EXCEPT !.epoch = @ + 1, !.open.pending = 0, !.open.loading = FALSE]
  BY <1>1, <1>2, <1>3 DEF LibFields
<1>6. lib' = q /\ wire' = wire /\ asked' = b /\ shelf' = shelf /\ played' = played
  BY <1>4, <1>5 DEF Lib!cancelTracks
<1>7. DOMAIN o = OpenFields /\ o.tracks = lib.open.tracks /\ o.complete = lib.open.complete /\ o.id = lib.open.id
  BY ONLY <1>1, <1>2 DEF OpenFields
<1>8. DOMAIN q = LibFields /\ q.open = o /\ q.epoch = lib.epoch + 1 /\ q.ready = lib.ready
  BY ONLY <1>1, <1>3 DEF LibFields
<1>9. DOMAIN b = AskedFields /\ b.rows = asked.rows /\ b.still = asked.still /\ b.counted = asked.counted
  BY ONLY <1>1, <1>4 DEF AskedFields
<1>10. LibPage(q) /\ LibAsked(b) /\ LibHolds(q.open, b)
  BY <1>1, <1>7, <1>8, <1>9 DEF LibOwned, LibPage, LibAsked, LibHolds
<1>11. LibOwned(q, shelf, wire, b)
  BY <1>1, <1>8, <1>10, LibGivesUp
<1> QED
  BY <1>1, <1>6, <1>11 DEF LibInv

LEMMA LibListsLoaded ==
  ASSUME LibInv, NEW m \in wire, Lib!ListsLoaded(m)
  PROVE  LibInv'
<1>1. /\ LibOwned(lib, shelf, wire, asked) /\ LibPlayed(played) /\ DOMAIN lib = LibFields
      /\ DOMAIN asked = AskedFields /\ DOMAIN lib.open = OpenFields
  BY DEF LibInv, LibOwned, LibPage, LibAsked
<1>2. wire' = wire \ {m} /\ asked' = asked /\ shelf' = shelf /\ played' = played
  BY DEF Lib!ListsLoaded
<1>3. \/ lib' = lib
      \/ lib' = [lib EXCEPT !.listsLoading = FALSE]
      \/ \E x, y, z : lib' = [lib EXCEPT !.listsLoading = FALSE, !.lists = x, !.listPage = y, !.listsMore = z]
  BY DEF Lib!ListsLoaded
<1>4. DOMAIN lib' = LibFields /\ lib'.open = lib.open /\ lib'.epoch = lib.epoch /\ lib'.ready = lib.ready
  BY ONLY <1>1, <1>3 DEF LibFields
<1>5. LibOwned(lib', shelf, wire, asked)
  BY <1>1, <1>4, LibSame
<1>6. LibOwned(lib', shelf, wire \ {m}, asked)
  BY <1>5, LibFewer
<1> QED
  BY <1>1, <1>2, <1>6 DEF LibInv

LEMMA PageNumber ==
  ASSUME NEW l, NEW m, LibCall(m, l), Latest(m, l)
  PROVE  /\ m.page \in 1..1000 /\ m.page \in Int
         /\ ~(m.page >= PageLimit) => m.page + 1 \in 1..PageLimit /\ m.page + 1 <= 1000
<1>1. PICK limit : limit = PageLimit /\ limit \in Int /\ limit <= 1000
  BY LibraryAssumption
<1>2. m.page \in 1..limit
  BY <1>1 DEF LibCall, Latest
<1>3. PICK k : k = m.page /\ k \in 1..limit
  BY ONLY <1>2
<1>4. limit \in Int /\ limit <= 1000 /\ k \in 1..limit
  BY ONLY <1>1, <1>3
<1>5. k \in 1..1000 /\ k \in Int
  BY ONLY <1>4
<1>6. ~(k >= limit) => k + 1 \in 1..limit /\ k + 1 <= 1000
  BY ONLY <1>4
<1>7. limit = PageLimit /\ k = m.page
  BY ONLY <1>1, <1>3
<1> QED
  BY ONLY <1>5, <1>6, <1>7

\* The songs after the page of an answer of the present load.
LEMMA LibPageTaken ==
  ASSUME LibOwned(lib, shelf, wire, asked), NEW m \in wire, Latest(m, lib), m.done, m.ok,
         NEW h, h = SongsOf(m.rows), NEW t, t = Lib!Distinct(lib.open.tracks, h)
  PROVE  /\ t \in Seq(ShelfSongs) /\ Listed(t) \subseteq Listed(asked.rows)
         /\ h \in Seq(ShelfSongs) /\ Len(h) = Len(m.rows)
         /\ asked.still =>
              /\ Part(t, asked.rows, Lib!BeginIdx(m.page) + Len(h)) /\ Len(h) <= ShelfPage
              /\ Lib!BeginIdx(m.page) \in Nat
              /\ Len(h) < ShelfPage => Lib!BeginIdx(m.page) + Len(h) = Len(asked.rows)
<1>1. /\ Follows(m, lib.open, shelf, asked) /\ (asked.still => FollowsStill(m, lib.open, shelf, asked))
      /\ asked.rows \in Seq(ShelfSongs) /\ lib.open.tracks \in Seq(ShelfSongs)
      /\ Listed(lib.open.tracks) \subseteq Listed(asked.rows) /\ LibCall(m, lib)
  BY DEF LibOwned, LibPage, LibAsked, LibHolds, LibCalls
<1>2. h \in Seq(ShelfSongs) /\ Len(h) = Len(m.rows) /\ Listed(h) \subseteq Listed(asked.rows)
  BY <1>1 DEF Follows
<1>3. t \in Seq(ShelfSongs) /\ Listed(t) \subseteq Listed(lib.open.tracks) \cup Listed(h)
  BY <1>1, <1>2, DistinctStays
<1>4. m.page \in 1..1000
  BY <1>1, PageNumber
<1>5. ASSUME asked.still
      PROVE  /\ Part(t, asked.rows, Lib!BeginIdx(m.page) + Len(h)) /\ Len(h) <= ShelfPage
             /\ Lib!BeginIdx(m.page) \in Nat
             /\ Len(h) < ShelfPage => Lib!BeginIdx(m.page) + Len(h) = Len(asked.rows)
  <2>1. PICK begin : begin = Lib!BeginIdx(m.page)
    OBVIOUS
  <2>2. Part(lib.open.tracks, asked.rows, begin) /\ h = Lib!Rows(asked.rows, m.page)
    BY <1>1, <1>5, <2>1 DEF FollowsStill
  <2>3. begin \in Nat /\ begin <= Len(asked.rows)
    BY <2>2 DEF Part
  <2>4. /\ begin + Len(h) <= Len(asked.rows) /\ Len(h) <= ShelfPage
        /\ Len(h) < ShelfPage => begin + Len(h) = Len(asked.rows)
        /\ \A i \in 1..Len(h) : h[i] = asked.rows[begin + i]
    <3>1. PageFits(Lib!Rows(asked.rows, m.page), asked.rows, Lib!BeginIdx(m.page))
      BY <1>1, <1>4, <2>1, <2>3, PageOfShelf
    <3>2. PageFits(h, asked.rows, begin)
      BY <2>1, <2>2, <3>1
    <3> QED
      BY <3>2 DEF PageFits
  <2>5. Part(t, asked.rows, begin + Len(h))
    BY <1>1, <1>2, <2>2, <2>4, PartGrows
  <2> QED
    BY <2>1, <2>3, <2>4, <2>5
<1> QED
  BY <1>1, <1>2, <1>3, <1>5

\* When the controller takes a list for complete, it is.
LEMMA LibEnds ==
  ASSUME LibOwned(lib, shelf, wire, asked), NEW m \in wire, Latest(m, lib), m.done, m.ok, asked.still,
         NEW h, h = SongsOf(m.rows), NEW t, t = Lib!Distinct(lib.open.tracks, h),
         NEW total, total = Lib!Max({lib.open.total, m.total}),
         (total > 0 /\ Len(t) >= total) \/ Len(m.rows) < ShelfPage
  PROVE  Lib!AsFarAsKnown(t, asked.rows, asked.counted)
<1>1. PICK begin : begin = Lib!BeginIdx(m.page)
  OBVIOUS
<1>2. /\ Part(t, asked.rows, begin + Len(h)) /\ begin \in Nat
      /\ Len(h) < ShelfPage => begin + Len(h) = Len(asked.rows)
      /\ h \in Seq(ShelfSongs) /\ Len(h) = Len(m.rows)
  BY <1>1, LibPageTaken
<1>3. FollowsStill(m, lib.open, shelf, asked) /\ asked.rows \in Seq(ShelfSongs)
  BY DEF LibOwned, LibAsked, LibCalls
<1>4. PICK len \in Nat : len = Len(asked.rows)
  BY <1>3
<1>5. PICK n \in Nat : n = begin + Len(h) /\ n <= len
  BY <1>2, <1>4 DEF Part
<1>6. Len(t) <= n /\ Len(t) \in Nat /\ t = Lib!Whole(SubSeq(asked.rows, 1, n))
  <2>1. t \in Seq(ShelfSongs) /\ Len(t) <= n
    BY <1>2, <1>3, <1>5, PartIs
  <2>2. t = Lib!Whole(SubSeq(asked.rows, 1, n))
    BY <1>2, <1>3, <1>4, <1>5, PartIs
  <2> QED
    BY <2>1, <2>2
<1>7. PICK c \in Nat : c = IF asked.counted THEN len ELSE Len(h)
  BY <1>2, <1>4
<1>8. m.total = c
  BY <1>2, <1>3, <1>4, <1>7 DEF FollowsStill
<1>9. PICK x \in Nat : x = lib.open.total /\ (asked.counted => x <= len)
  BY <1>3, <1>4 DEF FollowsStill
<1>10. total = IF x >= c THEN x ELSE c
  <2>1. PICK S : S = {x, c}
    OBVIOUS
  <2>2. Lib!Max(S) = IF x >= c THEN x ELSE c
    BY <2>1, LibMaxOf
  <2>3. S = {lib.open.total, m.total}
    BY <1>8, <1>9, <2>1
  <2> QED
    BY <2>2, <2>3
<1>11. PICK size \in Nat : size = ShelfPage
  BY LibraryAssumption
<1>12. PICK count \in Nat : count = Len(h) /\ count = Len(m.rows)
  BY <1>2
<1>13. n = len \/ (~asked.counted /\ Len(t) >= ShelfPage)
  <2>1. CASE count < size
    BY <1>2, <1>4, <1>5, <1>11, <1>12, <2>1
  <2>2. CASE ~(count < size) /\ asked.counted
    <3>1. Len(t) >= total /\ c = len /\ x <= len
      BY <1>7, <1>9, <1>11, <1>12, <2>2
    <3>2. PICK k \in Nat : k = Len(t)
      BY <1>6
    <3>3. k >= len /\ k <= n
      BY <1>6, <1>10, <3>1, <3>2
    <3> QED
      BY ONLY <1>5, <3>3, k \in Nat, n \in Nat, len \in Nat
  <2>3. CASE ~(count < size) /\ ~asked.counted
    <3>1. Len(t) >= total /\ c = count
      BY <1>7, <1>11, <1>12, <2>3
    <3>2. PICK k \in Nat : k = Len(t)
      BY <1>6
    <3>3. k >= size
      BY <1>10, <2>3, <3>1, <3>2
    <3> QED
      BY <1>11, <2>3, <3>2, <3>3
  <2> QED
    BY <2>1, <2>2, <2>3
<1> QED
  BY <1>4, <1>5, <1>6, <1>13 DEF Lib!AsFarAsKnown

LEMMA LibStale ==
  ASSUME LibInv, NEW m \in wire, Lib!TracksLoaded(m), ~Latest(m, lib)
  PROVE  LibInv'
<1>1. wire' = wire \ {m} /\ UNCHANGED <<lib, shelf, asked, played>>
  BY DEF Lib!TracksLoaded, Lib!LatestLoad, Latest
<1>2. LibOwned(lib, shelf, wire \ {m}, asked)
  BY LibFewer DEF LibInv
<1> QED
  BY <1>1, <1>2 DEF LibInv

LEMMA LibTracksLoaded ==
  ASSUME LibInv, NEW m \in wire, Lib!TracksLoaded(m), Latest(m, lib)
  PROVE  LibInv'
<1> DEFINE Hs == [i \in DOMAIN m.rows |-> m.rows[i].hash]
           O  == [lib.open EXCEPT !.total = Lib!Max({@, m.total})]
           Ag == m.rows # <<>> /\ m.rows \in O.pages
           N  == [O EXCEPT !.pages = @ \cup {m.rows}, !.tracks = Lib!Distinct(@, Hs)]
           En == (N.total > 0 /\ Len(N.tracks) >= N.total) \/ Len(m.rows) < ShelfPage
           St == m.page >= PageLimit \/ N.tracks = O.tracks
           X  == IF ~m.ok THEN [lib.open EXCEPT !.loading = FALSE]
                 ELSE IF Ag THEN [O EXCEPT !.loading = FALSE]
                 ELSE IF En THEN [N EXCEPT !.loading = FALSE, !.complete = TRUE, !.total = Len(N.tracks)]
                 ELSE [N EXCEPT !.loading = ~St]
           Pl == X.complete /\ ~Ag /\ m.ok /\ X.pending > 0
           More == X.loading /\ m.ok /\ ~Ag
<1>1. /\ m.done /\ UNCHANGED <<shelf, asked>>
      /\ lib' = [lib EXCEPT !.open = IF Pl THEN [X EXCEPT !.pending = 0] ELSE X]
      /\ wire' = (wire \ {m}) \cup IF More THEN {Lib!Ask("tracks", m.epoch, X.id, m.page + 1)} ELSE {}
      /\ played' = IF Pl /\ X.pending <= Len(X.tracks) THEN Lib!Emitted(X) ELSE played
  BY Zenon DEF Lib!TracksLoaded, Lib!LatestLoad, Latest
<1>2. PICK h : h = SongsOf(m.rows)
  OBVIOUS
<1>3. PICK t : t = Lib!Distinct(lib.open.tracks, h)
  OBVIOUS
<1>4. PICK total : total = Lib!Max({lib.open.total, m.total})
  OBVIOUS
<1>5. PICK o : o = [lib.open EXCEPT !.total = total]
  OBVIOUS
<1>6. PICK n : n = [o EXCEPT !.pages = @ \cup {m.rows}, !.tracks = t]
  OBVIOUS
<1>7. /\ LibOwned(lib, shelf, wire, asked) /\ LibPlayed(played) /\ DOMAIN lib = LibFields
      /\ DOMAIN lib.open = OpenFields /\ LibPage(lib) /\ LibHolds(lib.open, asked) /\ LibAsked(asked)
      /\ Follows(m, lib.open, shelf, asked) /\ LibCall(m, lib)
  BY DEF LibInv, LibOwned, LibPage, LibCalls
<1>8. Hs = h /\ O = o
  BY <1>2, <1>4, <1>5 DEF SongsOf
<1>9. /\ DOMAIN o = OpenFields /\ o.id = lib.open.id /\ o.tracks = lib.open.tracks /\ o.complete = lib.open.complete
      /\ o.total = total
  BY ONLY <1>5, <1>7 DEF OpenFields
<1>10. N = n
  <2> HIDE DEF Hs, O
  <2> QED
    BY <1>3, <1>6, <1>8, <1>9
<1>11. /\ DOMAIN n = OpenFields /\ n.id = lib.open.id /\ n.tracks = t /\ n.complete = lib.open.complete
       /\ n.total = total
  BY ONLY <1>6, <1>9 DEF OpenFields
<1> HIDE DEF Hs, O, N
<1>12. ~lib.open.complete /\ m.id = lib.open.id
  BY <1>7 DEF Follows
\* What the songs are in each of the four cases.
<1>13. CASE ~m.ok \/ Ag
  <2>1. X = [lib.open EXCEPT !.loading = FALSE] \/ X = [o EXCEPT !.loading = FALSE]
    BY <1>8, <1>13
  <2> HIDE DEF Ag, En, St, X
  <2>2. PICK x : x = X
    OBVIOUS
  <2>3. DOMAIN x = OpenFields /\ x.id = lib.open.id /\ x.tracks = lib.open.tracks /\ x.complete = lib.open.complete
    BY ONLY <1>7, <1>9, <2>1, <2>2 DEF OpenFields
  <2>4. ~Pl /\ ~More
    BY <1>13
  <2>5. PICK q : q = [lib EXCEPT !.open = x]
    OBVIOUS
  <2>6. DOMAIN q = LibFields /\ q.open = x /\ q.epoch = lib.epoch /\ q.ready = lib.ready
    BY ONLY <1>7, <2>5 DEF LibFields
  <2>7. LibPage(q) /\ LibHolds(q.open, asked)
    BY <1>7, <2>3, <2>6 DEF LibPage, LibHolds
  <2>8. LibOwned(q, shelf, wire \ {m}, asked)
    BY <1>7, <2>6, <2>7, LibTakes
  <2> HIDE DEF Pl, More
  <2>9. lib' = q /\ wire' = wire \ {m} /\ played' = played
    BY <1>1, <2>2, <2>4, <2>5
  <2> QED
    BY <1>1, <1>7, <2>8, <2>9 DEF LibInv
<1>14. CASE m.ok /\ ~Ag
  <2>1. /\ t \in Seq(ShelfSongs) /\ Listed(t) \subseteq Listed(asked.rows)
        /\ h \in Seq(ShelfSongs) /\ Len(h) = Len(m.rows)
        /\ asked.still =>
             /\ Part(t, asked.rows, Lib!BeginIdx(m.page) + Len(h)) /\ Len(h) <= ShelfPage
             /\ Len(h) < ShelfPage => Lib!BeginIdx(m.page) + Len(h) = Len(asked.rows)
    BY <1>1, <1>2, <1>3, <1>7, <1>14, LibPageTaken
  <2>2. CASE En
    <3>1. asked.still => Lib!AsFarAsKnown(t, asked.rows, asked.counted)
      <4>1. (total > 0 /\ Len(t) >= total) \/ Len(m.rows) < ShelfPage
        BY <1>10, <1>11, <2>2
      <4> QED
        BY <1>1, <1>2, <1>3, <1>4, <1>7, <1>14, <4>1, LibEnds
    <3>2. PICK count : count = Len(t)
      OBVIOUS
    <3>3. PICK x : x = [n EXCEPT !.loading = FALSE, !.complete = TRUE, !.total = count]
      OBVIOUS
    <3>4. X = x
      BY <1>10, <1>11, <1>14, <2>2, <3>2, <3>3
    <3> HIDE DEF Ag, En, St, X
    <3>5. DOMAIN x = OpenFields /\ x.id = lib.open.id /\ x.tracks = t /\ x.loading = FALSE
      BY ONLY <1>11, <3>3 DEF OpenFields
    <3>6. PICK y : y = [x EXCEPT !.pending = 0]
      OBVIOUS
    <3>7. DOMAIN y = OpenFields /\ y.id = lib.open.id /\ y.tracks = t
      BY ONLY <3>5, <3>6 DEF OpenFields
    <3>8. PICK z : z = (IF Pl THEN y ELSE x)
      OBVIOUS
    <3>9. DOMAIN z = OpenFields /\ z.id = lib.open.id /\ z.tracks = t
      BY ONLY <3>5, <3>7, <3>8
    <3>10. PICK q : q = [lib EXCEPT !.open = z]
      OBVIOUS
    <3>11. DOMAIN q = LibFields /\ q.open = z /\ q.epoch = lib.epoch /\ q.ready = lib.ready
      BY ONLY <1>7, <3>10 DEF LibFields
    <3>12. LibPage(q) /\ LibHolds(q.open, asked)
      BY <1>7, <2>1, <3>1, <3>9, <3>11 DEF LibPage, LibHolds
    <3>13. LibOwned(q, shelf, wire \ {m}, asked)
      BY <1>7, <3>11, <3>12, LibTakes
    <3>14. ~More
      BY <3>4, <3>5
    <3> HIDE DEF Pl, More
    <3>15. lib' = q /\ wire' = wire \ {m}
      BY <1>1, <3>4, <3>6, <3>8, <3>10, <3>14
    <3>16. LibPlayed(played')
      <4>1. CASE played' = played
        BY <1>7, <4>1
      <4>2. CASE played' = Lib!Emitted(x)
        <5>1. PICK p : p = [tracks |-> t, rows |-> asked.rows, still |-> asked.still, counted |-> asked.counted]
          OBVIOUS
        <5>2. p = Lib!Emitted(x)
          BY <3>5, <5>1 DEF Lib!Emitted
        <5>3. p.tracks = t /\ p.rows = asked.rows /\ p.still = asked.still /\ p.counted = asked.counted
          BY ONLY <5>1
        <5> QED
          BY <2>1, <3>1, <4>2, <5>2, <5>3 DEF LibPlayed
      <4> QED
        BY <1>1, <3>4, <4>1, <4>2
    <3> QED
      BY <1>1, <3>13, <3>15, <3>16 DEF LibInv
  <2>3. CASE ~En
    <3>1. PICK go : go = ~St
      OBVIOUS
    <3>2. PICK x : x = [n EXCEPT !.loading = go]
      OBVIOUS
    <3>3. X = x
      BY <1>10, <1>14, <2>3, <3>1, <3>2
    <3>4. go => ~(m.page >= PageLimit)
      BY <3>1
    <3>5. ~(Len(m.rows) < ShelfPage)
      BY <2>3
    <3> HIDE DEF Ag, En, St, X
    <3>6. DOMAIN x = OpenFields /\ x.id = lib.open.id /\ x.tracks = t /\ x.complete = lib.open.complete
          /\ x.loading = go /\ x.total = total
      BY ONLY <1>11, <3>2 DEF OpenFields
    <3>7. PICK q : q = [lib EXCEPT !.open = x]
      OBVIOUS
    <3>8. DOMAIN q = LibFields /\ q.open = x /\ q.epoch = lib.epoch /\ q.ready = lib.ready
      BY ONLY <1>7, <3>7 DEF LibFields
    <3>9. LibPage(q) /\ LibHolds(q.open, asked)
      BY <1>7, <1>12, <2>1, <3>6, <3>8 DEF LibPage, LibHolds
    <3>10. LibOwned(q, shelf, wire \ {m}, asked) /\ \A k \in wire \ {m} : ~Latest(k, q)
      BY <1>7, <3>8, <3>9, LibTakes
    <3>11. PICK k : k = [kind |-> "tracks", epoch |-> m.epoch, id |-> x.id, page |-> m.page + 1, done |-> FALSE,
                         ok |-> FALSE, rows |-> <<>>, total |-> 0]
      OBVIOUS
    <3>12. k = Lib!Ask("tracks", m.epoch, x.id, m.page + 1)
      BY <3>11 DEF Lib!Ask
    <3>13. DOMAIN k = WireFields /\ k.kind = "tracks" /\ k.epoch = m.epoch /\ k.id = x.id /\ k.page = m.page + 1 /\ ~k.done
      BY ONLY <3>11 DEF WireFields
    <3>14. ~Pl
      BY <1>12, <3>3, <3>6
    <3>15. More <=> go
      BY <1>14, <3>3, <3>6
    <3> HIDE DEF Pl, More
    <3>16. lib' = q /\ played' = played /\ wire' = (wire \ {m}) \cup (IF go THEN {k} ELSE {})
      BY <1>1, <3>3, <3>7, <3>12, <3>14, <3>15
    <3>17. ASSUME go
           PROVE  LibOwned(q, shelf, (wire \ {m}) \cup {k}, asked)
      <4>1. m.page \in 1..1000 /\ m.page + 1 \in 1..PageLimit /\ m.page + 1 <= 1000
        BY <1>7, <3>4, <3>17, PageNumber
      <4>2. LibCall(k, q)
        BY <1>7, <1>12, <3>6, <3>8, <3>13, <4>1 DEF LibCall, Latest
      <4>3. Follows(k, q.open, shelf, asked)
        BY <1>7, <1>12, <3>6, <3>8, <3>13 DEF Follows
      <4>4. ASSUME asked.still PROVE FollowsStill(k, q.open, shelf, asked)
        <5>1. Len(h) = ShelfPage
          <6>1. PICK c \in Nat : c = Len(h)
            BY <2>1
          <6>2. PICK size \in Int : size = ShelfPage
            BY ONLY LibraryAssumption
          <6>3. c <= size
            BY ONLY <2>1, <4>4, <6>1, <6>2
          <6>4. ~(c < size)
            BY ONLY <2>1, <3>5, <6>1, <6>2
          <6>5. c = size
            BY ONLY <6>3, <6>4
          <6> QED
            BY ONLY <6>1, <6>2, <6>5
        <5>2. Lib!BeginIdx(k.page) = Lib!BeginIdx(m.page) + Len(h)
          <6>1. PICK num : num = m.page /\ num \in 1..1000 /\ num + 1 <= 1000
            BY ONLY <4>1
          <6>2. k.page = num + 1
            BY ONLY <3>13, <6>1
          <6>3. Lib!BeginIdx(num + 1) = Lib!BeginIdx(num) + ShelfPage
            BY ONLY <6>1, PagesFollow
          <6>4. Lib!BeginIdx(k.page) = Lib!BeginIdx(num) + Len(h)
            BY ONLY <5>1, <6>2, <6>3
          <6> QED
            BY ONLY <6>1, <6>4
        <5>3. FollowsStill(m, lib.open, shelf, asked)
          BY <1>7, <4>4 DEF LibOwned, LibCalls
        <5>4. total \in Nat /\ (asked.counted => total \in {0, Len(asked.rows)})
          <6>1. PICK len \in Nat : len = Len(asked.rows)
            BY <1>7 DEF LibAsked
          <6>2. PICK c \in Nat : c = IF asked.counted THEN len ELSE Len(m.rows)
            BY <2>1, <6>1
          <6>3. m.total = c
            BY <1>1, <1>14, <5>3, <6>1, <6>2 DEF FollowsStill
          <6>4. PICK s \in Nat : s = lib.open.total /\ (asked.counted => s \in {0, len})
            BY <5>3, <6>1 DEF FollowsStill
          <6>5. PICK S : S = {s, c}
            OBVIOUS
          <6>6. Lib!Max(S) = IF s >= c THEN s ELSE c
            BY <6>5, LibMaxOf
          <6>7. total = Lib!Max(S)
            BY <1>4, <6>3, <6>4, <6>5
          <6>8. total = IF s >= c THEN s ELSE c
            BY <6>6, <6>7
          <6>9. asked.counted => c = len /\ s \in {0, len}
            BY <6>2, <6>4
          <6> QED
            BY <6>1, <6>8, <6>9
        <5>5. shelf[k.id] = asked.rows /\ asked.counted = (k.id \notin Silent)
          BY <1>12, <3>6, <3>13, <5>3 DEF FollowsStill
        <5> QED
          BY <2>1, <3>6, <3>8, <3>13, <4>4, <5>2, <5>4, <5>5 DEF FollowsStill
      <4> QED
        BY <3>10, <4>2, <4>3, <4>4, LibAsksSongs
    <3> QED
      BY <1>1, <1>7, <3>10, <3>16, <3>17 DEF LibInv
  <2> QED
    BY <2>2, <2>3
<1> QED
  BY <1>13, <1>14

LEMMA LibPlays ==
  ASSUME LibInv, NEW index, Lib!play(index)
  PROVE  LibInv'
<1>1. /\ LibOwned(lib, shelf, wire, asked) /\ LibPlayed(played) /\ DOMAIN lib = LibFields
      /\ DOMAIN asked = AskedFields /\ DOMAIN lib.open = OpenFields /\ LibHolds(lib.open, asked)
  BY DEF LibInv, LibOwned, LibPage, LibAsked
<1>2. UNCHANGED <<shelf, wire, asked>>
  BY DEF Lib!play
<1>3. CASE \E index2 : lib' = [lib EXCEPT !.open.pending = index2] /\ played' = played
  <2>1. PICK i : lib' = [lib EXCEPT !.open.pending = i] /\ played' = played
    BY <1>3
  <2>2. PICK o : o = [lib.open EXCEPT !.pending = i]
    OBVIOUS
  <2>3. PICK q : q = [lib EXCEPT !.open = o]
    OBVIOUS
  <2>4. lib' = q
    BY <1>1, <2>1, <2>2, <2>3 DEF LibFields
  <2>5. /\ DOMAIN o = OpenFields /\ o.tracks = lib.open.tracks /\ o.complete = lib.open.complete /\ o.id = lib.open.id
        /\ o.total = lib.open.total
    BY ONLY <1>1, <2>2 DEF OpenFields
  <2>6. DOMAIN q = LibFields /\ q.open = o /\ q.epoch = lib.epoch /\ q.ready = lib.ready
    BY ONLY <1>1, <2>3 DEF LibFields
  <2>7. LibOwned(q, shelf, wire, asked)
    BY <1>1, <2>5, <2>6, LibSame
  <2> QED
    BY <1>1, <1>2, <2>1, <2>4, <2>7 DEF LibInv
<1>4. CASE lib.open.complete /\ played' = Lib!Emitted(lib.open) /\ lib' = lib
  <2>1. PICK p : p = [tracks |-> lib.open.tracks, rows |-> asked.rows, still |-> asked.still, counted |-> asked.counted]
    OBVIOUS
  <2>2. p = Lib!Emitted(lib.open)
    BY <2>1 DEF Lib!Emitted
  <2>3. p.tracks = lib.open.tracks /\ p.rows = asked.rows /\ p.still = asked.still /\ p.counted = asked.counted
    BY ONLY <2>1
  <2>4. LibPlayed(p)
    BY <1>1, <1>4, <2>3 DEF LibPlayed, LibHolds
  <2> QED
    BY <1>1, <1>2, <1>4, <2>2, <2>4 DEF LibInv
<1> QED
  BY <1>3, <1>4 DEF Lib!play

\* The upstream answers with the page of the list as it is now.
LEMMA LibServes ==
  ASSUME LibInv, NEW m \in wire, Lib!Serve(m)
  PROVE  LibInv'
<1>1. /\ LibOwned(lib, shelf, wire, asked) /\ LibPlayed(played) /\ DOMAIN lib = LibFields
      /\ DOMAIN asked = AskedFields /\ DOMAIN lib.open = OpenFields /\ LibShelf(shelf) /\ LibCall(m, lib)
      /\ asked.rows \in Seq(ShelfSongs)
  BY DEF LibInv, LibOwned, LibPage, LibAsked, LibCalls
<1>2. UNCHANGED <<lib, shelf, played>>
  BY DEF Lib!Serve
<1>3. PICK exchange \in {"ok", "network"} :
        LET r == IF m.kind = "tracks" THEN Lib!GetTracks(shelf[m.id], m.page, exchange, m.id \notin Silent)
                 ELSE Lib!GetUserPlaylists(TRUE, exchange, -1, 1, Lib!Rows(Lib!ListRows, m.page))
        IN /\ wire' = (wire \ {m}) \cup
                {[m EXCEPT !.done = TRUE, !.ok = IF m.kind = "lists" THEN r.status = 1 ELSE r.answer.status = 1,
                          !.rows = r.rows, !.total = IF m.kind = "lists" THEN 0 ELSE r.total]}
           /\ asked' = IF exchange = "ok" THEN asked ELSE [asked EXCEPT !.trouble = @ + 1]
  BY Zenon DEF Lib!Serve
<1>4. DOMAIN asked' = AskedFields /\ asked'.rows = asked.rows /\ asked'.still = asked.still /\ asked'.counted = asked.counted
  <2>1. asked' = asked \/ asked' = [asked EXCEPT !.trouble = @ + 1]
    BY <1>3
  <2> QED
    BY ONLY <1>1, <2>1 DEF AskedFields
<1>5. LibOwned(lib, shelf, wire \ {m}, asked')
  BY <1>1, <1>4, LibSame, LibFewer
<1>6. CASE m.kind # "tracks"
  <2>1. PICK okay, rows, total : wire' = (wire \ {m}) \cup {[m EXCEPT !.done = TRUE, !.ok = okay, !.rows = rows, !.total = total]}
    BY <1>3
  <2>2. PICK k : k = [m EXCEPT !.done = TRUE, !.ok = okay, !.rows = rows, !.total = total]
    OBVIOUS
  <2>3. DOMAIN m = WireFields
    BY <1>1 DEF LibCall
  <2>4. DOMAIN k = WireFields /\ k.kind = m.kind
    BY ONLY <2>2, <2>3 DEF WireFields
  <2>5. LibOwned(lib, shelf, (wire \ {m}) \cup {k}, asked')
    BY <1>5, <1>6, <2>4 DEF LibOwned, LibCalls, OneLatest, LibCall, Latest
  <2> QED
    BY <1>1, <1>2, <2>1, <2>2, <2>5 DEF LibInv
<1>7. CASE m.kind = "tracks"
  <2>1. PICK list : list = shelf[m.id] /\ list \in Seq(ShelfSongs)
    BY <1>1, <1>7 DEF LibShelf, LibCall
  <2>2. PICK counted, r : counted = (m.id \notin Silent) /\ r = Lib!GetTracks(list, m.page, exchange, counted)
    OBVIOUS
  <2>3. PICK okay : okay = (r.answer.status = 1)
    OBVIOUS
  <2>4. PICK rows, total : rows = r.rows /\ total = r.total
    OBVIOUS
  <2>5. PICK k : k = [m EXCEPT !.done = TRUE, !.ok = okay, !.rows = rows, !.total = total]
    OBVIOUS
  <2>6. wire' = (wire \ {m}) \cup {k}
    BY <1>3, <1>7, <2>1, <2>2, <2>3, <2>4, <2>5
  <2>7. DOMAIN m = WireFields
    BY <1>1 DEF LibCall
  <2>8. /\ DOMAIN k = WireFields /\ k.kind = m.kind /\ k.epoch = m.epoch /\ k.id = m.id /\ k.page = m.page
        /\ k.ok = okay /\ k.rows = rows /\ k.total = total
    BY ONLY <2>5, <2>7 DEF WireFields
  <2>9. LibCall(k, lib)
    BY <1>1, <2>8 DEF LibCall
  <2>10. ASSUME okay
         PROVE  /\ SongsOf(rows) = Lib!Rows(list, m.page) /\ Len(SongsOf(rows)) = Len(rows)
                /\ total = IF counted THEN Len(list) ELSE Len(rows)
    <3>1. exchange = "ok"
      <4>1. CASE exchange = "network"
        <5>1. PICK gone : gone = (exchange = "deadline")
          OBVIOUS
        <5>2. PICK refusal : refusal = [status |-> 0, transport |-> gone]
          OBVIOUS
        <5>3. refusal = Lib!Answer(0, exchange = "deadline")
          BY <5>1, <5>2 DEF Lib!Answer
        <5>4. Lib!ErrorTracks(exchange) = [answer |-> refusal, rows |-> <<>>, total |-> 0]
          <6>1. Lib!ErrorTracks(exchange) = [answer |-> Lib!Answer(0, exchange = "deadline"), rows |-> <<>>, total |-> 0]
            BY Zenon DEF Lib!ErrorTracks
          <6>2. PICK x : x = Lib!Answer(0, exchange = "deadline")
            OBVIOUS
          <6> QED
            BY <5>3, <6>1, <6>2
        <5>5. r = Lib!ErrorTracks(exchange)
          <6>1. ~Lib!Readable(exchange)
            BY <4>1 DEF Lib!Readable
          <6>2. Lib!GetTracks(list, m.page, exchange, counted) = Lib!ErrorTracks(exchange)
            BY <6>1, Zenon DEF Lib!GetTracks
          <6> QED
            BY <2>2, <6>2
        <5>6. r.answer.status = 0
          <6>1. r = [answer |-> refusal, rows |-> <<>>, total |-> 0]
            BY Zenon, <5>4, <5>5
          <6>2. r.answer = refusal
            BY ONLY <6>1
          <6>3. refusal.status = 0
            BY ONLY <5>2
          <6> QED
            BY Zenon, <6>2, <6>3
        <5> QED
          <6>1. r.answer.status = 1
            BY Zenon, <2>3, <2>10
          <6>2. PICK status : status = r.answer.status
            OBVIOUS
          <6>3. status = 1 /\ status = 0
            BY Zenon, <5>6, <6>1, <6>2
          <6> QED
            BY ONLY <6>3
      <4> QED
        BY <4>1
    <3>2. PICK part : part = Lib!Rows(list, m.page)
      OBVIOUS
    <3>3. PICK answer : answer = Lib!Answer(Lib!ReadStatus(exchange), FALSE)
      OBVIOUS
    <3>4. r = [answer |-> answer, rows |-> [i \in DOMAIN part |-> Lib!NormalizeTrack(part[i])],
               total |-> IF counted THEN Len(list) ELSE Len(part)]
      BY <2>2, <3>1, <3>2, <3>3 DEF Lib!GetTracks, Lib!Readable, Lib!BuildTracksFromUpstream
    <3>5. /\ rows = [i \in DOMAIN part |-> Lib!NormalizeTrack(part[i])]
          /\ total = IF counted THEN Len(list) ELSE Len(part)
      BY <2>4, <3>4
    <3>6. part \in Seq(ShelfSongs)
      <4>1. m.page \in 1..1000
        <5>1. PICK limit \in Int : limit = PageLimit /\ limit <= 1000
          BY LibraryAssumption
        <5>2. m.page \in 1..limit
          BY <1>1, <1>7, <5>1 DEF LibCall
        <5> QED
          BY ONLY <5>1, <5>2
      <4> QED
        BY <2>1, <3>2, <4>1, PageOfShelf
    <3>7. DOMAIN rows = 1..Len(part) /\ Len(part) \in Nat /\ \A i \in 1..Len(part) : rows[i].hash = part[i]
      <4>1. \A x : Lib!NormalizeTrack(x).hash = x
        BY DEF Lib!NormalizeTrack
      <4>2. DOMAIN part = 1..Len(part) /\ Len(part) \in Nat
        BY <3>6
      <4> QED
        BY <3>5, <4>1, <4>2
    <3>8. SongsOf(rows) = part
      <4>1. SongsOf(rows) = [i \in 1..Len(part) |-> part[i]]
        BY <3>7 DEF SongsOf
      <4> QED
        BY <3>6, <4>1
    <3>9. Len(rows) = Len(part)
      BY <3>7
    <3> QED
      BY <3>2, <3>5, <3>8, <3>9
  <2>11. ASSUME Latest(m, lib)
         PROVE  /\ Follows(k, lib.open, shelf, asked')
                /\ asked'.still => FollowsStill(k, lib.open, shelf, asked')
                /\ \A j \in wire \ {m} : ~Latest(j, lib)
    <3>1. /\ Follows(m, lib.open, shelf, asked) /\ (asked.still => FollowsStill(m, lib.open, shelf, asked))
          /\ \A j \in wire \ {m} : ~Latest(j, lib)
      BY <1>1, <2>11 DEF LibOwned, LibCalls, OneLatest
    <3>2. ASSUME okay
          PROVE  SongsOf(rows) \in Seq(ShelfSongs) /\ Listed(SongsOf(rows)) \subseteq Listed(asked.rows)
      <4>1. m.page \in 1..1000
        BY <1>1, <2>11, PageNumber
      <4>2. Lib!Rows(list, m.page) \in Seq(ShelfSongs) /\ Listed(Lib!Rows(list, m.page)) \subseteq Listed(list)
        BY <2>1, <4>1, PageOfShelf
      <4> QED
        BY <2>1, <2>10, <3>1, <3>2, <4>2 DEF Follows
    <3>3. Follows(k, lib.open, shelf, asked')
      BY <1>4, <2>8, <2>10, <3>1, <3>2 DEF Follows
    <3>4. ASSUME asked'.still PROVE FollowsStill(k, lib.open, shelf, asked')
      <4>1. FollowsStill(m, lib.open, shelf, asked) /\ asked'.rows = asked.rows /\ asked'.counted = asked.counted
        BY <1>4, <3>1, <3>4
      <4>2. list = asked.rows /\ asked.counted = counted
        BY <2>1, <2>2, <4>1 DEF FollowsStill
      <4>3. ASSUME okay
            PROVE  /\ SongsOf(rows) = Lib!Rows(asked.rows, m.page)
                   /\ total = IF asked.counted THEN Len(asked.rows) ELSE Len(rows)
        BY <2>10, <4>2, <4>3
      <4> QED
        BY <2>8, <4>1, <4>3 DEF FollowsStill
    <3> QED
      BY <3>1, <3>3, <3>4
  <2>12. LibOwned(lib, shelf, (wire \ {m}) \cup {k}, asked')
    <3>1. CASE Latest(m, lib)
      BY <1>5, <2>9, <2>11, <3>1, LibAsksSongs
    <3>2. CASE ~Latest(m, lib)
      <4>1. ~Latest(k, lib)
        BY <2>8, <3>2 DEF Latest
      <4> QED
        BY <1>5, <2>9, <4>1 DEF LibOwned, LibCalls, OneLatest
    <3> QED
      BY <3>1, <3>2
  <2> QED
    BY <1>1, <1>2, <2>6, <2>12 DEF LibInv
<1> QED
  BY <1>6, <1>7

\* A list that loses a song is no longer as it was, and holds no others.
LEMMA LibEdits ==
  ASSUME LibInv, NEW id \in Owned \cup Public, Lib!Edit(id)
  PROVE  LibInv'
<1>1. /\ LibOwned(lib, shelf, wire, asked) /\ LibPlayed(played) /\ LibShelf(shelf)
      /\ DOMAIN asked = AskedFields /\ LibAsked(asked) /\ LibHolds(lib.open, asked)
  BY DEF LibInv, LibOwned, LibAsked
<1>2. PICK list : list = shelf[id] /\ list \in Seq(ShelfSongs)
  BY <1>1 DEF LibShelf
<1>3. PICK rest : rest = Tail(list)
  OBVIOUS
<1>4. Len(list) > 1 /\ UNCHANGED <<lib, wire, played>>
  BY <1>2 DEF Lib!Edit
<1>5. shelf' = [shelf EXCEPT ![id] = rest]
  BY <1>1, <1>2, <1>3 DEF Lib!Edit, LibShelf
<1>6. rest \in Seq(ShelfSongs) /\ Listed(rest) \subseteq Listed(list)
  <2>1. rest \in Seq(ShelfSongs) /\ Len(rest) = Len(list) - 1 /\ \A i \in 1..Len(rest) : rest[i] = list[i + 1]
    BY <1>2, <1>3, <1>4
  <2>2. ASSUME NEW i \in DOMAIN rest PROVE rest[i] \in Listed(list)
    <3>1. i \in 1..Len(rest) /\ i + 1 \in DOMAIN list
      BY <1>2, <2>1, <2>2
    <3> QED
      BY <2>1, <3>1 DEF Listed
  <2> QED
    BY <2>1, <2>2 DEF Listed
<1>7. PICK still : still = (asked.still /\ id # lib.open.id)
  OBVIOUS
<1>8. asked' = [asked EXCEPT !.edits = @ + 1, !.still = still]
  BY <1>7 DEF Lib!Edit
<1>9. DOMAIN asked' = AskedFields /\ asked'.rows = asked.rows /\ asked'.still = still /\ asked'.counted = asked.counted
  BY ONLY <1>1, <1>8 DEF AskedFields
<1>10. \A x \in Owned \cup Public : shelf'[x] = IF x = id THEN rest ELSE shelf[x]
  BY <1>1, <1>5 DEF LibShelf
<1>11. LibShelf(shelf')
  BY <1>1, <1>5, <1>6, <1>10 DEF LibShelf
<1>12. ASSUME NEW m \in wire
       PROVE  LibCall(m, lib) /\ (Latest(m, lib) => Follows(m, lib.open, shelf', asked')
                                                  /\ (asked'.still => FollowsStill(m, lib.open, shelf', asked')))
  <2>1. LibCall(m, lib) /\ (Latest(m, lib) => Follows(m, lib.open, shelf, asked)
                                            /\ (asked.still => FollowsStill(m, lib.open, shelf, asked)))
    BY <1>1 DEF LibOwned, LibCalls
  <2>2. CASE Latest(m, lib)
    <3>1. m.id \in Owned \cup Public /\ m.id = lib.open.id
      BY <2>1, <2>2 DEF LibCall, Latest, Follows
    <3>2. Listed(shelf'[m.id]) \subseteq Listed(asked.rows)
      BY <1>2, <1>6, <1>10, <2>1, <2>2, <3>1 DEF Follows
    <3>3. still => asked.still /\ shelf'[m.id] = shelf[m.id]
      BY <1>7, <1>10, <3>1
    <3> QED
      BY <1>9, <2>1, <2>2, <3>2, <3>3 DEF Follows, FollowsStill
  <2> QED
    BY <2>1, <2>2
<1>13. LibOwned(lib, shelf', wire, asked')
  <2>1. LibAsked(asked') /\ LibHolds(lib.open, asked')
    BY <1>1, <1>7, <1>9 DEF LibAsked, LibHolds
  <2> QED
    BY <1>1, <1>11, <1>12, <2>1 DEF LibOwned, LibCalls
<1> QED
  BY <1>1, <1>4, <1>13 DEF LibInv

LEMMA LibKeeps ==
  ASSUME LibInv, [Lib!LibraryNext]_libVars
  PROVE  LibInv'
<1>1. CASE UNCHANGED libVars
  BY <1>1 DEF libVars, LibInv
<1>2. CASE \E x \in Accounts \cup {Nobody} : Lib!setAccount(x)
  BY <1>2, LibAccount
<1>3. CASE Lib!refreshPlaylists \/ Lib!morePlaylists \/ Lib!ready
  BY <1>3, LibLists
<1>4. CASE Lib!retryTracks
  <2>1. lib.open.id \in Owned \cup Public
    BY <1>4 DEF Lib!retryTracks, LibInv, LibOwned, LibPage
  <2> QED
    BY <1>4, <2>1, LibOpens DEF Lib!retryTracks
<1>5. ASSUME NEW id \in Owned \cup Public, Lib!openPlaylist(id) \/ Lib!openPublicPlaylist(id)
      PROVE  LibInv'
  BY <1>5, LibOpens DEF Lib!openPlaylist, Lib!openPublicPlaylist
<1>6. CASE Lib!cancelTracks
  BY <1>6, LibCancels
<1>7. ASSUME NEW id \in Owned \cup Public, Lib!Edit(id) PROVE LibInv'
  BY <1>7, LibEdits
<1>8. ASSUME NEW i \in 1..3, Lib!play(i) PROVE LibInv'
  BY <1>8, LibPlays
<1>9. ASSUME NEW m \in wire, Lib!Serve(m) \/ Lib!ListsLoaded(m) \/ Lib!TracksLoaded(m) PROVE LibInv'
  BY <1>9, LibServes, LibListsLoaded, LibStale, LibTracksLoaded
<1> QED
  BY <1>1, <1>2, <1>3, <1>4, <1>5, <1>6, <1>7, <1>8, <1>9 DEF Lib!LibraryNext

LibraryIsOwn == suite = "library" => LibInv

LEMMA LibraryStaysOwn == PagesSpec => []LibraryIsOwn
<1>1. PagesInit => LibraryIsOwn
  BY LibBegins DEF PagesInit, LibraryIsOwn
<1>2. LibraryIsOwn /\ [UNCHANGED suite /\ PagesNext]_<<suite, pageVars>> => LibraryIsOwn'
  <2> SUFFICES ASSUME LibraryIsOwn, [UNCHANGED suite /\ PagesNext]_<<suite, pageVars>>, suite = "library"
               PROVE  LibInv'
    BY DEF LibraryIsOwn, pageVars
  <2>1. LibInv
    BY DEF LibraryIsOwn
  <2>2. [Lib!LibraryNext]_libVars
    BY DEF PagesNext, pageVars, libVars
  <2> QED
    BY <2>1, <2>2, LibKeeps
<1> QED
  BY <1>1, <1>2, PTL DEF PagesSpec

\* What is played is the list that was selected when it was loaded: in its order,
\* each file id once, whole if it did not change under the load and its total is
\* announced, and at least a page of songs if it is not; and in any case never a
\* song of another list, through late answers, failures, stopped loads and a play
\* that waits for the end of the load (LibraryController::loadTracksPage, play).
THEOREM PlaysWholeCorrect == PagesSpec => []PlaysWhole
<1>1. LibraryIsOwn => PlaysWhole
  BY DEF LibraryIsOwn, LibInv, LibPlayed, Listed, PlaysWhole, Lib!PlaysWhole, Lib!Range
<1> QED
  BY <1>1, LibraryStaysOwn, PTL
=============================================================================
