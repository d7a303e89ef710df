------------------------------- MODULE SongUrl -------------------------------
(* Resolve() of native/core/SongUrlService.cpp: the URL of one song, looked for
   on up to five legs (v6, v5, v5 preview, v5 anonymous and its preview) that
   share one deadline, and what the answer may claim of it.

   A reply of the upstream is a record: the path mark of its URL, its
   hash_offset window, whether that names a preview hash, its fail_process, its
   errcode, its status 2, whether it has an error text of its own and its
   container; a v6 reply is a list of items. *)
EXTENDS Naturals, Sequences, FiniteSetsExt

CONSTANTS V5Replies,  \* replies of v5/url
          V6Replies,  \* replies of v6/priv_url: sequences of items, or an error
          Delay       \* bound: by how much a leg may overrun its slice, ms

VARIABLE song
songVars == <<song>>

DeadlineSongUrlMs == 10000
kMinimumHttpBudgetMs == 100
Free == {"v5-preview", "v5-anon-preview"}   \* legs that ask for the free part only
Stage == [v6 |-> 2000, main |-> 2500, preview |-> 2000, anon |-> 2000, anonPreview |-> 1000]
StageOf(leg) == CASE leg = "v6" -> Stage.v6 [] leg = "v5-main" -> Stage.main
                  [] leg = "v5-preview" -> Stage.preview [] leg = "v5-anon" -> Stage.anon
                  [] OTHER -> Stage.anonPreview

(* ClampSongUrlStageBudget: 0 is "do not start". *)
ForStage(leg) ==
  LET left == IF song.clock < DeadlineSongUrlMs THEN DeadlineSongUrlMs - song.clock ELSE 0
  IN IF left < kMinimumHttpBudgetMs THEN 0 ELSE Min({StageOf(leg), left})

-----------------------------------------------------------------------------
(* Delivery.  The track's length, without which a window that opens at zero
   proves nothing, is known from the v5 envelope only. *)
TrackKnown(leg) == leg # "v6"
ClipEvidence(leg, r) ==
  \/ r.mark = "clip" \/ r.fail \in {"12", "pkg", "vip"}
  \/ r.window = "past" \/ (r.window = "short" /\ TrackKnown(leg))
Uncertain(leg, r) == r.window = "odd" \/ (r.window \in {"short", "whole"} /\ ~TrackKnown(leg))
Classify(leg, r, requestedPreview) ==
  IF r.mark = "none" THEN "unknown"
  ELSE IF requestedPreview \/ ClipEvidence(leg, r) THEN "preview"
  ELSE IF ~Uncertain(leg, r) /\ r.mark = "full" THEN "full" ELSE "unknown"

(* MakeAttempt: what one leg's rejection means; an entitlement wins over an
   errcode. *)
Entitled(fail) == fail \in {"pkg", "vip"}
RejectClass(r) ==
  IF Entitled(r.fail) THEN "entitlement_required"
  ELSE IF r.err = "20018" THEN "auth_rejected"
  ELSE IF r.outcome # "answer" THEN r.outcome
  ELSE IF r.err # "ok" THEN "upstream_error" ELSE ""
Attempt(leg, r, anonymous) == [leg |-> leg, anonymous |-> anonymous, class |-> RejectClass(r)]

(* DeliveredQuality: the container decides, the request only without one. *)
DeliveredQuality(r) == IF r.container = "none" THEN song.quality ELSE r.container

NoAnswer == [url |-> "none", leg |-> "none", delivery |-> "unknown", quality |-> "", code |-> ""]
EmptySongUrl(code) == [NoAnswer EXCEPT !.code = code]
(* BuildSongUrlOutput: of one leg's reply. *)
Output(leg, r, delivery, quality, code) ==
  [url |-> r.mark, leg |-> leg, delivery |-> delivery, quality |-> quality, code |-> code]

-----------------------------------------------------------------------------
(* v6.  Every item with a URL is an entry; the highest bitrate is the default,
   and a requested quality that is among the entries replaces it, with that
   entry's own evidence.  (The older shapes of the answer, whose first URL is the
   default, are items of one rate.) *)
Rate(quality) == CASE quality = "128" -> 1 [] quality = "320" -> 2 [] OTHER -> 3
Usable(items) == {i \in DOMAIN items : items[i].mark # "none"}
Best(items) ==
  CHOOSE i \in Usable(items) :
    \A j \in Usable(items) : \/ Rate(items[i].container) > Rate(items[j].container)
                             \/ Rate(items[i].container) = Rate(items[j].container) /\ i <= j
Wanted(items) == {i \in Usable(items) : items[i].container = song.quality}
SwitchQuality(items) ==
  IF song.quality # "" /\ Wanted(items) # {} THEN items[Min(Wanted(items))] ELSE items[Best(items)]
V6Output(r) == Output("v6", r, Classify("v6", r, FALSE), r.container, "")

Degraded(out) == out.delivery = "preview" /\ out.url = "clip"

-----------------------------------------------------------------------------
(* The call.  "session" is a user id with a token; either transport verb may be
   missing in a host program. *)
SongUrlInit ==
  \E session, post, get \in BOOLEAN, quality \in {"", "128", "flac"} :
    song = [at |-> "v6", clock |-> 0, session |-> session, post |-> post, get |-> get,
            quality |-> quality, fallback |-> NoAnswer, attempts |-> {}, upstream |-> NoAnswer,
            best |-> NoAnswer, answer |-> NoAnswer, obtained |-> {}, slice |-> 0]

Reply(leg, r, anonymous) ==
  [song EXCEPT !.attempts = @ \cup {Attempt(leg, r, anonymous)}, !.slice = 0]
Obtain(s, leg, r) ==
  [s EXCEPT !.obtained = @ \cup {[url |-> r.mark, leg |-> leg, delivery |-> Classify(leg, r, leg \in Free)]}]
Answered(s, answer) == song' = [s EXCEPT !.at = "done", !.answer = answer]
(* A v6 preview in hand is better than any error. *)
DropFallback(s, code) == Answered(s, EmptySongUrl(code))
OrFallback(s, code) ==
  Answered(s, IF s.fallback.url # "none" THEN s.fallback ELSE EmptySongUrl(code))

(* A request starts with the slice that is left, and takes at most that, give
   or take the scheduling of the worker. *)
Start(leg) == song.slice = 0 /\ ForStage(leg) > 0 /\ song' = [song EXCEPT !.slice = ForStage(leg)]

V6 ==
  /\ song.at = "v6"
  /\ \/ /\ song.slice = 0 /\ (~song.post \/ ForStage("v6") = 0)
        /\ song' = [song EXCEPT !.at = "v5-main"]
     \/ song.post /\ Start("v6")

(* How long the leg took is decided before what it answers. *)
Run ==
  /\ song.slice \in 1..DeadlineSongUrlMs
  /\ \E t \in {0, song.slice, song.slice + Delay} :
       song' = [song EXCEPT !.clock = @ + t, !.slice = DeadlineSongUrlMs + 1]
Returned(leg) == song.at = leg /\ song.slice = DeadlineSongUrlMs + 1

V6Envelope(r) ==
  [outcome |-> r.outcome, err |-> r.err,
   fail |-> IF \E i \in DOMAIN r.items : Entitled(r.items[i].fail) THEN "pkg" ELSE "none"]
V6Returned ==
  /\ Returned("v6")
  /\ \E r \in V6Replies :
       LET reply == Reply("v6", V6Envelope(r), ~song.session) IN
       IF r.outcome # "answer" \/ r.err # "ok" \/ Usable(r.items) = {}
       THEN song' = [reply EXCEPT !.at = "v5-main"]
       ELSE LET chosen == SwitchQuality(r.items)
                s == Obtain(reply, "v6", chosen)
            IN IF Degraded(V6Output(chosen))
               THEN song' = [s EXCEPT !.at = "v5-main", !.fallback = V6Output(chosen)]
               ELSE Answered(s, V6Output(chosen))

(* v5, with the session; a host without GET gets an answer all the same. *)
V5Main ==
  /\ song.at = "v5-main"
  /\ \/ /\ ~song.get \/ (song.slice = 0 /\ ForStage("v5-main") = 0)
        /\ OrFallback(song, "native_song_url_failed")
     \/ song.get /\ Start("v5-main")
Take(leg, r, anonymous) ==
  [Obtain(Reply(leg, r, anonymous), leg, r) EXCEPT !.at = "answer", !.best = [reply |-> r, leg |-> leg]]
V5MainReturned ==
  /\ Returned("v5-main")
  /\ \E r \in V5Replies :
       LET s == [Reply("v5-main", r, ~song.session) EXCEPT !.upstream = r] IN
       IF r.outcome # "answer" THEN OrFallback(s, "native_song_url_failed")
       ELSE IF r.mark # "none" THEN song' = [Take("v5-main", r, ~song.session) EXCEPT !.upstream = r]
       ELSE song' = [s EXCEPT !.at = IF r.offset THEN "v5-preview" ELSE "v5-anon"]

(* tryPreview: an anonymous request for the free part; what it yields replaces
   the reply, the URL and the hash together. *)
Preview(leg, next) ==
  /\ song.at = leg
  /\ \/ song.slice = 0 /\ ForStage(leg) = 0 /\ song' = [song EXCEPT !.at = next]
     \/ Start(leg)
Classified(leg, r)    == Classify(leg, r, leg \in Free)
PreviewReturned(leg, next) ==
  /\ Returned(leg)
  /\ \E r \in V5Replies :
       IF r.outcome = "answer" /\ r.mark # "none" THEN song' = Take(leg, r, TRUE)
       ELSE song' = [Reply(leg, r, TRUE) EXCEPT !.at = next]

V5Anonymous ==
  /\ song.at = "v5-anon"
  /\ \/ song.slice = 0 /\ ForStage("v5-anon") = 0 /\ song' = [song EXCEPT !.at = "answer"]
     \/ Start("v5-anon")
V5AnonymousReturned ==
  /\ Returned("v5-anon")
  /\ \E r \in V5Replies :
       LET s == Reply("v5-anon", r, TRUE) IN
       IF r.outcome # "answer" THEN song' = [s EXCEPT !.at = "answer"]
       ELSE IF r.mark # "none" THEN song' = Take("v5-anon", r, TRUE)
       ELSE song' = [s EXCEPT !.at = IF r.offset THEN "v5-anon-preview" ELSE "answer"]

-----------------------------------------------------------------------------
(* The error of a call without a URL: only a leg with a session can show that an
   entitlement is missing; the reply looked at is the one of v5-main.  One that
   says in words what went wrong is passed on in its words, under the code of an
   empty URL, and nothing else is asked of the legs. *)
Authenticated(class) == \E a \in song.attempts : ~a.anonymous /\ a.class = class
ErrorCode ==
  LET r == song.upstream IN
  IF r.text THEN "native_song_url_empty"
  ELSE IF \/ Authenticated("entitlement_required")
          \/ Entitled(r.fail) /\ ~Authenticated("auth_rejected")
  THEN "native_song_vip_required"
  ELSE IF Authenticated("auth_rejected") \/ r.err = "20018" THEN "native_song_auth_rejected"
  ELSE IF r.blocked THEN "native_song_url_blocked"
  ELSE IF ~song.session THEN "native_song_url_no_session" ELSE "native_song_url_empty"

Answer ==
  /\ song.at = "answer"
  /\ IF song.best = NoAnswer THEN OrFallback(song, ErrorCode)
     ELSE LET r == song.best.reply  leg == song.best.leg IN
          Answered(song, Output(leg, r, Classified(leg, r),
                                DeliveredQuality(r), ""))

SongUrlNext ==
  \/ V6 \/ V6Returned \/ V5Main \/ V5MainReturned \/ V5Anonymous \/ V5AnonymousReturned \/ Run
  \/ Preview("v5-preview", "v5-anon") \/ PreviewReturned("v5-preview", "v5-anon")
  \/ Preview("v5-anon-preview", "answer") \/ PreviewReturned("v5-anon-preview", "answer")
  \/ Answer

-----------------------------------------------------------------------------
(* What was found is what is returned: an answer without a URL means that no leg
   obtained one, and an answer with one describes it by the evidence of the very
   reply that carried it, never by that of an earlier leg that failed (comment
   before ClassifyDelivery). *)
AnswerIsOfOneReply ==
  song.at = "done" =>
    IF song.answer.url = "none" THEN song.obtained = {}
    ELSE [url |-> song.answer.url, leg |-> song.answer.leg, delivery |-> song.answer.delivery]
           \in song.obtained

(* No leg is started that could outlive the deadline of the route, however long
   the earlier ones took, nor with less than WinHTTP can keep. *)
LegsKeepDeadline ==
  song.slice \in 1..DeadlineSongUrlMs =>
    song.clock + song.slice <= DeadlineSongUrlMs /\ song.slice >= kMinimumHttpBudgetMs

(* Where the upstream gave no words of its own, a rejected session is reported
   as such although the anonymous legs, which have no session, met a pay wall,
   and a missing entitlement is never claimed of a session that was not accepted
   on any leg. *)
RejectedSessionIsSaid ==
  song.at = "done" /\ song.answer.url = "none" /\ song.upstream # NoAnswer /\ song.upstream.outcome = "answer"
    /\ ~song.upstream.text /\ Authenticated("auth_rejected") /\ ~Authenticated("entitlement_required")
  => song.answer.code = "native_song_auth_rejected"
=============================================================================
