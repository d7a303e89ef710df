---------------------------- MODULE UpstreamProofs ----------------------------
EXTENDS Upstream, DataLemmas

-----------------------------------------------------------------------------
(* SongUrl                                                                   *)

SongFields == {"at", "clock", "session", "post", "get", "quality", "fallback", "attempts",
               "upstream", "best", "answer", "obtained", "slice"}
Searching == {"v6", "v5-main", "v5-preview", "v5-anon", "v5-anon-preview"}
Claim(out) == [url |-> out.url, leg |-> out.leg, delivery |-> out.delivery]

ClaimsAreObtained ==
  /\ song.fallback # Url!NoAnswer => song.fallback.url # "none" /\ Claim(song.fallback) \in song.obtained
  /\ song.best # Url!NoAnswer =>
       /\ song.best.reply.mark # "none"
       /\ [url |-> song.best.reply.mark, leg |-> song.best.leg,
           delivery |-> Url!Classified(song.best.leg, song.best.reply)] \in song.obtained
NothingYet ==
  /\ song.at \in Searching => song.best = Url!NoAnswer
  /\ song.at = "v6" => song.fallback = Url!NoAnswer
  /\ song.at # "done" /\ song.best = Url!NoAnswer /\ song.fallback = Url!NoAnswer => song.obtained = {}
  /\ song.at \in {"v6", "v5-main"} => song.upstream = Url!NoAnswer
SongInv ==
  /\ DOMAIN song = SongFields
  /\ song.at \in Searching \cup {"answer", "done"}
  /\ ClaimsAreObtained
  /\ NothingYet
  /\ Url!AnswerIsOfOneReply
  /\ Url!RejectedSessionIsSaid

LEMMA SongInvInit == Url!SongUrlInit => SongInv
<1> SUFFICES ASSUME Url!SongUrlInit PROVE SongInv
  OBVIOUS
<1>1. PICK ss, pp, gg \in BOOLEAN, quality \in {"", "128", "flac"} :
    song = [at |-> "v6", clock |-> 0, session |-> ss, post |-> pp, get |-> gg,
            quality |-> quality, fallback |-> Url!NoAnswer, attempts |-> {}, upstream |-> Url!NoAnswer,
            best |-> Url!NoAnswer, answer |-> Url!NoAnswer, obtained |-> {}, slice |-> 0]
  BY DEF Url!SongUrlInit
<1> QED
  BY <1>1 DEF SongInv, SongFields, Searching, ClaimsAreObtained, NothingYet, Url!AnswerIsOfOneReply, Url!RejectedSessionIsSaid

LEMMA SongFrame ==
  ASSUME SongInv, DOMAIN song' = SongFields,
         \A f \in SongFields \ {"at", "slice", "clock"} : song'[f] = song[f],
         song.at \in Searching,
         \/ song'.at = song.at
         \/ song.at # "v6" /\ song'.at = "answer"
         \/ song.at \in {"v6"} /\ song'.at = "v5-main"
         \/ song.at \notin {"v6", "v5-main"} /\ song'.at \in Searching \ {"v6", "v5-main"}
  PROVE  SongInv'
BY DEF SongInv, SongFields, Searching, ClaimsAreObtained, NothingYet, Url!AnswerIsOfOneReply,
       Url!RejectedSessionIsSaid, Claim, Url!Classified, Url!Classify, Url!ClipEvidence,
       Url!Uncertain, Url!TrackKnown

LEMMA SongV6 == SongInv /\ Url!V6 => SongInv'
BY SongFrame DEF Url!V6, Url!Start, SongInv, SongFields, Searching

LEMMA SongRun ==
  ASSUME SongInv, Url!Run PROVE SongInv'
<1>1. song.at \in Searching => SongInv'
  BY SongFrame DEF Url!Run, SongInv, SongFields, Searching
<1>2. song.at \notin Searching => SongInv'
  BY DEF Url!Run, SongInv, SongFields, Searching, ClaimsAreObtained, NothingYet, Url!AnswerIsOfOneReply,
       Url!RejectedSessionIsSaid, Claim, Url!Classified, Url!Classify, Url!ClipEvidence,
       Url!Uncertain, Url!TrackKnown, Url!Authenticated
<1> QED
  BY <1>1, <1>2

LEMMA UrlMinOK ==
  ASSUME NEW S \in SUBSET Nat, S # {}
  PROVE  Url!Min(S) \in S /\ \A m \in S : Url!Min(S) <= m
BY SmallestMember DEF Url!Min

LEMMA BestIsUsable ==
  ASSUME NEW items, Url!Usable(items) # {}, DOMAIN items \subseteq Nat
  PROVE  Url!Best(items) \in Url!Usable(items)
<1> DEFINE U == Url!Usable(items)
           R(i) == Url!Rate(items[i].container)
           S == {n \in 1..3 : \E i \in U : R(i) = n}
<1>1. U \in SUBSET Nat /\ U # {} /\ \A i \in U : R(i) \in 1..3
  BY DEF Url!Usable, Url!Rate
<1>2. S \in SUBSET Nat /\ S # {} /\ \A n \in S : n <= 3
  BY <1>1
<1>3. PICK n \in S : \A m \in S : m <= n
  BY <1>2, GreatestMember
<1> DEFINE T == {i \in U : R(i) = n}
<1>4. T \in SUBSET Nat /\ T # {}
  BY <1>1, <1>3
<1>5. PICK k \in T : \A j \in T : k <= j
  BY <1>4, SmallestMember
<1>6. ASSUME NEW j \in U
      PROVE  \/ R(k) > R(j)
             \/ R(k) = R(j) /\ k <= j
  BY <1>1, <1>3, <1>5, <1>6
<1>7. \E i \in U : \A j \in U : \/ R(i) > R(j)
                                \/ R(i) = R(j) /\ i <= j
  BY <1>5, <1>6
<1> QED
  BY <1>7 DEF Url!Best

LEMMA ChosenHasUrl ==
  ASSUME NEW items, Url!Usable(items) # {}, DOMAIN items \subseteq Nat
  PROVE  Url!SwitchQuality(items).mark # "none"
<1>1. items[Url!Best(items)].mark # "none"
  BY BestIsUsable DEF Url!Usable
<1>2. ASSUME Url!Wanted(items) # {}
      PROVE  items[Url!Min(Url!Wanted(items))].mark # "none"
  <2>1. Url!Wanted(items) \in SUBSET Nat
    BY DEF Url!Wanted, Url!Usable
  <2> QED
    BY <1>2, <2>1, UrlMinOK DEF Url!Wanted, Url!Usable
<1> QED
  BY <1>1, <1>2 DEF Url!SwitchQuality

(* A leg that yields no URL: its attempt is noted, and the search goes on. *)
LEMMA SongGoesOn ==
  ASSUME SongInv, song.at \in Searching, DOMAIN song' = SongFields,
         \A f \in SongFields \ {"at", "slice", "attempts", "upstream"} : song'[f] = song[f],
         song'.at \in Searching \cup {"answer"}, song'.at # "v6",
         song'.at = "v5-main" => song'.upstream = Url!NoAnswer
  PROVE  SongInv'
BY DEF SongInv, SongFields, Searching, ClaimsAreObtained, NothingYet, Url!AnswerIsOfOneReply,
       Url!RejectedSessionIsSaid, Claim, Url!Classified, Url!Classify, Url!ClipEvidence,
       Url!Uncertain, Url!TrackKnown

(* The search ends without a URL of its own. *)
LEMMA SongOrFallback ==
  ASSUME SongInv, NEW s, NEW code, song.at # "done", song.best = Url!NoAnswer,
         DOMAIN s = SongFields,
         \A f \in SongFields \ {"slice", "attempts", "upstream"} : s[f] = song[f],
         s.upstream # Url!NoAnswer /\ s.upstream.outcome = "answer"
           => code = Url!ErrorCode /\ s = song,
         Url!OrFallback(s, code)
  PROVE  SongInv'
<1>1. /\ song' = [s EXCEPT !.at = "done",
                      !.answer = IF s.fallback.url # "none" THEN s.fallback
                                 ELSE Url!EmptySongUrl(code)]
  BY DEF Url!OrFallback, Url!Answered
<1>2. /\ DOMAIN song' = SongFields /\ song'.at = "done"
      /\ \A f \in SongFields \ {"at", "answer"} : song'[f] = s[f]
      /\ song'.answer = IF song.fallback.url # "none" THEN song.fallback
                        ELSE Url!EmptySongUrl(code)
  BY <1>1 DEF SongFields
<1>3. /\ Url!NoAnswer.url = "none" /\ Url!EmptySongUrl(code).url = "none"
      /\ Url!EmptySongUrl(code).code = code
  BY DEF Url!NoAnswer, Url!EmptySongUrl
<1>4. song'.fallback = song.fallback /\ song'.best = song.best /\ song'.obtained = song.obtained
  BY <1>2 DEF SongFields
<1>5. ClaimsAreObtained' /\ NothingYet'
  BY <1>2, <1>4 DEF SongInv, ClaimsAreObtained, NothingYet, Searching, Claim
<1>6. Url!AnswerIsOfOneReply'
  BY <1>2, <1>3, <1>4 DEF SongInv, ClaimsAreObtained, NothingYet, Claim, Url!AnswerIsOfOneReply
<1>7. Url!RejectedSessionIsSaid'
  <2> SUFFICES ASSUME song'.answer.url = "none", song'.upstream # Url!NoAnswer,
                      song'.upstream.outcome = "answer", ~song'.upstream.text,
                      Url!Authenticated("auth_rejected")', ~Url!Authenticated("entitlement_required")'
               PROVE  song'.answer.code = "native_song_auth_rejected"
    BY DEF Url!RejectedSessionIsSaid
  <2>1. s = song /\ code = Url!ErrorCode /\ song'.attempts = song.attempts
    BY <1>2 DEF SongFields
  <2>2. ~song.upstream.text
    BY <1>2, <2>1 DEF SongFields
  <2>3. code = "native_song_auth_rejected"
    BY <2>1, <2>2 DEF Url!ErrorCode, Url!Authenticated
  <2>4. song.fallback.url = "none"
    BY <1>2
  <2> QED
    BY <1>2, <1>3, <2>3, <2>4
<1> QED
  BY <1>2, <1>5, <1>6, <1>7 DEF SongInv

LEMMA SongTake ==
  ASSUME SongInv, NEW leg, NEW r, NEW anonymous, NEW s, song.at \in Searching, r.mark # "none",
         s = Url!Take(leg, r, anonymous),
         DOMAIN song' = SongFields,
         \A f \in SongFields \ {"upstream"} : song'[f] = s[f]
  PROVE  SongInv'
<1>1. /\ DOMAIN s = SongFields /\ s.at = "answer" /\ s.best = [reply |-> r, leg |-> leg]
      /\ s.fallback = song.fallback
      /\ s.obtained = song.obtained \cup
           {[url |-> r.mark, leg |-> leg, delivery |-> Url!Classify(leg, r, leg \in Url!Free)]}
  BY DEF Url!Take, Url!Obtain, Url!Reply, SongInv, SongFields
<1>2. song'.at = "answer" /\ song'.best = [reply |-> r, leg |-> leg]
      /\ song'.fallback = song.fallback /\ song'.obtained = s.obtained
  BY <1>1 DEF SongFields
<1>3. song'.best # Url!NoAnswer
  <2>1. DOMAIN [reply |-> r, leg |-> leg] = {"reply", "leg"}
    OBVIOUS
  <2>2. "url" \in DOMAIN Url!NoAnswer
    BY DEF Url!NoAnswer
  <2> QED
    BY <1>2, <2>1, <2>2
<1>4. ClaimsAreObtained'
  BY <1>1, <1>2 DEF SongInv, ClaimsAreObtained, Claim, Url!Classified, Url!Classify, Url!ClipEvidence,
       Url!Uncertain, Url!TrackKnown
<1> QED
  BY <1>2, <1>3, <1>4 DEF SongInv, Searching, NothingYet, Url!AnswerIsOfOneReply,
       Url!RejectedSessionIsSaid

LEMMA SongV6Returned == SongInv /\ Url!V6Returned => SongInv'
<1> SUFFICES ASSUME SongInv, Url!V6Returned PROVE SongInv'
  OBVIOUS
<1>1. song.at = "v6" /\ DOMAIN song = SongFields
  BY DEF Url!V6Returned, Url!Returned, SongInv
<1>2. PICK r \in V6Replies :
        LET reply == Url!Reply("v6", Url!V6Envelope(r), ~song.session) IN
        IF r.outcome # "answer" \/ r.err # "ok" \/ Url!Usable(r.items) = {}
        THEN song' = [reply EXCEPT !.at = "v5-main"]
        ELSE LET chosen == Url!SwitchQuality(r.items)
                 s == Url!Obtain(reply, "v6", chosen)
             IN IF Url!Degraded(Url!V6Output(chosen))
                THEN song' = [s EXCEPT !.at = "v5-main", !.fallback = Url!V6Output(chosen)]
                ELSE Url!Answered(s, Url!V6Output(chosen))
  BY DEF Url!V6Returned
<1>3. CASE r.outcome # "answer" \/ r.err # "ok" \/ Url!Usable(r.items) = {}
  <2>1. song' = [Url!Reply("v6", Url!V6Envelope(r), ~song.session) EXCEPT !.at = "v5-main"]
    BY <1>2, <1>3
  <2>2. /\ DOMAIN song' = SongFields /\ song'.at = "v5-main"
        /\ \A f \in SongFields \ {"at", "slice", "attempts"} : song'[f] = song[f]
    BY <1>1, <2>1 DEF Url!Reply, SongFields
  <2> QED
    BY <1>1, <2>2, SongGoesOn DEF SongInv, NothingYet, SongFields, Searching
<1>4. CASE ~(r.outcome # "answer" \/ r.err # "ok" \/ Url!Usable(r.items) = {})
  <2> DEFINE chosen == Url!SwitchQuality(r.items)
             out    == Url!V6Output(chosen)
             s      == Url!Obtain(Url!Reply("v6", Url!V6Envelope(r), ~song.session), "v6", chosen)
  <2>1. chosen.mark # "none"
    BY <1>4, ChosenHasUrl, SongUrlAssumption
  <2>2. /\ out.url = chosen.mark /\ out # Url!NoAnswer
        /\ Claim(out) = [url |-> chosen.mark, leg |-> "v6",
                         delivery |-> Url!Classify("v6", chosen, "v6" \in Url!Free)]
    <3>1. "v6" \notin Url!Free
      BY DEF Url!Free
    <3> QED
      BY <2>1, <3>1 DEF Url!V6Output, Url!Output, Claim, Url!NoAnswer, Url!Classify
  <2>3. /\ DOMAIN s = SongFields /\ s.best = song.best /\ s.upstream = song.upstream
        /\ Claim(out) \in s.obtained
    BY <1>1, <2>2 DEF Url!Obtain, Url!Reply, SongFields
  <2>4. song.best = Url!NoAnswer /\ song.upstream = Url!NoAnswer
    BY <1>1 DEF SongInv, NothingYet, Searching
  <2> HIDE DEF out, s
  <2>5. CASE Url!Degraded(out)
    <3>1. song' = [s EXCEPT !.at = "v5-main", !.fallback = out]
      BY <1>2, <1>4, <2>5 DEF s, out
    <3>2. /\ DOMAIN song' = SongFields /\ song'.at = "v5-main" /\ song'.fallback = out
          /\ song'.best = song.best /\ song'.upstream = song.upstream
          /\ song'.obtained = s.obtained
      BY <2>3, <3>1 DEF SongFields
    <3> QED
      BY <2>1, <2>2, <2>3, <2>4, <3>2 DEF SongInv, Searching, ClaimsAreObtained, NothingYet,
         Url!AnswerIsOfOneReply, Url!RejectedSessionIsSaid
  <2>6. CASE ~Url!Degraded(out)
    <3>1. song' = [s EXCEPT !.at = "done", !.answer = out]
      BY <1>2, <1>4, <2>6 DEF s, out, Url!Answered
    <3>2. /\ DOMAIN song' = SongFields /\ song'.at = "done" /\ song'.answer = out
          /\ song'.best = song.best /\ song'.fallback = s.fallback
          /\ song'.obtained = s.obtained
      BY <2>3, <3>1 DEF SongFields
    <3>3. s.fallback = song.fallback /\ song.fallback = Url!NoAnswer
      BY <1>1 DEF s, Url!Obtain, Url!Reply, SongInv, SongFields, NothingYet
    <3> QED
      BY <2>1, <2>2, <2>3, <2>4, <3>2, <3>3 DEF SongInv, Searching, ClaimsAreObtained, NothingYet,
         Url!AnswerIsOfOneReply, Url!RejectedSessionIsSaid, Claim
  <2> QED
    BY <2>5, <2>6
<1> QED
  BY <1>3, <1>4

LEMMA SongV5Main == SongInv /\ Url!V5Main => SongInv'
<1> SUFFICES ASSUME SongInv, Url!V5Main PROVE SongInv'
  OBVIOUS
<1>1. /\ song.at = "v5-main" /\ DOMAIN song = SongFields
      /\ song.best = Url!NoAnswer /\ song.upstream = Url!NoAnswer
  BY DEF Url!V5Main, SongInv, NothingYet, Searching
<1>2. CASE Url!OrFallback(song, "native_song_url_failed")
  BY <1>1, <1>2, SongOrFallback DEF SongFields
<1>3. CASE Url!Start("v5-main")
  BY <1>1, <1>3, SongFrame DEF Url!Start, SongFields, Searching
<1> QED
  BY <1>2, <1>3 DEF Url!V5Main

LEMMA SongV5MainReturned == SongInv /\ Url!V5MainReturned => SongInv'
<1> SUFFICES ASSUME SongInv, Url!V5MainReturned PROVE SongInv'
  OBVIOUS
<1>1. /\ song.at = "v5-main" /\ DOMAIN song = SongFields /\ song.best = Url!NoAnswer
  BY DEF Url!V5MainReturned, Url!Returned, SongInv, NothingYet, Searching
<1>2. PICK r \in V5Replies :
        LET s == [Url!Reply("v5-main", r, ~song.session) EXCEPT !.upstream = r] IN
        IF r.outcome # "answer" THEN Url!OrFallback(s, "native_song_url_failed")
        ELSE IF r.mark # "none"
        THEN song' = [Url!Take("v5-main", r, ~song.session) EXCEPT !.upstream = r]
        ELSE song' = [s EXCEPT !.at = IF r.offset THEN "v5-preview" ELSE "v5-anon"]
  BY DEF Url!V5MainReturned
<1> DEFINE s == [Url!Reply("v5-main", r, ~song.session) EXCEPT !.upstream = r]
<1>3. /\ DOMAIN s = SongFields /\ s.upstream = r
      /\ \A f \in SongFields \ {"slice", "attempts", "upstream"} : s[f] = song[f]
  BY <1>1 DEF Url!Reply, SongFields
<1> HIDE DEF s
<1>4. CASE r.outcome # "answer"
  <2>1. Url!OrFallback(s, "native_song_url_failed")
    BY <1>2, <1>4 DEF s
  <2> QED
    BY <1>1, <1>3, <1>4, <2>1, SongOrFallback
<1>5. CASE r.outcome = "answer" /\ r.mark # "none"
  <2> DEFINE t == Url!Take("v5-main", r, ~song.session)
  <2>1. song' = [t EXCEPT !.upstream = r]
    BY <1>2, <1>5
  <2>2. DOMAIN t = SongFields
    BY <1>1 DEF Url!Take, Url!Obtain, Url!Reply, SongFields
  <2> HIDE DEF t
  <2>3. DOMAIN song' = SongFields /\ \A f \in SongFields \ {"upstream"} : song'[f] = t[f]
    BY <2>1, <2>2 DEF SongFields
  <2>4. t = Url!Take("v5-main", r, ~song.session)
    BY DEF t
  <2> QED
    BY <1>1, <1>5, <2>3, <2>4, SongTake DEF Searching
<1>6. CASE r.outcome = "answer" /\ r.mark = "none"
  <2>1. song' = [s EXCEPT !.at = IF r.offset THEN "v5-preview" ELSE "v5-anon"]
    BY <1>2, <1>6 DEF s
  <2>2. /\ DOMAIN song' = SongFields /\ song'.at \in {"v5-preview", "v5-anon"}
        /\ \A f \in SongFields \ {"at"} : song'[f] = s[f]
    BY <1>3, <2>1 DEF SongFields
  <2> QED
    BY <1>1, <1>3, <2>2, SongGoesOn DEF Searching
<1> QED
  BY <1>4, <1>5, <1>6

LEMMA SongPreview ==
  ASSUME SongInv, NEW leg, NEW next, Url!Preview(leg, next),
         leg \in Searching \ {"v6", "v5-main"},
         next \in (Searching \ {"v6", "v5-main"}) \cup {"answer"}
  PROVE  SongInv'
BY SongFrame DEF Url!Preview, Url!Start, SongInv, SongFields, Searching

LEMMA SongPreviewReturned ==
  ASSUME SongInv, NEW leg, NEW next, Url!PreviewReturned(leg, next),
         leg \in Searching \ {"v6", "v5-main"},
         next \in (Searching \ {"v6", "v5-main"}) \cup {"answer"}
  PROVE  SongInv'
<1>1. song.at = leg /\ DOMAIN song = SongFields
  BY DEF Url!PreviewReturned, Url!Returned, SongInv
<1>2. PICK r \in V5Replies :
        IF r.outcome = "answer" /\ r.mark # "none" THEN song' = Url!Take(leg, r, TRUE)
        ELSE song' = [Url!Reply(leg, r, TRUE) EXCEPT !.at = next]
  BY DEF Url!PreviewReturned
<1>3. CASE r.outcome = "answer" /\ r.mark # "none"
  <2>1. song' = Url!Take(leg, r, TRUE)
    BY <1>2, <1>3
  <2>2. DOMAIN song' = SongFields
    BY <1>1, <2>1 DEF Url!Take, Url!Obtain, Url!Reply, SongFields
  <2> QED
    BY <1>1, <1>3, <2>1, <2>2, SongTake
<1>4. CASE ~(r.outcome = "answer" /\ r.mark # "none")
  <2>1. /\ DOMAIN song' = SongFields /\ song'.at = next
        /\ \A f \in SongFields \ {"at", "slice", "attempts"} : song'[f] = song[f]
    BY <1>1, <1>2, <1>4 DEF Url!Reply, SongFields
  <2> QED
    BY <1>1, <2>1, SongGoesOn DEF Searching, SongFields
<1> QED
  BY <1>3, <1>4

LEMMA SongV5Anonymous == SongInv /\ Url!V5Anonymous => SongInv'
BY SongFrame DEF Url!V5Anonymous, Url!Start, SongInv, SongFields, Searching

LEMMA SongV5AnonymousReturned == SongInv /\ Url!V5AnonymousReturned => SongInv'
<1> SUFFICES ASSUME SongInv, Url!V5AnonymousReturned PROVE SongInv'
  OBVIOUS
<1>1. song.at = "v5-anon" /\ song.at \in Searching /\ DOMAIN song = SongFields
  BY DEF Url!V5AnonymousReturned, Url!Returned, SongInv, Searching
<1>2. PICK r \in V5Replies :
       LET s == Url!Reply("v5-anon", r, TRUE) IN
       IF r.outcome # "answer" THEN song' = [s EXCEPT !.at = "answer"]
       ELSE IF r.mark # "none" THEN song' = Url!Take("v5-anon", r, TRUE)
       ELSE song' = [s EXCEPT !.at = IF r.offset THEN "v5-anon-preview" ELSE "answer"]
  BY DEF Url!V5AnonymousReturned
<1>3. CASE r.outcome = "answer" /\ r.mark # "none"
  <2>1. song' = Url!Take("v5-anon", r, TRUE)
    BY <1>2, <1>3
  <2>2. DOMAIN song' = SongFields
    BY <1>1, <2>1 DEF Url!Take, Url!Obtain, Url!Reply, SongFields
  <2> QED
    BY <1>1, <1>3, <2>1, <2>2, SongTake
<1>4. CASE ~(r.outcome = "answer" /\ r.mark # "none")
  <2>1. \E next \in {"answer", "v5-anon-preview"} :
          song' = [Url!Reply("v5-anon", r, TRUE) EXCEPT !.at = next]
    BY <1>2, <1>4
  <2>2. /\ DOMAIN song' = SongFields /\ song'.at \in {"answer", "v5-anon-preview"}
        /\ \A f \in SongFields \ {"at", "slice", "attempts"} : song'[f] = song[f]
    BY <1>1, <2>1 DEF Url!Reply, SongFields
  <2> QED
    BY <1>1, <2>2, SongGoesOn DEF Searching, SongFields
<1> QED
  BY <1>3, <1>4

LEMMA SongAnswer == SongInv /\ Url!Answer => SongInv'
<1> SUFFICES ASSUME SongInv, Url!Answer PROVE SongInv'
  OBVIOUS
<1>1. song.at = "answer" /\ DOMAIN song = SongFields
  BY DEF Url!Answer, SongInv
<1>2. CASE song.best = Url!NoAnswer
  BY <1>1, <1>2, SongOrFallback DEF Url!Answer
<1>3. CASE song.best # Url!NoAnswer
  <2> DEFINE r == song.best.reply
             leg == song.best.leg
             out == Url!Output(leg, r, Url!Classified(leg, r), Url!DeliveredQuality(r), "")
  <2>1. song' = [song EXCEPT !.at = "done", !.answer = out]
    BY <1>3 DEF Url!Answer, Url!Answered
  <2>2. /\ DOMAIN song' = SongFields /\ song'.at = "done" /\ song'.answer = out
        /\ \A f \in SongFields \ {"at", "answer"} : song'[f] = song[f]
    BY <1>1, <2>1 DEF SongFields
  <2>3. out.url = r.mark /\ out.leg = leg /\ out.delivery = Url!Classified(leg, r)
    BY DEF Url!Output
  <2>4. out.url # "none" /\ Claim(out) \in song.obtained
    BY <1>3, <2>3 DEF SongInv, ClaimsAreObtained, Claim
  <2> HIDE DEF out
  <2>5. ClaimsAreObtained'
    BY <2>2 DEF SongInv, SongFields, ClaimsAreObtained, Claim, Url!Classified, Url!Classify,
       Url!ClipEvidence, Url!Uncertain, Url!TrackKnown
  <2>6. song'.obtained = song.obtained
    BY <2>2 DEF SongFields
  <2> QED
    BY <2>2, <2>4, <2>5, <2>6 DEF SongInv, Searching, NothingYet, Url!AnswerIsOfOneReply,
       Url!RejectedSessionIsSaid, Claim
<1> QED
  BY <1>2, <1>3

LEMMA SongStep == SongInv /\ [Url!SongUrlNext]_(Url!songVars) => SongInv'
<1> SUFFICES ASSUME SongInv, [Url!SongUrlNext]_(Url!songVars) PROVE SongInv'
  OBVIOUS
<1>1. CASE Url!SongUrlNext
  BY <1>1, SongV6, SongV6Returned, SongV5Main, SongV5MainReturned, SongPreview, SongPreviewReturned,
     SongV5Anonymous, SongV5AnonymousReturned, SongAnswer, SongRun DEF Url!SongUrlNext, Searching
<1>2. CASE UNCHANGED Url!songVars
  BY <1>2 DEF Url!songVars, SongInv, ClaimsAreObtained, NothingYet, Url!AnswerIsOfOneReply,
     Url!RejectedSessionIsSaid, Claim, Url!Classified, Url!Classify, Url!ClipEvidence,
     Url!Uncertain, Url!TrackKnown, Url!Authenticated
<1> QED
  BY <1>1, <1>2

(* The clock of the call, and the slice of the leg that runs. *)
SongTime ==
  /\ DOMAIN song = SongFields /\ song.clock \in Nat /\ song.slice \in Nat
  /\ Url!LegsKeepDeadline

LEMMA ForStageOK ==
  ASSUME NEW leg, song.clock \in Nat
  PROVE  /\ Url!ForStage(leg) \in Nat
         /\ Url!ForStage(leg) > 0 => /\ song.clock + Url!ForStage(leg) <= Url!DeadlineSongUrlMs
                                     /\ Url!ForStage(leg) >= Url!kMinimumHttpBudgetMs
<1> DEFINE left == IF song.clock < Url!DeadlineSongUrlMs THEN Url!DeadlineSongUrlMs - song.clock ELSE 0
<1>1. left \in Nat /\ Url!StageOf(leg) \in Nat /\ Url!StageOf(leg) >= Url!kMinimumHttpBudgetMs
  BY DEF Url!StageOf, Url!Stage, Url!DeadlineSongUrlMs, Url!kMinimumHttpBudgetMs
<1>2. /\ Url!Min({Url!StageOf(leg), left}) \in {Url!StageOf(leg), left}
      /\ Url!Min({Url!StageOf(leg), left}) <= left
  BY <1>1, UrlMinOK
<1> QED
  BY <1>1, <1>2 DEF Url!ForStage, Url!DeadlineSongUrlMs, Url!kMinimumHttpBudgetMs

LEMMA NoLeg == song.slice = 0 => Url!LegsKeepDeadline
BY DEF Url!LegsKeepDeadline, Url!DeadlineSongUrlMs

LEMMA SongTimeInit == Url!SongUrlInit => SongTime
<1> SUFFICES ASSUME Url!SongUrlInit PROVE SongTime
  OBVIOUS
<1>1. PICK ss, pp, gg, quality :
    song = [at |-> "v6", clock |-> 0, session |-> ss, post |-> pp, get |-> gg,
            quality |-> quality, fallback |-> Url!NoAnswer, attempts |-> {}, upstream |-> Url!NoAnswer,
            best |-> Url!NoAnswer, answer |-> Url!NoAnswer, obtained |-> {}, slice |-> 0]
  BY DEF Url!SongUrlInit
<1>2. DOMAIN song = SongFields
  BY <1>1 DEF SongFields
<1>3. song.clock = 0 /\ song.slice = 0
  BY <1>1
<1>4. song.clock \in Nat /\ song.slice \in Nat
  BY <1>3
<1> QED
  BY <1>2, <1>3, <1>4, NoLeg DEF SongTime

LEMMA SongTimeKept ==
  ASSUME SongTime, DOMAIN song' = SongFields, song'.clock = song.clock,
         song'.slice \in {0, song.slice}
  PROVE  SongTime'
<1>1. CASE song'.slice = song.slice
  BY <1>1 DEF SongTime, Url!LegsKeepDeadline
<1>2. CASE song'.slice = 0
  <2>1. Url!LegsKeepDeadline'
    BY <1>2 DEF Url!LegsKeepDeadline, Url!DeadlineSongUrlMs
  <2> QED
    BY <1>2, <2>1 DEF SongTime
<1> QED
  BY <1>1, <1>2

LEMMA SongTimeStep ==
  ASSUME SongTime, [Url!SongUrlNext]_(Url!songVars)
  PROVE  SongTime'
<1> USE DEF SongTime, SongFields, Url!LegsKeepDeadline
<1>1. CASE \E leg : Url!Start(leg)
  <2>1. PICK leg : Url!Start(leg)
    BY <1>1
  <2> QED
    BY <2>1, ForStageOK DEF Url!Start
<1>2. CASE Url!Run
  <2>1. PICK t \in {0, song.slice, song.slice + Delay} :
          song' = [song EXCEPT !.clock = @ + t, !.slice = Url!DeadlineSongUrlMs + 1]
    BY <1>2 DEF Url!Run
  <2>2. t \in Nat
    BY SongUrlAssumption
  <2>3. song'.clock = song.clock + t /\ song'.slice = 10001 /\ DOMAIN song' = SongFields
    BY <2>1 DEF Url!DeadlineSongUrlMs
  <2> QED
    BY <2>2, <2>3 DEF Url!DeadlineSongUrlMs
<1>3. CASE /\ DOMAIN song' = SongFields /\ song'.clock = song.clock
           /\ song'.slice \in {0, song.slice}
  BY <1>3, SongTimeKept
<1>4. ASSUME NEW s, NEW code, DOMAIN s = SongFields, s.clock = song.clock, s.slice \in {0, song.slice},
             Url!OrFallback(s, code)
      PROVE  SongTime'
  <2>1. \E answer : song' = [s EXCEPT !.at = "done", !.answer = answer]
    BY <1>4 DEF Url!OrFallback, Url!Answered
  <2> QED
    BY <1>3, <1>4, <2>1
<1>5. ASSUME NEW leg, NEW r, NEW anonymous
      PROVE  /\ DOMAIN Url!Take(leg, r, anonymous) = SongFields
             /\ Url!Take(leg, r, anonymous).clock = song.clock
             /\ Url!Take(leg, r, anonymous).slice = 0
             /\ DOMAIN Url!Reply(leg, r, anonymous) = SongFields
             /\ Url!Reply(leg, r, anonymous).clock = song.clock
             /\ Url!Reply(leg, r, anonymous).slice = 0
  BY DEF Url!Take, Url!Obtain, Url!Reply
<1>6. CASE Url!V6
  BY <1>1, <1>3, <1>6 DEF Url!V6
<1>7. CASE Url!V6Returned
  <2>1. PICK r \in V6Replies :
          LET reply == Url!Reply("v6", Url!V6Envelope(r), ~song.session) IN
          IF r.outcome # "answer" \/ r.err # "ok" \/ Url!Usable(r.items) = {}
          THEN song' = [reply EXCEPT !.at = "v5-main"]
          ELSE LET chosen == Url!SwitchQuality(r.items)
                   s == Url!Obtain(reply, "v6", chosen)
               IN IF Url!Degraded(Url!V6Output(chosen))
                  THEN song' = [s EXCEPT !.at = "v5-main", !.fallback = Url!V6Output(chosen)]
                  ELSE Url!Answered(s, Url!V6Output(chosen))
    BY <1>7 DEF Url!V6Returned
  <2> DEFINE reply == Url!Reply("v6", Url!V6Envelope(r), ~song.session)
             s == Url!Obtain(reply, "v6", Url!SwitchQuality(r.items))
  <2>2. DOMAIN s = SongFields /\ s.clock = song.clock /\ s.slice = 0
    BY <1>5 DEF Url!Obtain
  <2>3. \/ song' = [reply EXCEPT !.at = "v5-main"]
        \/ \E out : song' = [s EXCEPT !.at = "v5-main", !.fallback = out]
        \/ \E out : song' = [s EXCEPT !.at = "done", !.answer = out]
    BY <2>1 DEF Url!Answered
  <2>4. DOMAIN reply = SongFields /\ reply.clock = song.clock /\ reply.slice = 0
    BY <1>5
  <2> HIDE DEF s, reply
  <2> QED
    BY <1>3, <2>2, <2>3, <2>4
<1>8. CASE Url!V5Main
  BY <1>1, <1>4, <1>8 DEF Url!V5Main
<1>9. CASE Url!V5MainReturned
  <2>1. PICK r \in V5Replies :
          LET s == [Url!Reply("v5-main", r, ~song.session) EXCEPT !.upstream = r] IN
          IF r.outcome # "answer" THEN Url!OrFallback(s, "native_song_url_failed")
          ELSE IF r.mark # "none"
          THEN song' = [Url!Take("v5-main", r, ~song.session) EXCEPT !.upstream = r]
          ELSE song' = [s EXCEPT !.at = IF r.offset THEN "v5-preview" ELSE "v5-anon"]
    BY <1>9 DEF Url!V5MainReturned
  <2> DEFINE s == [Url!Reply("v5-main", r, ~song.session) EXCEPT !.upstream = r]
             t == Url!Take("v5-main", r, ~song.session)
  <2>2. DOMAIN s = SongFields /\ s.clock = song.clock /\ s.slice = 0
    BY <1>5
  <2>3. DOMAIN t = SongFields /\ t.clock = song.clock /\ t.slice = 0
    BY <1>5
  <2>4. \/ Url!OrFallback(s, "native_song_url_failed")
        \/ song' = [t EXCEPT !.upstream = r]
        \/ \E place : song' = [s EXCEPT !.at = place]
    BY <2>1
  <2> HIDE DEF s, t
  <2> QED
    BY <1>3, <1>4, <2>2, <2>3, <2>4
<1>10. ASSUME NEW leg, NEW next, Url!Preview(leg, next)
       PROVE  SongTime'
  BY <1>1, <1>3, <1>10 DEF Url!Preview
<1>11. ASSUME NEW leg, NEW next, Url!PreviewReturned(leg, next)
       PROVE  SongTime'
  <2>1. PICK r : \/ song' = Url!Take(leg, r, TRUE)
                 \/ song' = [Url!Reply(leg, r, TRUE) EXCEPT !.at = next]
    BY <1>11 DEF Url!PreviewReturned
  <2>2. CASE song' = Url!Take(leg, r, TRUE)
    BY <1>3, <1>5, <2>2
  <2>3. CASE song' = [Url!Reply(leg, r, TRUE) EXCEPT !.at = next]
    BY <1>3, <1>5, <2>3
  <2> QED
    BY <2>1, <2>2, <2>3
<1>12. CASE Url!V5Anonymous
  BY <1>1, <1>3, <1>12 DEF Url!V5Anonymous
<1>13. CASE Url!V5AnonymousReturned
  <2>1. PICK r : \/ song' = Url!Take("v5-anon", r, TRUE)
                 \/ \E next : song' = [Url!Reply("v5-anon", r, TRUE) EXCEPT !.at = next]
    BY <1>13 DEF Url!V5AnonymousReturned
  <2>2. CASE song' = Url!Take("v5-anon", r, TRUE)
    BY <1>3, <1>5, <2>2
  <2>3. CASE \E next : song' = [Url!Reply("v5-anon", r, TRUE) EXCEPT !.at = next]
    <3>1. PICK next : song' = [Url!Reply("v5-anon", r, TRUE) EXCEPT !.at = next]
      BY <2>3
    <3> QED
      BY <1>3, <1>5, <3>1
  <2> QED
    BY <2>1, <2>2, <2>3
<1>14. CASE Url!Answer
  <2>1. \/ Url!OrFallback(song, Url!ErrorCode)
        \/ \E out : song' = [song EXCEPT !.at = "done", !.answer = out]
    BY <1>14 DEF Url!Answer, Url!Answered
  <2> QED
    BY <1>3, <1>4, <2>1
<1>15. CASE UNCHANGED Url!songVars
  BY <1>3, <1>15 DEF Url!songVars
<1> QED
  BY <1>2, <1>6, <1>7, <1>8, <1>9, <1>10, <1>11, <1>12, <1>13, <1>14, <1>15 DEF Url!SongUrlNext

(* An address is described by the reply that carried it, one that was obtained is
   returned, a rejected session is said to be that where the upstream gave no
   words of its own, and no leg outlives the deadline of the route (Resolve() of
   SongUrlService.cpp). *)
THEOREM AnswerIsOfOneReplyCorrect == UpstreamSpec => []AnswerIsOfOneReply
<1> DEFINE I == suite = "url" => SongInv /\ SongTime
<1>1. UpstreamInit => I
  BY SongTimeInit, SongInvInit DEF UpstreamInit
<1>2. I /\ [UNCHANGED suite /\ UpstreamNext]_<<suite, upstreamVars>> => I'
  <2> SUFFICES ASSUME I, [UNCHANGED suite /\ UpstreamNext]_<<suite, upstreamVars>>, suite' = "url" PROVE SongInv' /\ SongTime'
    OBVIOUS
  <2>1. suite = "url" /\ [Url!SongUrlNext]_(Url!songVars)
    BY DEF UpstreamNext, upstreamVars, Url!songVars
  <2> QED
    BY <2>1, SongStep, SongTimeStep
<1>3. I => AnswerIsOfOneReply
  BY DEF AnswerIsOfOneReply, SongInv, SongTime
<1> QED
  BY <1>1, <1>2, <1>3, PTL DEF UpstreamSpec

-----------------------------------------------------------------------------
(* HttpRetry                                                                 *)

HttpFields == {"at", "method", "budget", "attempts", "used", "slice", "result", "stalls"}

HttpTypeOK ==
  /\ DOMAIN http = HttpFields
  /\ http.at \in {"idle", "next", "attempt", "polled", "ended", "why", "backoff", "done"}
  /\ http.method \in Retry!Methods
  /\ http.budget \in Nat /\ http.used \in Nat /\ http.slice \in Nat
  /\ http.attempts \in 0..3 /\ http.stalls \in 0..3

(* How many attempts there are, and how the time is shared. *)
Running == {"attempt", "polled"}
Shares ==
  /\ http.used <= http.budget
  /\ http.at = "idle"    => http.used = 0 /\ http.attempts = 0 /\ http.stalls = 0
  /\ http.at = "next"    => http.attempts < Retry!Attempts(http.method, http.budget)
  /\ http.at \in Running => /\ http.used + http.slice <= http.budget /\ http.slice > 0
                            /\ http.stalls < http.attempts
  /\ http.at \in Running \cup {"ended"} => http.attempts \in 1..Retry!Attempts(http.method, http.budget)
  /\ http.at = "backoff" => /\ http.used + http.slice <= http.budget
                            /\ http.attempts > 0
                            /\ http.attempts < Retry!Attempts(http.method, http.budget)
  /\ http.stalls <= http.attempts

(* A budget that stalls cannot use up, and what is left of it after the first
   and the second attempt that stalled. *)
Roomy == http.method \in {"Get", "GetInteractive"} /\ http.budget > (IF http.method = "Get" THEN 5500 ELSE 2000)
Rest  == IF http.method = "Get" THEN IF http.attempts = 1 THEN 5500 ELSE 3500
                                ELSE IF http.attempts = 1 THEN 1500 ELSE 800
StallsLeaveRoom ==
  Roomy =>
    /\ http.at = "next" /\ http.attempts = 0 => http.used = 0
    /\ /\ http.at = "next" /\ http.attempts \in {1, 2} /\ http.stalls = http.attempts
       /\ ~Retry!Stopped
       => http.budget - http.used = Rest - Retry!Backoffs(http.method)[http.attempts]
    /\ http.at \in Running /\ http.attempts \in {1, 2} /\ http.stalls + 1 = http.attempts
       => http.budget - (http.used + http.slice) = Rest
    /\ http.at = "ended" /\ http.attempts \in {1, 2} /\ http.stalls = http.attempts
       => http.budget - http.used = Rest
    /\ http.at = "backoff" /\ http.stalls = http.attempts
       => /\ http.budget - http.used = Rest
          /\ http.slice = Retry!Backoffs(http.method)[http.attempts]

(* The token is raised for the deadline, and a call is stopped for a reason. *)
StopInv ==
  /\ DOMAIN stop = {"late", "raced", "token", "early", "caller"}
  /\ (stop.token => stop.late \/ stop.early) /\ (stop.early => stop.token) /\ (stop.raced => stop.late)
  /\ http.at = "why" => Retry!Stopped
  /\ http.at = "polled" /\ stop.late => stop.raced
  /\ http.at = "ended" /\ http.result = "cancelled" => stop.caller \/ stop.early \/ stop.raced

HttpInv == HttpTypeOK /\ Shares /\ StallsLeaveRoom /\ StopInv
           /\ Retry!BudgetIsShared /\ Retry!DeadlineIsNoCancel

LEMMA RetryMinMax ==
  ASSUME NEW m \in Nat, NEW n \in Nat
  PROVE  /\ Retry!Min({m, n}) = IF m <= n THEN m ELSE n
         /\ Retry!Max({m, n}) = IF m <= n THEN n ELSE m
<1>1. Retry!Min({m, n}) = IF m <= n THEN m ELSE n
  <2> DEFINE P(x) == x \in {m, n} /\ \A y \in {m, n} : x <= y
  <2>1. P(IF m <= n THEN m ELSE n)
    OBVIOUS
  <2>2. \A x, y : P(x) /\ P(y) => x = y
    OBVIOUS
  <2> QED
    BY <2>1, <2>2 DEF Retry!Min
<1>2. Retry!Max({m, n}) = IF m <= n THEN n ELSE m
  <2> DEFINE P(x) == x \in {m, n} /\ \A y \in {m, n} : x >= y
  <2>1. P(IF m <= n THEN n ELSE m)
    OBVIOUS
  <2>2. \A x, y : P(x) /\ P(y) => x = y
    OBVIOUS
  <2> QED
    BY <2>1, <2>2 DEF Retry!Max
<1> QED
  BY <1>1, <1>2

LEMMA AttemptsOK ==
  ASSUME NEW method, NEW budget \in Nat
  PROVE  /\ Retry!Attempts(method, budget) \in {1, 3}
         /\ method = "Get" => Retry!Attempts(method, budget) = 3
         /\ method = "GetInteractive" /\ budget > 2000 => Retry!Attempts(method, budget) = 3
BY DEF Retry!Attempts

LEMMA SingleAttemptCapOK ==
  ASSUME NEW left \in Nat, NEW n \in 0..2
  PROVE  /\ Retry!SingleAttemptCap(left, n) \in Nat
         /\ Retry!SingleAttemptCap(left, n) <= left
         /\ left > 0 => Retry!SingleAttemptCap(left, n) > 0
         /\ n = 0 /\ left > 5500 => Retry!SingleAttemptCap(left, n) = left - 5500
         /\ n = 1 /\ left > 3500 => Retry!SingleAttemptCap(left, n) = left - 3500
         /\ n = 2 => Retry!SingleAttemptCap(left, n) = left
<1>1. Retry!Backoffs("Get") = <<500, 2000>>
  BY DEF Retry!Backoffs
<1>2. Retry!Reserve("Get", n) = IF n = 0 THEN 2500 ELSE IF n = 1 THEN 2000 ELSE 0
  BY <1>1 DEF Retry!Reserve
<1>3. Retry!SingleAttemptCap(left, n) =
        LET rest == Retry!Reserve("Get", n) + 1500 * (2 - n)
        IN IF n = 2 \/ left <= rest THEN left ELSE left - rest
  BY DEF Retry!SingleAttemptCap, Retry!kReservedGetAttemptMs
<1>4. CASE n = 0
  BY <1>2, <1>3, <1>4
<1>5. CASE n = 1
  BY <1>2, <1>3, <1>5
<1>6. CASE n = 2
  BY <1>2, <1>3, <1>6
<1> QED
  BY <1>4, <1>5, <1>6

LEMMA InteractiveCapOK ==
  ASSUME NEW left \in Nat, NEW n \in 0..2
  PROVE  /\ Retry!InteractiveCap(left, n) \in Nat
         /\ Retry!InteractiveCap(left, n) <= left
         /\ left > 0 => Retry!InteractiveCap(left, n) > 0
         /\ n = 0 /\ left > 2000 => Retry!InteractiveCap(left, n) = left - 1500
         /\ n = 1 /\ left > 1300 => Retry!InteractiveCap(left, n) = left - 800
         /\ n = 2 => Retry!InteractiveCap(left, n) = left
<1>1. Retry!Backoffs("GetInteractive") = <<100, 200>>
  BY DEF Retry!Backoffs
<1>2. Retry!Reserve("GetInteractive", n) = IF n = 0 THEN 300 ELSE IF n = 1 THEN 200 ELSE 0
  BY <1>1 DEF Retry!Reserve
<1> DEFINE reserve == Retry!Reserve("GetInteractive", n)
           share   == Retry!Minus(left, reserve) \div (3 - n)
<1>3. share \in Nat
  <2>1. Retry!Minus(left, reserve) \in Nat /\ 3 - n \in 1..3
    BY <1>2 DEF Retry!Minus
  <2> QED
    BY <2>1
<1>4. /\ Retry!Max({100, share}) \in Nat /\ Retry!Max({100, share}) >= 100
      /\ Retry!Min({left, Retry!Max({100, share})}) \in Nat
      /\ Retry!Min({left, Retry!Max({100, share})}) <= left
      /\ left > 0 => Retry!Min({left, Retry!Max({100, share})}) > 0
  <2> HIDE DEF share
  <2>1. PICK s \in Nat : s = share
    BY <1>3
  <2>2. Retry!Max({100, s}) = IF 100 <= s THEN s ELSE 100
    BY RetryMinMax
  <2>3. PICK k \in Nat : k = Retry!Max({100, s}) /\ k >= 100
    BY <2>2
  <2>4. Retry!Min({left, k}) = IF left <= k THEN left ELSE k
    BY RetryMinMax
  <2> QED
    BY <2>1, <2>3, <2>4
<1>5. Retry!InteractiveCap(left, n) =
        IF n = 2 THEN left
        ELSE IF left > reserve + 600 * (2 - n) + 500 THEN left - (reserve + 600 * (2 - n))
        ELSE Retry!Min({left, Retry!Max({100, share})})
  BY DEF Retry!InteractiveCap
<1> HIDE DEF share
<1>6. CASE n = 0
  BY <1>2, <1>4, <1>5, <1>6
<1>7. CASE n = 1
  BY <1>2, <1>4, <1>5, <1>7
<1>8. CASE n = 2
  BY <1>2, <1>4, <1>5, <1>8
<1> QED
  BY <1>6, <1>7, <1>8

LEMMA SliceOK ==
  ASSUME HttpTypeOK, NEW left \in Nat, NEW n \in 0..2, left > 0
  PROVE  /\ Retry!Slice(left, n) \in Nat /\ Retry!Slice(left, n) <= left /\ Retry!Slice(left, n) > 0
         /\ Roomy =>
              /\ n = 0 /\ left = http.budget =>
                   left - Retry!Slice(left, n) = IF http.method = "Get" THEN 5500 ELSE 1500
              /\ n = 1 /\ left = (IF http.method = "Get" THEN 5000 ELSE 1400) =>
                   left - Retry!Slice(left, n) = IF http.method = "Get" THEN 3500 ELSE 800
<1> USE DEF HttpTypeOK
<1>1. CASE http.method = "Get"
  BY <1>1, SingleAttemptCapOK DEF Retry!Slice, Roomy
<1>2. CASE http.method = "GetInteractive" /\ Retry!Attempts(http.method, http.budget) = 3
  <2>1. Retry!Slice(left, n) = Retry!InteractiveCap(left, n)
    BY <1>2 DEF Retry!Slice
  <2> QED
    BY <1>2, <2>1, InteractiveCapOK DEF Roomy
<1>3. CASE http.method = "GetInteractive" /\ Retry!Attempts(http.method, http.budget) # 3
  <2>1. Retry!Slice(left, n) = left
    BY <1>3 DEF Retry!Slice
  <2>2. ~Roomy
    BY <1>3, AttemptsOK DEF Roomy
  <2> QED
    BY <2>1, <2>2
<1>4. CASE http.method \in {"Post", "GetOnce"}
  <2>1. Retry!Slice(left, n) = left
    BY <1>4 DEF Retry!Slice
  <2> QED
    BY <1>4, <2>1 DEF Roomy
<1> QED
  BY <1>1, <1>2, <1>3, <1>4 DEF Retry!Methods, Retry!Gets

LEMMA HttpInit == Retry!HttpRetryInit => HttpInv
<1> SUFFICES ASSUME Retry!HttpRetryInit PROVE HttpInv
  OBVIOUS
<1>1. /\ DOMAIN http = HttpFields /\ http.at = "idle" /\ http.method = "Get" /\ http.budget = 0
      /\ http.attempts = 0 /\ http.used = 0 /\ http.slice = 0 /\ http.result = "none"
      /\ http.stalls = 0
  BY DEF Retry!HttpRetryInit, HttpFields
<1>2. /\ DOMAIN stop = {"late", "raced", "token", "early", "caller"}
      /\ stop.token = FALSE /\ stop.early = FALSE /\ stop.raced = FALSE
  BY DEF Retry!HttpRetryInit
<1> QED
  BY <1>1, <1>2 DEF HttpInv, HttpTypeOK, Running, Shares, StallsLeaveRoom, Roomy, StopInv, Retry!Methods,
     Retry!Gets, Retry!BudgetIsShared, Retry!DeadlineIsNoCancel

\* A cancellation that may be reported: of the caller, of an early watchdog, or read in between.
Excused ==
  \/ stop.caller \/ stop.early
  \/ stop.raced /\ http.method \notin Retry!Gets

(* A call that ends or is about to: with a result that is no cancellation unless there is
   an excuse, and with no transient failure after three stalls in a row. *)
LEMMA HttpFinishes ==
  ASSUME HttpInv, stop' = stop, DOMAIN http' = HttpFields, http'.at \in {"why", "done"},
         \A f \in HttpFields \ {"at", "result"} : http'[f] = http[f],
         http'.at = "why" => Retry!Stopped,
         http'.at = "done" /\ http'.result = "cancelled" => Excused,
         http'.result = "transient" /\ http.stalls = http.attempts /\ Roomy /\ http'.at = "done" => http.attempts = 3
  PROVE  HttpInv'
<1>1. /\ http'.used = http.used /\ http'.stalls = http.stalls /\ http'.method = http.method
      /\ http'.budget = http.budget /\ http'.slice = http.slice /\ http'.attempts = http.attempts
  BY DEF HttpFields
<1>2. HttpTypeOK'
  BY <1>1 DEF HttpInv, HttpTypeOK
<1>3. Shares' /\ StallsLeaveRoom'
  BY <1>1 DEF HttpInv, HttpTypeOK, Shares, StallsLeaveRoom, Running
<1>4. StopInv' /\ Retry!DeadlineIsNoCancel'
  BY <1>1 DEF HttpInv, StopInv, Retry!Stopped, Retry!IsCancelled, Retry!DeadlineIsNoCancel, Excused
<1>5. Retry!BudgetIsShared'
  BY <1>1, <1>3 DEF Retry!BudgetIsShared, Roomy, Shares
<1> QED
  BY <1>2, <1>3, <1>4, <1>5 DEF HttpInv

(* An attempt that ends. *)
LEMMA HttpEnds ==
  ASSUME HttpInv, http.at \in Running, stop' = stop, NEW result, NEW used, NEW stalled,
         Retry!Ends(result, used, stalled),
         result = "cancelled" => stop.caller \/ stop.early \/ stop.raced,
         \/ stalled = 0 /\ used = http.used
         \/ stalled = 1 /\ used = http.used + http.slice
  PROVE  HttpInv'
<1>1. /\ DOMAIN http = HttpFields /\ http.budget \in Nat /\ http.used \in Nat /\ http.slice \in Nat
      /\ http.attempts \in 1..3 /\ http.stalls \in 0..3 /\ http.method \in Retry!Methods
      /\ http.stalls < http.attempts /\ http.used + http.slice <= http.budget
      /\ http.attempts \in 1..Retry!Attempts(http.method, http.budget)
      /\ Retry!Attempts(http.method, http.budget) \in {1, 3}
  <2>1. http.budget \in Nat /\ http.method \in Retry!Methods
    BY DEF HttpInv, HttpTypeOK
  <2>2. Retry!Attempts(http.method, http.budget) \in {1, 3}
    BY <2>1, AttemptsOK
  <2> QED
    BY <2>1, <2>2 DEF HttpInv, HttpTypeOK, Shares, Running
<1>2. /\ DOMAIN http' = HttpFields /\ http'.at = "ended" /\ http'.result = result /\ http'.used = used
      /\ http'.stalls = http.stalls + stalled
      /\ http'.method = http.method /\ http'.budget = http.budget /\ http'.slice = http.slice
      /\ http'.attempts = http.attempts
  BY <1>1 DEF Retry!Ends, HttpFields
<1>3. /\ used \in Nat /\ used <= http.budget
      /\ http.stalls + stalled \in 0..3 /\ http.stalls + stalled <= http.attempts
  BY <1>1
<1>4. HttpTypeOK'
  BY <1>1, <1>2, <1>3 DEF HttpTypeOK
<1>5. Shares'
  BY <1>1, <1>2, <1>3 DEF Shares, Running
<1>6. StallsLeaveRoom'
  <2> SUFFICES ASSUME Roomy, http.attempts \in {1, 2}, http.stalls + stalled = http.attempts
               PROVE  http.budget - used = Rest
    BY <1>2 DEF StallsLeaveRoom, Running, Roomy, Rest
  <2>1. stalled = 1 /\ used = http.used + http.slice
    BY <1>1
  <2> QED
    BY <2>1 DEF HttpInv, StallsLeaveRoom
<1>7. StopInv' /\ Retry!DeadlineIsNoCancel' /\ Retry!BudgetIsShared'
  BY <1>2, <1>3 DEF HttpInv, StopInv, Retry!IsCancelled, Retry!DeadlineIsNoCancel, Retry!BudgetIsShared
<1> QED
  BY <1>4, <1>5, <1>6, <1>7 DEF HttpInv

LEMMA HttpInterrupted == HttpInv /\ (Retry!Interrupted \/ Retry!Polled) => HttpInv'
<1> SUFFICES ASSUME HttpInv, Retry!Interrupted \/ Retry!Polled PROVE HttpInv'
  OBVIOUS
<1>1. /\ http.at \in Running /\ stop' = stop /\ DOMAIN http = HttpFields
      /\ http.used \in Nat /\ http.slice \in Nat
  BY DEF Retry!Interrupted, Retry!Polled, Running, HttpInv, HttpTypeOK
<1>2. CASE \E at \in Running : http' = [http EXCEPT !.at = at] /\ (at = "polled" => ~stop.late)
  <2>1. /\ http'.at \in Running /\ DOMAIN http' = HttpFields /\ (http'.at = "polled" => ~stop.late)
        /\ \A f \in HttpFields \ {"at"} : http'[f] = http[f]
    BY <1>1, <1>2 DEF HttpFields
  <2>2. /\ http'.used = http.used /\ http'.stalls = http.stalls /\ http'.method = http.method
        /\ http'.budget = http.budget /\ http'.slice = http.slice /\ http'.attempts = http.attempts
        /\ http'.result = http.result
    BY <2>1 DEF HttpFields
  <2>3. HttpTypeOK' /\ Shares' /\ StopInv'
    BY <1>1, <2>1, <2>2 DEF HttpInv, HttpTypeOK, Shares, Running, StopInv
  <2>4. StallsLeaveRoom' /\ Retry!BudgetIsShared' /\ Retry!DeadlineIsNoCancel'
    BY <1>1, <2>1, <2>2 DEF HttpInv, StallsLeaveRoom, Shares, Roomy, Rest, Running, Retry!BudgetIsShared,
       Retry!DeadlineIsNoCancel
  <2> QED
    BY <2>3, <2>4 DEF HttpInv
<1>3. CASE \E result : /\ Retry!Ends(result, http.used, 0)
                       /\ result = "cancelled" => stop.caller \/ stop.early \/ stop.raced
  BY <1>1, <1>3, HttpEnds
<1>4. CASE Retry!Ends("transient", http.used + http.slice, 1)
  BY <1>1, <1>4, HttpEnds
<1>5. http.at = "polled" /\ Retry!IsCancelled => stop.caller \/ stop.early \/ stop.raced
  BY DEF HttpInv, StopInv, Retry!IsCancelled
<1> QED
  BY <1>2, <1>3, <1>4, <1>5 DEF Retry!Interrupted, Retry!Polled, Running

LEMMA HttpSaysWhy == HttpInv /\ Retry!SetStopReason => HttpInv'
<1> SUFFICES ASSUME HttpInv, Retry!SetStopReason PROVE HttpInv'
  OBVIOUS
<1> DEFINE result == IF stop.late THEN "total_budget_exhausted" ELSE "cancelled"
<1>1. DOMAIN http = HttpFields /\ http' = [http EXCEPT !.at = "done", !.result = result] /\ stop' = stop
  BY DEF HttpInv, HttpTypeOK, Retry!SetStopReason
<1>2. result = "cancelled" => Excused
  BY DEF HttpInv, StopInv, Retry!SetStopReason, Retry!Stopped, Retry!IsCancelled, Excused
<1>3. result # "transient"
  OBVIOUS
<1> HIDE DEF result
<1>4. /\ DOMAIN http' = HttpFields /\ http'.at = "done" /\ http'.result = result
      /\ \A f \in HttpFields \ {"at", "result"} : http'[f] = http[f]
  BY <1>1 DEF HttpFields
<1> QED
  BY <1>1, <1>2, <1>3, <1>4, HttpFinishes

LEMMA BackoffsOK ==
  ASSUME NEW method \in Retry!Methods, NEW n \in {1, 2}
  PROVE  /\ Retry!Backoffs(method)[n] \in Nat
         /\ method = "Get" => Retry!Backoffs(method)[n] = IF n = 1 THEN 500 ELSE 2000
         /\ method # "Get" => Retry!Backoffs(method)[n] = IF n = 1 THEN 100 ELSE 200
<1>1. Retry!Backoffs(method) = IF method = "Get" THEN <<500, 2000>> ELSE <<100, 200>>
  BY DEF Retry!Backoffs
<1>2. CASE method = "Get"
  BY <1>1, <1>2
<1>3. CASE method # "Get"
  BY <1>1, <1>3
<1> QED
  BY <1>2, <1>3

(* After a stall there is room for the pause and an attempt of use. *)
LEMMA RoomyFits ==
  ASSUME HttpInv, http.attempts \in {1, 2}, Roomy
  PROVE  Retry!BackoffFits(Rest, Retry!Backoffs(http.method)[http.attempts])
<1>1. http.method \in {"Get", "GetInteractive"}
  BY DEF Roomy
<1>2. PICK n \in {1, 2} : n = http.attempts
  OBVIOUS
<1>3. CASE http.method = "Get"
  <2>1. Retry!Backoffs(http.method)[n] = IF n = 1 THEN 500 ELSE 2000
    BY <1>3, BackoffsOK DEF Retry!Methods, Retry!Gets
  <2>2. Rest = IF n = 1 THEN 5500 ELSE 3500
    BY <1>2, <1>3 DEF Rest
  <2>3. Retry!SingleAttemptCap(5000, 1) = 1500 /\ Retry!SingleAttemptCap(1500, 2) = 1500
    BY SingleAttemptCapOK
  <2>4. CASE n = 1
    BY <1>2, <1>3, <2>1, <2>2, <2>3, <2>4 DEF Retry!BackoffFits, Retry!kMinimumGetAttemptBudgetMs
  <2>5. CASE n = 2
    BY <1>2, <1>3, <2>1, <2>2, <2>3, <2>5 DEF Retry!BackoffFits, Retry!kMinimumGetAttemptBudgetMs
  <2> QED
    BY <2>4, <2>5
<1>4. CASE http.method = "GetInteractive"
  <2>1. Retry!Backoffs(http.method)[n] = IF n = 1 THEN 100 ELSE 200
    BY <1>4, BackoffsOK DEF Retry!Methods, Retry!Gets
  <2>2. Rest = IF n = 1 THEN 1500 ELSE 800
    BY <1>2, <1>4 DEF Rest
  <2> QED
    BY <1>2, <1>4, <2>1, <2>2 DEF Retry!BackoffFits
<1> QED
  BY <1>1, <1>3, <1>4

LEMMA FitsOK ==
  ASSUME NEW left \in Nat, NEW backoff \in Nat, Retry!BackoffFits(left, backoff)
  PROVE  backoff <= left
BY DEF Retry!BackoffFits

(* An attempt that has ended is given up, reported, or followed by a pause. *)
LEMMA HttpAttempted == HttpInv /\ Retry!Attempted => HttpInv'
<1> SUFFICES ASSUME HttpInv, Retry!Attempted PROVE HttpInv'
  OBVIOUS
<1>1. /\ http.at = "ended" /\ stop' = stop /\ DOMAIN http = HttpFields
      /\ http.budget \in Nat /\ http.used \in Nat /\ http.slice \in Nat /\ http.used <= http.budget
      /\ http.attempts \in 1..3 /\ http.stalls \in 0..3 /\ http.stalls <= http.attempts
      /\ http.method \in Retry!Methods
      /\ http.attempts <= Retry!Attempts(http.method, http.budget)
      /\ Retry!Attempts(http.method, http.budget) \in {1, 3}
      /\ Roomy => Retry!Attempts(http.method, http.budget) = 3
  <2>1. http.at = "ended" /\ stop' = stop /\ http.budget \in Nat /\ http.method \in Retry!Methods
    BY DEF HttpInv, HttpTypeOK, Retry!Attempted
  <2>2. /\ Retry!Attempts(http.method, http.budget) \in {1, 3}
        /\ Roomy => Retry!Attempts(http.method, http.budget) = 3
    BY <2>1, AttemptsOK DEF Roomy
  <2>3. http.attempts \in 1..Retry!Attempts(http.method, http.budget)
    BY <2>1 DEF HttpInv, Shares, Running
  <2> QED
    BY <2>1, <2>2, <2>3 DEF HttpInv, HttpTypeOK, Shares
<1> DEFINE backoff == Retry!Backoffs(http.method)[http.attempts]
           last    == http.attempts = Retry!Attempts(http.method, http.budget)
           fits    == Retry!BackoffFits(Retry!Left, backoff)
           asked   == http.method \in Retry!Gets /\ Retry!Stopped
           again   == Retry!InteractiveTransient(http.result)
<1>2. \/ asked /\ http' = [http EXCEPT !.at = "why"]
      \/ ~asked /\ (~again \/ last) /\ http' = [http EXCEPT !.at = "done"]
      \/ ~asked /\ again /\ ~last /\ ~fits /\ http' = [http EXCEPT !.at = "done"]
      \/ ~asked /\ again /\ ~last /\ fits /\ http' = [http EXCEPT !.at = "backoff", !.slice = backoff]
  BY DEF Retry!Attempted
<1>3. ASSUME ~last PROVE http.attempts \in {1, 2} /\ backoff \in Nat
  <2>1. http.attempts \in {1, 2}
    BY <1>1, <1>3
  <2> QED
    BY <1>1, <2>1, BackoffsOK
<1>4. CASE asked /\ http' = [http EXCEPT !.at = "why"]
  <2>1. /\ DOMAIN http' = HttpFields /\ http'.at = "why"
        /\ \A f \in HttpFields \ {"at", "result"} : http'[f] = http[f]
    BY <1>1, <1>4 DEF HttpFields
  <2> QED
    BY <1>1, <1>4, <2>1, HttpFinishes
<1>5. ASSUME ~asked, http' = [http EXCEPT !.at = "done"],
             http.result = "transient" /\ http.stalls = http.attempts /\ Roomy => http.attempts = 3
      PROVE  HttpInv'
  <2>1. /\ DOMAIN http' = HttpFields /\ http'.at = "done" /\ http'.result = http.result
        /\ \A f \in HttpFields \ {"at", "result"} : http'[f] = http[f]
    BY <1>1, <1>5 DEF HttpFields
  <2>2. http.result = "cancelled" => Excused
    <3>1. /\ http.result = "cancelled" => stop.caller \/ stop.early \/ stop.raced
          /\ stop.raced => stop.late
      BY <1>1 DEF HttpInv, StopInv
    <3> QED
      BY <1>1, <1>5, <3>1 DEF Excused, Retry!Stopped, Retry!IsCancelled
  <2> QED
    BY <1>1, <1>5, <2>1, <2>2, HttpFinishes
<1>6. CASE ~asked /\ (~again \/ last) /\ http' = [http EXCEPT !.at = "done"]
  <2>1. http.result = "transient" => last
    BY <1>6 DEF Retry!InteractiveTransient
  <2>2. last /\ Roomy => http.attempts = 3
    BY <1>1
  <2> QED
    BY <1>5, <1>6, <2>1, <2>2
<1>7. ASSUME ~last, Roomy, http.stalls = http.attempts
      PROVE  Retry!Left = Rest /\ fits
  <2>1. http.budget - http.used = Rest
    BY <1>1, <1>3, <1>7 DEF HttpInv, StallsLeaveRoom
  <2>2. Retry!Left = Rest
    BY <2>1 DEF Retry!Left
  <2> QED
    BY <1>3, <1>7, <2>2, RoomyFits
<1>8. CASE ~asked /\ again /\ ~last /\ ~fits /\ http' = [http EXCEPT !.at = "done"]
  BY <1>5, <1>7, <1>8
<1>9. CASE ~asked /\ again /\ ~last /\ fits /\ http' = [http EXCEPT !.at = "backoff", !.slice = backoff]
  <2>1. /\ DOMAIN http' = HttpFields /\ http'.at = "backoff" /\ http'.slice = backoff
        /\ \A f \in HttpFields \ {"at", "slice"} : http'[f] = http[f]
    BY <1>1, <1>9 DEF HttpFields
  <2>2. /\ http'.used = http.used /\ http'.stalls = http.stalls /\ http'.method = http.method
        /\ http'.budget = http.budget /\ http'.attempts = http.attempts /\ http'.result = http.result
    BY <2>1 DEF HttpFields
  <2>3. backoff <= http.budget - http.used
    <3>1. Retry!Left \in Nat /\ Retry!Left = http.budget - http.used
      BY <1>1 DEF Retry!Left
    <3> QED
      BY <1>3, <1>9, <3>1, FitsOK
  <2>4. Roomy /\ http.stalls = http.attempts => Retry!Left = Rest
    BY <1>7, <1>9
  <2>5. ~last /\ backoff \in Nat
    BY <1>3, <1>9
  <2>6. backoff' = backoff
    BY <2>2
  <2> HIDE DEF backoff
  <2>7. HttpTypeOK'
    BY <1>1, <2>1, <2>2, <2>5 DEF HttpTypeOK
  <2>8. Shares'
    BY <1>1, <2>1, <2>2, <2>3, <2>5 DEF Shares, Running
  <2>9. StallsLeaveRoom'
    <3> SUFFICES ASSUME Roomy, http.stalls = http.attempts
                 PROVE  http.budget - http.used = Rest'
      BY <2>1, <2>2, <2>6 DEF StallsLeaveRoom, Roomy, Running, backoff
    <3> QED
      BY <2>2, <2>4 DEF Rest, Retry!Left
  <2>10. StopInv' /\ Retry!DeadlineIsNoCancel' /\ Retry!BudgetIsShared'
    BY <1>1, <2>1, <2>2 DEF HttpInv, StopInv, Retry!DeadlineIsNoCancel, Retry!BudgetIsShared
  <2> QED
    BY <2>7, <2>8, <2>9, <2>10 DEF HttpInv
<1> QED
  BY <1>2, <1>4, <1>6, <1>8, <1>9

LEMMA HttpBegin == HttpInv /\ Retry!Begin => HttpInv'
<1> SUFFICES ASSUME HttpInv, Retry!Begin PROVE HttpInv'
  OBVIOUS
<1>1. PICK method \in Retry!Methods, budget \in Budgets :
        http' = [http EXCEPT !.at = "next", !.method = method, !.budget = budget]
  BY DEF Retry!Begin
<1>2. /\ http.at = "idle" /\ DOMAIN http = HttpFields /\ stop' = stop
      /\ http.used = 0 /\ http.attempts = 0 /\ http.stalls = 0 /\ budget \in Nat
  BY BudgetsAssumption DEF Retry!Begin, HttpInv, HttpTypeOK, Shares
<1>3. /\ DOMAIN http' = HttpFields /\ http'.at = "next" /\ http'.method = method
      /\ http'.budget = budget /\ http'.used = 0 /\ http'.attempts = 0 /\ http'.stalls = 0
      /\ http'.slice = http.slice /\ http'.result = http.result
  BY <1>1, <1>2 DEF HttpFields
<1>4. HttpTypeOK'
  BY <1>2, <1>3 DEF HttpInv, HttpTypeOK
<1>5. Shares'
  <2>1. Retry!Attempts(method, budget) \in {1, 3}
    BY <1>2, AttemptsOK
  <2> QED
    BY <1>2, <1>3, <2>1 DEF Shares, Running
<1>6. StallsLeaveRoom' /\ Retry!BudgetIsShared'
  BY <1>2, <1>3 DEF StallsLeaveRoom, Running, Retry!BudgetIsShared
<1>7. StopInv' /\ Retry!DeadlineIsNoCancel'
  BY <1>2, <1>3 DEF HttpInv, StopInv, Retry!DeadlineIsNoCancel
<1> QED
  BY <1>4, <1>5, <1>6, <1>7 DEF HttpInv

LEMMA HttpAttempt == HttpInv /\ Retry!Attempt => HttpInv'
<1> SUFFICES ASSUME HttpInv, Retry!Attempt PROVE HttpInv'
  OBVIOUS
<1>1. http.at = "next" /\ stop' = stop
  BY DEF Retry!Attempt
<1>2. CASE Retry!Stopped /\ http' = [http EXCEPT !.at = "why"]
  <2>1. /\ DOMAIN http' = HttpFields /\ http'.at = "why"
        /\ \A f \in HttpFields \ {"at", "result"} : http'[f] = http[f]
    BY <1>2 DEF HttpInv, HttpTypeOK, HttpFields
  <2> QED
    BY <1>1, <1>2, <2>1, HttpFinishes
<1>3. CASE http' = [http EXCEPT !.at = "done", !.result = "total_budget_exhausted"]
  <2>1. /\ DOMAIN http' = HttpFields /\ http'.at = "done" /\ http'.result = "total_budget_exhausted"
        /\ \A f \in HttpFields \ {"at", "result"} : http'[f] = http[f]
    BY <1>3 DEF HttpInv, HttpTypeOK, HttpFields
  <2> QED
    BY <1>1, <2>1, HttpFinishes
<1> DEFINE slice == Retry!Slice(Retry!Left, http.attempts)
<1>4. CASE /\ ~Retry!Stopped /\ Retry!Left # 0
           /\ http' = [http EXCEPT !.at = "attempt", !.attempts = @ + 1, !.slice = slice]
  <2>1. /\ DOMAIN http = HttpFields /\ http.budget \in Nat /\ http.used \in Nat
        /\ http.used <= http.budget /\ http.stalls \in 0..3 /\ http.stalls <= http.attempts
        /\ http.method \in Retry!Methods
    BY DEF HttpInv, HttpTypeOK, Shares
  <2>2. Retry!Left \in Nat /\ Retry!Left > 0 /\ Retry!Left = http.budget - http.used
    BY <1>4, <2>1 DEF Retry!Left
  <2>3. /\ http.attempts \in 0..2 /\ http.attempts < Retry!Attempts(http.method, http.budget)
        /\ Retry!Attempts(http.method, http.budget) \in {1, 3}
    <3>1. http.attempts < Retry!Attempts(http.method, http.budget) /\ http.attempts \in 0..3
      BY <1>1 DEF HttpInv, HttpTypeOK, Shares
    <3>2. Retry!Attempts(http.method, http.budget) \in {1, 3}
      BY <2>1, AttemptsOK
    <3> QED
      BY <3>1, <3>2
  <2>4. HttpTypeOK
    BY DEF HttpInv
  <2>5. slice \in Nat /\ slice <= Retry!Left /\ slice > 0
    BY <2>2, <2>3, <2>4, SliceOK
  <2> HIDE DEF slice
  <2>6. /\ DOMAIN http' = HttpFields /\ http'.at = "attempt" /\ http'.slice = slice
        /\ http'.attempts = http.attempts + 1
        /\ \A f \in HttpFields \ {"at", "attempts", "slice"} : http'[f] = http[f]
    BY <1>4, <2>1 DEF HttpFields
  <2>7. /\ http'.used = http.used /\ http'.stalls = http.stalls /\ http'.method = http.method
        /\ http'.budget = http.budget /\ http'.result = http.result
    BY <2>6 DEF HttpFields
  <2>8. HttpTypeOK'
    BY <2>1, <2>3, <2>5, <2>6, <2>7 DEF HttpTypeOK
  <2>9. Shares'
    BY <2>1, <2>2, <2>3, <2>5, <2>6, <2>7 DEF Shares, Running
  <2>10. StallsLeaveRoom'
    <3> SUFFICES ASSUME Roomy, http.attempts + 1 \in {1, 2}, http.stalls = http.attempts
                 PROVE  http.budget - (http.used + slice) = Rest'
      BY <2>1, <2>3, <2>6, <2>7 DEF StallsLeaveRoom, Roomy, Running
    <3>1. CASE http.attempts = 0
      <4>1. http.used = 0
        BY <1>1, <3>1 DEF HttpInv, StallsLeaveRoom
      <4>2. PICK left \in Nat : left = Retry!Left /\ left > 0 /\ left = http.budget
        BY <2>1, <2>2, <4>1
      <4>3. left - Retry!Slice(left, 0) = IF http.method = "Get" THEN 5500 ELSE 1500
        BY <2>4, <4>2, SliceOK
      <4> QED
        BY <2>1, <2>2, <2>5, <2>6, <2>7, <3>1, <4>1, <4>2, <4>3 DEF Rest, slice
    <3>2. CASE http.attempts = 1
      <4>1. http.budget - http.used = Rest - Retry!Backoffs(http.method)[http.attempts]
        BY <1>1, <1>4, <3>2 DEF HttpInv, StallsLeaveRoom
      <4>2. Rest = IF http.method = "Get" THEN 5500 ELSE 1500
        BY <3>2 DEF Rest
      <4>3. Retry!Backoffs(http.method)[http.attempts] = IF http.method = "Get" THEN 500 ELSE 100
        BY <2>1, <3>2, BackoffsOK
      <4>4. Retry!Left = IF http.method = "Get" THEN 5000 ELSE 1400
        BY <2>2, <4>1, <4>2, <4>3
      <4>5. Retry!Left - slice = IF http.method = "Get" THEN 3500 ELSE 800
        BY <2>2, <2>4, <3>2, <4>4, SliceOK DEF slice
      <4> QED
        BY <2>1, <2>2, <2>5, <2>6, <2>7, <3>2, <4>5 DEF Rest
    <3> QED
      BY <2>3, <3>1, <3>2
  <2>11. StopInv' /\ Retry!DeadlineIsNoCancel'
    BY <1>1, <2>6, <2>7 DEF HttpInv, StopInv, Retry!DeadlineIsNoCancel
  <2>12. Retry!BudgetIsShared'
    BY <2>1, <2>6, <2>9 DEF Shares, Running, Retry!BudgetIsShared
  <2> QED
    BY <2>8, <2>9, <2>10, <2>11, <2>12 DEF HttpInv
<1> QED
  BY <1>2, <1>3, <1>4 DEF Retry!Attempt

LEMMA HttpPaused == HttpInv /\ Retry!Paused => HttpInv'
<1> SUFFICES ASSUME HttpInv, Retry!Paused PROVE HttpInv'
  OBVIOUS
<1>1. /\ http.at = "backoff" /\ stop' = stop
      /\ http' = [http EXCEPT !.at = "next", !.used = IF Retry!Stopped THEN @ ELSE @ + http.slice]
  BY DEF Retry!Paused
<1>2. /\ DOMAIN http = HttpFields /\ http.budget \in Nat /\ http.used \in Nat /\ http.slice \in Nat
      /\ http.used + http.slice <= http.budget /\ http.attempts \in 1..3
      /\ http.attempts < Retry!Attempts(http.method, http.budget)
  BY <1>1 DEF HttpInv, HttpTypeOK, Shares
<1>3. /\ DOMAIN http' = HttpFields /\ http'.at = "next"
      /\ http'.used = IF Retry!Stopped THEN http.used ELSE http.used + http.slice
      /\ \A f \in HttpFields \ {"at", "used"} : http'[f] = http[f]
  BY <1>1, <1>2 DEF HttpFields
<1>4. /\ http'.attempts = http.attempts /\ http'.stalls = http.stalls /\ http'.method = http.method
      /\ http'.budget = http.budget /\ http'.result = http.result /\ http'.slice = http.slice
  BY <1>3 DEF HttpFields
<1>5. HttpTypeOK'
  BY <1>2, <1>3, <1>4 DEF HttpInv, HttpTypeOK
<1>6. Shares'
  BY <1>2, <1>3, <1>4 DEF HttpInv, Shares, Running
<1>7. StallsLeaveRoom'
  <2> SUFFICES ASSUME Roomy, http.stalls = http.attempts, ~Retry!Stopped'
               PROVE  http.budget - http'.used = Rest' - Retry!Backoffs(http.method)[http.attempts]
    BY <1>2, <1>3, <1>4 DEF StallsLeaveRoom, Roomy, Running
  <2>1. ~Retry!Stopped
    BY <1>1 DEF Retry!Stopped, Retry!IsCancelled
  <2>2. http.budget - http.used = Rest /\ http.slice = Retry!Backoffs(http.method)[http.attempts]
    BY <1>1 DEF HttpInv, StallsLeaveRoom
  <2>3. Rest' = Rest
    BY <1>4 DEF Rest
  <2> QED
    BY <1>2, <1>3, <2>1, <2>2, <2>3
<1>8. StopInv' /\ Retry!DeadlineIsNoCancel'
  BY <1>1, <1>4 DEF HttpInv, StopInv, Retry!DeadlineIsNoCancel
<1>9. Retry!BudgetIsShared'
  BY <1>3, <1>6 DEF Shares, Retry!BudgetIsShared
<1> QED
  BY <1>5, <1>6, <1>7, <1>8, <1>9 DEF HttpInv

LEMMA HttpStops ==
  ASSUME HttpInv, Retry!Late \/ Retry!Token \/ Retry!CallerCancels
  PROVE  HttpInv'
<1>1. /\ http' = http /\ DOMAIN stop' = DOMAIN stop
      /\ stop.late => stop'.late
      /\ stop.caller => stop'.caller
      /\ stop.early => stop'.early
      /\ (stop'.token => stop'.late \/ stop'.early) /\ (stop'.early => stop'.token)
      /\ (stop.raced => stop'.raced) /\ (stop'.raced => stop'.late)
      /\ http.at = "polled" /\ stop'.late => stop'.raced
      /\ Retry!Stopped => Retry!Stopped'
  <2>1. /\ DOMAIN stop = {"late", "raced", "token", "early", "caller"}
        /\ stop.token => stop.late \/ stop.early
        /\ stop.early => stop.token
        /\ stop.raced => stop.late
        /\ http.at = "polled" /\ stop.late => stop.raced
    BY DEF HttpInv, StopInv
  <2>2. CASE Retry!Late
    BY <2>1, <2>2 DEF Retry!Late, Retry!Stopped, Retry!IsCancelled
  <2>3. CASE Retry!Token
    <3>1. /\ http' = http /\ stop' = [stop EXCEPT !.token = TRUE, !.early = ~stop.late] /\ ~stop.token
      BY <2>3 DEF Retry!Token
    <3>2. /\ DOMAIN stop' = DOMAIN stop /\ stop'.token = TRUE /\ stop'.early = ~stop.late
          /\ stop'.late = stop.late /\ stop'.caller = stop.caller /\ stop'.raced = stop.raced
      BY <2>1, <3>1
    <3>3. ~stop.token /\ ~stop.early
      BY <2>1, <3>1
    <3>4. stop'.token /\ (stop'.late \/ stop'.early)
      BY <3>2
    <3> QED
      BY <2>1, <3>1, <3>2, <3>3, <3>4, Zenon DEF Retry!Stopped, Retry!IsCancelled
  <2>4. CASE Retry!CallerCancels
    BY <2>1, <2>4 DEF Retry!CallerCancels, Retry!Stopped, Retry!IsCancelled
  <2> QED
    BY <2>2, <2>3, <2>4
<1>2. HttpTypeOK' /\ Shares' /\ Retry!BudgetIsShared'
  BY <1>1 DEF HttpInv, HttpTypeOK, Shares, Retry!BudgetIsShared
<1>3. StallsLeaveRoom'
  BY <1>1 DEF HttpInv, StallsLeaveRoom, Roomy, Rest
<1> QED
  BY <1>1, <1>2, <1>3 DEF HttpInv, StopInv, Retry!DeadlineIsNoCancel

LEMMA HttpStep == HttpInv /\ [Retry!HttpRetryNext]_httpVars => HttpInv'
<1> SUFFICES ASSUME HttpInv, [Retry!HttpRetryNext]_httpVars PROVE HttpInv'
  OBVIOUS
<1>1. CASE Retry!HttpRetryNext
  BY <1>1, HttpBegin, HttpAttempt, HttpSaysWhy, HttpInterrupted, HttpAttempted, HttpPaused, HttpStops
     DEF Retry!HttpRetryNext
<1>2. CASE UNCHANGED httpVars
  BY <1>2 DEF httpVars, HttpInv, HttpTypeOK, Running, Shares, StallsLeaveRoom, Roomy, Rest, StopInv,
     Retry!Stopped, Retry!IsCancelled, Retry!BudgetIsShared, Retry!DeadlineIsNoCancel
<1> QED
  BY <1>1, <1>2

(* The attempts and the pauses of one call never use more than its budget, a call
   whose attempts all stall still makes the three of them, and a call stopped by
   the deadline of its route is not reported as a cancellation, but for an early
   watchdog and, by the calls other than Get(), for a deadline that passes between
   the two reads of a poll (HttpClient.cpp). *)
THEOREM CallsKeepBudgetCorrect == UpstreamSpec => []CallsKeepBudget
<1> DEFINE I == suite = "retry" => HttpInv
<1>1. UpstreamInit => I
  BY HttpInit DEF UpstreamInit
<1>2. I /\ [UNCHANGED suite /\ UpstreamNext]_<<suite, upstreamVars>> => I'
  <2> SUFFICES ASSUME I, [UNCHANGED suite /\ UpstreamNext]_<<suite, upstreamVars>>,
                      suite' = "retry"
               PROVE  HttpInv'
    OBVIOUS
  <2>1. suite = "retry" /\ [Retry!HttpRetryNext]_httpVars
    BY DEF UpstreamNext, upstreamVars, httpVars
  <2> QED
    BY <2>1, HttpStep
<1>3. I => CallsKeepBudget
  BY DEF CallsKeepBudget, HttpInv
<1> QED
  BY <1>1, <1>2, <1>3, PTL DEF UpstreamSpec

-----------------------------------------------------------------------------
(* HttpTransport                                                             *)

Places == {"new", "overload", "acquired", "connected", "idle", "waiting", "failed", "returning",
           "returned"}
Handles    == {NoHandle} \cup Nat
OwnerSide  == [at : Places, connect : Handles, installed : BOOLEAN]
SharedSide == [completed : BOOLEAN, error : BOOLEAN, closed : BOOLEAN, ownerFinished : BOOLEAN,
               callbacks : Nat]
SystemSide == [handle : {"none", "open", "closing", "gone"}, pending : BOOLEAN, calling : BOOLEAN]
TransportTypeOK ==
  /\ request \in [Requests -> OwnerSide]
  /\ state \in [Requests -> SharedSide]
  /\ system \in [Requests -> SystemSide]

(* One exchange: its handle and its callbacks at every place of its owner. *)
HandleInv(r) ==
  /\ request[r].at \in {"new", "overload", "acquired", "connected"} =>
       system[r].handle = "none" /\ ~system[r].pending /\ ~system[r].calling
  /\ request[r].at \in {"idle", "waiting", "failed"} =>
       system[r].handle = "open" /\ request[r].installed
  /\ state[r].ownerFinished <=> request[r].at = "returned"
  /\ state[r].callbacks = IF system[r].calling THEN 1 ELSE 0
  /\ system[r].handle = "closing" => request[r].at = "returned"
  /\ system[r].pending => request[r].installed
  /\ state[r].closed => /\ request[r].at = "returned" /\ ~system[r].pending
                        /\ system[r].handle \in {"none", "gone"}
StateKept(r) ==
  request[r].at \notin {"new", "overload"} =>
    r \in registry \/ (state[r].closed /\ ~system[r].calling)
RegistryInv ==
  /\ IsFiniteSet(registry) /\ Cardinality(registry) <= MaxAsyncRequests
  /\ \A r \in Requests : HandleInv(r) /\ StateKept(r)

(* Who holds a connect, and where it came from. *)
Holding(r) == request[r].at \in {"connected", "idle", "waiting", "failed"}
Leases == [host : {HostOf[r] : r \in Requests}, handle : Nat \ {0}]
SessionsOK ==
  /\ session \in [current : Nat, made : Nat, of : Seq(Nat)]
  /\ session.current = 0 => pool = <<>>
  /\ broken \subseteq 1..Len(session.of)
  /\ \A r \in Requests : Holding(r) => request[r].connect \in 1..Len(session.of)
LeaseOK(i) ==
  /\ pool[i].handle \in 1..Len(session.of) /\ session.of[pool[i].handle] = session.current
  /\ pool[i].handle \notin broken
  /\ \A r \in Requests :
       Holding(r) /\ request[r].connect = pool[i].handle => HostOf[r] = pool[i].host
LeasesDiffer(s) ==
  \A i, j \in DOMAIN s : s[i].host = s[j].host \/ s[i].handle = s[j].handle => i = j
PoolInv ==
  /\ pool \in Seq(Leases) /\ Len(pool) <= PoolCapacity
  /\ LeasesDiffer(pool)
  /\ \A i \in DOMAIN pool : LeaseOK(i)

TransportInv == TransportTypeOK /\ RegistryInv /\ SessionsOK /\ PoolInv

LEMMA TransportCardinality == ASSUME NEW S PROVE Transport!Cardinality(S) = Cardinality(S)
BY DEF Transport!Cardinality, Cardinality, Transport!IsFiniteSet, IsFiniteSet

LEMMA Updated ==
  ASSUME NEW S, NEW T, NEW f \in [S -> T], NEW x \in S, NEW v \in T
  PROVE  /\ [f EXCEPT ![x] = v] \in [S -> T]
         /\ [f EXCEPT ![x] = v][x] = v
         /\ \A y \in S \ {x} : [f EXCEPT ![x] = v][y] = f[y]
OBVIOUS

(* What an owner may do to its side: it goes to a place, perhaps with a connect. *)
OwnerAt(r, place, connect) ==
  /\ request' \in [Requests -> OwnerSide]
  /\ request'[r].at = place /\ request'[r].connect = connect
  /\ request'[r].installed = request[r].installed
  /\ \A q \in Requests \ {r} : request'[q] = request[q]

LEMMA OwnerConnects ==
  ASSUME TransportTypeOK, NEW r \in Requests, NEW place \in Places,
         NEW connect \in Handles,
         request' = [request EXCEPT ![r].at = place, ![r].connect = connect]
  PROVE  OwnerAt(r, place, connect)
<1> DEFINE v == [request[r] EXCEPT !.at = place, !.connect = connect]
<1>1. request[r] \in OwnerSide
  BY DEF TransportTypeOK
<1>2. v \in OwnerSide /\ v.at = place /\ v.connect = connect /\ v.installed = request[r].installed
  BY <1>1 DEF OwnerSide
<1>3. request' = [request EXCEPT ![r] = v]
  OBVIOUS
<1> HIDE DEF v
<1>4. /\ [request EXCEPT ![r] = v] \in [Requests -> OwnerSide]
      /\ [request EXCEPT ![r] = v][r] = v
      /\ \A q \in Requests \ {r} : [request EXCEPT ![r] = v][q] = request[q]
  BY <1>2, Updated DEF TransportTypeOK
<1>5. /\ request' \in [Requests -> OwnerSide] /\ request'[r] = v
      /\ \A q \in Requests \ {r} : request'[q] = request[q]
  BY <1>3, <1>4, Zenon
<1> QED
  BY <1>2, <1>5, Zenon DEF OwnerAt

LEMMA OwnerGoes ==
  ASSUME TransportTypeOK, NEW r \in Requests, NEW place \in Places, Transport!Go(r, place)
  PROVE  OwnerAt(r, place, request[r].connect)
<1> DEFINE v == [request[r] EXCEPT !.at = place]
<1>1. request[r] \in OwnerSide
  BY DEF TransportTypeOK
<1>2. /\ v \in OwnerSide /\ v.at = place /\ v.connect = request[r].connect
      /\ v.installed = request[r].installed
  BY <1>1 DEF OwnerSide
<1>3. request' = [request EXCEPT ![r] = v]
  BY DEF Transport!Go
<1> HIDE DEF v
<1> QED
  BY <1>2, <1>3, Updated DEF TransportTypeOK, OwnerAt

(* The registry loses only the states that nobody writes into any more. *)
LEMMA ReapedOK ==
  ASSUME RegistryInv
  PROVE  /\ IsFiniteSet(Transport!Reaped) /\ Cardinality(Transport!Reaped) <= MaxAsyncRequests
         /\ Transport!Reaped \subseteq registry
         /\ \A r \in Requests : r \in registry \ Transport!Reaped => state[r].closed /\ ~system[r].calling
<1>1. Transport!Reaped \subseteq registry
  BY DEF Transport!Reaped
<1>2. IsFiniteSet(Transport!Reaped) /\ Cardinality(Transport!Reaped) <= Cardinality(registry)
  BY <1>1, FS_Subset DEF RegistryInv
<1>3. Cardinality(Transport!Reaped) \in Nat /\ Cardinality(registry) \in Nat
  BY <1>2, FS_CardinalityType DEF RegistryInv
<1>4. \A r \in Requests : r \in registry \ Transport!Reaped => state[r].closed /\ ~system[r].calling
  BY DEF RegistryInv, HandleInv, Transport!Reaped, Transport!Reapable
<1> QED
  BY <1>1, <1>2, <1>3, <1>4, TransportAssumption DEF RegistryInv

LEMMA RegistryKept ==
  ASSUME RegistryInv, state' = state, system' = system,
         registry' \in {registry, Transport!Reaped},
         \A r \in Requests : HandleInv(r)' /\ (request'[r].at \notin {"new", "overload"} =>
                                                 request[r].at \notin {"new", "overload"})
  PROVE  RegistryInv'
<1>1. IsFiniteSet(registry') /\ Cardinality(registry') <= MaxAsyncRequests
  BY ReapedOK DEF RegistryInv
<1>2. \A r \in Requests : StateKept(r)'
  BY ReapedOK DEF RegistryInv, StateKept
<1> QED
  BY <1>1, <1>2 DEF RegistryInv

LEMMA AcquireExchange ==
  ASSUME TransportTypeOK, RegistryInv, NEW r \in Requests, Transport!Acquire(r)
  PROVE  TransportTypeOK' /\ RegistryInv'
<1>1. request[r].at = "new" /\ state' = state /\ system' = system
  BY DEF Transport!Acquire, Transport!At
<1>2. \/ Transport!Go(r, "overload") /\ registry' = Transport!Reaped
      \/ /\ Transport!Go(r, "acquired") /\ registry' = Transport!Reaped \cup {r}
         /\ ~(Cardinality(Transport!Reaped) >= MaxAsyncRequests)
  BY TransportCardinality DEF Transport!Acquire
<1>3. PICK place \in {"overload", "acquired"} : OwnerAt(r, place, request[r].connect)
                                                /\ Transport!Go(r, place)
  BY <1>2, OwnerGoes DEF Places
<1>4. TransportTypeOK'
  BY <1>1, <1>3 DEF TransportTypeOK, OwnerAt
<1>5. \A q \in Requests : HandleInv(q)'
  BY <1>1, <1>3 DEF RegistryInv, HandleInv, OwnerAt
<1>6. CASE Transport!Go(r, "overload") /\ registry' = Transport!Reaped
  <2>1. request'[r].at = "overload"
    BY <1>6, OwnerGoes DEF OwnerAt, Places
  <2> QED
    BY <1>1, <1>3, <1>4, <1>5, <1>6, <2>1, RegistryKept DEF OwnerAt
<1>7. CASE /\ Transport!Go(r, "acquired") /\ registry' = Transport!Reaped \cup {r}
           /\ ~(Cardinality(Transport!Reaped) >= MaxAsyncRequests)
  <2>1. /\ IsFiniteSet(registry')
        /\ Cardinality(registry') = Cardinality(Transport!Reaped)
           \/ Cardinality(registry') = Cardinality(Transport!Reaped) + 1
    BY <1>7, ReapedOK, FS_AddElement, Zenon
  <2>2. Cardinality(Transport!Reaped) \in Nat
    BY ReapedOK, FS_CardinalityType
  <2>3. Cardinality(registry') <= MaxAsyncRequests
    BY <1>7, <2>1, <2>2, TransportAssumption
  <2>4. \A q \in Requests : StateKept(q)'
    BY <1>1, <1>3, <1>7, ReapedOK DEF RegistryInv, StateKept, OwnerAt
  <2> QED
    BY <1>4, <1>5, <2>1, <2>3, <2>4 DEF RegistryInv
<1> QED
  BY <1>2, <1>6, <1>7

(* Steps of the owner that touch neither the shared state nor the handle. *)
LEMMA OwnerStep ==
  ASSUME TransportTypeOK, RegistryInv, NEW r \in Requests, NEW place, NEW connect,
         \/ request[r].at = "acquired" /\ place \in {"connected", "returning"}
         \/ request[r].at = "waiting" /\ place \in {"failed", "idle", "returning"}
         \/ request[r].at = "idle" /\ place = "failed"
         \/ request[r].at = "failed" /\ place = "returning",
         OwnerAt(r, place, connect),
         state' = state, system' = system, registry' = registry
  PROVE  TransportTypeOK' /\ RegistryInv'
<1>1. TransportTypeOK'
  BY DEF TransportTypeOK, OwnerAt
<1>2. \A q \in Requests : HandleInv(q)'
  BY DEF RegistryInv, HandleInv, OwnerAt
<1>3. \A q \in Requests : request'[q].at \notin {"new", "overload"} =>
                            request[q].at \notin {"new", "overload"}
  BY DEF OwnerAt
<1> QED
  BY <1>1, <1>2, <1>3, RegistryKept

(* One exchange changes: its three sides become v, w and u. *)
Becomes(r, v, w, u) ==
  /\ v \in OwnerSide /\ w \in SharedSide /\ u \in SystemSide
  /\ request' = [request EXCEPT ![r] = v]
  /\ state' = [state EXCEPT ![r] = w]
  /\ system' = [system EXCEPT ![r] = u]

LEMMA ExchangeStep ==
  ASSUME TransportTypeOK, RegistryInv, NEW r \in Requests, NEW v, NEW w, NEW u,
         Becomes(r, v, w, u), registry' = registry,
         request'[r] = v /\ state'[r] = w /\ system'[r] = u => HandleInv(r)' /\ StateKept(r)'
  PROVE  TransportTypeOK' /\ RegistryInv'
<1>1. /\ request \in [Requests -> OwnerSide] /\ state \in [Requests -> SharedSide]
      /\ system \in [Requests -> SystemSide]
      /\ v \in OwnerSide /\ w \in SharedSide /\ u \in SystemSide
  BY DEF TransportTypeOK, Becomes
<1>2. /\ request' \in [Requests -> OwnerSide] /\ request'[r] = v
      /\ \A q \in Requests \ {r} : request'[q] = request[q]
  BY <1>1, Updated DEF Becomes
<1>3. /\ state' \in [Requests -> SharedSide] /\ state'[r] = w
      /\ \A q \in Requests \ {r} : state'[q] = state[q]
  BY <1>1, Updated DEF Becomes
<1>4. /\ system' \in [Requests -> SystemSide] /\ system'[r] = u
      /\ \A q \in Requests \ {r} : system'[q] = system[q]
  BY <1>1, Updated DEF Becomes
<1>5. \A q \in Requests \ {r} : HandleInv(q)' /\ StateKept(q)'
  BY <1>2, <1>3, <1>4 DEF RegistryInv, HandleInv, StateKept
<1>6. HandleInv(r)' /\ StateKept(r)'
  BY <1>2, <1>3, <1>4
<1> QED
  BY <1>2, <1>3, <1>4, <1>5, <1>6 DEF TransportTypeOK, RegistryInv

LEMMA SidesAsTheyAre ==
  ASSUME TransportTypeOK, NEW r \in Requests
  PROVE  /\ request[r] \in OwnerSide /\ request = [request EXCEPT ![r] = request[r]]
         /\ state[r] \in SharedSide /\ state = [state EXCEPT ![r] = state[r]]
         /\ system[r] \in SystemSide /\ system = [system EXCEPT ![r] = system[r]]
BY DEF TransportTypeOK

LEMMA OpenRequestExchange ==
  ASSUME TransportTypeOK, RegistryInv, NEW r \in Requests, Transport!OpenRequest(r)
  PROVE  TransportTypeOK' /\ RegistryInv'
<1>1. PICK made \in {"none", "open"}, installed \in BOOLEAN, place \in {"idle", "returning"} :
        /\ installed => made = "open"
        /\ place = "idle" => installed
        /\ system' = [system EXCEPT ![r].handle = made]
        /\ request' = [request EXCEPT ![r].at = place, ![r].installed = installed]
  BY DEF Transport!OpenRequest
<1>2. request[r].at = "connected" /\ state' = state /\ registry' = registry
  BY DEF Transport!OpenRequest, Transport!At
<1> DEFINE v == [request[r] EXCEPT !.at = place, !.installed = installed]
           u == [system[r] EXCEPT !.handle = made]
<1>3. /\ v \in OwnerSide /\ v.at = place
      /\ v.installed = installed
  BY SidesAsTheyAre DEF OwnerSide, Places
<1>4. u \in SystemSide /\ u.handle = made /\ u.pending = system[r].pending /\ u.calling = system[r].calling
  BY SidesAsTheyAre DEF SystemSide
<1>5. Becomes(r, v, state[r], u)
  BY <1>1, <1>2, <1>3, <1>4, SidesAsTheyAre DEF Becomes
<1> HIDE DEF v, u
<1>6. ASSUME request'[r] = v, state'[r] = state[r], system'[r] = u
      PROVE  HandleInv(r)' /\ StateKept(r)'
  BY <1>1, <1>2, <1>3, <1>4, <1>6 DEF RegistryInv, HandleInv, StateKept
<1> QED
  BY <1>2, <1>5, <1>6, ExchangeStep

LEMMA IssueExchange ==
  ASSUME TransportTypeOK, RegistryInv, NEW r \in Requests, Transport!Issue(r)
  PROVE  TransportTypeOK' /\ RegistryInv'
<1>1. /\ request[r].at = "idle" /\ registry' = registry
      /\ state' = [state EXCEPT ![r].completed = FALSE, ![r].error = FALSE]
      /\ \/ Transport!Go(r, "waiting") /\ system' = [system EXCEPT ![r].pending = TRUE]
         \/ Transport!Go(r, "failed") /\ system' = system
  BY DEF Transport!Issue, Transport!At
<1> DEFINE v(place) == [request[r] EXCEPT !.at = place]
           w == [state[r] EXCEPT !.completed = FALSE, !.error = FALSE]
           u == [system[r] EXCEPT !.pending = TRUE]
<1>2. /\ v("waiting") \in OwnerSide /\ v("waiting").at = "waiting"
      /\ v("waiting").installed = request[r].installed
      /\ v("failed") \in OwnerSide /\ v("failed").at = "failed"
      /\ v("failed").installed = request[r].installed
  BY SidesAsTheyAre DEF OwnerSide, Places
<1>3. /\ w \in SharedSide /\ w.closed = state[r].closed /\ w.ownerFinished = state[r].ownerFinished
      /\ w.callbacks = state[r].callbacks
  BY SidesAsTheyAre DEF SharedSide
<1>4. u \in SystemSide /\ u.pending = TRUE /\ u.handle = system[r].handle /\ u.calling = system[r].calling
  BY SidesAsTheyAre DEF SystemSide
<1>5. state' = [state EXCEPT ![r] = w]
  BY <1>1
<1>6. CASE Transport!Go(r, "waiting") /\ system' = [system EXCEPT ![r].pending = TRUE]
  <2>1. Becomes(r, v("waiting"), w, u)
    BY <1>2, <1>3, <1>4, <1>5, <1>6 DEF Becomes, Transport!Go
  <2> HIDE DEF v, w, u
  <2>2. ASSUME request'[r] = v("waiting"), state'[r] = w, system'[r] = u
        PROVE  HandleInv(r)' /\ StateKept(r)'
    BY <1>1, <1>2, <1>3, <1>4, <2>2 DEF RegistryInv, HandleInv, StateKept
  <2> QED
    BY <1>1, <2>1, <2>2, ExchangeStep
<1>7. CASE Transport!Go(r, "failed") /\ system' = system
  <2>1. Becomes(r, v("failed"), w, system[r])
    BY <1>2, <1>3, <1>5, <1>7, SidesAsTheyAre DEF Becomes, Transport!Go
  <2> HIDE DEF v, w, u
  <2>2. ASSUME request'[r] = v("failed"), state'[r] = w, system'[r] = system[r]
        PROVE  HandleInv(r)' /\ StateKept(r)'
    BY <1>1, <1>2, <1>3, <2>2 DEF RegistryInv, HandleInv, StateKept
  <2> QED
    BY <1>1, <2>1, <2>2, ExchangeStep
<1> QED
  BY <1>1, <1>6, <1>7

LEMMA ReturnExchange ==
  ASSUME TransportTypeOK, RegistryInv, NEW r \in Requests, Transport!Return(r)
  PROVE  TransportTypeOK' /\ RegistryInv'
<1> DEFINE v == [request[r] EXCEPT !.at = "returned", !.connect = NoHandle]
           w == [state[r] EXCEPT !.closed = @ \/ ~request[r].installed, !.ownerFinished = TRUE]
           u == [system[r] EXCEPT !.handle =
                   IF @ = "none" THEN "none" ELSE IF request[r].installed THEN "closing" ELSE "gone"]
<1>1. /\ request[r].at = "returning" /\ registry' = registry
      /\ request' = [request EXCEPT ![r] = v] /\ state' = [state EXCEPT ![r] = w]
      /\ system' = [system EXCEPT ![r] = u]
  BY DEF Transport!Return, Transport!At
<1>2. v \in OwnerSide /\ v.at = "returned" /\ v.installed = request[r].installed
  BY SidesAsTheyAre DEF OwnerSide, Places, Handles
<1>3. /\ w \in SharedSide /\ (w.closed <=> state[r].closed \/ ~request[r].installed)
      /\ w.ownerFinished = TRUE /\ w.callbacks = state[r].callbacks
  BY SidesAsTheyAre DEF SharedSide, OwnerSide
<1>4. /\ u \in SystemSide /\ u.pending = system[r].pending /\ u.calling = system[r].calling
      /\ u.handle = IF system[r].handle = "none" THEN "none"
                    ELSE IF request[r].installed THEN "closing" ELSE "gone"
  BY SidesAsTheyAre DEF SystemSide
<1>5. Becomes(r, v, w, u)
  BY <1>1, <1>2, <1>3, <1>4 DEF Becomes
<1> HIDE DEF v, w, u
<1>6. ASSUME request'[r] = v, state'[r] = w, system'[r] = u
      PROVE  HandleInv(r)' /\ StateKept(r)'
  BY <1>1, <1>2, <1>3, <1>4, <1>6 DEF RegistryInv, HandleInv, StateKept
<1> QED
  BY <1>1, <1>5, <1>6, ExchangeStep

LEMMA CallbackExchange ==
  ASSUME TransportTypeOK, RegistryInv, NEW r \in Requests, Transport!Callback(r)
  PROVE  TransportTypeOK' /\ RegistryInv'
<1>1. PICK result \in {"complete", "error", "closing"} :
       /\ \/ /\ result # "closing" /\ system[r].pending
             /\ system[r].handle = "closing" => result = "error"
             /\ system' = [system EXCEPT ![r].calling = TRUE, ![r].pending = FALSE]
          \/ /\ result = "closing" /\ system[r].handle = "closing" /\ ~system[r].pending
             /\ system' = [system EXCEPT ![r].calling = TRUE, ![r].handle = "gone"]
       /\ state' = [state EXCEPT ![r].callbacks = @ + 1,
                                 ![r].closed = @ \/ result = "closing",
                                 ![r].completed = @ \/ result # "closing",
                                 ![r].error = @ \/ result = "error"]
  BY DEF Transport!Callback
<1>2. ~system[r].calling /\ registry' = registry /\ request' = request
  BY DEF Transport!Callback
<1> DEFINE w == [state[r] EXCEPT !.callbacks = @ + 1, !.closed = @ \/ result = "closing",
                                 !.completed = @ \/ result # "closing",
                                 !.error = @ \/ result = "error"]
           u == [system[r] EXCEPT !.calling = TRUE, !.pending = FALSE]
           x == [system[r] EXCEPT !.calling = TRUE, !.handle = "gone"]
<1>3. /\ w \in SharedSide /\ (w.closed <=> state[r].closed \/ result = "closing")
      /\ w.ownerFinished = state[r].ownerFinished /\ w.callbacks = state[r].callbacks + 1
  <2>1. /\ state[r] \in SharedSide /\ state[r].callbacks + 1 \in Nat
        /\ (state[r].closed \/ result = "closing") \in BOOLEAN
        /\ (state[r].completed \/ result # "closing") \in BOOLEAN
        /\ (state[r].error \/ result = "error") \in BOOLEAN
    BY SidesAsTheyAre DEF SharedSide
  <2>2. PICK n \in Nat, closed \in BOOLEAN, completed \in BOOLEAN, error \in BOOLEAN :
          /\ n = state[r].callbacks + 1
          /\ closed = (state[r].closed \/ result = "closing")
          /\ completed = (state[r].completed \/ result # "closing")
          /\ error = (state[r].error \/ result = "error")
    BY <2>1
  <2>3. w = [state[r] EXCEPT !.callbacks = n, !.closed = closed, !.completed = completed,
                             !.error = error]
    BY <2>2
  <2> HIDE DEF w
  <2> QED
    BY <2>1, <2>2, <2>3 DEF SharedSide
<1>4. /\ u \in SystemSide /\ u.pending = FALSE /\ u.calling = TRUE /\ u.handle = system[r].handle
      /\ x \in SystemSide /\ x.pending = system[r].pending /\ x.calling = TRUE /\ x.handle = "gone"
  BY SidesAsTheyAre DEF SystemSide
<1>5. state' = [state EXCEPT ![r] = w]
  BY <1>1
<1>6. state[r].callbacks = 0 /\ HandleInv(r) /\ StateKept(r)
  BY <1>2 DEF RegistryInv, HandleInv
<1>7. CASE /\ result # "closing" /\ system[r].pending
           /\ system' = [system EXCEPT ![r].calling = TRUE, ![r].pending = FALSE]
  <2>1. Becomes(r, request[r], w, u)
    BY <1>2, <1>3, <1>4, <1>5, <1>7, SidesAsTheyAre DEF Becomes
  <2> HIDE DEF w, u, x
  <2>2. ASSUME request'[r] = request[r], state'[r] = w, system'[r] = u
        PROVE  HandleInv(r)' /\ StateKept(r)'
    BY <1>2, <1>3, <1>4, <1>6, <1>7, <2>2 DEF HandleInv, StateKept
  <2> QED
    BY <1>2, <2>1, <2>2, ExchangeStep
<1>8. CASE /\ result = "closing" /\ system[r].handle = "closing" /\ ~system[r].pending
           /\ system' = [system EXCEPT ![r].calling = TRUE, ![r].handle = "gone"]
  <2>1. Becomes(r, request[r], w, x)
    BY <1>2, <1>3, <1>4, <1>5, <1>8, SidesAsTheyAre DEF Becomes
  <2> HIDE DEF w, u, x
  <2>2. ASSUME request'[r] = request[r], state'[r] = w, system'[r] = x
        PROVE  HandleInv(r)' /\ StateKept(r)'
    BY <1>2, <1>3, <1>4, <1>6, <1>8, <2>2 DEF HandleInv, StateKept
  <2> QED
    BY <1>2, <2>1, <2>2, ExchangeStep
<1> QED
  BY <1>1, <1>7, <1>8

LEMMA CallbackReturnsExchange ==
  ASSUME TransportTypeOK, RegistryInv, NEW r \in Requests, Transport!CallbackReturns(r)
  PROVE  TransportTypeOK' /\ RegistryInv'
<1> DEFINE w == [state[r] EXCEPT !.callbacks = @ - 1]
           u == [system[r] EXCEPT !.calling = FALSE]
<1>1. /\ system[r].calling /\ registry' = registry /\ request' = request
      /\ state' = [state EXCEPT ![r] = w] /\ system' = [system EXCEPT ![r] = u]
  BY DEF Transport!CallbackReturns
<1>2. state[r].callbacks = 1 /\ HandleInv(r) /\ StateKept(r)
  BY <1>1 DEF RegistryInv, HandleInv
<1>3. /\ w \in SharedSide /\ w.closed = state[r].closed
      /\ w.ownerFinished = state[r].ownerFinished /\ w.callbacks = 0
  BY <1>2, SidesAsTheyAre DEF SharedSide
<1>4. /\ u \in SystemSide /\ u.pending = system[r].pending /\ u.calling = FALSE
      /\ u.handle = system[r].handle
  BY SidesAsTheyAre DEF SystemSide
<1>5. Becomes(r, request[r], w, u)
  BY <1>1, <1>3, <1>4, SidesAsTheyAre DEF Becomes
<1> HIDE DEF w, u
<1>6. ASSUME request'[r] = request[r], state'[r] = w, system'[r] = u
      PROVE  HandleInv(r)' /\ StateKept(r)'
  BY <1>1, <1>2, <1>3, <1>4, <1>6 DEF HandleInv, StateKept
<1> QED
  BY <1>1, <1>5, <1>6, ExchangeStep

LEMMA RegistryReaped ==
  ASSUME TransportTypeOK, RegistryInv, UNCHANGED <<request, state, system>>,
         registry' \in {registry, Transport!Reaped}
  PROVE  TransportTypeOK' /\ RegistryInv'
<1>1. TransportTypeOK'
  BY DEF TransportTypeOK
<1>2. \A r \in Requests : HandleInv(r)'
  BY DEF RegistryInv, HandleInv
<1> QED
  BY <1>1, <1>2, RegistryKept

LEMMA RemovedPicks ==
  ASSUME NEW S, NEW s \in Seq(S), NEW k \in 1..Len(s)
  PROVE  /\ Transport!RemoveAt(s, k) \in Seq(S) /\ Len(Transport!RemoveAt(s, k)) = Len(s) - 1
         /\ Picked(Transport!RemoveAt(s, k), s, 1..Len(s) \ {k})
<1> DEFINE t == Transport!RemoveAt(s, k)
<1>1. /\ t \in Seq(S) /\ Len(t) = Len(s) - 1
      /\ \A i \in 1..Len(t) : t[i] = IF i < k THEN s[i] ELSE s[i + 1]
  BY Removed DEF Transport!RemoveAt
<1> HIDE DEF t
<1> DEFINE m == [i \in 1..Len(t) |-> IF i < k THEN i ELSE i + 1]
<1>2. k \in Nat /\ Len(s) \in Nat
  OBVIOUS
<1>3. \A i \in 1..Len(t) : i \in Nat /\ m[i] = (IF i < k THEN i ELSE i + 1) /\ m[i] \in 1..Len(s) \ {k}
  BY <1>1, <1>2
<1>4. m \in [1..Len(t) -> 1..Len(s) \ {k}]
  BY <1>3
<1>5. \A i \in 1..Len(t) : t[i] = s[m[i]]
  BY <1>1, <1>3
<1>6. \A i, j \in 1..Len(t) : m[i] = m[j] => i = j
  BY <1>2, <1>3
<1> HIDE DEF m
<1> QED
  BY <1>1, <1>4, <1>5, <1>6 DEF Picked, t

LEMMA UsedPicks ==
  ASSUME NEW S, pool \in Seq(S), NEW h, Transport!Cached(h) # {}
  PROVE  /\ Transport!Used(h) \in Seq(S) /\ Len(Transport!Used(h)) = Len(pool)
         /\ Picked(Transport!Used(h), pool, 1..Len(pool))
         /\ \E i \in 1..Len(pool) : pool[i].host = h /\ Transport!Last(Transport!Used(h)) = pool[i]
<1> DEFINE k == CHOOSE i \in Transport!Cached(h) : TRUE
           r == Transport!RemoveAt(pool, k)
           t == Append(r, pool[k])
<1>1. k \in 1..Len(pool) /\ pool[k].host = h
  BY DEF Transport!Cached
<1>2. t = Transport!Used(h)
  BY DEF Transport!Used
<1> HIDE DEF k
<1>3. r \in Seq(S) /\ Len(r) = Len(pool) - 1 /\ Picked(r, pool, 1..Len(pool) \ {k})
  BY <1>1, RemovedPicks
<1>4. Len(pool) \in Nat /\ pool[k] \in S /\ Len(r) \in Nat
  BY <1>1, <1>3
<1> HIDE DEF r
<1>5. /\ t \in Seq(S) /\ Len(t) = Len(pool) /\ t[Len(t)] = pool[k]
      /\ \A i \in 1..Len(r) : t[i] = r[i]
  BY <1>3, <1>4
<1> HIDE DEF t
<1>6. Picked(t, pool, 1..Len(pool))
  <2>1. PICK m \in [1..Len(r) -> 1..Len(pool) \ {k}] :
          /\ \A i \in 1..Len(r) : r[i] = pool[m[i]]
          /\ \A i, j \in 1..Len(r) : m[i] = m[j] => i = j
    BY <1>3 DEF Picked
  <2> DEFINE n == [i \in 1..Len(t) |-> IF i = Len(t) THEN k ELSE m[i]]
  <2>2. \A i \in 1..Len(t) : i = Len(t) \/ i \in 1..Len(r)
    BY <1>3, <1>4, <1>5
  <2>3. n \in [1..Len(t) -> 1..Len(pool)]
    BY <1>1, <2>2
  <2>4. \A i \in 1..Len(t) : t[i] = pool[n[i]]
    BY <1>5, <2>1, <2>2
  <2>5. \A i, j \in 1..Len(t) : n[i] = n[j] => i = j
    BY <2>1, <2>2
  <2> HIDE DEF n
  <2> QED
    BY <2>3, <2>4, <2>5 DEF Picked
<1>7. Transport!Last(Transport!Used(h)) = pool[k]
  BY <1>2, <1>5 DEF Transport!Last
<1> QED
  BY <1>1, <1>2, <1>5, <1>6, <1>7

LEMMA RoomPicks ==
  ASSUME NEW S, pool \in Seq(S), Len(pool) <= PoolCapacity
  PROVE  /\ Transport!Room \in Seq(S) /\ Len(Transport!Room) + 1 <= PoolCapacity
         /\ Picked(Transport!Room, pool, 1..Len(pool))
<1>1. PoolCapacity \in Nat \ {0} /\ Len(pool) \in Nat
  BY TransportAssumption
<1>2. CASE Len(pool) >= PoolCapacity
  <2>1. /\ Transport!Room \in Seq(S) /\ Len(Transport!Room) = Len(pool) - 1
        /\ \A i \in 1..(Len(pool) - 1) : Transport!Room[i] = pool[i + 1]
    BY <1>1, <1>2 DEF Transport!Room
  <2> DEFINE m == [i \in 1..(Len(pool) - 1) |-> i + 1]
  <2>2. m \in [1..(Len(pool) - 1) -> 1..Len(pool)]
    BY <1>1
  <2>3. \A i \in 1..(Len(pool) - 1) : m[i] = i + 1
    BY <1>1
  <2>4. \A i, j \in 1..(Len(pool) - 1) : m[i] = m[j] => i = j
    BY <1>1, <2>3
  <2> HIDE DEF m
  <2>5. Picked(Transport!Room, pool, 1..Len(pool))
    BY <2>1, <2>2, <2>3, <2>4 DEF Picked
  <2> QED
    BY <1>1, <2>1, <2>5
<1>3. CASE ~(Len(pool) >= PoolCapacity)
  <2>1. Transport!Room = pool
    BY <1>3 DEF Transport!Room
  <2> DEFINE m == [i \in 1..Len(pool) |-> i]
  <2>2. m \in [1..Len(pool) -> 1..Len(pool)] /\ \A i \in 1..Len(pool) : m[i] = i
    OBVIOUS
  <2> HIDE DEF m
  <2>3. Picked(pool, pool, 1..Len(pool))
    BY <2>2 DEF Picked
  <2> QED
    BY <1>1, <1>3, <2>1, <2>3
<1> QED
  BY <1>2, <1>3

LEMMA PickedLeases ==
  ASSUME NEW s \in Seq(Leases), NEW t \in Seq(Leases), NEW P \in SUBSET (1..Len(s)),
         Picked(t, s, P)
  PROVE  /\ \A j \in 1..Len(t) : \E i \in P : t[j] = s[i]
         /\ LeasesDiffer(s) => LeasesDiffer(t)
<1>1. PICK m \in [1..Len(t) -> P] : /\ \A i \in 1..Len(t) : t[i] = s[m[i]]
                                    /\ \A i, j \in 1..Len(t) : m[i] = m[j] => i = j
  BY DEF Picked
<1>2. DOMAIN s = 1..Len(s) /\ DOMAIN t = 1..Len(t)
  OBVIOUS
<1>3. \A j \in 1..Len(t) : \E i \in P : t[j] = s[i]
  BY <1>1
<1>4. ASSUME LeasesDiffer(s), NEW i \in 1..Len(t), NEW j \in 1..Len(t),
             t[i].host = t[j].host \/ t[i].handle = t[j].handle
      PROVE  i = j
  <2>1. m[i] \in 1..Len(s) /\ m[j] \in 1..Len(s)
    BY <1>1
  <2>2. m[i] = m[j]
    BY <1>1, <1>2, <1>4, <2>1 DEF LeasesDiffer
  <2> QED
    BY <1>1, <2>2
<1> QED
  BY <1>2, <1>3, <1>4 DEF LeasesDiffer

LEMMA AppendedLease ==
  ASSUME NEW s \in Seq(Leases), NEW c \in Leases, LeasesDiffer(s),
         \A i \in 1..Len(s) : s[i].host # c.host /\ s[i].handle # c.handle
  PROVE  /\ Append(s, c) \in Seq(Leases) /\ Len(Append(s, c)) = Len(s) + 1
         /\ LeasesDiffer(Append(s, c))
         /\ \A i \in 1..(Len(s) + 1) : Append(s, c)[i] = IF i = Len(s) + 1 THEN c ELSE s[i]
<1> DEFINE t == Append(s, c)
<1>1. /\ t \in Seq(Leases) /\ Len(t) = Len(s) + 1 /\ Len(s) \in Nat
      /\ \A i \in 1..(Len(s) + 1) : t[i] = IF i = Len(s) + 1 THEN c ELSE s[i]
      /\ DOMAIN s = 1..Len(s) /\ DOMAIN t = 1..(Len(s) + 1)
  OBVIOUS
<1> HIDE DEF t
<1>2. \A i \in 1..(Len(s) + 1) : i = Len(s) + 1 \/ i \in 1..Len(s)
  BY <1>1
<1>3. LeasesDiffer(t)
  BY <1>1, <1>2 DEF LeasesDiffer
<1> QED
  BY <1>1, <1>3 DEF t

(* The pool and the sessions as they are, with nobody holding anything new. *)
LEMMA PoolFrame ==
  ASSUME SessionsOK, PoolInv, UNCHANGED <<pool, session, broken>>,
         \A r \in Requests : Holding(r)' => Holding(r) /\ request'[r].connect = request[r].connect
  PROVE  SessionsOK' /\ PoolInv'
BY DEF SessionsOK, PoolInv, LeaseOK

(* Leases of the pool remain, with nobody holding anything new. *)
LEMMA PoolShrinks ==
  ASSUME SessionsOK, PoolInv, session' = session, NEW P \in SUBSET (1..Len(pool)),
         pool' \in Seq(Leases), Len(pool') <= Len(pool), Picked(pool', pool, P),
         broken \subseteq broken', broken' \subseteq 1..Len(session.of),
         \A i \in P : pool[i].handle \notin broken',
         \A r \in Requests : Holding(r)' => Holding(r) /\ request'[r].connect = request[r].connect
  PROVE  SessionsOK' /\ PoolInv'
<1>1. pool \in Seq(Leases) /\ LeasesDiffer(pool) /\ Len(pool) <= PoolCapacity /\ PoolCapacity \in Nat
  BY TransportAssumption DEF PoolInv
<1>2. LeasesDiffer(pool') /\ \A j \in 1..Len(pool') : \E i \in P : pool'[j] = pool[i]
  BY <1>1, PickedLeases
<1>3. Len(pool') <= PoolCapacity /\ DOMAIN pool' = 1..Len(pool')
  BY <1>1
<1>4. ASSUME NEW j \in 1..Len(pool') PROVE LeaseOK(j)'
  <2>1. PICK i \in P : pool'[j] = pool[i]
    BY <1>2
  <2>2. LeaseOK(i) /\ pool[i].handle \notin broken'
    BY <1>1, <2>1 DEF PoolInv
  <2> QED
    BY <2>1, <2>2 DEF LeaseOK
<1>5. session.current = 0 => pool' = <<>>
  <2> SUFFICES ASSUME session.current = 0 PROVE pool' = <<>>
    OBVIOUS
  <2>1. Len(pool) = 0
    BY DEF SessionsOK
  <2> QED
    BY <2>1
<1>6. SessionsOK'
  BY <1>5 DEF SessionsOK
<1> QED
  BY <1>1, <1>2, <1>3, <1>4, <1>6 DEF PoolInv

LEMMA ConnectUsed ==
  ASSUME TransportTypeOK, RegistryInv, SessionsOK, PoolInv, NEW r \in Requests,
         Transport!At(r, "acquired"), Transport!Cached(HostOf[r]) # {},
         pool' = Transport!Used(HostOf[r]),
         request' = [request EXCEPT ![r].at = "connected",
                       ![r].connect = Transport!Last(Transport!Used(HostOf[r])).handle],
         UNCHANGED <<session, registry, state, system, broken>>
  PROVE  TransportInv'
<1> DEFINE h == HostOf[r]
<1>1. pool \in Seq(Leases) /\ Len(pool) \in Nat
  BY DEF PoolInv
<1>2. /\ pool' \in Seq(Leases) /\ Len(pool') = Len(pool) /\ Picked(pool', pool, 1..Len(pool))
      /\ \E i \in 1..Len(pool) : pool[i].host = h /\ Transport!Last(Transport!Used(h)) = pool[i]
  BY <1>1, UsedPicks
<1>3. PICK i \in 1..Len(pool) : pool[i].host = h /\ Transport!Last(Transport!Used(h)) = pool[i]
  BY <1>2
<1>4. pool[i] \in Leases /\ pool[i].handle \in Nat /\ LeaseOK(i)
  <2>1. pool[i] \in Leases /\ i \in DOMAIN pool
    BY <1>1
  <2>2. pool[i].handle \in Nat
    BY <2>1 DEF Leases
  <2> QED
    BY <2>1, <2>2 DEF PoolInv
<1>5. OwnerAt(r, "connected", pool[i].handle)
  BY <1>3, <1>4, OwnerConnects DEF Places, Handles
<1>6. TransportTypeOK' /\ RegistryInv'
  BY <1>5, OwnerStep DEF Transport!At
<1>7. \A q \in Requests \ {r} : Holding(q)' <=> Holding(q)
  BY <1>5 DEF OwnerAt, Holding
<1>8. LeasesDiffer(pool') /\ \A j \in 1..Len(pool') : \E k \in 1..Len(pool) : pool'[j] = pool[k]
  BY <1>1, <1>2, PickedLeases DEF PoolInv
<1>9. ASSUME NEW j \in 1..Len(pool') PROVE LeaseOK(j)'
  <2>1. PICK k \in 1..Len(pool) : pool'[j] = pool[k]
    BY <1>8
  <2>2. LeaseOK(k)
    BY <1>1, <2>1 DEF PoolInv
  <2>3. pool[i].handle = pool[k].handle => i = k
    BY <1>1 DEF PoolInv, LeasesDiffer
  <2> QED
    BY <1>3, <1>5, <1>7, <2>1, <2>2, <2>3 DEF LeaseOK, OwnerAt
<1>10. PoolInv'
  <2>1. DOMAIN pool' = 1..Len(pool')
    BY <1>2
  <2>2. Len(pool') <= PoolCapacity
    BY <1>2 DEF PoolInv
  <2> QED
    BY <1>2, <1>8, <1>9, <2>1, <2>2 DEF PoolInv
<1>11. session.current = 0 => pool' = <<>>
  <2> SUFFICES ASSUME session.current = 0 PROVE pool' = <<>>
    OBVIOUS
  <2>1. Len(pool) = 0
    BY DEF SessionsOK
  <2> QED
    BY <1>2, <2>1
<1>12. SessionsOK'
  BY <1>4, <1>5, <1>7, <1>11 DEF SessionsOK, LeaseOK, OwnerAt
<1> QED
  BY <1>6, <1>10, <1>12 DEF TransportInv

LEMMA ConnectNew ==
  ASSUME TransportTypeOK, RegistryInv, SessionsOK, PoolInv, NEW r \in Requests,
         Transport!At(r, "acquired"),
         session.current = 0 \/ Transport!Cached(HostOf[r]) = {},
         NEW handle, handle = Len(session.of) + 1,
         NEW now, now = IF session.current # 0 THEN session.current ELSE session.made + 1,
         session' = [current |-> now, made |-> IF now > session.made THEN now ELSE session.made,
                     of |-> Append(session.of, now)],
         pool' = Append(Transport!Room, [host |-> HostOf[r], handle |-> handle]),
         request' = [request EXCEPT ![r].at = "connected", ![r].connect = handle],
         UNCHANGED <<registry, state, system, broken>>
  PROVE  TransportInv'
<1>1. /\ session.of \in Seq(Nat) /\ session.current \in Nat /\ session.made \in Nat
      /\ Len(session.of) \in Nat /\ now \in Nat \ {0} /\ handle \in Nat \ {0}
  BY DEF SessionsOK
<1>2. /\ session'.of = Append(session.of, now) /\ session'.current = now
      /\ session' \in [current : Nat, made : Nat, of : Seq(Nat)]
  BY <1>1
<1>3. /\ Len(session'.of) = handle /\ session'.of[handle] = now
      /\ \A i \in 1..Len(session.of) : session'.of[i] = session.of[i] /\ i # handle /\ i \in 1..handle
  BY <1>1, <1>2
<1>4. OwnerAt(r, "connected", handle)
  BY <1>1, OwnerConnects DEF Places, Handles
<1>5. TransportTypeOK' /\ RegistryInv'
  BY <1>4, OwnerStep DEF Transport!At
<1>6. \A q \in Requests \ {r} : Holding(q)' <=> Holding(q)
  BY <1>4 DEF OwnerAt, Holding
<1> DEFINE s == Transport!Room
           c == [host |-> HostOf[r], handle |-> handle]
<1>7. /\ s \in Seq(Leases) /\ Len(s) + 1 <= PoolCapacity /\ LeasesDiffer(s) /\ Len(s) \in Nat
      /\ \A j \in 1..Len(s) : \E k \in 1..Len(pool) : s[j] = pool[k]
  <2>1. s \in Seq(Leases) /\ Len(s) + 1 <= PoolCapacity /\ Picked(s, pool, 1..Len(pool))
    BY RoomPicks DEF PoolInv
  <2>2. pool \in Seq(Leases) /\ LeasesDiffer(pool) /\ 1..Len(pool) \in SUBSET (1..Len(pool))
    BY DEF PoolInv
  <2> HIDE DEF s
  <2>3. LeasesDiffer(s) /\ \A j \in 1..Len(s) : \E k \in 1..Len(pool) : s[j] = pool[k]
    BY <2>1, <2>2, PickedLeases
  <2>4. Len(s) \in Nat
    BY <2>1
  <2> QED
    BY <2>1, <2>3, <2>4
<1>8. c \in Leases
  BY <1>1 DEF Leases
<1>9. \A k \in 1..Len(pool) :
        /\ LeaseOK(k) /\ pool[k].host # HostOf[r] /\ pool[k].handle # handle
        /\ session.current # 0
  <2> SUFFICES ASSUME NEW k \in 1..Len(pool)
               PROVE  /\ LeaseOK(k) /\ pool[k].host # HostOf[r] /\ pool[k].handle # handle
                      /\ session.current # 0
    OBVIOUS
  <2>1. LeaseOK(k) /\ k \in DOMAIN pool /\ pool # <<>>
    BY DEF PoolInv
  <2>2. session.current # 0
    BY <2>1 DEF SessionsOK
  <2> QED
    BY <1>3, <2>1, <2>2 DEF Transport!Cached, LeaseOK
<1> HIDE DEF s
<1>10. \A j \in 1..Len(s) : s[j].host # c.host /\ s[j].handle # c.handle
  BY <1>7, <1>9
<1>11. /\ pool' \in Seq(Leases) /\ Len(pool') = Len(s) + 1 /\ LeasesDiffer(pool')
       /\ \A j \in 1..(Len(s) + 1) : pool'[j] = IF j = Len(s) + 1 THEN c ELSE s[j]
  <2>1. pool' = Append(s, c)
    BY DEF s
  <2> HIDE DEF c
  <2>2. /\ s \in Seq(Leases) /\ c \in Leases /\ LeasesDiffer(s)
        /\ \A i \in 1..Len(s) : s[i].host # c.host /\ s[i].handle # c.handle
    BY <1>7, <1>8, <1>10
  <2>3. /\ Append(s, c) \in Seq(Leases) /\ Len(Append(s, c)) = Len(s) + 1
        /\ LeasesDiffer(Append(s, c))
        /\ \A i \in 1..(Len(s) + 1) : Append(s, c)[i] = IF i = Len(s) + 1 THEN c ELSE s[i]
    BY <2>2, AppendedLease
  <2> QED
    BY <2>1, <2>3, Zenon
<1>12. ASSUME NEW j \in 1..(Len(s) + 1) PROVE LeaseOK(j)'
  <2>1. CASE j = Len(s) + 1
    <3>1. pool'[j].host = HostOf[r] /\ pool'[j].handle = handle
      BY <1>11, <2>1
    <3>2. handle \in 1..Len(session'.of)
      BY <1>1, <1>3
    <3>3. handle \notin broken'
      BY <1>3 DEF SessionsOK
    <3>4. \A q \in Requests : Holding(q)' /\ request'[q].connect = handle => q = r
      BY <1>3, <1>4, <1>6 DEF OwnerAt, SessionsOK
    <3> QED
      BY <1>2, <1>3, <3>1, <3>2, <3>3, <3>4 DEF LeaseOK
  <2>2. CASE j # Len(s) + 1
    <3>1. PICK k \in 1..Len(pool) : pool'[j] = pool[k]
      BY <1>7, <1>11, <2>2
    <3>2. LeaseOK(k) /\ pool[k].handle # handle /\ now = session.current
      BY <1>9
    <3>3. \A q \in Requests : Holding(q)' /\ request'[q].connect = pool[k].handle =>
                                Holding(q) /\ request[q].connect = pool[k].handle
      BY <1>4, <1>6, <3>2 DEF OwnerAt
    <3> QED
      BY <1>2, <1>3, <3>1, <3>2, <3>3 DEF LeaseOK
  <2> QED
    BY <2>1, <2>2
<1>13. PoolInv'
  BY <1>7, <1>11, <1>12 DEF PoolInv
<1>14. SessionsOK'
  <2>1. session'.current # 0
    BY <1>1, <1>2
  <2>2. broken' \subseteq 1..Len(session'.of)
    BY <1>3 DEF SessionsOK
  <2>3. ASSUME NEW q \in Requests, Holding(q)' PROVE request'[q].connect \in 1..Len(session'.of)
    <3>1. CASE q = r
      BY <1>1, <1>3, <1>4, <3>1 DEF OwnerAt
    <3>2. CASE q # r
      BY <1>3, <1>4, <1>6, <2>3, <3>2 DEF OwnerAt, SessionsOK
    <3> QED
      BY <3>1, <3>2
  <2> QED
    BY <1>2, <2>1, <2>2, <2>3 DEF SessionsOK
<1> QED
  BY <1>5, <1>13, <1>14 DEF TransportInv

LEMMA FailedRetires ==
  ASSUME TransportTypeOK, RegistryInv, SessionsOK, PoolInv, NEW r \in Requests, Transport!Failed(r)
  PROVE  TransportInv'
<1>1. /\ request[r].at = "failed" /\ Transport!Go(r, "returning")
      /\ pool' = Transport!Evict(r) /\ broken' = broken \cup {request[r].connect}
      /\ UNCHANGED <<session, registry, state, system>>
  BY DEF Transport!Failed, Transport!At
<1>2. OwnerAt(r, "returning", request[r].connect)
  BY <1>1, OwnerGoes DEF Places
<1>3. TransportTypeOK' /\ RegistryInv'
  BY <1>1, <1>2, OwnerStep
<1>4. \A q \in Requests : Holding(q)' => Holding(q) /\ request'[q].connect = request[q].connect
  BY <1>2 DEF OwnerAt, Holding
<1>5. broken' \subseteq 1..Len(session.of)
  BY <1>1 DEF SessionsOK, Holding
<1>6. pool \in Seq(Leases) /\ Len(pool) \in Nat /\ DOMAIN pool = 1..Len(pool)
  BY DEF PoolInv
<1>7. ASSUME NEW i \in 1..Len(pool), pool[i].handle = request[r].connect
      PROVE  i \in Transport!Expected(r)
  <2>1. LeaseOK(i)
    BY <1>6 DEF PoolInv
  <2>2. HostOf[r] = pool[i].host
    BY <1>1, <1>7, <2>1 DEF LeaseOK, Holding
  <2> QED
    BY <1>6, <1>7, <2>2 DEF Transport!Expected, Transport!Cached
<1>8. \A i \in 1..Len(pool) : pool[i].handle \notin broken
  BY <1>6 DEF PoolInv, LeaseOK
<1>9. CASE Transport!Expected(r) = {}
  <2>1. UNCHANGED pool
    BY <1>1, <1>9 DEF Transport!Evict
  <2> DEFINE m == [i \in 1..Len(pool) |-> i]
  <2>2. m \in [1..Len(pool) -> 1..Len(pool)] /\ \A i \in 1..Len(pool) : m[i] = i
    OBVIOUS
  <2> HIDE DEF m
  <2>3. Picked(pool', pool, 1..Len(pool))
    BY <2>1, <2>2 DEF Picked
  <2>4. \A i \in 1..Len(pool) : pool[i].handle \notin broken'
    BY <1>1, <1>7, <1>8, <1>9
  <2>5. SessionsOK' /\ PoolInv'
    BY <1>1, <1>4, <1>5, <1>6, <2>1, <2>3, <2>4, PoolShrinks
  <2> QED
    BY <1>3, <2>5 DEF TransportInv
<1>10. CASE Transport!Expected(r) # {}
  <2>1. PICK k \in Transport!Expected(r) : pool' = Transport!RemoveAt(pool, k)
    BY <1>1, <1>10 DEF Transport!Evict
  <2>2. k \in 1..Len(pool) /\ pool[k].handle = request[r].connect
    BY <1>6, <2>1 DEF Transport!Expected, Transport!Cached
  <2>3. /\ pool' \in Seq(Leases) /\ Len(pool') = Len(pool) - 1
        /\ Picked(pool', pool, 1..Len(pool) \ {k})
    BY <1>6, <2>1, <2>2, RemovedPicks
  <2>4. ASSUME NEW i \in 1..Len(pool) \ {k} PROVE pool[i].handle \notin broken'
    <3>1. pool[i].handle # pool[k].handle
      BY <1>6, <2>2 DEF PoolInv, LeasesDiffer
    <3> QED
      BY <1>1, <1>8, <2>2, <3>1
  <2>5. Len(pool') <= Len(pool)
    BY <1>6, <2>3
  <2>6. SessionsOK' /\ PoolInv'
    BY <1>1, <1>4, <1>5, <2>3, <2>4, <2>5, PoolShrinks
  <2> QED
    BY <1>3, <2>6 DEF TransportInv
<1> QED
  BY <1>9, <1>10

LEMMA ConnectSafe ==
  ASSUME TransportInv, NEW r \in Requests, Transport!Connect(r)
  PROVE  TransportInv'
<1>1. TransportTypeOK /\ RegistryInv /\ SessionsOK /\ PoolInv
  BY DEF TransportInv
<1>2. Transport!At(r, "acquired") /\ UNCHANGED <<registry, state, system, broken>>
  BY DEF Transport!Connect
<1> DEFINE h == HostOf[r]
           handle == Len(session.of) + 1
           now == IF session.current # 0 THEN session.current ELSE session.made + 1
<1>3. \/ /\ session.current # 0 /\ Transport!Cached(h) # {}
         /\ pool' = Transport!Used(h)
         /\ request' = [request EXCEPT ![r].at = "connected",
                                       ![r].connect = Transport!Last(Transport!Used(h)).handle]
         /\ UNCHANGED session
      \/ /\ session.current = 0 \/ Transport!Cached(h) = {}
         /\ session' = [current |-> now, made |-> IF now > session.made THEN now ELSE session.made,
                        of |-> Append(session.of, now)]
         /\ pool' = Append(Transport!Room, [host |-> h, handle |-> handle])
         /\ request' = [request EXCEPT ![r].at = "connected", ![r].connect = handle]
      \/ Transport!Go(r, "returning") /\ UNCHANGED <<pool, session>>
  BY DEF Transport!Connect
<1>4. CASE Transport!Go(r, "returning") /\ UNCHANGED <<pool, session>>
  <2>1. OwnerAt(r, "returning", request[r].connect)
    BY <1>1, <1>4, OwnerGoes DEF Places
  <2>2. TransportTypeOK' /\ RegistryInv'
    BY <1>1, <1>2, <2>1, OwnerStep DEF Transport!At
  <2>3. \A q \in Requests : Holding(q)' => Holding(q) /\ request'[q].connect = request[q].connect
    BY <2>1 DEF OwnerAt, Holding
  <2> QED
    BY <1>1, <1>2, <1>4, <2>2, <2>3, PoolFrame DEF TransportInv
<1>5. CASE /\ Transport!Cached(h) # {}
           /\ pool' = Transport!Used(h)
           /\ request' = [request EXCEPT ![r].at = "connected",
                                         ![r].connect = Transport!Last(Transport!Used(h)).handle]
           /\ UNCHANGED session
  BY <1>1, <1>2, <1>5, ConnectUsed
<1>6. CASE /\ session.current = 0 \/ Transport!Cached(h) = {}
           /\ session' = [current |-> now, made |-> IF now > session.made THEN now ELSE session.made,
                          of |-> Append(session.of, now)]
           /\ pool' = Append(Transport!Room, [host |-> h, handle |-> handle])
           /\ request' = [request EXCEPT ![r].at = "connected", ![r].connect = handle]
  <2>1. PICK n : n = now
    OBVIOUS
  <2>2. PICK k : k = handle
    OBVIOUS
  <2>3. /\ n = IF session.current # 0 THEN session.current ELSE session.made + 1
        /\ k = Len(session.of) + 1
        /\ session' = [current |-> n, made |-> IF n > session.made THEN n ELSE session.made,
                       of |-> Append(session.of, n)]
        /\ pool' = Append(Transport!Room, [host |-> HostOf[r], handle |-> k])
        /\ request' = [request EXCEPT ![r].at = "connected", ![r].connect = k]
    BY <1>6, <2>1, <2>2
  <2> HIDE DEF now, handle
  <2> QED
    BY <1>1, <1>2, <1>6, <2>3, ConnectNew
<1> QED
  BY <1>3, <1>4, <1>5, <1>6

(* The steps of an exchange after it has its connect, and before it asks for one. *)
LEMMA NobodyConnects ==
  ASSUME TransportTypeOK, NEW r \in Requests,
         \/ Transport!Acquire(r) \/ Transport!OpenRequest(r) \/ Transport!Issue(r)
         \/ Transport!Completed(r) \/ Transport!Interrupted(r) \/ Transport!Return(r)
         \/ Transport!Callback(r) \/ Transport!CallbackReturns(r)
  PROVE  /\ UNCHANGED <<pool, session, broken>>
         /\ \A q \in Requests : Holding(q)' => Holding(q) /\ request'[q].connect = request[q].connect
<1>1. UNCHANGED <<pool, session, broken>>
  BY DEF Transport!Acquire, Transport!OpenRequest, Transport!Issue, Transport!Completed,
     Transport!Interrupted, Transport!Return, Transport!Callback, Transport!CallbackReturns
<1>2. CASE Transport!Callback(r) \/ Transport!CallbackReturns(r)
  BY <1>1, <1>2 DEF Transport!Callback, Transport!CallbackReturns, Holding
<1>3. CASE Transport!Return(r)
  <2>1. request' = [request EXCEPT ![r].at = "returned", ![r].connect = NoHandle]
    BY <1>3 DEF Transport!Return
  <2>2. OwnerAt(r, "returned", NoHandle)
    BY <2>1, OwnerConnects DEF Places, Handles
  <2> QED
    BY <1>1, <2>2 DEF OwnerAt, Holding
<1>4. CASE Transport!OpenRequest(r)
  <2>1. PICK installed, place :
          request' = [request EXCEPT ![r].at = place, ![r].installed = installed]
    BY <1>4 DEF Transport!OpenRequest
  <2>2. request[r].at = "connected" /\ request \in [Requests -> OwnerSide]
    BY <1>4 DEF Transport!OpenRequest, Transport!At, TransportTypeOK
  <2>3. /\ request'[r].connect = request[r].connect
        /\ \A q \in Requests \ {r} : request'[q] = request[q]
    BY <2>1, <2>2 DEF OwnerSide
  <2> QED
    BY <1>1, <2>2, <2>3 DEF Holding
<1>5. CASE \/ Transport!Acquire(r) \/ Transport!Issue(r) \/ Transport!Completed(r)
           \/ Transport!Interrupted(r)
  <2>1. \/ /\ request[r].at = "new"
           /\ \E place \in {"overload", "acquired"} : Transport!Go(r, place)
        \/ /\ request[r].at \in {"idle", "waiting"}
           /\ \E place \in {"waiting", "failed", "idle", "returning"} : Transport!Go(r, place)
    BY <1>5 DEF Transport!Acquire, Transport!Issue, Transport!Completed, Transport!Interrupted,
       Transport!At
  <2>2. PICK place \in Places : /\ OwnerAt(r, place, request[r].connect)
                                /\ place \in {"overload", "acquired"} \/ Holding(r)
    BY <2>1, OwnerGoes DEF Places, Holding
  <2> QED
    BY <1>1, <2>2 DEF OwnerAt, Holding
<1> QED
  BY <1>2, <1>3, <1>4, <1>5

LEMMA CompletedExchange ==
  ASSUME TransportTypeOK, RegistryInv, NEW r \in Requests,
         Transport!Completed(r) \/ Transport!Interrupted(r)
  PROVE  TransportTypeOK' /\ RegistryInv'
<1>1. UNCHANGED <<registry, state, system>>
  BY DEF Transport!Completed, Transport!Interrupted
<1>2. \/ request[r].at = "waiting" /\ \E place \in {"failed", "idle", "returning"} : Transport!Go(r, place)
      \/ request[r].at = "idle" /\ Transport!Go(r, "failed")
  BY DEF Transport!Completed, Transport!Interrupted, Transport!At
<1>3. PICK place \in Places :
        /\ OwnerAt(r, place, request[r].connect)
        /\ \/ request[r].at = "waiting" /\ place \in {"failed", "idle", "returning"}
           \/ request[r].at = "idle" /\ place = "failed"
  BY <1>2, OwnerGoes DEF Places
<1> QED
  BY <1>1, <1>3, OwnerStep

LEMMA TransportStep == TransportInv /\ [Transport!HttpTransportNext]_transportVars => TransportInv'
<1> SUFFICES ASSUME TransportInv, [Transport!HttpTransportNext]_transportVars PROVE TransportInv'
  OBVIOUS
<1>1. TransportTypeOK /\ RegistryInv /\ SessionsOK /\ PoolInv
  BY DEF TransportInv
<1>2. ASSUME NEW r \in Requests,
             \/ Transport!Acquire(r) \/ Transport!OpenRequest(r) \/ Transport!Issue(r)
             \/ Transport!Completed(r) \/ Transport!Interrupted(r) \/ Transport!Return(r)
             \/ Transport!Callback(r) \/ Transport!CallbackReturns(r)
      PROVE  TransportInv'
  <2>1. TransportTypeOK' /\ RegistryInv'
    BY <1>1, <1>2, AcquireExchange, OpenRequestExchange, IssueExchange, CompletedExchange,
       ReturnExchange, CallbackExchange, CallbackReturnsExchange
  <2>2. SessionsOK' /\ PoolInv'
    BY <1>1, <1>2, NobodyConnects, PoolFrame
  <2> QED
    BY <2>1, <2>2 DEF TransportInv
<1>3. ASSUME NEW r \in Requests, Transport!Connect(r) PROVE TransportInv'
  BY <1>3, ConnectSafe
<1>4. ASSUME NEW r \in Requests, Transport!Failed(r) PROVE TransportInv'
  BY <1>1, <1>4, FailedRetires
<1>5. CASE Transport!Reap \/ UNCHANGED transportVars
  <2>1. UNCHANGED <<pool, session, request, state, system, broken>>
    BY <1>5 DEF Transport!Reap, transportVars
  <2>2. registry' \in {registry, Transport!Reaped}
    BY <1>5 DEF Transport!Reap, transportVars
  <2>3. TransportTypeOK' /\ RegistryInv'
    BY <1>1, <2>1, <2>2, RegistryReaped
  <2>4. \A q \in Requests : Holding(q)' => Holding(q) /\ request'[q].connect = request[q].connect
    BY <2>1 DEF Holding
  <2> QED
    BY <1>1, <2>1, <2>3, <2>4, PoolFrame DEF TransportInv
<1>6. CASE Transport!CloseAll
  <2>1. /\ UNCHANGED <<request, state, system, broken>> /\ registry' = Transport!Reaped
        /\ pool' = <<>> /\ session' = [session EXCEPT !.current = 0]
    BY <1>6 DEF Transport!CloseAll
  <2>2. TransportTypeOK' /\ RegistryInv'
    BY <1>1, <2>1, RegistryReaped
  <2>3. SessionsOK'
    BY <1>1, <2>1 DEF SessionsOK, Holding
  <2>4. PoolInv'
    <3>1. pool' \in Seq(Leases) /\ Len(pool') = 0 /\ DOMAIN pool' = {}
      BY <2>1
    <3> QED
      BY <3>1, TransportAssumption DEF PoolInv, LeasesDiffer
  <2> QED
    BY <2>2, <2>3, <2>4 DEF TransportInv
<1> QED
  BY <1>2, <1>3, <1>4, <1>5, <1>6 DEF Transport!HttpTransportNext

LEMMA TransportBegins == Transport!HttpTransportInit => TransportInv
<1> SUFFICES ASSUME Transport!HttpTransportInit PROVE TransportInv
  OBVIOUS
<1>1. /\ pool = <<>> /\ session = [current |-> 0, made |-> 0, of |-> <<>>]
      /\ registry = {} /\ broken = {}
      /\ request = [r \in Requests |-> [at |-> "new", connect |-> NoHandle, installed |-> FALSE]]
      /\ state = [r \in Requests |-> [completed |-> FALSE, error |-> FALSE, closed |-> FALSE,
                                      ownerFinished |-> FALSE, callbacks |-> 0]]
      /\ system = [r \in Requests |-> [handle |-> "none", pending |-> FALSE, calling |-> FALSE]]
  BY DEF Transport!HttpTransportInit, Transport!NewState
<1>2. TransportTypeOK
  BY <1>1 DEF TransportTypeOK, OwnerSide, SharedSide, SystemSide, Places, Handles
<1>3. RegistryInv
  <2>1. IsFiniteSet(registry) /\ Cardinality(registry) <= MaxAsyncRequests
    BY <1>1, FS_EmptySet, TransportAssumption
  <2>2. \A r \in Requests : HandleInv(r) /\ StateKept(r)
    BY <1>1 DEF HandleInv, StateKept
  <2> QED
    BY <2>1, <2>2 DEF RegistryInv
<1>4. SessionsOK
  BY <1>1 DEF SessionsOK, Holding
<1>5. PoolInv
  <2>1. pool \in Seq(Leases) /\ Len(pool) = 0 /\ DOMAIN pool = {}
    BY <1>1
  <2> QED
    BY <2>1, TransportAssumption DEF PoolInv, LeasesDiffer
<1> QED
  BY <1>2, <1>3, <1>4, <1>5 DEF TransportInv

LEMMA TransportShows ==
  ASSUME TransportInv
  PROVE  Transport!CallbacksFindState /\ Transport!PoolIsFresh
<1>1. ASSUME NEW r \in Requests,
             system[r].pending \/ system[r].calling \/ system[r].handle = "closing"
      PROVE  r \in registry
  <2>1. HandleInv(r) /\ StateKept(r)
    BY DEF TransportInv, RegistryInv
  <2>2. request[r].at \in Places /\ system[r] \in SystemSide
    BY DEF TransportInv, TransportTypeOK, OwnerSide
  <2> QED
    BY <1>1, <2>1, <2>2 DEF HandleInv, StateKept, Places, SystemSide
<1>2. Transport!Cardinality(registry) <= MaxAsyncRequests
  BY TransportCardinality DEF TransportInv, RegistryInv
<1>3. Transport!PoolIsFresh
  BY DEF TransportInv, PoolInv, LeasesDiffer, LeaseOK, Transport!PoolIsFresh
<1> QED
  BY <1>1, <1>2, <1>3 DEF Transport!CallbacksFindState

(* A late callback of the system finds the state of its exchange in the registry,
   which keeps to its bound; and the pool holds one connect for each host, of the
   current session and of no exchange that failed (AsyncRequestRegistry and
   HttpConnectionPool of HttpClient.cpp). *)
THEOREM TransportIsSafeCorrect == UpstreamSpec => []TransportIsSafe
<1> DEFINE I == suite = "transport" => TransportInv
<1>1. UpstreamInit => I
  BY TransportBegins DEF UpstreamInit
<1>2. I /\ [UNCHANGED suite /\ UpstreamNext]_<<suite, upstreamVars>> => I'
  <2> SUFFICES ASSUME I, [UNCHANGED suite /\ UpstreamNext]_<<suite, upstreamVars>>,
                      suite' = "transport"
               PROVE  TransportInv'
    OBVIOUS
  <2>1. suite = "transport" /\ [Transport!HttpTransportNext]_transportVars
    BY DEF UpstreamNext, upstreamVars, transportVars
  <2> QED
    BY <2>1, TransportStep
<1>3. I => TransportIsSafe
  BY TransportShows DEF TransportIsSafe
<1> QED
  BY <1>1, <1>2, <1>3, PTL DEF UpstreamSpec

-----------------------------------------------------------------------------
(* PlayQueue                                                                 *)

RadioState  == [on : BOOLEAN, pending : BOOLEAN, advance : BOOLEAN, generation : Nat]
CueState    == [generation : Nat, resolved : QueueSongs \cup {NoSong}, cues : QueueSongs \cup {NoSong}]
QueueCalls  == [kind : {"start", "more", "search", "lyric"}, generation : Nat,
                song : QueueSongs \cup {NoSong}]
QueueTypeOK ==
  /\ queue \in Seq(QueueSongs) /\ index \in 0..Len(queue)
  /\ radio \in RadioState /\ cue \in CueState /\ queueNet \subseteq QueueCalls

RadioCall(m, r) ==
  /\ m.generation <= r.generation /\ m.song = NoSong
  /\ m.generation = r.generation => r.pending /\ (m.kind = "start" <=> ~r.on)

\* The request of the radio that is still wanted is the one it waits for, and the
\* lyrics that are still wanted are those of the song that was resolved.
CallOK(m) ==
  /\ m.kind \in {"start", "more"} => RadioCall(m, radio)
  /\ m.kind \in {"search", "lyric"} =>
       /\ m.generation <= cue.generation
       /\ m.generation = cue.generation => m.song = cue.resolved
QueueInv ==
  /\ QueueTypeOK
  /\ \A m \in queueNet : CallOK(m)
  /\ radio.on => index # 0
  /\ Queue!MarkIsWhatPlays

LEMMA Cancels ==
  ASSUME NEW r \in RadioState
  PROVE  /\ Queue!Cancelled(r) \in RadioState /\ Queue!Cancelled(r).on = r.on
         /\ [Queue!Cancelled(r) EXCEPT !.on = FALSE] \in RadioState
         /\ [Queue!Cancelled(r) EXCEPT !.on = FALSE].on = FALSE
         /\ Queue!Cancelled(r).generation = r.generation + 1
         /\ [Queue!Cancelled(r) EXCEPT !.on = FALSE].generation = r.generation + 1
<1>1. r.generation + 1 \in Nat
  BY DEF RadioState
<1> QED
  BY <1>1 DEF RadioState, Queue!Cancelled

(* No request that was made is of a later generation than the radio's own. *)
LEMMA OutdatedCalls ==
  ASSUME QueueInv, NEW r \in RadioState, r.generation > radio.generation,
         NEW m \in queueNet, m.kind \in {"start", "more"}
  PROVE  RadioCall(m, r)
<1>1. RadioCall(m, radio) /\ m.generation \in Nat /\ radio.generation \in Nat /\ r.generation \in Nat
  BY DEF QueueInv, CallOK, QueueTypeOK, QueueCalls, RadioState
<1> QED
  BY <1>1 DEF RadioCall

LEMMA SongResolves ==
  ASSUME QueueInv, NEW q \in Seq(QueueSongs), NEW i \in 1..Len(q), NEW r \in RadioState,
         NEW requests, requests \subseteq QueueCalls,
         queue' = q, index' = i, radio' = r, Queue!Resolve(q, i, requests),
         \A m \in requests : m.kind \in {"start", "more"} => RadioCall(m, r),
         \A m \in requests : m.kind \in {"search", "lyric"} => m \in queueNet
  PROVE  QueueInv'
<1>0. PICK call : call = [kind |-> "search", generation |-> cue.generation + 1, song |-> q[i]]
  OBVIOUS
<1>1. /\ cue' = [generation |-> cue.generation + 1, resolved |-> q[i], cues |-> NoSong]
      /\ queueNet' = requests \cup {call}
  BY <1>0 DEF Queue!Resolve
<1>2. cue.generation \in Nat /\ q[i] \in QueueSongs
  BY DEF QueueInv, QueueTypeOK, CueState
<1>3. cue' \in CueState /\ call \in QueueCalls
  BY <1>0, <1>1, <1>2 DEF CueState, QueueCalls
<1>4. QueueTypeOK'
  BY <1>1, <1>3 DEF QueueTypeOK
<1>5. ASSUME NEW m \in requests PROVE CallOK(m)'
  <2>1. CASE m.kind \in {"start", "more"}
    BY <2>1 DEF CallOK, RadioCall
  <2>2. CASE m.kind \in {"search", "lyric"}
    <3>1. m.generation <= cue.generation /\ m.generation \in Nat
      BY <2>2 DEF QueueInv, CallOK, QueueCalls
    <3> QED
      BY <1>1, <1>2, <2>2, <3>1 DEF CallOK
  <2> QED
    BY <2>1, <2>2 DEF CallOK
<1>8. index' # 0
  OBVIOUS
<1>6. CallOK(call)'
  BY <1>0, <1>1, <1>2 DEF CallOK
<1>7. Queue!MarkIsWhatPlays'
  BY <1>1 DEF Queue!MarkIsWhatPlays
<1> QED
  BY <1>1, <1>4, <1>5, <1>6, <1>7, <1>8 DEF QueueInv

LEMMA SongSelected ==
  ASSUME QueueInv, NEW q \in Seq(QueueSongs), NEW i \in 1..Len(q), NEW r \in RadioState,
         Queue!Select(q, i, r), r = radio \/ r.generation > radio.generation
  PROVE  QueueInv'
<1>1. queue' = q /\ index' = i /\ radio' = r /\ Queue!Resolve(q, i, queueNet)
  BY DEF Queue!Select
<1>2. \A m \in queueNet : m.kind \in {"start", "more"} => RadioCall(m, r)
  BY OutdatedCalls DEF QueueInv, CallOK
<1>3. queueNet \subseteq QueueCalls
  BY DEF QueueInv, QueueTypeOK
<1> QED
  BY <1>1, <1>2, <1>3, SongResolves

LEMMA QueueEdited ==
  ASSUME QueueInv, queue' \in Seq(QueueSongs), index' \in 0..Len(queue'),
         UNCHANGED <<radio, cue, queueNet>>,
         index = 0 <=> index' = 0, index # 0 => queue'[index'] = queue[index]
  PROVE  QueueInv'
<1>1. QueueTypeOK' /\ \A m \in queueNet : CallOK(m)'
  BY DEF QueueInv, QueueTypeOK, CallOK
<1>2. Queue!MarkIsWhatPlays'
  <2>1. CASE index = 0
    BY <2>1 DEF QueueInv, Queue!MarkIsWhatPlays
  <2>2. CASE index # 0
    <3>1. index' \in DOMAIN queue'
      BY <2>2
    <3> QED
      BY <2>2, <3>1 DEF QueueInv, Queue!MarkIsWhatPlays
  <2> QED
    BY <2>1, <2>2
<1> QED
  BY <1>1, <1>2 DEF QueueInv

LEMMA QueueCleared ==
  ASSUME QueueInv, NEW r \in RadioState, r.generation >= radio.generation, Queue!clearQueue(r)
  PROVE  QueueInv'
<1>1. /\ queue' = <<>> /\ index' = 0 /\ queueNet' = queueNet
      /\ radio' = [Queue!Cancelled(r) EXCEPT !.on = FALSE]
      /\ cue' = [generation |-> cue.generation + 1, resolved |-> NoSong, cues |-> NoSong]
  BY DEF Queue!clearQueue
<1>2. /\ radio' \in RadioState /\ radio'.on = FALSE /\ radio'.generation = r.generation + 1
      /\ radio.generation \in Nat /\ r.generation \in Nat /\ cue.generation \in Nat
  <2>1. radio' \in RadioState /\ radio'.on = FALSE /\ radio'.generation = r.generation + 1
    BY <1>1, Cancels
  <2> QED
    BY <2>1 DEF QueueInv, QueueTypeOK, RadioState, CueState
<1>3. QueueTypeOK'
  <2>1. queue' \in Seq(QueueSongs) /\ index' \in 0..Len(queue')
    BY <1>1
  <2>2. cue' \in CueState
    BY <1>1, <1>2 DEF CueState
  <2> QED
    BY <1>1, <1>2, <2>1, <2>2 DEF QueueInv, QueueTypeOK
<1>4. ASSUME NEW m \in queueNet PROVE CallOK(m)'
  <2>1. m.kind \in {"start", "more"} => RadioCall(m, radio')
    BY <1>2, OutdatedCalls
  <2>2. m.kind \in {"search", "lyric"} => m.generation <= cue.generation /\ m.generation \in Nat
    BY DEF QueueInv, QueueTypeOK, QueueCalls, CallOK
  <2> QED
    BY <1>1, <1>2, <2>1, <2>2 DEF CallOK, RadioCall
<1>5. Queue!MarkIsWhatPlays'
  BY <1>1 DEF Queue!MarkIsWhatPlays
<1> QED
  BY <1>1, <1>2, <1>3, <1>4, <1>5 DEF QueueInv

LEMMA RadioFetches ==
  ASSUME QueueInv, NEW advance \in BOOLEAN, NEW starting \in BOOLEAN, starting <=> ~radio.on,
         NEW r, NEW calls, r = Queue!FetchRadio(radio, starting, advance).r,
         calls = Queue!FetchRadio(radio, starting, advance).n
  PROVE  /\ r \in RadioState /\ r.on = radio.on
         /\ calls \subseteq QueueCalls /\ \A m \in calls : m.kind \in {"start", "more"}
         /\ \A m \in queueNet \cup calls : m.kind \in {"start", "more"} => RadioCall(m, r)
<1>1. radio \in RadioState /\ radio.generation \in Nat
  BY DEF QueueInv, QueueTypeOK, RadioState
<1>2. CASE radio.pending
  <2>1. r = [radio EXCEPT !.advance = @ \/ advance] /\ calls = {}
    BY <1>2 DEF Queue!FetchRadio
  <2>2. PICK x \in BOOLEAN : x = (radio.advance \/ advance)
    BY <1>1 DEF RadioState
  <2>3. r = [radio EXCEPT !.advance = x]
    BY <2>1, <2>2
  <2>4. /\ r \in RadioState /\ r.on = radio.on /\ r.pending = radio.pending
        /\ r.generation = radio.generation
    BY <1>1, <2>3 DEF RadioState
  <2>5. \A m \in queueNet : m.kind \in {"start", "more"} => RadioCall(m, r)
    BY <2>4 DEF QueueInv, CallOK, RadioCall
  <2> QED
    BY <2>1, <2>4, <2>5
<1>3. CASE ~radio.pending
  <2>1. r = [radio EXCEPT !.generation = @ + 1, !.advance = advance, !.pending = TRUE]
    BY <1>3 DEF Queue!FetchRadio
  <2>2. /\ r \in RadioState /\ r.on = radio.on /\ r.pending = TRUE
        /\ r.generation = radio.generation + 1
    <3>1. PICK n \in Nat : n = radio.generation + 1
      BY <1>1
    <3>2. r = [radio EXCEPT !.generation = n, !.advance = advance, !.pending = TRUE]
      BY <2>1, <3>1
    <3> QED
      BY <1>1, <3>1, <3>2 DEF RadioState
  <2>3. calls = {[kind |-> IF starting THEN "start" ELSE "more", generation |-> r.generation,
                  song |-> NoSong]}
    BY <1>3, <2>1 DEF Queue!FetchRadio
  <2>4. calls \subseteq QueueCalls
    BY <2>2, <2>3 DEF QueueCalls, RadioState
  <2>5. \A m \in calls : m.kind \in {"start", "more"} /\ RadioCall(m, r)
    BY <1>1, <2>2, <2>3 DEF RadioCall
  <2>6. \A m \in queueNet : m.kind \in {"start", "more"} => RadioCall(m, r)
    BY <1>1, <2>2, OutdatedCalls
  <2> QED
    BY <2>2, <2>4, <2>5, <2>6
<1> QED
  BY <1>2, <1>3

(* The radio changes, and its requests with it. *)
LEMMA RadioMoves ==
  ASSUME QueueInv, UNCHANGED <<queue, index, cue>>, radio' \in RadioState,
         radio'.on => radio.on,
         queueNet' \subseteq QueueCalls,
         \A m \in queueNet' : m.kind \in {"start", "more"} => RadioCall(m, radio'),
         \A m \in queueNet' : m.kind \in {"search", "lyric"} => m \in queueNet
  PROVE  QueueInv'
<1>1. QueueTypeOK'
  BY DEF QueueInv, QueueTypeOK
<1>2. \A m \in queueNet' : CallOK(m)'
  BY DEF QueueInv, CallOK, RadioCall
<1>3. Queue!MarkIsWhatPlays'
  BY DEF QueueInv, Queue!MarkIsWhatPlays
<1> QED
  BY <1>1, <1>2, <1>3 DEF QueueInv

LEMMA PlayTracksKeeps ==
  ASSUME QueueInv, NEW s \in QueueSongs, NEW t \in QueueSongs, NEW i,
         Queue!playTracks(<<s, t>>, i)
  PROVE  QueueInv'
<1>1. PICK q \in Seq(QueueSongs) : q = <<s, t>>
  OBVIOUS
<1>2. i \in 1..Len(q) /\ Queue!Select(q, i, [Queue!Cancelled(radio) EXCEPT !.on = FALSE])
  BY <1>1 DEF Queue!playTracks
<1>3. PICK r : r = [Queue!Cancelled(radio) EXCEPT !.on = FALSE]
  OBVIOUS
<1>4. r \in RadioState /\ r.generation = radio.generation + 1 /\ radio.generation \in Nat
  BY <1>3, Cancels DEF QueueInv, QueueTypeOK, RadioState
<1>5. r.generation > radio.generation
  BY <1>4
<1> QED
  BY <1>2, <1>3, <1>4, <1>5, SongSelected

LEMMA PlayQueueKeeps ==
  ASSUME QueueInv, NEW i, Queue!playQueue(i)
  PROVE  QueueInv'
<1>1. PICK q \in Seq(QueueSongs) : q = queue
  BY DEF QueueInv, QueueTypeOK
<1>2. PICK r : r = IF radio.on THEN radio ELSE Queue!Cancelled(radio)
  OBVIOUS
<1>3. i \in 1..Len(q) /\ Queue!Select(q, i, r)
  BY <1>1, <1>2 DEF Queue!playQueue
<1>4. r \in RadioState /\ (r = radio \/ r.generation > radio.generation)
  <2>1. radio \in RadioState /\ radio.generation \in Nat
    BY DEF QueueInv, QueueTypeOK, RadioState
  <2>2. /\ Queue!Cancelled(radio) \in RadioState
        /\ Queue!Cancelled(radio).generation = radio.generation + 1
    BY <2>1, Cancels
  <2> QED
    BY <1>2, <2>1, <2>2
<1> QED
  BY <1>3, <1>4, SongSelected

LEMMA StepKeeps ==
  ASSUME QueueInv, NEW delta \in {1, -1}, Queue!step(delta)
  PROVE  QueueInv'
<1>1. queue \in Seq(QueueSongs) /\ index \in Int /\ queue # <<>> /\ Len(queue) \in Nat \ {0}
  BY DEF QueueInv, QueueTypeOK, Queue!step
<1>2. PICK i \in Queue!StepTo(delta) : Queue!Select(queue, i, radio)
  BY DEF Queue!step
<1>3. i \in 1..Len(queue)
  <2>1. \A n \in Int, k \in Nat \ {0} : n % k \in 0..(k - 1)
    OBVIOUS
  <2>2. index - 1 + delta \in Int
    BY <1>1
  <2>3. (index - 1 + delta) % Len(queue) \in 0..(Len(queue) - 1)
    BY <1>1, <2>1, <2>2
  <2>4. ((index - 1 + delta) % Len(queue)) + 1 \in 1..Len(queue)
    BY <1>1, <2>3
  <2> QED
    BY <1>1, <1>2, <2>4 DEF Queue!StepTo
<1>4. radio \in RadioState
  BY DEF QueueInv, QueueTypeOK
<1> QED
  BY <1>1, <1>2, <1>3, <1>4, SongSelected

LEMMA EnqueueKeeps ==
  ASSUME QueueInv, NEW s \in QueueSongs, Queue!enqueueTrack(s)
  PROVE  QueueInv'
<1>1. queue' = Append(queue, s) /\ UNCHANGED <<index, radio, cue, queueNet>>
  BY DEF Queue!enqueueTrack
<1>2. queue \in Seq(QueueSongs) /\ index \in 0..Len(queue)
  BY DEF QueueInv, QueueTypeOK
<1>3. /\ queue' \in Seq(QueueSongs) /\ index' \in 0..Len(queue')
      /\ index # 0 => queue'[index'] = queue[index]
  BY <1>1, <1>2
<1> QED
  BY <1>1, <1>3, QueueEdited

LEMMA QueueMin ==
  ASSUME NEW m \in Int, NEW n \in Int
  PROVE  Queue!Min({m, n}) = IF m <= n THEN m ELSE n
<1>1. \E x \in {m, n} : \A y \in {m, n} : x <= y
  OBVIOUS
<1> DEFINE k == Queue!Min({m, n})
<1>2. k \in {m, n} /\ \A y \in {m, n} : k <= y
  BY <1>1 DEF Queue!Min
<1> HIDE DEF k
<1>3. k = IF m <= n THEN m ELSE n
  BY <1>2
<1> QED
  BY <1>3 DEF k

LEMMA QueueRemoves ==
  ASSUME NEW S, NEW s \in Seq(S), NEW k \in 1..Len(s)
  PROVE  /\ Queue!RemoveAt(s, k) \in Seq(S) /\ Len(Queue!RemoveAt(s, k)) = Len(s) - 1
         /\ \A i \in 1..(Len(s) - 1) :
              Queue!RemoveAt(s, k)[i] = IF i < k THEN s[i] ELSE s[i + 1]
<1> DEFINE t == Queue!RemoveAt(s, k)
<1>1. /\ t \in Seq(S) /\ Len(t) = Len(s) - 1
      /\ \A i \in 1..Len(t) : t[i] = IF i < k THEN s[i] ELSE s[i + 1]
  BY Removed DEF Queue!RemoveAt
<1> HIDE DEF t
<1> QED
  BY <1>1 DEF t

LEMMA RemoveKeeps ==
  ASSUME QueueInv, NEW i, Queue!removeQueue(i)
  PROVE  QueueInv'
<1>1. /\ queue \in Seq(QueueSongs) /\ index \in 0..Len(queue) /\ i \in 1..Len(queue)
      /\ radio \in RadioState /\ radio.generation \in Nat /\ Len(queue) \in Nat
  BY DEF QueueInv, QueueTypeOK, RadioState, Queue!removeQueue
<1>2. CASE Len(queue) = 1
  <2>1. Queue!clearQueue(radio)
    BY <1>2 DEF Queue!removeQueue
  <2>2. radio.generation >= radio.generation
    BY <1>1
  <2> QED
    BY <1>1, <2>1, <2>2, QueueCleared
<1>3. CASE Len(queue) # 1
  <2> DEFINE q == Queue!RemoveAt(queue, i)
             k == Queue!IndexWithout(i)
  <2>1. IF i = index THEN Queue!Select(q, k, radio)
        ELSE queue' = q /\ index' = k /\ UNCHANGED <<radio, cue, queueNet>>
    BY <1>3 DEF Queue!removeQueue
  <2>6. Len(queue) >= 2
    <3>1. PICK n \in Nat : n = Len(queue) /\ i \in 1..n /\ n # 1
      BY <1>1, <1>3
    <3>2. n >= 2
      BY <3>1
    <3> QED
      BY <3>1, <3>2
  <2>2. /\ q \in Seq(QueueSongs) /\ Len(q) = Len(queue) - 1 /\ Len(queue) >= 2
        /\ \A j \in 1..(Len(queue) - 1) : q[j] = IF j < i THEN queue[j] ELSE queue[j + 1]
    BY <1>1, <2>6, QueueRemoves
  <2> HIDE DEF q
  <2>3. k = IF i < index THEN index - 1
            ELSE IF index <= Len(queue) - 1 THEN index ELSE Len(queue) - 1
    BY <1>1, QueueMin DEF Queue!IndexWithout
  <2> HIDE DEF k
  <2>4. CASE i = index
    <3>1. k \in 1..Len(q)
      BY <1>1, <2>2, <2>3, <2>4
    <3> QED
      BY <1>1, <2>1, <2>2, <2>4, <3>1, SongSelected
  <2>5. CASE i # index
    <3>1. k \in 0..Len(q) /\ (index = 0 <=> k = 0)
      BY <1>1, <2>2, <2>3, <2>5
    <3>2. index # 0 => q[k] = queue[index]
      BY <1>1, <2>2, <2>3, <2>5
    <3> QED
      BY <2>1, <2>2, <2>5, <3>1, <3>2, QueueEdited
  <2> QED
    BY <2>4, <2>5
<1> QED
  BY <1>2, <1>3

LEMMA MoveKeeps ==
  ASSUME QueueInv, NEW from, NEW to, Queue!moveQueue(from, to)
  PROVE  QueueInv'
<1>1. /\ queue \in Seq(QueueSongs) /\ index \in 0..Len(queue) /\ from \in 1..Len(queue)
      /\ to \in 1..Len(queue) /\ from # to /\ Len(queue) \in Nat
      /\ UNCHANGED <<radio, cue, queueNet>>
  BY DEF QueueInv, QueueTypeOK, Queue!moveQueue
<1> DEFINE q == Queue!RemoveAt(queue, from)
           t == Queue!InsertAt(q, to, queue[from])
<1>2. /\ q \in Seq(QueueSongs) /\ Len(q) = Len(queue) - 1 /\ queue[from] \in QueueSongs
      /\ \A j \in 1..(Len(queue) - 1) : q[j] = IF j < from THEN queue[j] ELSE queue[j + 1]
  BY <1>1, QueueRemoves
<1>3. queue' = t
  BY DEF Queue!moveQueue
<1> HIDE DEF q
<1>4. /\ t \in Seq(QueueSongs) /\ Len(t) = Len(queue)
      /\ \A j \in 1..Len(queue) :
           t[j] = IF j < to THEN q[j] ELSE IF j = to THEN queue[from] ELSE q[j - 1]
  <2>1. t = InsertAt(q, to, queue[from])
    BY DEF Queue!InsertAt, InsertAt
  <2>2. to \in 1..(Len(q) + 1) /\ Len(q) + 1 = Len(queue)
    BY <1>1, <1>2
  <2> HIDE DEF t
  <2> QED
    BY <1>2, <2>1, <2>2, Inserted
<1> HIDE DEF t
<1>5. index' = IF index = from THEN to
               ELSE IF from < index /\ to >= index THEN index - 1
               ELSE IF from > index /\ to <= index THEN index + 1 ELSE index
  BY DEF Queue!moveQueue
<1>6. index = 0 \/ index \in 1..Len(queue)
  BY <1>1
<1>7. CASE index = 0
  BY <1>1, <1>3, <1>4, <1>5, <1>7, QueueEdited
<1>8. CASE index \in 1..Len(queue)
  <2>1. index' \in 1..Len(queue)
    BY <1>1, <1>5, <1>8
  <2>2. index' # 0 /\ index # 0 /\ index' \in 0..Len(queue)
    BY <1>1, <1>8, <2>1
  <2>3. t[index'] = queue[index]
    <3>1. CASE index = from
      BY <1>1, <1>4, <1>5, <3>1
    <3>2. CASE index # from /\ from < index /\ to >= index
      BY <1>1, <1>2, <1>4, <1>5, <1>8, <3>2
    <3>3. CASE index # from /\ ~(from < index /\ to >= index) /\ from > index /\ to <= index
      BY <1>1, <1>2, <1>4, <1>5, <1>8, <3>3
    <3>4. CASE /\ index # from /\ ~(from < index /\ to >= index)
               /\ ~(from > index /\ to <= index)
      <4>1. index' = index /\ index # to /\ (index < to => index < from) /\ (index > to => index > from)
        BY <1>1, <1>5, <1>8, <3>4
      <4>2. CASE index < to
        <5>1. t[index] = q[index] /\ index \in 1..(Len(queue) - 1) /\ index < from
          BY <1>1, <1>4, <1>8, <4>1, <4>2
        <5> QED
          BY <1>2, <4>1, <5>1
      <4>3. CASE index > to
        <5>1. t[index] = q[index - 1] /\ index - 1 \in 1..(Len(queue) - 1) /\ ~(index - 1 < from)
          BY <1>1, <1>4, <1>8, <4>1, <4>3
        <5>2. q[index - 1] = queue[(index - 1) + 1] /\ (index - 1) + 1 = index
          BY <1>1, <1>2, <5>1
        <5> QED
          BY <4>1, <5>1, <5>2
      <4> QED
        BY <1>1, <1>8, <4>1, <4>2, <4>3
    <3> QED
      BY <3>1, <3>2, <3>3, <3>4
  <2> QED
    BY <1>1, <1>3, <1>4, <2>2, <2>3, QueueEdited
<1> QED
  BY <1>6, <1>7, <1>8

LEMMA RadioKeeps ==
  ASSUME QueueInv, Queue!startRadio \/ Queue!stopRadio \/ Queue!setAccount
  PROVE  QueueInv'
<1>1. /\ radio \in RadioState /\ radio.generation \in Nat /\ queueNet \subseteq QueueCalls
      /\ radio.on => index # 0
  BY DEF QueueInv, QueueTypeOK, RadioState
<1>2. PICK c : c = Queue!Cancelled(radio)
  OBVIOUS
<1>3. PICK d : d = [c EXCEPT !.on = FALSE]
  OBVIOUS
<1>4. /\ c \in RadioState /\ d \in RadioState /\ c.on = radio.on /\ d.on = FALSE
      /\ c.generation = radio.generation + 1 /\ d.generation = radio.generation + 1
  BY <1>1, <1>2, <1>3, Cancels
<1>5. \A m \in queueNet : m.kind \in {"start", "more"} => RadioCall(m, c) /\ RadioCall(m, d)
  BY <1>1, <1>4, OutdatedCalls
<1>6. CASE Queue!startRadio
  <2>1. PICK r, calls : /\ r = Queue!FetchRadio(radio, TRUE, FALSE).r
                        /\ calls = Queue!FetchRadio(radio, TRUE, FALSE).n
    OBVIOUS
  <2>2. /\ radio' = r /\ queueNet' = queueNet \cup calls /\ UNCHANGED <<queue, index, cue>>
        /\ ~radio.on
    BY <1>1, <1>6, <2>1 DEF Queue!startRadio
  <2>3. /\ r \in RadioState /\ r.on = radio.on
        /\ calls \subseteq QueueCalls /\ \A m \in calls : m.kind \in {"start", "more"}
        /\ \A m \in queueNet \cup calls : m.kind \in {"start", "more"} => RadioCall(m, r)
    BY <2>1, <2>2, RadioFetches
  <2> QED
    BY <1>1, <2>2, <2>3, RadioMoves
<1>7. CASE Queue!stopRadio
  <2>1. radio' = d /\ UNCHANGED <<queue, index, cue, queueNet>>
    BY <1>2, <1>3, <1>7 DEF Queue!stopRadio
  <2> QED
    BY <1>1, <1>4, <1>5, <2>1, RadioMoves
<1>8. CASE Queue!setAccount
  <2>1. CASE radio.on
    <3>1. Queue!clearQueue(c)
      BY <1>2, <1>8, <2>1 DEF Queue!setAccount
    <3>2. c.generation >= radio.generation
      BY <1>1, <1>4
    <3> QED
      BY <1>4, <3>1, <3>2, QueueCleared
  <2>2. CASE ~radio.on
    <3>1. radio' = c /\ UNCHANGED <<queue, index, cue, queueNet>>
      BY <1>2, <1>8, <2>2 DEF Queue!setAccount
    <3> QED
      BY <1>1, <1>4, <1>5, <3>1, RadioMoves
  <2> QED
    BY <2>1, <2>2
<1> QED
  BY <1>6, <1>7, <1>8

LEMMA RadioNextKeeps ==
  ASSUME QueueInv, Queue!radioNext
  PROVE  QueueInv'
<1>1. /\ queue \in Seq(QueueSongs) /\ index \in 0..Len(queue) /\ radio \in RadioState
      /\ queueNet \subseteq QueueCalls /\ radio.on /\ Len(queue) \in Nat
  BY DEF QueueInv, QueueTypeOK, Queue!radioNext
<1>2. PICK r, calls : /\ r = Queue!FetchRadio(radio, FALSE, FALSE).r
                      /\ calls = Queue!FetchRadio(radio, FALSE, FALSE).n
  OBVIOUS
<1>3. PICK s, others : /\ s = Queue!FetchRadio(radio, FALSE, TRUE).r
                       /\ others = Queue!FetchRadio(radio, FALSE, TRUE).n
  OBVIOUS
<1>4. /\ r \in RadioState /\ r.on = radio.on
      /\ calls \subseteq QueueCalls /\ \A m \in calls : m.kind \in {"start", "more"}
      /\ \A m \in queueNet \cup calls : m.kind \in {"start", "more"} => RadioCall(m, r)
  BY <1>1, <1>2, RadioFetches
<1>5. /\ s \in RadioState /\ s.on = radio.on
      /\ others \subseteq QueueCalls /\ \A m \in others : m.kind \in {"start", "more"}
      /\ \A m \in queueNet \cup others : m.kind \in {"start", "more"} => RadioCall(m, s)
  BY <1>1, <1>3, RadioFetches
<1>6. CASE index < Len(queue)
  <2>1. PICK x, n : /\ queue' = queue /\ index' = index + 1 /\ radio' = x
                    /\ Queue!Resolve(queue, index + 1, queueNet \cup n)
                    /\ \/ x = r /\ n = calls
                       \/ x = radio /\ n = {}
    BY <1>2, <1>6 DEF Queue!radioNext
  <2>2. /\ x \in RadioState /\ queueNet \cup n \subseteq QueueCalls
        /\ \A m \in queueNet \cup n : m.kind \in {"start", "more"} => RadioCall(m, x)
        /\ \A m \in queueNet \cup n : m.kind \in {"search", "lyric"} => m \in queueNet
    BY <1>1, <1>4, <2>1 DEF QueueInv, CallOK
  <2>3. index + 1 \in 1..Len(queue)
    BY <1>1, <1>6
  <2> QED
    BY <1>1, <2>1, <2>2, <2>3, SongResolves
<1>7. CASE ~(index < Len(queue))
  <2>1. radio' = s /\ queueNet' = queueNet \cup others /\ UNCHANGED <<queue, index, cue>>
    BY <1>3, <1>7 DEF Queue!radioNext
  <2> QED
    BY <1>1, <1>5, <2>1, RadioMoves
<1> QED
  BY <1>6, <1>7

LEMMA LyricKeeps ==
  ASSUME QueueInv, NEW m \in queueNet, Queue!Lyric(m)
  PROVE  QueueInv'
<1>1. /\ m \in QueueCalls /\ m.kind \in {"search", "lyric"} /\ CallOK(m) /\ cue \in CueState
      /\ UNCHANGED <<queue, index, radio>>
  BY DEF QueueInv, QueueTypeOK, Queue!Lyric
<1>2. CASE queueNet' = queueNet \ {m} /\ UNCHANGED cue
  BY <1>1, <1>2 DEF QueueInv, QueueTypeOK, CallOK, Queue!MarkIsWhatPlays
<1>3. CASE /\ m.kind = "search" /\ UNCHANGED cue
           /\ queueNet' = (queueNet \ {m}) \cup {[m EXCEPT !.kind = "lyric"]}
  <2>1. PICK n : n = [m EXCEPT !.kind = "lyric"]
    OBVIOUS
  <2>2. n \in QueueCalls /\ n.kind = "lyric" /\ n.generation = m.generation /\ n.song = m.song
    BY <1>1, <2>1 DEF QueueCalls
  <2>3. queueNet' = (queueNet \ {m}) \cup {n}
    BY <1>3, <2>1
  <2>4. CallOK(n)'
    BY <1>1, <1>3, <2>2 DEF CallOK
  <2> QED
    BY <1>1, <1>3, <2>2, <2>3, <2>4 DEF QueueInv, QueueTypeOK, CallOK, Queue!MarkIsWhatPlays
<1>4. CASE /\ Queue!OwnLyric(m) /\ m.kind = "lyric" /\ cue' = [cue EXCEPT !.cues = m.song]
           /\ queueNet' = queueNet \ {m}
  <2>1. m.song = cue.resolved
    BY <1>1, <1>4 DEF Queue!OwnLyric, CallOK
  <2>2. /\ cue' \in CueState /\ cue'.generation = cue.generation /\ cue'.resolved = cue.resolved
        /\ cue'.cues = cue.resolved
    BY <1>1, <1>4, <2>1 DEF CueState
  <2> QED
    BY <1>1, <1>4, <2>2 DEF QueueInv, QueueTypeOK, CallOK, Queue!MarkIsWhatPlays
<1> QED
  BY <1>2, <1>3, <1>4 DEF Queue!Lyric

LEMMA QueueMax ==
  ASSUME NEW S \in SUBSET Nat, S # {}, NEW bound \in Nat, \A n \in S : n <= bound
  PROVE  Queue!Max(S) \in S /\ \A m \in S : m <= Queue!Max(S)
<1>1. \E n \in S : \A m \in S : m <= n
  BY GreatestMember
<1> QED
  BY <1>1 DEF Queue!Max

(* What the answer of the radio adds are songs, as the fold over it keeps them. *)
LEMMA FreshSongs ==
  ASSUME NEW q, NEW songs \in Seq(QueueSongs)
  PROVE  Queue!Fresh(q, songs) \in Seq(QueueSongs)
<1> DEFINE D == 1..Len(songs)
           V == Seq(QueueSongs)
           Keep(kept, s) == IF s \in Queue!ToSet(q) \cup Queue!ToSet(kept) THEN kept ELSE Append(kept, s)
           P(it) == it = [s \in SUBSET D |-> IF s = {} THEN <<>>
                            ELSE Keep(it[s \ {Queue!Max(s)}], songs[Queue!Max(s)])]
           choice == [s \in SUBSET D |-> Queue!Max(s)]
           g == [p \in D \X V |-> Keep(p[2], songs[p[1]])]
<1>1. Queue!Fresh(q, songs) = (CHOOSE it : P(it))[D]
  <2>1. D = DOMAIN songs
    OBVIOUS
  <2> HIDE DEF D
  <2>2. Queue!Fresh(q, songs) = (CHOOSE it : P(it))[DOMAIN songs]
    BY <2>1, Zenon DEF Queue!Fresh, Queue!FoldLeft, Queue!MapThenFoldSet
  <2> QED
    BY <2>1, <2>2
<1>2. IsFiniteSet(D) /\ <<>> \in V /\ Len(songs) \in Nat
  BY FS_Interval
<1>3. \A s \in SUBSET D : s # {} => choice[s] \in s /\ choice[s] = Queue!Max(s)
  <2> SUFFICES ASSUME NEW s \in SUBSET D, s # {} PROVE Queue!Max(s) \in s
    OBVIOUS
  <2>1. s \in SUBSET Nat /\ \A n \in s : n <= Len(songs)
    BY <1>2
  <2> QED
    BY <1>2, <2>1, QueueMax
<1>4. \A x \in D, v \in V : g[<<x, v>>] = Keep(v, songs[x]) /\ g[<<x, v>>] \in V
  OBVIOUS
<1> HIDE DEF choice, g, V, D, Keep
<1>5. PICK it : it \in [SUBSET D -> V] /\ FoldOf(it, D, <<>>, choice, g)
  BY <1>2, <1>3, <1>4, FoldExists
<1>6. P(it)
  <2>1. ASSUME NEW s \in SUBSET D
        PROVE  it[s] = IF s = {} THEN <<>> ELSE Keep(it[s \ {Queue!Max(s)}], songs[Queue!Max(s)])
    <3>1. CASE s = {}
      BY <1>5, <3>1 DEF FoldOf
    <3>2. CASE s # {}
      <4>1. it[s] = g[<<choice[s], it[s \ {choice[s]}]>>]
        BY <1>5, <3>2 DEF FoldOf
      <4>2. choice[s] \in D /\ it[s \ {choice[s]}] \in V
        BY <1>3, <1>5, <3>2
      <4> QED
        BY <1>3, <1>4, <3>2, <4>1, <4>2
    <3> QED
      BY <3>1, <3>2
  <2> QED
    BY <1>5, <2>1
<1>7. P(CHOOSE jt : P(jt))
  <2> HIDE DEF P
  <2> QED
    BY <1>6
<1>8. PICK jt : P(jt) /\ Queue!Fresh(q, songs) = jt[D]
  <2> HIDE DEF P
  <2> QED
    BY <1>1, <1>7
<1> DEFINE R == {s \in SUBSET D : jt[s] \in V}
<1>9. ASSUME NEW s \in SUBSET D, \A x \in s : s \ {x} \in R
      PROVE  jt[s] \in V
  <2>1. jt[s] = IF s = {} THEN <<>> ELSE Keep(jt[s \ {Queue!Max(s)}], songs[Queue!Max(s)])
    BY <1>8
  <2>2. CASE s # {}
    <3>1. Queue!Max(s) \in s
      BY <1>3, <2>2
    <3>2. jt[s \ {Queue!Max(s)}] \in V /\ Queue!Max(s) \in D
      BY <1>9, <3>1
    <3> QED
      BY <1>4, <2>1, <2>2, <3>2
  <2> QED
    BY <1>2, <2>1, <2>2
<1>10. \A s \in SUBSET D : (\A x \in s : s \ {x} \in R) => s \in R
  BY <1>9
<1> HIDE DEF R, P
<1>11. SUBSET D \subseteq R
  BY <1>2, <1>10, SubsetInduction
<1>12. jt[D] \in V
  BY <1>11 DEF R
<1> QED
  BY <1>8, <1>12 DEF V

(* The answer that is wanted is the only one: what else is under way is outdated. *)
LEMMA OnlyAnswer ==
  ASSUME QueueInv, NEW m \in queueNet, m.kind \in {"start", "more"}, Queue!OwnFetch(m)
  PROVE  /\ radio.pending /\ (m.kind = "start" <=> ~radio.on) /\ (m.kind = "more" => index # 0)
         /\ \A n \in queueNet \ {m}, r \in RadioState :
              n.kind \in {"start", "more"} /\ r.generation = radio.generation => RadioCall(n, r)
<1>1. /\ m.generation = radio.generation /\ m \in QueueCalls /\ RadioCall(m, radio)
      /\ radio.generation \in Nat
  BY DEF QueueInv, QueueTypeOK, RadioState, CallOK, Queue!OwnFetch
<1>2. ASSUME NEW n \in queueNet, n # m, n.kind \in {"start", "more"}
      PROVE  n.generation < radio.generation /\ RadioCall(n, radio)
  <2>1. n \in QueueCalls /\ RadioCall(n, radio)
    BY <1>2 DEF QueueInv, QueueTypeOK, CallOK
  <2>2. CASE n.generation = radio.generation
    <3>1. n.kind = m.kind /\ n.generation = m.generation /\ n.song = m.song
      BY <1>1, <1>2, <2>1, <2>2 DEF RadioCall
    <3>2. n = m
      BY <1>1, <2>1, <3>1 DEF QueueCalls
    <3> QED
      BY <1>2, <3>2
  <2>3. n.generation \in Nat
    BY <2>1 DEF QueueCalls
  <2> QED
    BY <1>1, <2>1, <2>2, <2>3 DEF RadioCall
<1>3. \A n \in queueNet \ {m}, r \in RadioState :
        n.kind \in {"start", "more"} /\ r.generation = radio.generation => RadioCall(n, r)
  BY <1>1, <1>2 DEF RadioCall
<1>4. radio.pending /\ (m.kind = "start" <=> ~radio.on) /\ (m.kind = "more" => index # 0)
  BY <1>1 DEF RadioCall, QueueInv
<1> QED
  BY <1>3, <1>4

(* The queue with what the radio adds, cut before the current song: what it is, and
   what of the queue it keeps. *)
Cut(fresh, long, trim, q) ==
  /\ fresh \in Seq(QueueSongs) /\ long = queue \o fresh /\ index # 0
  /\ trim = Queue!Trim(long, index) /\ q = SubSeq(long, trim + 1, Len(long))

CutKeeps(fresh, long, trim, q) ==
  /\ trim \in Nat /\ trim < index /\ Len(fresh) \in Nat
  /\ long \in Seq(QueueSongs) /\ Len(long) = Len(queue) + Len(fresh)
  /\ \A i \in 1..Len(queue) : long[i] = queue[i]
  /\ q \in Seq(QueueSongs) /\ Len(q) = Len(long) - trim
  /\ \A i \in 1..(Len(long) - trim) : q[i] = long[i + trim]
  /\ index - trim \in 1..Len(q) /\ q[index - trim] = queue[index]

LEMMA QueueGrows ==
  ASSUME QueueInv, NEW fresh, NEW long, NEW trim, NEW q, Cut(fresh, long, trim, q)
  PROVE  CutKeeps(fresh, long, trim, q)
<1> USE DEF Cut
<1>1. queue \in Seq(QueueSongs) /\ index \in 1..Len(queue) /\ Len(queue) \in Nat /\ Len(fresh) \in Nat
  BY DEF QueueInv, QueueTypeOK
<1>2. trim \in Nat /\ trim < index
  <2> DEFINE n == index - History - 1
  <2>1. n \in Int /\ n < index /\ index \in Nat /\ index > 0
    BY <1>1, QueueAssumption
  <2>2. \E x \in {n, 0} : \A y \in {n, 0} : x >= y
    BY <2>1
  <2>3. Queue!Max({n, 0}) \in {n, 0} /\ \A y \in {n, 0} : Queue!Max({n, 0}) >= y
    BY <2>2 DEF Queue!Max
  <2>4. trim = Queue!Max({n, 0})
    BY DEF Queue!Trim
  <2> HIDE DEF n
  <2> QED
    BY <2>1, <2>3, <2>4
<1>3. /\ long \in Seq(QueueSongs) /\ Len(long) = Len(queue) + Len(fresh)
      /\ \A i \in 1..Len(queue) : long[i] = queue[i]
  <2>1. /\ long \in Seq(QueueSongs) /\ Len(long) = Len(queue) + Len(fresh)
        /\ \A i \in 1..Len(long) : long[i] = IF i <= Len(queue) THEN queue[i] ELSE fresh[i - Len(queue)]
    BY <1>1, Concatenation
  <2> QED
    BY <1>1, <2>1
<1>4. /\ q \in Seq(QueueSongs) /\ Len(q) = Len(long) - trim
      /\ \A i \in 1..(Len(long) - trim) : q[i] = long[i + trim]
  <2>1. /\ trim < Len(long) /\ Len(long) \in Nat /\ trim \in Nat /\ long \in Seq(QueueSongs)
        /\ q = SubSeq(long, trim + 1, Len(long))
    BY <1>1, <1>2, <1>3
  <2> QED
    BY ONLY <2>1
<1>5. index - trim \in 1..Len(q) /\ index - trim \in 1..(Len(long) - trim) /\ (index - trim) + trim = index
  BY <1>1, <1>2, <1>3, <1>4
<1>6. q[index - trim] = long[index]
  <2>1. PICK k \in 1..(Len(long) - trim) : k = index - trim
    BY <1>5
  <2>2. q[k] = long[k + trim] /\ k + trim = index
    BY <1>4, <1>5, <2>1
  <2> QED
    BY <2>1, <2>2
<1> QED
  BY <1>1, <1>2, <1>3, <1>4, <1>5, <1>6 DEF CutKeeps

LEMMA RadioAnsweredCases ==
  ASSUME QueueInv, NEW m \in queueNet, Queue!RadioAnswered(m), Queue!OwnFetch(m)
  PROVE  \/ /\ radio' = [radio EXCEPT !.pending = FALSE, !.advance = FALSE]
            /\ queueNet' = queueNet \ {m} /\ UNCHANGED <<queue, index, cue>>
         \/ \E q \in Seq(QueueSongs) :
              /\ m.kind = "start" /\ q # <<>>
              /\ queue' = q /\ index' = 1
              /\ radio' = [radio EXCEPT !.pending = FALSE, !.advance = FALSE, !.on = TRUE]
              /\ Queue!Resolve(q, 1, queueNet \ {m})
         \/ \E fresh, long, trim, q :
              /\ m.kind = "more" /\ Cut(fresh, long, trim, q)
              /\ queue' = q /\ radio' = [radio EXCEPT !.pending = FALSE, !.advance = FALSE]
              /\ \/ /\ index' = index - trim + 1 /\ index - trim < Len(q)
                    /\ Queue!Resolve(q, index - trim + 1, queueNet \ {m})
                 \/ index' = index - trim /\ queueNet' = queueNet \ {m} /\ UNCHANGED cue
<1>1. PICK songs \in RadioAnswers :
        LET starting == m.kind = "start"
            fresh == Queue!Fresh(IF starting THEN <<>> ELSE queue, songs)
            r     == [radio EXCEPT !.pending = FALSE, !.advance = FALSE]
        IN IF fresh = <<>> THEN radio' = r /\ queueNet' = queueNet \ {m} /\ UNCHANGED <<queue, index, cue>>
           ELSE IF starting
           THEN /\ queue' = fresh /\ index' = 1 /\ radio' = [r EXCEPT !.on = TRUE]
                /\ Queue!Resolve(fresh, 1, queueNet \ {m})
           ELSE LET long == queue \o fresh
                    trim == Queue!Trim(long, index)
                    q    == SubSeq(long, trim + 1, Len(long))
                    i    == index - trim
                    on   == radio.advance /\ i < Len(q)
                IN /\ queue' = q /\ radio' = r
                   /\ IF on THEN index' = i + 1 /\ Queue!Resolve(q, i + 1, queueNet \ {m})
                      ELSE index' = i /\ queueNet' = queueNet \ {m} /\ UNCHANGED cue
  BY DEF Queue!RadioAnswered
<1>2. PICK fresh \in Seq(QueueSongs) :
        fresh = Queue!Fresh(IF m.kind = "start" THEN <<>> ELSE queue, songs)
  BY QueueAssumption, FreshSongs
<1>3. m.kind \in {"start", "more"}
  BY DEF Queue!RadioAnswered
<1>4. CASE fresh = <<>>
  BY <1>1, <1>2, <1>4
<1>5. CASE fresh # <<>> /\ m.kind = "start"
  BY <1>1, <1>2, <1>5
<1>6. CASE fresh # <<>> /\ m.kind = "more"
  <2>1. PICK long, trim : long = queue \o fresh /\ trim = Queue!Trim(long, index)
    OBVIOUS
  <2>2. PICK q : q = SubSeq(long, trim + 1, Len(long))
    OBVIOUS
  <2>3. /\ queue' = q /\ radio' = [radio EXCEPT !.pending = FALSE, !.advance = FALSE]
        /\ \/ /\ index' = index - trim + 1 /\ index - trim < Len(q)
              /\ Queue!Resolve(q, index - trim + 1, queueNet \ {m})
           \/ index' = index - trim /\ queueNet' = queueNet \ {m} /\ UNCHANGED cue
    BY <1>1, <1>2, <1>6, <2>1, <2>2
  <2>4. Cut(fresh, long, trim, q)
    BY <1>2, <1>3, <1>6, <2>1, <2>2, OnlyAnswer DEF Cut
  <2> QED
    BY <1>6, <2>3, <2>4
<1> QED
  BY <1>3, <1>4, <1>5, <1>6

LEMMA AnswerKeeps ==
  ASSUME QueueInv, NEW m \in queueNet, Queue!RadioAnswered(m)
  PROVE  QueueInv'
<1>1. /\ m.kind \in {"start", "more"} /\ radio \in RadioState /\ queueNet \subseteq QueueCalls
      /\ queue \in Seq(QueueSongs) /\ radio.generation \in Nat
  BY DEF Queue!RadioAnswered, QueueInv, QueueTypeOK, RadioState
<1>2. CASE ~Queue!OwnFetch(m)
  <2>1. queueNet' = queueNet \ {m} /\ UNCHANGED <<queue, index, radio, cue>>
    BY <1>2 DEF Queue!RadioAnswered
  <2> QED
    BY <2>1 DEF QueueInv, QueueTypeOK, CallOK, RadioCall, Queue!MarkIsWhatPlays
<1>3. CASE Queue!OwnFetch(m)
  <2>1. /\ m.kind = "more" => index # 0
        /\ \A n \in queueNet \ {m}, r \in RadioState :
             n.kind \in {"start", "more"} /\ r.generation = radio.generation => RadioCall(n, r)
    BY <1>1, <1>3, OnlyAnswer
  <2>2. PICK r : r = [radio EXCEPT !.pending = FALSE, !.advance = FALSE]
    OBVIOUS
  <2>3. PICK s : s = [radio EXCEPT !.pending = FALSE, !.advance = FALSE, !.on = TRUE]
    OBVIOUS
  <2>4. /\ r \in RadioState /\ r.on = radio.on /\ r.generation = radio.generation
        /\ s \in RadioState /\ s.generation = radio.generation
    BY <1>1, <2>2, <2>3 DEF RadioState
  <2>5. PICK calls : calls = queueNet \ {m}
    OBVIOUS
  <2>6. /\ calls \subseteq QueueCalls
        /\ \A n \in calls : n.kind \in {"start", "more"} => RadioCall(n, r) /\ RadioCall(n, s)
        /\ \A n \in calls : n.kind \in {"search", "lyric"} => n \in queueNet
    BY <1>1, <2>1, <2>4, <2>5
  <2>7. CASE radio' = r /\ queueNet' = calls /\ UNCHANGED <<queue, index, cue>>
    BY <2>4, <2>6, <2>7, RadioMoves
  <2>8. ASSUME NEW q \in Seq(QueueSongs), q # <<>>, queue' = q, index' = 1, radio' = s,
               Queue!Resolve(q, 1, calls)
        PROVE  QueueInv'
    <3>1. 1 \in 1..Len(q)
      BY <2>8
    <3> QED
      BY <2>4, <2>6, <2>8, <3>1, SongResolves
  <2>9. ASSUME NEW fresh, NEW long, NEW trim, NEW q, m.kind = "more",
               Cut(fresh, long, trim, q), queue' = q, radio' = r,
               \/ /\ index' = index - trim + 1 /\ index - trim < Len(q)
                  /\ Queue!Resolve(q, index - trim + 1, calls)
               \/ index' = index - trim /\ queueNet' = calls /\ UNCHANGED cue
        PROVE  QueueInv'
    <3>1. CutKeeps(fresh, long, trim, q) /\ index # 0
      BY <2>1, <2>9, QueueGrows
    <3>2. /\ q \in Seq(QueueSongs) /\ index - trim \in 1..Len(q) /\ q[index - trim] = queue[index]
      BY <3>1 DEF CutKeeps
    <3>3. CASE /\ index' = index - trim + 1 /\ index - trim < Len(q)
               /\ Queue!Resolve(q, index - trim + 1, calls)
      <4>1. PICK i : i = index - trim + 1
        OBVIOUS
      <4>2. i \in 1..Len(q)
        BY <3>2, <3>3, <4>1
      <4> QED
        BY <2>4, <2>6, <2>9, <3>2, <3>3, <4>1, <4>2, SongResolves
    <3>4. CASE index' = index - trim /\ queueNet' = calls /\ UNCHANGED cue
      <4>1. index' \in 1..Len(queue') /\ index' # 0 /\ queue'[index'] = queue[index]
        <5>1. queue' = q /\ index' = index - trim
          BY <2>9, <3>4
        <5> QED
          BY <3>2, <5>1
      <4>2. QueueTypeOK'
        <5>1. queue' \in Seq(QueueSongs) /\ radio' \in RadioState /\ cue' \in CueState /\ queueNet' \subseteq QueueCalls
          BY <2>4, <2>6, <2>9, <3>2, <3>4 DEF QueueInv, QueueTypeOK
        <5> QED
          BY <4>1, <5>1 DEF QueueTypeOK
      <4>3. \A n \in calls : CallOK(n)'
        BY <2>6, <2>9, <3>4 DEF QueueInv, CallOK
      <4>4. Queue!MarkIsWhatPlays'
        <5>1. DOMAIN queue' = 1..Len(queue')
          BY <2>9, <3>2
        <5> QED
          BY <3>1, <3>4, <4>1, <5>1 DEF QueueInv, Queue!MarkIsWhatPlays
      <4> QED
        BY <3>4, <4>1, <4>2, <4>3, <4>4 DEF QueueInv
    <3> QED
      BY <2>9, <3>3, <3>4
  <2> QED
    BY <1>3, <2>2, <2>3, <2>5, <2>7, <2>8, <2>9, RadioAnsweredCases
<1> QED
  BY <1>2, <1>3

LEMMA QueueStep == QueueInv /\ [Queue!PlayQueueNext]_queueVars => QueueInv'
<1> SUFFICES ASSUME QueueInv, [Queue!PlayQueueNext]_queueVars PROVE QueueInv'
  OBVIOUS
<1>1. CASE \E s, t \in QueueSongs : \/ Queue!playTracks(<<s, t>>, 1) \/ Queue!playTracks(<<s, t>>, 2)
                                    \/ Queue!enqueueTrack(s)
  BY <1>1, PlayTracksKeeps, EnqueueKeeps
<1>2. CASE \E i \in 1..MaxQueue : \/ Queue!playQueue(i) \/ Queue!removeQueue(i)
                                  \/ \E j \in 1..MaxQueue : Queue!moveQueue(i, j)
  BY <1>2, PlayQueueKeeps, RemoveKeeps, MoveKeeps
<1>3. CASE Queue!step(1) \/ Queue!step(-1) \/ Queue!EndOfMedia
  BY <1>3, StepKeeps DEF Queue!EndOfMedia
<1>4. CASE Queue!cycleLoopMode \/ UNCHANGED queueVars
  <2>1. UNCHANGED <<queue, index, radio, cue, queueNet>>
    BY <1>4 DEF Queue!cycleLoopMode, queueVars
  <2> QED
    BY <2>1 DEF QueueInv, QueueTypeOK, CallOK, RadioCall, Queue!MarkIsWhatPlays
<1>5. CASE Queue!Clear
  <2>1. radio \in RadioState /\ radio.generation >= radio.generation
    BY DEF QueueInv, QueueTypeOK, RadioState
  <2> QED
    BY <1>5, <2>1, QueueCleared DEF Queue!Clear
<1>6. CASE Queue!startRadio \/ Queue!stopRadio \/ Queue!setAccount \/ Queue!radioNext
  BY <1>6, RadioKeeps, RadioNextKeeps
<1>7. CASE \E m \in queueNet : Queue!RadioAnswered(m) \/ Queue!Lyric(m)
  BY <1>7, AnswerKeeps, LyricKeeps
<1> QED
  BY <1>1, <1>2, <1>3, <1>4, <1>5, <1>6, <1>7 DEF Queue!PlayQueueNext

LEMMA QueueBegins == Queue!PlayQueueInit => QueueInv
<1> SUFFICES ASSUME Queue!PlayQueueInit PROVE QueueInv
  OBVIOUS
<1>1. PICK on \in {FALSE, index # 0} : radio = [Queue!NoRadio EXCEPT !.on = on]
  BY DEF Queue!PlayQueueInit
<1>2. /\ queue = <<>> \/ \E s \in QueueSongs : queue = <<s>>
      /\ index \in {0, Len(queue)} /\ queueNet = {}
      /\ cue = [generation |-> 0, resolved |-> IF index = 0 THEN NoSong ELSE queue[1],
                cues |-> NoSong]
  BY DEF Queue!PlayQueueInit
<1>3. radio \in RadioState /\ (radio.on => index # 0)
  BY <1>1 DEF RadioState, Queue!NoRadio
<1>4. CASE queue = <<>>
  BY <1>2, <1>3, <1>4 DEF QueueInv, QueueTypeOK, CueState, QueueCalls, Queue!MarkIsWhatPlays
<1>5. ASSUME NEW s \in QueueSongs, queue = <<s>> PROVE QueueInv
  <2>1. queue \in Seq(QueueSongs) /\ Len(queue) = 1 /\ queue[1] = s /\ DOMAIN queue = 1..1
    BY <1>5
  <2> QED
    BY <1>2, <1>3, <2>1 DEF QueueInv, QueueTypeOK, CueState, QueueCalls, Queue!MarkIsWhatPlays
<1> QED
  BY <1>2, <1>4, <1>5

(* However the queue is edited, replaced or cut, the row it marks is the song that
   was resolved, and the lyrics shown are of that song (MusicController). *)
THEOREM MarkIsWhatPlaysCorrect == UpstreamSpec => []MarkIsWhatPlays
<1> DEFINE I == suite = "queue" => QueueInv
<1>1. UpstreamInit => I
  BY QueueBegins DEF UpstreamInit
<1>2. I /\ [UNCHANGED suite /\ UpstreamNext]_<<suite, upstreamVars>> => I'
  <2> SUFFICES ASSUME I, [UNCHANGED suite /\ UpstreamNext]_<<suite, upstreamVars>>,
                      suite' = "queue"
               PROVE  QueueInv'
    OBVIOUS
  <2>1. suite = "queue" /\ [Queue!PlayQueueNext]_queueVars
    BY DEF UpstreamNext, upstreamVars, queueVars
  <2> QED
    BY <2>1, QueueStep
<1>3. I => MarkIsWhatPlays
  BY DEF MarkIsWhatPlays, QueueInv
<1> QED
  BY <1>1, <1>2, <1>3, PTL DEF UpstreamSpec

(* What is still to come when the radio goes on is still to come after it. *)
LEMMA UnplayedKept ==
  ASSUME QueueInv, [Queue!PlayQueueNext]_queueVars
  PROVE  Queue!KeepsUnplayed
<1> SUFFICES ASSUME radio.on, radio'.on, queue' # queue
             PROVE  Queue!IsPrefix(Queue!After(queue, index + 1),
                      Queue!After(queue', IF cue'.generation = cue.generation
                                          THEN index' + 1 ELSE index'))
  BY DEF Queue!KeepsUnplayed
<1>1. radio \in RadioState
  BY DEF QueueInv, QueueTypeOK
<1>2. ~Queue!clearQueue(radio) /\ ~Queue!clearQueue(Queue!Cancelled(radio))
  <2>1. ASSUME NEW r \in RadioState PROVE ~Queue!clearQueue(r)
    BY <2>1, Cancels DEF Queue!clearQueue
  <2> QED
    BY <1>1, <2>1, Cancels
<1>3. PICK m \in queueNet : Queue!RadioAnswered(m)
  <2>1. ~\E s, t \in QueueSongs : \/ Queue!playTracks(<<s, t>>, 1) \/ Queue!playTracks(<<s, t>>, 2)
                                  \/ Queue!enqueueTrack(s)
    <3>1. radio' # [Queue!Cancelled(radio) EXCEPT !.on = FALSE]
      BY <1>1, Cancels
    <3> QED
      BY <3>1 DEF Queue!playTracks, Queue!Select, Queue!enqueueTrack
  <2>2. ~\E i \in 1..MaxQueue : \/ Queue!playQueue(i) \/ Queue!removeQueue(i)
                                \/ \E j \in 1..MaxQueue : Queue!moveQueue(i, j)
    BY DEF Queue!playQueue, Queue!Select, Queue!removeQueue, Queue!moveQueue
  <2>3. ~(Queue!step(1) \/ Queue!step(-1) \/ Queue!EndOfMedia \/ Queue!cycleLoopMode)
    BY DEF Queue!step, Queue!EndOfMedia, Queue!cycleLoopMode
  <2>4. ~Queue!Clear /\ ~Queue!setAccount
    BY <1>2 DEF Queue!Clear, Queue!setAccount
  <2>5. ~(Queue!startRadio \/ Queue!stopRadio \/ Queue!radioNext)
    BY DEF Queue!startRadio, Queue!stopRadio, Queue!radioNext
  <2>6. \A m \in queueNet : ~Queue!Lyric(m)
    BY DEF Queue!Lyric
  <2>7. Queue!PlayQueueNext
    BY DEF queueVars
  <2> QED
    BY <2>1, <2>2, <2>3, <2>4, <2>5, <2>6, <2>7 DEF Queue!PlayQueueNext
<1>4. Queue!OwnFetch(m) /\ m.kind = "more" /\ index # 0
  <2>1. Queue!OwnFetch(m) /\ m.kind \in {"start", "more"}
    BY <1>3 DEF Queue!RadioAnswered
  <2> QED
    BY <2>1, OnlyAnswer
<1>5. \E fresh, long, trim, q :
         /\ Cut(fresh, long, trim, q) /\ queue' = q
         /\ \/ index' = index - trim + 1 /\ Queue!Resolve(q, index - trim + 1, queueNet \ {m})
            \/ index' = index - trim /\ UNCHANGED cue
  <2>1. ~(UNCHANGED <<queue, index, cue>>) /\ m.kind # "start"
    BY <1>4
  <2> QED
    BY <1>3, <1>4, <2>1, RadioAnsweredCases
<1>6. PICK fresh, long, trim, q :
         /\ Cut(fresh, long, trim, q) /\ queue' = q
         /\ \/ index' = index - trim + 1 /\ Queue!Resolve(q, index - trim + 1, queueNet \ {m})
            \/ index' = index - trim /\ UNCHANGED cue
  BY <1>5
<1>7. /\ trim \in Nat /\ trim < index /\ Len(fresh) \in Nat
      /\ long \in Seq(QueueSongs) /\ Len(long) = Len(queue) + Len(fresh)
      /\ \A i \in 1..Len(queue) : long[i] = queue[i]
      /\ q \in Seq(QueueSongs) /\ Len(q) = Len(long) - trim
      /\ \A i \in 1..(Len(long) - trim) : q[i] = long[i + trim]
  <2>1. CutKeeps(fresh, long, trim, q)
    BY <1>6, QueueGrows
  <2> QED
    BY <2>1 DEF CutKeeps
<1>8. (IF cue'.generation = cue.generation THEN index' + 1 ELSE index') = index - trim + 1
  <2>1. cue.generation \in Nat /\ index \in Nat
    BY DEF QueueInv, QueueTypeOK, CueState
  <2>2. Queue!Resolve(q, index - trim + 1, queueNet \ {m}) => cue'.generation = cue.generation + 1
    BY DEF Queue!Resolve
  <2>3. \/ index' = index - trim + 1 /\ cue'.generation = cue.generation + 1
        \/ index' = index - trim /\ cue' = cue
    BY <1>6, <2>2
  <2> QED
    BY <1>7, <2>1, <2>3
<1> DEFINE s == SubSeq(queue, index + 1, Len(queue))
           t == SubSeq(q, index - trim + 1, Len(q))
<1>9. /\ queue \in Seq(QueueSongs) /\ index \in 1..Len(queue) /\ Len(queue) \in Nat /\ Len(fresh) \in Nat
  BY <1>4 DEF QueueInv, QueueTypeOK
<1>10. s \in Seq(QueueSongs) /\ Len(s) = Len(queue) - index /\ \A i \in 1..Len(s) : s[i] = queue[index + i]
  BY <1>9
<1>11. t \in Seq(QueueSongs) /\ Len(t) = Len(long) - index /\ \A i \in 1..Len(t) : t[i] = q[index - trim + i]
  <2>1. PICK k : k = index - trim
    OBVIOUS
  <2>2. /\ k \in Nat /\ Len(q) \in Nat /\ k <= Len(q) /\ Len(q) - k = Len(long) - index
        /\ q \in Seq(QueueSongs) /\ t = SubSeq(q, k + 1, Len(q))
    BY <1>7, <1>9, <2>1
  <2> HIDE DEF s, t
  <2>3. /\ t \in Seq(QueueSongs) /\ Len(t) = Len(q) - k
        /\ \A i \in 1..Len(t) : t[i] = q[k + i]
    BY ONLY <2>2
  <2> QED
    BY <2>1, <2>2, <2>3
<1>12. Len(s) <= Len(t) /\ \A i \in 1..Len(s) : s[i] = t[i]
  <2>1. Len(s) <= Len(t)
    BY <1>7, <1>9, <1>10, <1>11
  <2>2. ASSUME NEW i \in 1..Len(s) PROVE s[i] = t[i]
    <3>1. i \in Nat /\ index + i \in 1..Len(queue) /\ i \in 1..Len(t)
      BY <1>9, <1>10, <1>7, <1>11
    <3>2. PICK k : k = index - trim + i
      OBVIOUS
    <3>3. k \in 1..(Len(long) - trim) /\ k + trim = index + i
      <4>1. /\ Len(long) \in Nat /\ trim \in Nat /\ trim < index /\ index \in Nat /\ i \in Nat /\ i >= 1
            /\ index + i <= Len(long)
        BY <1>7, <1>9, <3>1
      <4> HIDE DEF s, t
      <4> QED
        BY ONLY <3>2, <4>1
    <3>4. q[k] = long[index + i] /\ long[index + i] = queue[index + i]
      BY <1>7, <3>1, <3>3
    <3> QED
      BY <1>10, <1>11, <3>1, <3>2, <3>4
  <2> QED
    BY <2>1, <2>2
<1>13. Queue!IsPrefix(s, t)
  <2> HIDE DEF s, t
  <2>1. SubSeq(s, 1, Len(s)) = SubSeq(t, 1, Len(s))
    <3>1. Len(s) \in Nat /\ Len(t) \in Nat
      BY <1>10, <1>11
    <3> QED
      BY <1>10, <1>11, <1>12, <3>1
  <2> QED
    BY <1>12, <2>1 DEF Queue!IsPrefix
<1> QED
  BY <1>6, <1>8, <1>13 DEF Queue!After

(* The radio adds to its queue and cuts it only before the current song: no song is
   dropped unheard or heard out of order (fetchRadio of MusicController). *)
THEOREM RadioKeepsUnplayedCorrect == UpstreamSpec => RadioKeepsUnplayed
<1> DEFINE I == suite = "queue" => QueueInv
<1>1. UpstreamInit => I
  BY QueueBegins DEF UpstreamInit
<1>2. I /\ [UNCHANGED suite /\ UpstreamNext]_<<suite, upstreamVars>> => I'
  <2> SUFFICES ASSUME I, [UNCHANGED suite /\ UpstreamNext]_<<suite, upstreamVars>>,
                      suite' = "queue"
               PROVE  QueueInv'
    OBVIOUS
  <2>1. suite = "queue" /\ [Queue!PlayQueueNext]_queueVars
    BY DEF UpstreamNext, upstreamVars, queueVars
  <2> QED
    BY <2>1, QueueStep
<1>3. I /\ [UNCHANGED suite /\ UpstreamNext]_<<suite, upstreamVars>> =>
        [suite = "queue" => Queue!KeepsUnplayed]_queueVars
  <2> SUFFICES ASSUME I, [UNCHANGED suite /\ UpstreamNext]_<<suite, upstreamVars>>, suite = "queue"
               PROVE  Queue!KeepsUnplayed
    OBVIOUS
  <2>1. [Queue!PlayQueueNext]_queueVars
    BY DEF UpstreamNext, upstreamVars, queueVars
  <2> QED
    BY <2>1, UnplayedKept
<1> QED
  BY <1>1, <1>2, <1>3, PTL DEF UpstreamSpec, RadioKeepsUnplayed

-----------------------------------------------------------------------------
(* The lyric cache: its entries are in step with the counters, and no entry that is
   older than the refusal of a candidate names it. *)

CacheLists == Lists \cup {Lyric!NoLyrics}
LyricEntries == [list : CacheLists, born : Nat, used : Nat, expires : Int, cost : Nat]
Refusals == [Candidates -> Nat]
Work == [Workers -> Lyric!CacheKeys \cup {Lyric!NoWork}]

Counted(c) ==
  /\ c = [entries |-> c.entries, bytes |-> c.bytes, sequence |-> c.sequence]
  /\ c.sequence \in Nat /\ c.bytes \in Int
  /\ DOMAIN c.entries \subseteq Lyric!CacheKeys /\ IsFiniteSet(DOMAIN c.entries)
  /\ \A key \in DOMAIN c.entries :
       /\ c.entries[key] \in LyricEntries
       /\ key[1] # "S" => c.entries[key].list = Lyric!NoLyrics
  /\ c.bytes = Lyric!TotalCost(c.entries, DOMAIN c.entries)
  /\ c.bytes <= MaxBytes /\ Cardinality(DOMAIN c.entries) <= MaxEntries

Unrefused(c, ref) ==
  /\ \A k \in Candidates : ref[k] <= c.sequence
  /\ \A key \in DOMAIN c.entries :
       \A k \in Candidates : k \in Lyric!Range(c.entries[key].list) => c.entries[key].born > ref[k]

LyricInv ==
  /\ Counted(cache) /\ Unrefused(cache, refused)
  /\ clock \in Nat /\ work \in Work /\ refused \in Refusals

CostOf(entries) == [key \in DOMAIN entries |-> entries[key].cost]

LEMMA TotalIsSum ==
  ASSUME NEW entries, NEW S, IsFiniteSet(S), S \subseteq DOMAIN entries,
         \A key \in DOMAIN entries : entries[key].cost \in Nat
  PROVE  Lyric!TotalCost(entries, S) = Sum(CostOf(entries), S)
<1> DEFINE P(it) == it = [s \in SUBSET S |-> IF s = {} THEN 0
                            ELSE entries[Some(s)].cost + it[s \ {Some(s)}]]
<1>1. Lyric!TotalCost(entries, S) = (CHOOSE it : P(it))[S]
  BY Zenon DEF Lyric!TotalCost, Lyric!MapThenSumSet, Lyric!MapThenFoldSet, Some
<1>2. PICK c : c = CostOf(entries)
  OBVIOUS
<1>3. \A x \in S : c[x] \in Int /\ c[x] = entries[x].cost
  BY <1>2 DEF CostOf
<1>4. \A s \in SUBSET S : s # {} => Some(s) \in s
  BY DEF Some
<1>5. \A it : P(it) <=> SumOf(it, S, c)
  <2>1. \A s \in SUBSET S : s # {} => entries[Some(s)].cost = c[Some(s)]
    BY <1>3, <1>4
  <2> SUFFICES ASSUME NEW it PROVE P(it) <=> SumOf(it, S, c)
    OBVIOUS
  <2>2. \A s \in SUBSET S :
          (IF s = {} THEN 0 ELSE entries[Some(s)].cost + it[s \ {Some(s)}])
          = (IF s = {} THEN 0 ELSE c[Some(s)] + it[s \ {Some(s)}])
    BY <2>1
  <2> QED
    BY <2>2 DEF SumOf
<1> HIDE DEF P
<1>6. PICK it : SumOf(it, S, c) /\ Sum(c, S) = it[S]
  BY <1>3, SumIsSumOf
<1>7. P(CHOOSE jt : P(jt))
  BY <1>5, <1>6
<1>8. PICK jt : P(jt) /\ Lyric!TotalCost(entries, S) = jt[S]
  BY <1>1, <1>7
<1>9. it[S] = jt[S]
  BY <1>3, <1>5, <1>6, <1>8, SumOfUnique
<1> QED
  BY <1>2, <1>6, <1>8, <1>9

(* What is left when keys are erased. *)
Left(c, keys, d) ==
  /\ DOMAIN d.entries = DOMAIN c.entries \ keys
  /\ \A key \in DOMAIN d.entries : d.entries[key] = c.entries[key]
  /\ d.sequence = c.sequence

LEMMA CountedSums ==
  ASSUME NEW c, Counted(c)
  PROVE  /\ \A key \in DOMAIN c.entries : c.entries[key].cost \in Nat /\ CostOf(c.entries)[key] \in Nat
         /\ c.bytes = Sum(CostOf(c.entries), DOMAIN c.entries)
         /\ \A S \in SUBSET DOMAIN c.entries :
              /\ IsFiniteSet(S) /\ Sum(CostOf(c.entries), S) \in Nat
              /\ Lyric!TotalCost(c.entries, S) = Sum(CostOf(c.entries), S)
<1>1. \A key \in DOMAIN c.entries : c.entries[key].cost \in Nat
  BY DEF Counted, LyricEntries
<1>2. \A key \in DOMAIN c.entries : CostOf(c.entries)[key] \in Nat
  BY <1>1 DEF CostOf
<1>3. IsFiniteSet(DOMAIN c.entries) /\ c.bytes = Lyric!TotalCost(c.entries, DOMAIN c.entries)
  BY DEF Counted
<1>4. ASSUME NEW S, S \subseteq DOMAIN c.entries
      PROVE  /\ IsFiniteSet(S) /\ Sum(CostOf(c.entries), S) \in Nat
             /\ Lyric!TotalCost(c.entries, S) = Sum(CostOf(c.entries), S)
  <2>1. IsFiniteSet(S)
    BY <1>3, <1>4, FS_Subset
  <2>2. \A x \in S : CostOf(c.entries)[x] \in Nat
    BY <1>2, <1>4
  <2>3. Sum(CostOf(c.entries), S) \in Nat
    BY <2>1, <2>2, SumNatural
  <2>4. Lyric!TotalCost(c.entries, S) = Sum(CostOf(c.entries), S)
    BY <1>1, <1>4, <2>1, TotalIsSum
  <2> QED
    BY <2>1, <2>3, <2>4
<1> QED
  BY <1>1, <1>2, <1>3, <1>4

LEMMA ErasedIsCounted ==
  ASSUME NEW c, NEW keys, Counted(c), keys \subseteq DOMAIN c.entries,
         NEW d, d = Lyric!Erase(c, keys)
  PROVE  Counted(d) /\ Left(c, keys, d)
<1> DEFINE D == DOMAIN c.entries
           E == D \ keys
<1>1. PICK left : left = [x \in E |-> c.entries[x]]
  OBVIOUS
<1>2. d = [entries |-> left, bytes |-> c.bytes - Lyric!TotalCost(c.entries, keys), sequence |-> c.sequence]
  <2>1. c = [entries |-> c.entries, bytes |-> c.bytes, sequence |-> c.sequence]
    BY DEF Counted
  <2>2. Lyric!Restrict(c.entries, E) = left
    BY <1>1 DEF Lyric!Restrict
  <2>3. d = [c EXCEPT !.entries = left, !.bytes = @ - Lyric!TotalCost(c.entries, keys)]
    BY <2>2 DEF Lyric!Erase
  <2> QED
    BY <2>1, <2>3
<1>3. Left(c, keys, d)
  BY <1>1, <1>2 DEF Left
<1>4. PICK sums : sums = CostOf(c.entries)
  OBVIOUS
<1>5. /\ \A key \in D : c.entries[key].cost \in Nat /\ sums[key] \in Nat
      /\ c.bytes = Sum(sums, D)
      /\ \A S \in SUBSET D : /\ IsFiniteSet(S) /\ Sum(sums, S) \in Nat
                             /\ Lyric!TotalCost(c.entries, S) = Sum(sums, S)
  BY <1>4, CountedSums
<1>6. Sum(sums, D) = Sum(sums, keys) + Sum(sums, E)
  <2>1. IsFiniteSet(D) /\ \A key \in D : sums[key] \in Int
    BY <1>5
  <2> QED
    BY <2>1, SumSplits
<1>7. Lyric!TotalCost(left, E) = Sum(sums, E)
  <2>1. PICK rest : rest = CostOf(left)
    OBVIOUS
  <2>2. IsFiniteSet(E) /\ DOMAIN left = E /\ \A key \in E : left[key].cost \in Nat
    BY <1>1, <1>5
  <2>3. Lyric!TotalCost(left, E) = Sum(rest, E)
    BY <2>1, <2>2, TotalIsSum
  <2>4. \A key \in E : rest[key] \in Int /\ rest[key] = sums[key]
    <3>1. \A key \in E : rest[key] = left[key].cost /\ left[key] = c.entries[key]
      BY <1>1, <2>1, <2>2 DEF CostOf
    <3>2. \A key \in E : sums[key] = c.entries[key].cost /\ sums[key] \in Nat
      BY <1>4, <1>5 DEF CostOf
    <3> QED
      BY <3>1, <3>2
  <2>5. Sum(rest, E) = Sum(sums, E)
    BY <2>2, <2>4, SumAgrees
  <2> QED
    BY <2>3, <2>5
<1>8. PICK a, b : /\ a = Sum(sums, keys) /\ b = Sum(sums, E) /\ a \in Nat /\ b \in Nat
                  /\ Lyric!TotalCost(c.entries, keys) = a
  BY <1>5
<1>9. /\ d.bytes = b /\ d.bytes = Lyric!TotalCost(d.entries, DOMAIN d.entries) /\ d.bytes <= c.bytes
      /\ d.bytes \in Int
  <2>1. c.bytes = a + b /\ d.bytes = c.bytes - a /\ d.entries = left /\ DOMAIN left = E
    BY <1>1, <1>2, <1>5, <1>6, <1>8
  <2> QED
    BY <1>7, <1>8, <2>1
<1>10. Cardinality(E) <= Cardinality(D) /\ IsFiniteSet(E) /\ Cardinality(D) \in Nat /\ Cardinality(E) \in Nat
  <2>1. IsFiniteSet(D)
    BY DEF Counted
  <2> QED
    BY <2>1, FS_Subset, FS_CardinalityType
<1>11. d.bytes <= MaxBytes /\ Cardinality(DOMAIN d.entries) <= MaxEntries
  <2>1. c.bytes <= MaxBytes /\ Cardinality(D) <= MaxEntries /\ c.bytes \in Int
    BY DEF Counted
  <2> QED
    BY <1>3, <1>9, <1>10, <2>1, LyricAssumption DEF Left
<1>12. /\ d = [entries |-> d.entries, bytes |-> d.bytes, sequence |-> d.sequence]
       /\ d.sequence \in Nat /\ DOMAIN d.entries \subseteq Lyric!CacheKeys /\ IsFiniteSet(DOMAIN d.entries)
       /\ \A key \in DOMAIN d.entries : /\ d.entries[key] \in LyricEntries
                                        /\ key[1] # "S" => d.entries[key].list = Lyric!NoLyrics
  BY <1>2, <1>3, <1>10 DEF Counted, Left
<1> QED
  BY <1>3, <1>9, <1>11, <1>12 DEF Counted

LEMMA ErasedIsUnrefused ==
  ASSUME NEW c, NEW ref, Unrefused(c, ref), NEW keys, NEW d, Left(c, keys, d)
  PROVE  Unrefused(d, ref)
BY DEF Unrefused, Left
LEMMA LyricCardinality == \A S : Lyric!Cardinality(S) = Cardinality(S)
BY DEF Lyric!Cardinality, Cardinality, Lyric!IsFiniteSet, IsFiniteSet

(* The loop of Put: what it leaves is made of entries that fit beside the new one. *)
LEMMA EvictionFits ==
  ASSUME NEW c, Counted(c), NEW cost \in Nat, cost <= MaxBytes,
         NEW d, d = Lyric!Erase(c, Lyric!Oldest(c, cost))
  PROVE  /\ Counted(d) /\ Left(c, Lyric!Oldest(c, cost), d)
         /\ d.bytes + cost <= MaxBytes /\ Cardinality(DOMAIN d.entries) + 1 <= MaxEntries
<1> DEFINE D == DOMAIN c.entries
           Newer(key) == {k \in D : c.entries[k].used >= c.entries[key].used}
           R == D \ Lyric!Oldest(c, cost)
<1>1. PICK old : old = Lyric!Oldest(c, cost)
  OBVIOUS
<1>2. old = {key \in D : Lyric!Cardinality(Newer(key)) >= MaxEntries
                         \/ Lyric!TotalCost(c.entries, Newer(key)) + cost > MaxBytes}
  BY <1>1 DEF Lyric!Oldest
<1>3. Counted(d) /\ Left(c, old, d)
  <2>1. old \subseteq DOMAIN c.entries
    BY <1>2
  <2> QED
    BY <1>1, <2>1, ErasedIsCounted
<1>4. PICK sums : sums = CostOf(c.entries)
  OBVIOUS
<1>5. /\ \A key \in D : c.entries[key].used \in Nat /\ sums[key] \in Nat
      /\ \A S \in SUBSET D : /\ IsFiniteSet(S) /\ Sum(sums, S) \in Nat
                             /\ Lyric!TotalCost(c.entries, S) = Sum(sums, S)
  BY <1>4, CountedSums DEF Counted, LyricEntries
<1>6. d.bytes = Sum(sums, R)
  <2>1. PICK rest : rest = CostOf(d.entries)
    OBVIOUS
  <2>2. d.bytes = Sum(rest, DOMAIN d.entries) /\ DOMAIN d.entries = R
    BY <1>1, <1>3, <2>1, CountedSums DEF Left
  <2>3. IsFiniteSet(R) /\ \A key \in R : d.entries[key] = c.entries[key]
    BY <1>1, <1>3, <1>5 DEF Left
  <2>4. \A key \in R : rest[key] = d.entries[key].cost /\ rest[key] \in Nat
    BY <1>3, <2>1, <2>2, CountedSums DEF CostOf
  <2>5. \A key \in R : sums[key] = c.entries[key].cost
    BY <1>4 DEF CostOf
  <2>6. \A key \in R : rest[key] \in Int /\ rest[key] = sums[key]
    BY <2>3, <2>4, <2>5
  <2> HIDE DEF R
  <2> QED
    BY <2>2, <2>3, <2>6, SumAgrees
<1>7. CASE R = {}
  <2>1. d.bytes = 0 /\ DOMAIN d.entries = {} /\ Cardinality(DOMAIN d.entries) = 0
    BY <1>1, <1>3, <1>6, <1>7, SumEmpty, FS_EmptySet DEF Left
  <2> QED
    BY <1>1, <1>3, <2>1, LyricAssumption
<1>8. CASE R # {}
  <2> DEFINE Uses == {n \in Nat : \E key \in R : n = c.entries[key].used}
  <2>1. Uses \in SUBSET Nat /\ Uses # {}
    BY <1>5, <1>8
  <2>2. PICK n \in Uses : \A m \in Uses : n <= m
    BY <2>1, SmallestMember
  <2>3. PICK key \in R : n = c.entries[key].used
    BY <2>2
  <2>4. PICK newer : newer = Newer(key)
    OBVIOUS
  <2>5. R \subseteq newer /\ newer \subseteq D
    BY <1>5, <2>2, <2>3, <2>4
  <2>6. ~(Cardinality(newer) >= MaxEntries) /\ ~(Lyric!TotalCost(c.entries, newer) + cost > MaxBytes)
    BY <1>1, <1>2, <2>3, <2>4, LyricCardinality
  <2>7. IsFiniteSet(newer) /\ Cardinality(R) <= Cardinality(newer) /\ Cardinality(R) \in Nat
        /\ Cardinality(newer) \in Nat
    <3> HIDE DEF R, D
    <3>1. IsFiniteSet(newer)
      BY <1>5, <2>5
    <3> QED
      BY <2>5, <3>1, FS_Subset, FS_CardinalityType
  <2>8. Cardinality(R) + 1 <= MaxEntries
    BY <2>6, <2>7, LyricAssumption
  <2>9. PICK a, b, e : /\ a = Sum(sums, R) /\ b = Sum(sums, newer) /\ e = Sum(sums, newer \ R)
                       /\ a \in Nat /\ b \in Nat /\ e \in Nat
                       /\ Lyric!TotalCost(c.entries, newer) = b
    <3>1. newer \ R \in SUBSET D /\ newer \in SUBSET D /\ R \in SUBSET D
      BY <2>5
    <3> HIDE DEF R, D
    <3> QED
      BY <1>5, <3>1
  <2>10. b = a + e
    <3>1. \A x \in newer : sums[x] \in Int
      BY <1>5, <2>5
    <3> HIDE DEF R, D
    <3> QED
      BY <2>5, <2>7, <2>9, <3>1, SumSplits
  <2>11. d.bytes + cost <= MaxBytes
    BY <1>6, <2>6, <2>9, <2>10, LyricAssumption
  <2> QED
    BY <1>1, <1>3, <2>8, <2>11 DEF Left
<1> QED
  BY <1>7, <1>8

LEMMA InsertedIsSound ==
  ASSUME NEW c, NEW ref \in Refusals, Counted(c), Unrefused(c, ref),
         NEW key, key \in Lyric!CacheKeys, key \notin DOMAIN c.entries,
         NEW list \in CacheLists, key[1] # "S" => list = Lyric!NoLyrics,
         NEW life \in Nat, NEW cost \in Nat, clock \in Nat,
         c.bytes + cost <= MaxBytes, Cardinality(DOMAIN c.entries) + 1 <= MaxEntries,
         NEW d, d = Lyric!Insert(c, key, list, life, cost)
  PROVE  Counted(d) /\ Unrefused(d, ref)
<1> DEFINE D == DOMAIN c.entries
           E == D \cup {key}
<1>1. PICK entry : entry = [list |-> list, born |-> c.sequence + 1, used |-> c.sequence + 1,
                            expires |-> clock + life, cost |-> cost]
  OBVIOUS
<1>2. PICK more : more = [k \in E |-> IF k = key THEN entry ELSE c.entries[k]]
  OBVIOUS
<1>3. d = [entries |-> more, bytes |-> c.bytes + cost, sequence |-> c.sequence + 1]
  BY <1>1, <1>2 DEF Lyric!Insert
<1>4. c.sequence \in Nat /\ IsFiniteSet(D) /\ entry \in LyricEntries /\ entry.list = list
      /\ entry.born = c.sequence + 1 /\ entry.cost = cost
  BY <1>1 DEF Counted, LyricEntries
<1>5. DOMAIN more = E /\ more[key] = entry /\ \A k \in D : more[k] = c.entries[k]
  BY <1>2
<1>6. \A k \in E : more[k] \in LyricEntries /\ more[k].cost \in Nat /\ (k[1] # "S" => more[k].list = Lyric!NoLyrics)
  <2>1. \A k \in D : c.entries[k] \in LyricEntries /\ (k[1] # "S" => c.entries[k].list = Lyric!NoLyrics)
    BY DEF Counted
  <2>2. \A k \in E : more[k] \in LyricEntries /\ (k[1] # "S" => more[k].list = Lyric!NoLyrics)
    BY <1>4, <1>5, <2>1
  <2> QED
    BY <2>2 DEF LyricEntries
<1>7. IsFiniteSet(E) /\ Cardinality(E) = Cardinality(D) + 1
  <2> HIDE DEF D
  <2> QED
    BY <1>4, FS_AddElement DEF D
<1>8. PICK sums, all : sums = CostOf(c.entries) /\ all = CostOf(more)
  OBVIOUS
<1>9. (\A k \in E : all[k] \in Int /\ all[k] = more[k].cost) /\ \A k \in D : sums[k] = all[k] /\ sums[k] \in Int
  <2>1. \A k \in E : all[k] = more[k].cost
    BY <1>5, <1>8 DEF CostOf
  <2>2. \A k \in D : sums[k] = c.entries[k].cost
    BY <1>8 DEF CostOf
  <2> QED
    BY <1>5, <1>6, <2>1, <2>2
<1>10. Sum(all, E) = cost + Sum(all, D)
  <2>1. Sum(all, E) = all[key] + Sum(all, E \ {key})
    BY <1>7, <1>9, SumRemoves
  <2>2. E \ {key} = D /\ all[key] = cost
    BY <1>4, <1>5, <1>9
  <2> QED
    BY <2>1, <2>2
<1>11. Sum(all, D) = Sum(sums, D)
  BY <1>4, <1>9, SumAgrees
<1>12. Sum(sums, D) = c.bytes /\ c.bytes \in Nat
  BY <1>8, CountedSums
<1>13. Lyric!TotalCost(more, E) = Sum(all, E)
  BY <1>5, <1>6, <1>7, <1>8, TotalIsSum
<1>14. d.bytes = Lyric!TotalCost(d.entries, DOMAIN d.entries) /\ d.bytes \in Int /\ d.bytes <= MaxBytes
  <2>1. Lyric!TotalCost(more, E) = cost + c.bytes
    BY <1>10, <1>11, <1>12, <1>13
  <2> QED
    BY <1>3, <1>5, <1>12, <2>1
<1>15. Counted(d)
  <2>1. DOMAIN d.entries = E /\ E \subseteq Lyric!CacheKeys /\ \A k \in E : d.entries[k] = more[k]
    BY <1>3, <1>5 DEF Counted
  <2>2. IsFiniteSet(DOMAIN d.entries) /\ Cardinality(DOMAIN d.entries) <= MaxEntries
    BY <1>7, <2>1
  <2>3. d = [entries |-> d.entries, bytes |-> d.bytes, sequence |-> d.sequence] /\ d.sequence \in Nat
    BY <1>3, <1>4
  <2> QED
    BY <1>6, <1>14, <2>1, <2>2, <2>3 DEF Counted
<1>16. Unrefused(d, ref)
  <2>1. \A k \in Candidates : ref[k] <= c.sequence /\ ref[k] \in Nat
    BY DEF Unrefused, Refusals
  <2>2. d.sequence = c.sequence + 1 /\ DOMAIN d.entries = E /\ \A k \in E : d.entries[k] = more[k]
    BY <1>3, <1>5
  <2>3. ASSUME NEW k \in E, NEW n \in Candidates, n \in Lyric!Range(d.entries[k].list)
        PROVE  d.entries[k].born > ref[n]
    <3>1. CASE k = key
      BY <1>4, <1>5, <2>1, <2>2, <3>1
    <3>2. CASE k \in D
      BY <1>5, <2>2, <2>3, <3>2 DEF Unrefused
    <3> QED
      BY <3>1, <3>2
  <2>4. \A k \in Candidates : ref[k] <= d.sequence
    BY <1>4, <2>1, <2>2
  <2> QED
    BY <2>2, <2>3, <2>4 DEF Unrefused
<1> QED
  BY <1>15, <1>16
LEMMA PrunedIsSound ==
  ASSUME NEW c, NEW ref, Counted(c), Unrefused(c, ref), NEW d, d = Lyric!Prune(c)
  PROVE  Counted(d) /\ Unrefused(d, ref) /\ d.sequence = c.sequence
<1>1. PICK keys : keys = {key \in DOMAIN c.entries : c.entries[key].expires <= clock}
  OBVIOUS
<1>2. keys \subseteq DOMAIN c.entries /\ d = Lyric!Erase(c, keys)
  BY <1>1 DEF Lyric!Prune
<1>3. Counted(d) /\ Left(c, keys, d)
  BY <1>2, ErasedIsCounted
<1> QED
  BY <1>3, ErasedIsUnrefused DEF Left

LEMMA PutIsSound ==
  ASSUME LyricInv, NEW key, key \in Lyric!CacheKeys, NEW list \in CacheLists,
         key[1] # "S" => list = Lyric!NoLyrics, NEW life \in Nat, NEW cost \in Nat
  PROVE  Counted(Lyric!Put(key, list, life, cost)) /\ Unrefused(Lyric!Put(key, list, life, cost), refused)
<1>1. Counted(cache) /\ Unrefused(cache, refused) /\ clock \in Nat /\ refused \in Refusals
  BY DEF LyricInv
<1>2. CASE cost > MaxEntryBytes
  BY <1>1, <1>2 DEF Lyric!Put
<1>3. CASE ~(cost > MaxEntryBytes)
  <2>1. PICK pruned : pruned = Lyric!Prune(cache)
    OBVIOUS
  <2>2. Counted(pruned) /\ Unrefused(pruned, refused)
    BY <1>1, <2>1, PrunedIsSound
  <2>3. PICK same : same = {key} \cap DOMAIN pruned.entries
    OBVIOUS
  <2>4. PICK without : without = Lyric!Erase(pruned, same)
    OBVIOUS
  <2>5. Counted(without) /\ Left(pruned, same, without)
    BY <2>2, <2>3, <2>4, ErasedIsCounted
  <2>6. Unrefused(without, refused) /\ key \notin DOMAIN without.entries
    BY <2>2, <2>3, <2>5, ErasedIsUnrefused DEF Left
  <2>7. PICK kept : kept = Lyric!Erase(without, Lyric!Oldest(without, cost))
    OBVIOUS
  <2>8. cost <= MaxBytes
    BY <1>3, LyricAssumption
  <2>9. /\ Counted(kept) /\ Left(without, Lyric!Oldest(without, cost), kept)
        /\ kept.bytes + cost <= MaxBytes /\ Cardinality(DOMAIN kept.entries) + 1 <= MaxEntries
    BY <2>5, <2>7, <2>8, EvictionFits
  <2>10. Unrefused(kept, refused) /\ key \notin DOMAIN kept.entries
    BY <2>6, <2>9, ErasedIsUnrefused DEF Left
  <2>11. PICK d : d = Lyric!Insert(kept, key, list, life, cost)
    OBVIOUS
  <2>12. Lyric!Put(key, list, life, cost) = d
    BY <1>3, <2>1, <2>3, <2>4, <2>7, <2>11 DEF Lyric!Put
  <2>13. Counted(d) /\ Unrefused(d, refused)
    BY <1>1, <2>9, <2>10, <2>11, InsertedIsSound
  <2> QED
    BY <2>12, <2>13
<1> QED
  BY <1>2, <1>3

LEMMA TouchIsSound ==
  ASSUME NEW c, NEW ref \in Refusals, Counted(c), Unrefused(c, ref),
         NEW key, key \in DOMAIN c.entries, NEW d, d = Lyric!Touch(c, key)
  PROVE  Counted(d) /\ Unrefused(d, ref)
<1> DEFINE D == DOMAIN c.entries
<1>1. PICK entry : entry = [c.entries[key] EXCEPT !.used = c.sequence + 1]
  OBVIOUS
<1>2. PICK marked : marked = [c.entries EXCEPT ![key] = entry]
  OBVIOUS
<1>3. c = [entries |-> c.entries, bytes |-> c.bytes, sequence |-> c.sequence] /\ c.sequence \in Nat
      /\ c.entries[key] \in LyricEntries
  BY DEF Counted
<1>4. d = [entries |-> marked, bytes |-> c.bytes, sequence |-> c.sequence + 1]
  <2>1. d = [c EXCEPT !.entries = marked, !.sequence = @ + 1]
    BY <1>1, <1>2 DEF Lyric!Touch
  <2> QED
    BY <1>3, <2>1
<1>5. /\ entry \in LyricEntries /\ entry.list = c.entries[key].list /\ entry.born = c.entries[key].born
      /\ entry.cost = c.entries[key].cost
  BY <1>1, <1>3 DEF LyricEntries
<1>6. DOMAIN marked = D /\ \A k \in D : marked[k] = IF k = key THEN entry ELSE c.entries[k]
  BY <1>2
<1>7. \A k \in D : /\ marked[k] \in LyricEntries /\ marked[k].list = c.entries[k].list
                   /\ marked[k].born = c.entries[k].born /\ marked[k].cost = c.entries[k].cost
  BY <1>5, <1>6 DEF Counted
<1>8. PICK sums, all : sums = CostOf(c.entries) /\ all = CostOf(marked)
  OBVIOUS
<1>9. IsFiniteSet(D) /\ \A k \in D : marked[k].cost \in Nat
  BY <1>7 DEF Counted, LyricEntries
<1>10. Lyric!TotalCost(marked, D) = c.bytes
  <2>1. Lyric!TotalCost(marked, D) = Sum(all, D)
    BY <1>6, <1>8, <1>9, TotalIsSum
  <2>2. c.bytes = Sum(sums, D)
    BY <1>8, CountedSums
  <2>3. \A k \in D : all[k] = marked[k].cost
    BY <1>6, <1>8 DEF CostOf
  <2>4. \A k \in D : sums[k] = c.entries[k].cost
    BY <1>8 DEF CostOf
  <2>5. \A k \in D : all[k] \in Int /\ all[k] = sums[k]
    BY <1>7, <1>9, <2>3, <2>4
  <2>6. Sum(all, D) = Sum(sums, D)
    BY <1>9, <2>5, SumAgrees
  <2> QED
    BY <2>1, <2>2, <2>6
<1>11. Counted(d)
  <2>1. /\ DOMAIN d.entries = D /\ d.entries = marked /\ d.bytes = c.bytes
        /\ d = [entries |-> d.entries, bytes |-> d.bytes, sequence |-> d.sequence] /\ d.sequence \in Nat
    BY <1>3, <1>4, <1>6
  <2>2. \A k \in D : k[1] # "S" => marked[k].list = Lyric!NoLyrics
    BY <1>7 DEF Counted
  <2>3. /\ c.bytes \in Int /\ c.bytes <= MaxBytes /\ Cardinality(D) <= MaxEntries
        /\ D \subseteq Lyric!CacheKeys
    BY DEF Counted
  <2> QED
    BY <1>7, <1>9, <1>10, <2>1, <2>2, <2>3 DEF Counted
<1>12. Unrefused(d, ref)
  <2>1. \A k \in Candidates : ref[k] <= c.sequence /\ ref[k] \in Nat
    BY DEF Unrefused, Refusals
  <2>2. /\ d.sequence = c.sequence + 1 /\ DOMAIN d.entries = D /\ \A k \in D : d.entries[k] = marked[k]
    BY <1>4, <1>6
  <2>3. \A k \in D, n \in Candidates :
          n \in Lyric!Range(marked[k].list) => marked[k].born > ref[n]
    BY <1>7 DEF Unrefused
  <2>4. \A k \in Candidates : ref[k] <= d.sequence
    BY <1>3, <2>1, <2>2
  <2> QED
    BY <2>2, <2>3, <2>4 DEF Unrefused
<1> QED
  BY <1>11, <1>12

LEMMA LyricKeys ==
  ASSUME LyricInv, NEW w \in Workers
  PROVE  /\ work[w] \in Lyric!CacheKeys \cup {Lyric!NoWork}
         /\ work[w][1] \in {"S", "D"} => work[w] \in Lyric!CacheKeys
         /\ work[w][1] = "D" => work[w][2] \in Candidates
         /\ [work EXCEPT ![w] = Lyric!NoWork] \in Work
<1>1. work \in Work /\ work[w] \in Lyric!CacheKeys \cup {Lyric!NoWork}
  BY DEF LyricInv, Work
<1>2. [work EXCEPT ![w] = Lyric!NoWork] \in Work
  BY <1>1 DEF Work
<1>3. CASE work[w] = Lyric!NoWork
  BY <1>1, <1>2, <1>3 DEF Lyric!NoWork
<1>4. CASE work[w] \in Lyric!CacheKeys
  BY <1>1, <1>2, <1>4 DEF Lyric!CacheKeys, Lyric!SearchCacheKey, Lyric!DetailCacheKey
<1> QED
  BY <1>1, <1>3, <1>4

LEMMA AskKeeps ==
  ASSUME LyricInv, NEW w \in Workers, NEW key, key \in Lyric!CacheKeys, Lyric!Ask(w, key)
  PROVE  LyricInv'
<1>1. PICK pruned : pruned = Lyric!Prune(cache)
  OBVIOUS
<1>2. /\ \/ key \in DOMAIN pruned.entries /\ cache' = Lyric!Touch(pruned, key) /\ UNCHANGED work
         \/ cache' = pruned /\ work' = [work EXCEPT ![w] = key]
      /\ UNCHANGED <<clock, refused>>
  BY <1>1 DEF Lyric!Ask
<1>3. Counted(cache) /\ Unrefused(cache, refused) /\ clock \in Nat /\ work \in Work /\ refused \in Refusals
  BY DEF LyricInv
<1>4. Counted(pruned) /\ Unrefused(pruned, refused)
  BY <1>1, <1>3, PrunedIsSound
<1>5. Counted(cache') /\ Unrefused(cache', refused)
  BY <1>2, <1>3, <1>4, TouchIsSound
<1>6. work' \in Work
  BY <1>2, <1>3 DEF Work
<1> QED
  BY <1>2, <1>3, <1>5, <1>6 DEF LyricInv, Counted, Unrefused

LEMMA RefusedKeeps ==
  ASSUME LyricInv, NEW w \in Workers, Lyric!DetailRefused(w)
  PROVE  LyricInv'
<1>1. PICK k : k = work[w][2]
  OBVIOUS
<1>2. k \in Candidates /\ work' \in Work
  BY <1>1, LyricKeys DEF Lyric!DetailRefused, Lyric!Done
<1>3. PICK keys : keys = {key \in DOMAIN cache.entries : key[1] = "S" /\ k \in Lyric!Range(cache.entries[key].list)}
  OBVIOUS
<1>4. cache' = Lyric!Erase(cache, keys) /\ keys \subseteq DOMAIN cache.entries
      /\ refused' = [refused EXCEPT ![k] = cache.sequence] /\ clock' = clock
  BY <1>1, <1>3 DEF Lyric!DetailRefused, Lyric!InvalidateSearch
<1>5. Counted(cache) /\ Unrefused(cache, refused) /\ clock \in Nat /\ refused \in Refusals
      /\ cache.sequence \in Nat
  BY DEF LyricInv, Counted
<1>6. Counted(cache') /\ Left(cache, keys, cache')
  BY <1>4, <1>5, ErasedIsCounted
<1>7. Unrefused(cache', refused)
  BY <1>5, <1>6, ErasedIsUnrefused
<1>8. refused' \in Refusals /\ \A n \in Candidates : refused'[n] = IF n = k THEN cache.sequence ELSE refused[n]
  BY <1>2, <1>4, <1>5 DEF Refusals
<1>9. \A key \in DOMAIN cache'.entries : k \notin Lyric!Range(cache'.entries[key].list)
  <2>1. Lyric!Range(Lyric!NoLyrics) = {}
    BY DEF Lyric!Range, Lyric!NoLyrics
  <2>2. ASSUME NEW key \in DOMAIN cache'.entries, k \in Lyric!Range(cache'.entries[key].list) PROVE FALSE
    <3>1. key \in DOMAIN cache.entries /\ key \notin keys /\ cache'.entries[key] = cache.entries[key]
      BY <1>6 DEF Left
    <3>2. key[1] # "S" => cache.entries[key].list = Lyric!NoLyrics
      BY <1>5, <3>1 DEF Counted
    <3> QED
      BY <1>3, <2>1, <2>2, <3>1, <3>2
  <2> QED
    BY <2>2
<1>10. Unrefused(cache', refused')
  <2>1. cache'.sequence = cache.sequence
    BY <1>6 DEF Left
  <2> QED
    BY <1>5, <1>7, <1>8, <1>9, <2>1 DEF Unrefused
<1> QED
  BY <1>2, <1>4, <1>5, <1>6, <1>8, <1>10 DEF LyricInv, Counted, Unrefused

LEMMA LyricStep == LyricInv /\ [Lyric!Next]_lyricVars => LyricInv'
<1> SUFFICES ASSUME LyricInv, [Lyric!Next]_lyricVars PROVE LyricInv'
  OBVIOUS
<1>1. Counted(cache) /\ Unrefused(cache, refused) /\ clock \in Nat /\ work \in Work /\ refused \in Refusals
  BY DEF LyricInv
<1>2. ASSUME NEW w \in Workers, Lyric!SearchFails(w) \/ Lyric!DetailFails(w) PROVE LyricInv'
  <2>1. UNCHANGED <<cache, clock, refused>> /\ work' \in Work
    BY <1>2, LyricKeys DEF Lyric!SearchFails, Lyric!DetailFails, Lyric!Done
  <2> QED
    BY <1>1, <2>1 DEF LyricInv, Counted, Unrefused
<1>3. ASSUME NEW w \in Workers, Lyric!SearchAnswers(w) \/ Lyric!DetailAnswers(w) PROVE LyricInv'
  <2>1. UNCHANGED <<clock, refused>> /\ work' \in Work
    BY <1>3, LyricKeys DEF Lyric!SearchAnswers, Lyric!DetailAnswers, Lyric!Done
  <2>3. Counted(cache') /\ Unrefused(cache', refused)
    <3>1. CASE Lyric!SearchAnswers(w)
      <4>1. PICK list \in Lists, cost \in Costs : cache' = Lyric!Put(work[w], list, SearchLife, cost)
        BY <3>1 DEF Lyric!SearchAnswers
      <4>2. /\ work[w] \in Lyric!CacheKeys /\ work[w][1] = "S"
            /\ list \in CacheLists /\ cost \in Nat /\ SearchLife \in Nat
        BY <3>1, LyricKeys, LyricAssumption DEF Lyric!SearchAnswers, CacheLists
      <4> QED
        BY <4>1, <4>2, PutIsSound
    <3>2. CASE Lyric!DetailAnswers(w)
      <4>1. PICK cost \in Costs : cache' = Lyric!Put(work[w], Lyric!NoLyrics, DetailLife, cost)
        BY <3>2 DEF Lyric!DetailAnswers
      <4>2. /\ work[w] \in Lyric!CacheKeys
            /\ Lyric!NoLyrics \in CacheLists /\ cost \in Nat /\ DetailLife \in Nat
        BY <3>2, LyricKeys, LyricAssumption DEF Lyric!DetailAnswers, CacheLists
      <4> QED
        BY <4>1, <4>2, PutIsSound
    <3> QED
      BY <1>3, <3>1, <3>2
  <2> QED
    BY <1>1, <2>1, <2>3 DEF LyricInv, Counted, Unrefused
<1>4. CASE Lyric!Tick \/ UNCHANGED lyricVars
  <2>1. UNCHANGED <<cache, work, refused>> /\ clock' \in Nat
    BY <1>1, <1>4 DEF Lyric!Tick, lyricVars
  <2> QED
    BY <1>1, <2>1 DEF LyricInv, Counted, Unrefused
<1> QED
  BY <1>2, <1>3, <1>4, AskKeeps, RefusedKeeps DEF Lyric!Next

LEMMA LyricBegins == Lyric!Init => LyricInv
<1> SUFFICES ASSUME Lyric!Init PROVE LyricInv
  OBVIOUS
<1>1. PICK none : none = [key \in {} |-> 0]
  OBVIOUS
<1>2. cache = [entries |-> none, bytes |-> 0, sequence |-> 0] /\ DOMAIN none = {}
  BY <1>1 DEF Lyric!Init
<1>3. IsFiniteSet({}) /\ Cardinality({}) = 0 /\ Lyric!TotalCost(none, {}) = 0
  BY <1>2, TotalIsSum, SumEmpty, FS_EmptySet
<1>4. Counted(cache)
  BY <1>2, <1>3, LyricAssumption DEF Counted
<1>5. clock \in Nat /\ work \in Work /\ refused \in Refusals /\ \A k \in Candidates : refused[k] = 0
  BY DEF Lyric!Init, Work, Refusals
<1> QED
  BY <1>2, <1>4, <1>5 DEF LyricInv, Unrefused

(* A refused candidate is in no list kept since before, and the counters of the shared
   cache are true and within its limits (Cache of LyricService.cpp). *)
THEOREM LyricCacheIsSoundCorrect == UpstreamSpec => []LyricCacheIsSound
<1> DEFINE I == suite = "lyrics" => LyricInv
<1>1. UpstreamInit => I
  BY LyricBegins DEF UpstreamInit
<1>2. I /\ [UNCHANGED suite /\ UpstreamNext]_<<suite, upstreamVars>> => I'
  <2> SUFFICES ASSUME I, [UNCHANGED suite /\ UpstreamNext]_<<suite, upstreamVars>>,
                      suite' = "lyrics"
               PROVE  LyricInv'
    OBVIOUS
  <2>1. suite = "lyrics" /\ [Lyric!Next]_lyricVars
    BY DEF UpstreamNext, upstreamVars, lyricVars
  <2> QED
    BY <2>1, LyricStep
<1>3. I => LyricCacheIsSound
  <2> SUFFICES ASSUME LyricInv PROVE Lyric!LyricCacheIsSound
    BY DEF LyricCacheIsSound
  <2>1. Counted(cache) /\ Unrefused(cache, refused)
    BY DEF LyricInv
  <2>2. ASSUME NEW key \in DOMAIN cache.entries, NEW k, k \in Lyric!Range(cache.entries[key].list)
        PROVE  cache.entries[key].born > refused[k]
    <3>1. cache.entries[key].list \in Lists \cup {<<>>}
      BY <2>1 DEF Counted, LyricEntries, CacheLists, Lyric!NoLyrics
    <3>2. k \in Candidates
      BY <2>2, <3>1, LyricAssumption DEF Lyric!Range
    <3> QED
      BY <2>1, <2>2, <3>2 DEF Unrefused
  <2>3. Lyric!Cardinality(DOMAIN cache.entries) <= MaxEntries /\ cache.bytes <= MaxBytes
    BY <2>1, LyricCardinality DEF Counted
  <2> QED
    BY <2>1, <2>2, <2>3 DEF Lyric!LyricCacheIsSound, Counted
<1> QED
  BY <1>1, <1>2, <1>3, PTL DEF UpstreamSpec
=============================================================================
