------------------------------ MODULE Playback ------------------------------
(* The media session of desktop/qt/src/music/MusicController: resolving the
   current song to a source, loading it, resuming at a position, switching its
   quality, and falling back when that fails.  The controller lives on the GUI
   thread, so a handler is one step; what interleaves are the user, the answers
   of the gateway (cancelling one does not suppress it), two timers, deferred
   calls and the signals of the media player.

   A handler is an operator on the record `music', named like the function it
   translates.  The queue is abstracted to the selected song; positions to the
   beginning (0) and a place inside the song (1). *)
EXTENDS Naturals, Sequences, SequencesExt

CONSTANTS Songs, LocalSongs, Qualities, Nothing,
          MaxGeneration          \* bound: no user action beyond it

Sources == [song : Songs, quality : Qualities \cup {"local"}, alt : {0, 1}]
Places  == {0, 1}
Kept    == [url : Sources, backups : Seq(Sources), pos : Places]
ASSUME SongAssumption == LocalSongs \subseteq Songs /\ Nothing \notin Songs \cup Qualities \cup Sources \cup Kept

VARIABLES
  music,     \* the MusicController and its QMediaPlayer
  place,     \* history: where the listener of the latest quality switch is,
             \* and whether it had a source to keep, of a known length, and
             \* was not overtaken by another while it went back
  closedAt   \* history: the generation of the latest close

playbackVars == <<music, place, closedAt>>

Main(s, q)   == [song |-> s, quality |-> q, alt |-> 0]
Backup(s, q) == [song |-> s, quality |-> q, alt |-> 1]
Requests == [generation : Nat, song : Songs, quality : Qualities, preserve : BOOLEAN]
Delivered == Qualities \cup {"local", "unknown"}
Calls == [call : {"backup", "recover"}, owner : Nat, failed : Sources \cup {Nothing},
          url : Sources, offset : Places]
Players == [source : Sources \cup {Nothing}, status : {"none", "loading", "loaded", "failed", "ended"},
            decoded : BOOLEAN, playing : BOOLEAN, pos : Places]

MusicTypeOK ==
  /\ music.song \in Songs \cup {Nothing} /\ music.generation \in Nat
  /\ {music.loading, music.desired, music.resume, music.observed, music.recovering,
      music.switching, music.reload, music.stopped, music.loadTimer,
      music.resumeTimer} \subseteq BOOLEAN
  /\ {music.quality, music.committed} \subseteq Qualities
  /\ {music.actual, music.pendingActual} \subseteq Delivered
  /\ music.pending \in Sources \cup {Nothing} /\ music.backups \in Seq(Sources)
  /\ music.saved \in Kept \cup {Nothing} /\ music.resumePos \in Places
  /\ music.requests \subseteq Requests
  /\ music.deferred \in Seq(Calls) /\ music.player \in Players
  /\ place \in [at : SUBSET Places, kept : BOOLEAN] /\ closedAt \in SUBSET Nat

-----------------------------------------------------------------------------
(* The media player, as far as the controller relies on it.  A status of the
   model stands for the statuses hasLoadedSource() does not tell apart. *)
Empty == [source |-> Nothing, status |-> "none", decoded |-> FALSE, playing |-> FALSE, pos |-> 0]
hasLoadedSource(p) == p.source # Nothing /\ p.status = "loaded"
Stopped(p)   == [p EXCEPT !.playing = FALSE, !.pos = 0,
                          !.status = IF @ = "ended" THEN "loaded" ELSE @]
Playing(p)   == [p EXCEPT !.playing = p.source # Nothing /\ p.status # "failed",
                          !.pos = IF p.status = "ended" THEN 0 ELSE @,
                          !.status = IF @ = "ended" THEN "loaded" ELSE @]
Paused(p)    == [p EXCEPT !.playing = FALSE]
Opening(p)   == [p EXCEPT !.status = IF p.source = Nothing THEN "none" ELSE "loading",
                          !.decoded = FALSE]

position(x) == IF x.resume THEN x.resumePos ELSE x.player.pos

(* Only the pending source, once it was seen loading, may settle the load. *)
OwnsLoad(x) == x.resume /\ x.observed /\ x.pending # Nothing /\ x.player.source = x.pending
Loaded(x)   == x.player.status = "loaded" /\ (x.resumePos > 0 => x.player.decoded)

applyResume(x) ==
  IF OwnsLoad(x) /\ Loaded(x)
  THEN LET p == [x.player EXCEPT !.pos = x.resumePos]
       IN [x EXCEPT !.resume = FALSE, !.resumeTimer = FALSE, !.loading = FALSE,
                    !.loadTimer = FALSE, !.actual = x.pendingActual,
                    !.pending = Nothing, !.pendingActual = "unknown",
                    !.recovering = FALSE, !.saved = Nothing, !.reload = FALSE,
                    !.switching = FALSE, !.committed = x.quality,
                    !.player = IF x.desired THEN Playing(p) ELSE Paused(p)]
  ELSE x

(* mediaStatusChanged(LoadingMedia) and (LoadedMedia). *)
SeenLoading(x) == [x EXCEPT !.observed = @ \/ (~x.stopped /\ x.pending # Nothing
                                               /\ x.player.source = x.pending)]
SeenLoaded(x)  == IF x.stopped THEN x ELSE applyResume(x)

(* setSource(): the same source is only stopped.  Another one may still signal
   the LoadedMedia of the old stream under the new name before it loads. *)
setSource(x, url) ==
  LET stopped == [x EXCEPT !.player = Stopped(@)]
      named   == [stopped EXCEPT !.player = [@ EXCEPT !.source = url]]
      stale   == IF named.player.status = "loaded" THEN SeenLoaded(named) ELSE named
      opened  == [stale EXCEPT !.player = Opening(@)]
  IN IF url = x.player.source THEN stopped
     ELSE IF url = Nothing THEN opened ELSE SeenLoading(opened)

(* setSource(url); applyResume(); if (resumePending_) resumeDeadline_.start() *)
Start(x, url) == LET y == applyResume(setSource(x, url))
                 IN [y EXCEPT !.resumeTimer = @ \/ y.resume]

-----------------------------------------------------------------------------
Files(s) == IF s \in LocalSongs THEN BOOLEAN ELSE {TRUE}   \* is the file there?

Keep(x) == [url |-> x.player.source, backups |-> x.backups, pos |-> x.player.pos]
CanKeep(x) == x.actual # "unknown" /\ hasLoadedSource(x.player)

resolveCurrent(x, pos, autoplay, preserve, exists) ==
  LET kept    == IF ~preserve THEN Nothing
                 ELSE IF x.saved = Nothing /\ CanKeep(x) THEN Keep(x) ELSE x.saved
      begun   == [x EXCEPT !.saved = kept, !.pending = Nothing, !.pendingActual = "unknown",
                           !.observed = FALSE, !.recovering = FALSE, !.generation = @ + 1,
                           !.loading = TRUE, !.desired = autoplay, !.reload = FALSE,
                           !.switching = preserve, !.loadTimer = TRUE, !.resumeTimer = FALSE,
                           !.resume = ~preserve, !.resumePos = pos]
      cleared == IF preserve THEN begun
                 ELSE setSource([begun EXCEPT !.backups = <<>>, !.actual = "unknown"], Nothing)
      url     == Main(x.song, "local")
  IN IF x.song \notin LocalSongs
     THEN [cleared EXCEPT !.requests = @ \cup
             {[generation |-> cleared.generation, song |-> x.song,
               quality |-> x.quality, preserve |-> preserve]}]
     ELSE IF exists
     THEN Start([cleared EXCEPT !.pendingActual = "local", !.pending = url], url)
     ELSE [cleared EXCEPT !.loading = FALSE, !.resume = FALSE]

(* Back to the source the switch kept: at once if it still plays, else by a
   deferred reload.  The caller has checked that there is one. *)
NeverRecovers(x) == FALSE
CanRecover(x) == x.switching /\ x.saved # Nothing

NotRearmed == FALSE
Rearmed    == TRUE

recoverQualitySwitch(x) ==
  LET ended == [x EXCEPT !.generation = @ + 1, !.quality = x.committed, !.switching = FALSE,
                         !.resume = FALSE, !.resumeTimer = FALSE, !.loadTimer = FALSE,
                         !.pending = Nothing, !.reload = FALSE]
  IN IF x.player.source = x.saved.url /\ hasLoadedSource(x.player)
     THEN [ended EXCEPT !.saved = Nothing, !.loading = FALSE]
     ELSE [ended EXCEPT !.recovering = TRUE, !.pending = x.saved.url,
                        !.pendingActual = x.actual, !.observed = FALSE,
                        !.backups = x.saved.backups, !.resumePos = x.saved.pos,
                        !.resume = TRUE, !.loading = TRUE, !.loadTimer = Rearmed,
                        !.deferred = Append(@,
                          [call |-> "recover", owner |-> ended.generation,
                           failed |-> Nothing, url |-> x.saved.url, offset |-> 0])]

-----------------------------------------------------------------------------
(* The constructor: the stored quality, and nothing selected or the snapshot of
   an earlier session. *)
Unstarted(q) ==
        [song |-> Nothing, generation |-> 0, loading |-> FALSE, desired |-> TRUE,
         quality |-> q, committed |-> q,
         actual |-> "unknown", pendingActual |-> "unknown", pending |-> Nothing,
         observed |-> FALSE, recovering |-> FALSE, switching |-> FALSE, reload |-> FALSE,
         backups |-> <<>>, saved |-> Nothing, resume |-> FALSE, resumePos |-> 0,
         stopped |-> FALSE, loadTimer |-> FALSE, resumeTimer |-> FALSE,
         requests |-> {}, deferred |-> <<>>, player |-> Empty]

Restored(q, s, pos, due) ==
  [Unstarted(q) EXCEPT !.song = s, !.resume = due \/ pos > 0, !.resumePos = pos]

Init == /\ music \in {Unstarted(q) : q \in Qualities} \cup
                     {Restored(q, s, pos, due) : q \in Qualities, s \in Songs,
                                                 pos \in Places, due \in BOOLEAN}
        /\ place = [at |-> {}, kept |-> FALSE]
        /\ closedAt = {}

Forget    == place' = [place EXCEPT !.at = {}]
GivenAway == music.recovering \/ (music.saved # Nothing /\ music.player.source # music.saved.url)
MoveTo(p) == place' = [place EXCEPT !.at = IF @ = {} \/ GivenAway THEN {} ELSE {p}]
Bounded   == music.generation < MaxGeneration
StaysOpen == UNCHANGED closedAt

(* playQueue and the other calls that select another song. *)
Select(s) ==
  /\ Bounded
  /\ \E exists \in Files(s) :
       music' = resolveCurrent([music EXCEPT !.song = s], 0, TRUE, FALSE, exists)
  /\ Forget /\ StaysOpen

toggle ==      \* and setPlaying(), where it does anything
  /\ music.song # Nothing
  /\ IF music.loading
     THEN /\ music' = [music EXCEPT !.desired = ~@,
                         !.player = IF music.desired THEN Paused(@) ELSE @]
          /\ UNCHANGED place
     ELSE IF music.reload \/ music.player.status = "failed"
     THEN /\ Bounded
          /\ \E exists \in Files(music.song) :
               music' = resolveCurrent(music, position(music), TRUE, FALSE, exists)
          /\ Forget
     ELSE IF music.player.source # Nothing
     THEN /\ music' = [music EXCEPT !.desired = ~music.player.playing,
                         !.player = IF @.playing THEN Paused(@) ELSE Playing(@)]
          /\ UNCHANGED place
     ELSE /\ Bounded
          /\ \E exists \in Files(music.song) :
               music' = resolveCurrent(music, music.resumePos, TRUE, FALSE, exists)
          /\ Forget
  /\ StaysOpen

retry ==
  /\ Bounded /\ music.song # Nothing
  /\ \E exists \in Files(music.song) :
       music' = resolveCurrent(music, position(music), TRUE, FALSE, exists)
  /\ Forget /\ StaysOpen

Restoring(x) == x.resume /\ (x.recovering \/ x.player.source = x.saved.url)

setQuality(q) ==
  /\ Bounded
  /\ ~(music.quality = q /\ (music.song = Nothing \/ music.actual = q \/ music.loading))
  /\ LET x == [music EXCEPT !.quality = q]
     IN IF music.song = Nothing \/ music.song \in LocalSongs
        THEN music' = [x EXCEPT !.committed = q] /\ UNCHANGED place
        ELSE /\ music' = resolveCurrent(x, position(x),
                           x.player.playing \/ (x.loading /\ x.desired), TRUE, TRUE)
             /\ IF music.saved # Nothing
                THEN place' = [place EXCEPT !.kept = @ /\ ~Restoring(music)]
                ELSE place' = [at |-> {position(music)},
                               kept |-> music'.saved # Nothing /\ music.player.decoded /\ ~music.resume]
  /\ StaysOpen

seek(p) ==
  /\ hasLoadedSource(music.player) /\ music.player.decoded
  /\ music' = [music EXCEPT !.player = [@ EXCEPT !.pos = p]]
  /\ MoveTo(p) /\ StaysOpen

clearQueue ==
  /\ Bounded /\ music.song # Nothing
  /\ music' = LET x == setSource([music EXCEPT !.generation = @ + 1, !.quality = music.committed,
                                    !.switching = FALSE, !.recovering = FALSE, !.saved = Nothing,
                                    !.pending = Nothing, !.loading = TRUE], Nothing)
              IN [x EXCEPT !.resumeTimer = FALSE, !.loadTimer = FALSE, !.song = Nothing,
                           !.actual = "unknown", !.resume = FALSE, !.resumePos = 0,
                           !.loading = FALSE]
  /\ Forget /\ StaysOpen

(* finishSession() and holdPersistenceForImport(); the user can go on after an
   import, and a later close must stop that too. *)
AtRest(x) == [x EXCEPT !.resumeTimer = FALSE, !.loadTimer = FALSE, !.desired = FALSE,
                       !.resume = FALSE, !.loading = FALSE, !.player = Paused(@)]
stopPlaybackWork(x) == [AtRest(x) EXCEPT !.generation = @ + 1]

Close ==
  /\ Bounded
  /\ music' = stopPlaybackWork([music EXCEPT !.stopped = TRUE])
  /\ closedAt' = {music'.generation}
  /\ Forget

-----------------------------------------------------------------------------
(* The answer of /song/url: refused, or a quality (the one asked for or less),
   perhaps only a preview of it, and perhaps a backup URL. *)
Replies == [quality : Qualities, preview : BOOLEAN, backup : BOOLEAN]

Refused(x, r) ==
  IF CanRecover(x) THEN recoverQualitySwitch(x)
  ELSE [x EXCEPT !.loading = FALSE, !.resume = FALSE, !.switching = FALSE, !.saved = Nothing,
                 !.loadTimer = FALSE, !.resumeTimer = FALSE,
                 !.quality = IF r.preserve THEN x.committed ELSE @]

NotWorthIt(x, r, reply) ==      \* the kept source stays
  r.preserve /\ x.saved # Nothing /\ (reply.quality # x.quality \/ reply.preview)

FromTheStart(x, r) == x

Resumed(x, r) ==                \* where the new source is to go on
  LET now == IF x.saved # Nothing /\ x.player.source = x.saved.url
             THEN [x EXCEPT !.saved = [@ EXCEPT !.pos = x.player.pos]] ELSE x
  IN IF ~r.preserve THEN x
     ELSE [now EXCEPT !.player = Paused(@),
                      !.resumePos = IF now.saved # Nothing THEN now.saved.pos ELSE x.player.pos]

Accepted(x, r, reply) ==
  LET url  == Main(r.song, reply.quality)
      same == x.player.source = url
      seen == same /\ (\/ x.saved # Nothing /\ x.saved.url = url
                       \/ x.player.status = "loading")
      next == [Resumed(x, r) EXCEPT
                 !.pendingActual = reply.quality, !.resume = TRUE, !.pending = url,
                 !.backups = IF reply.backup THEN <<Backup(r.song, reply.quality)>> ELSE <<>>,
                 !.observed = seen]
  IN Start(IF same /\ ~seen THEN setSource(next, Nothing) ELSE next, url)

AnyAnswer(x, r) == TRUE
Current(x, r)   == r.generation = x.generation

UrlAnswer(r) ==
  /\ LET x == [music EXCEPT !.requests = @ \ {r}]
     IN IF ~Current(x, r) THEN music' = x
        ELSE \/ music' = Refused(x, r)
             \/ \E reply \in Replies :
                  music' = IF NotWorthIt(x, r, reply)
                           THEN IF CanRecover(x) THEN recoverQualitySwitch(x) ELSE x
                           ELSE Accepted(x, r, reply)
  /\ UNCHANGED <<place, closedAt>>

-----------------------------------------------------------------------------
(* Signals of the media player. *)
MediaLoaded ==
  /\ music.player.status = "loading"
  /\ \E decoded \in BOOLEAN :
       music' = SeenLoaded([music EXCEPT !.player = [@ EXCEPT !.status = "loaded", !.decoded = decoded]])
  /\ UNCHANGED <<place, closedAt>>

durationChanged ==
  /\ hasLoadedSource(music.player) /\ ~music.player.decoded
  /\ music' = applyResume([music EXCEPT !.player = [@ EXCEPT !.decoded = TRUE]])
  /\ UNCHANGED <<place, closedAt>>

positionChanged ==
  /\ hasLoadedSource(music.player) /\ music.player.playing /\ music.player.pos = 0
  /\ music' = [music EXCEPT !.player = [@ EXCEPT !.pos = 1]]
  /\ MoveTo(1) /\ StaysOpen

EndOfMedia ==
  /\ hasLoadedSource(music.player) /\ music.player.playing /\ Bounded
  /\ LET x == [music EXCEPT !.player = [@ EXCEPT !.status = "ended", !.playing = FALSE]]
     IN \/ music' = x        \* closed, or the radio waits for its next songs
        \/ /\ ~x.stopped
           /\ \/ music' = [x EXCEPT !.player = Playing(@)]       \* single loop
              \/ \E s \in Songs : \E exists \in Files(s) :
                   music' = resolveCurrent([x EXCEPT !.song = s], 0, TRUE, FALSE, exists)
  /\ Forget /\ StaysOpen

(* An error is not this load's while it has no source yet, or while the
   recovery has not put its source back. *)
NotOfThisLoad(x) == x.loading /\ (\/ x.pending = Nothing
                                  \/ x.recovering /\ x.player.source # x.pending)

GivenUp(x) ==
  [x EXCEPT !.resume = FALSE, !.resumeTimer = FALSE, !.loadTimer = FALSE, !.reload = TRUE,
            !.quality = IF x.switching THEN x.committed ELSE @, !.switching = FALSE,
            !.saved = Nothing, !.pending = Nothing, !.recovering = FALSE, !.loading = FALSE]

MediaFailed(x) ==
  IF x.stopped \/ NotOfThisLoad(x) THEN x
  ELSE IF x.backups # <<>>
  THEN [x EXCEPT !.backups = Tail(@),
                 !.deferred = Append(@, [call |-> "backup", owner |-> x.generation,
                                         failed |-> x.player.source, url |-> Head(x.backups),
                                         offset |-> position(x)])]
  ELSE IF CanRecover(x) THEN recoverQualitySwitch(x) ELSE GivenUp(x)

errorOccurred ==
  /\ music.player.status \in {"loading", "loaded"}
  /\ music' = MediaFailed([music EXCEPT !.player = [@ EXCEPT !.status = "failed", !.playing = FALSE]])
  /\ IF music'.reload \/ NotOfThisLoad(music) THEN Forget ELSE UNCHANGED place
  /\ StaysOpen

-----------------------------------------------------------------------------
(* QTimer::singleShot(0, ...) *)
BackupRetry(x, d) ==
  Start([x EXCEPT !.resumePos = d.offset, !.resume = TRUE, !.loading = TRUE,
                  !.pending = d.url, !.observed = FALSE,
                  !.pendingActual = IF @ = "unknown" THEN x.actual ELSE @], d.url)

Reloaded(x, d) == Start(IF x.player.source = d.url THEN setSource(x, Nothing) ELSE x, d.url)

StillWanted(x, d) ==
  /\ d.owner = x.generation /\ ~x.stopped
  /\ IF d.call = "backup" THEN x.player.source = d.failed ELSE x.recovering

Ran(x, d) == IF ~StillWanted(x, d) THEN x
             ELSE IF d.call = "backup" THEN BackupRetry(x, d) ELSE Reloaded(x, d)

Deferred ==      \* all that are due, in one turn of the event loop
  /\ music.deferred # <<>>
  /\ music' = FoldLeft(Ran, [music EXCEPT !.deferred = <<>>], music.deferred)
  /\ UNCHANGED <<place, closedAt>>

(* The two timers. *)
ResumeDeadline ==
  /\ music.resumeTimer
  /\ LET x == [music EXCEPT !.resumeTimer = FALSE]
     IN music' = IF x.resume THEN applyResume([x EXCEPT !.resumePos = 0]) ELSE x
  /\ IF music.resume THEN Forget ELSE UNCHANGED place
  /\ StaysOpen

(* The deferred reload of a recovery is due 20 s before its own deadline. *)
ReloadDue == \E d \in Range(music.deferred) : d.call = "recover" /\ StillWanted(music, d)

LoadDeadline ==
  /\ music.loadTimer /\ ~ReloadDue
  /\ LET x == [music EXCEPT !.loadTimer = FALSE]
     IN music' = IF ~x.loading THEN x
                 ELSE IF CanRecover(x) THEN recoverQualitySwitch(x)
                 ELSE [GivenUp(x) EXCEPT !.generation = @ + 1, !.player = Stopped(@)]
  /\ IF music'.reload \/ (music.resume /\ hasLoadedSource(music.player))
     THEN Forget ELSE UNCHANGED place
  /\ StaysOpen

-----------------------------------------------------------------------------
User  == \/ \E s \in Songs : s # music.song /\ Select(s)
         \/ \E q \in Qualities : setQuality(q)
         \/ \E p \in Places : seek(p)
         \/ toggle \/ retry \/ clearQueue \/ Close
Media == MediaLoaded \/ durationChanged \/ positionChanged \/ EndOfMedia \/ errorOccurred
Next  == \/ User \/ Media \/ ResumeDeadline \/ LoadDeadline
         \/ \E r \in music.requests : UrlAnswer(r)
         \/ Deferred

Spec == Init /\ [][Next]_playbackVars

-----------------------------------------------------------------------------
(* Late answers, loads and failures of an earlier selection never reach the
   player: what it holds belongs to the selected song, and once the controller
   is closed nothing but a new request of the user changes it. *)
SourceOfSelection ==
  /\ [](/\ MusicTypeOK
        /\ music.player.source # Nothing => music.player.source.song = music.song
        /\ music.generation \in closedAt => ~music.loading /\ ~music.loadTimer)
  /\ [][music.generation \in closedAt /\ music'.generation = music.generation
          => music'.player.source = music.player.source /\ music'.song = music.song]_playbackVars

(* A quality is committed only by a loaded source of the current song, and in a
   switch only by a source of the quality that was chosen. *)
CommitNeedsMedia ==
  LET loaded == hasLoadedSource(music'.player) /\ music'.player.source.song = music'.song
  IN /\ music'.actual \notin {music.actual, "unknown"}
          => loaded /\ music'.actual = music'.player.source.quality
     /\ music'.committed # music.committed /\ music.song \notin LocalSongs \cup {Nothing}
          => loaded /\ (music.saved # Nothing =>
                          music'.committed = music'.player.source.quality)

(* A switch that ends leaves the new source or the kept one loaded; only when
   the kept one could not be restored either is the song left for a retry. *)
FallsBack ==
  music.saved # Nothing /\ ~music'.loading /\ ~music'.stopped /\ music'.player.source # Nothing
    => \/ hasLoadedSource(music'.player)
       \/ music'.reload /\ (music.recovering \/ music.reload)

(* So a quality switch either commits what it chose, when its media is there, or
   goes back to what was playing. *)
SwitchFallsBack == [][CommitNeedsMedia /\ FallsBack]_playbackVars

(* And, unless it is given up, it goes on where the listener was, through seeks, failures, backups and
   the return to the kept source.  (If the kept source itself fails while the
   answer is awaited, it is reloaded where the switch began; a seek in a source
   that is about to be replaced does not count; and media whose
   length stays unknown until a deadline goes on from the beginning.) *)
AtPlace == ~music.loading /\ ~music.reload /\ ~music.stopped /\ hasLoadedSource(music.player) 
              /\ place.at # {} => music.player.pos \in place.at
SwitchKeepsPlace == place.kept => AtPlace

(* A load that is timed stays timed until it settles, through fall-backs,
   backups and late answers. *)
StaysTimed == [][music.loading /\ music.loadTimer /\ music'.loading => music'.loadTimer]_playbackVars

(* "Media loading has a timeout": every load is timed.  Not so for the retry of
   a backup address after a source that had been loaded failed. *)
EveryLoadIsTimed == music.loading => music.loadTimer
=============================================================================
