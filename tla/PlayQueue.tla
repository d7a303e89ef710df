------------------------------ MODULE PlayQueue ------------------------------
(* The queue of desktop/qt/src/music/MusicController: what replaces and edits it,
   the radio that appends to it, and the lyrics of the song that is selected.
   What happens to a song once it is selected is Playback's matter: here it is
   only named.  Cancelled requests are answered all the same. *)
EXTENDS Naturals, Integers, Sequences, SequencesExt, FiniteSetsExt

CONSTANTS Songs, NoSong,
          RadioAnswers,             \* the sequences /personal/fm may give
          History,                  \* songs kept before the current one: 100
          MaxQueue,                 \* 2000
          MaxCommands               \* bound

VARIABLES
  queue, index,          \* queue_, queueIndex_ (0: none)
  radio,                 \* radio_, radioPending_, radioAdvancePending_, radioGeneration_
  loop,                  \* loopMode_
  song,                  \* generation_, the song last resolved, the song of cues_
  net,                   \* requests under way
  commands               \* how many were given
queueVars == <<queue, index, radio, loop, song, net, commands>>

NoRadio == [on |-> FALSE, pending |-> FALSE, advance |-> FALSE, generation |-> 0]
PlayQueueInit ==                                     \* the restored snapshot
  /\ queue \in {<<>>} \cup {<<s>> : s \in Songs} /\ index \in {0, Len(queue)}
  /\ \E on \in {FALSE, index # 0} : radio = [NoRadio EXCEPT !.on = on]   \* a radio marks a row
  /\ loop \in {"list", "single", "random"}
  /\ song = [generation |-> 0, resolved |-> IF index = 0 THEN NoSong ELSE queue[1], cues |-> NoSong]
  /\ net = {} /\ commands = 0

Command == commands < MaxCommands /\ commands' = commands + 1

(* cancelRadioRequest(). *)
Cancelled(r) == [r EXCEPT !.generation = @ + 1, !.advance = FALSE, !.pending = FALSE]
(* resolveCurrent() of position i of q: the lyrics are loaded anew. *)
Resolve(q, i, requests) ==
  /\ song' = [generation |-> song.generation + 1, resolved |-> q[i], cues |-> NoSong]
  /\ net' = requests \cup {[kind |-> "search", generation |-> song.generation + 1, song |-> q[i]]}
Select(q, i, r) ==
  /\ queue' = q /\ index' = i /\ radio' = r /\ Resolve(q, i, net)

-----------------------------------------------------------------------------
(* playTracks, playFrom and openLocal replace the queue and leave the radio. *)
playTracks(tracks, i) ==
  /\ Command /\ i \in DOMAIN tracks /\ Select(tracks, i, [Cancelled(radio) EXCEPT !.on = FALSE])
  /\ UNCHANGED loop
playQueue(i) ==
  /\ Command /\ i \in DOMAIN queue /\ i # index
  /\ Select(queue, i, IF radio.on THEN radio ELSE Cancelled(radio)) /\ UNCHANGED loop

(* step(): wraps around; random takes any other song. *)
StepTo(delta) ==
  IF loop = "random" /\ Len(queue) > 1 THEN DOMAIN queue \ {index}
  ELSE {((index - 1 + delta) % Len(queue)) + 1}
step(delta) ==
  /\ Command /\ ~radio.on /\ queue # <<>>
  /\ \E i \in StepTo(delta) : Select(queue, i, radio)
  /\ UNCHANGED loop
(* The end of a song: a single loop replays it, without resolving it again. *)
EndOfMedia ==
  /\ index # 0 /\ loop # "single" /\ ~radio.on /\ step(1)

cycleLoopMode ==
  /\ Command /\ ~radio.on
  /\ loop' = CASE loop = "list" -> "single" [] loop = "single" -> "random" [] OTHER -> "list"
  /\ UNCHANGED <<queue, index, radio, song, net>>

enqueueTrack(s) ==
  /\ Command /\ ~radio.on /\ Len(queue) < MaxQueue /\ s \notin ToSet(queue)
  /\ queue' = Append(queue, s) /\ UNCHANGED <<index, radio, loop, song, net>>

clearQueue(r) ==
  /\ queue' = <<>> /\ index' = 0 /\ radio' = [Cancelled(r) EXCEPT !.on = FALSE]
  /\ song' = [generation |-> song.generation + 1, resolved |-> NoSong, cues |-> NoSong]
  /\ UNCHANGED <<loop, net>>
Clear == Command /\ clearQueue(radio)

(* removeQueue: the song after the removed one takes its place, the last one has
   none after it. *)
KeepsIndex(i)   == Min({index, Len(queue) - 1})
IndexWithout(i) == IF i < index THEN index - 1 ELSE Min({index, Len(queue) - 1})
removeQueue(i) ==
  /\ Command /\ ~radio.on /\ i \in DOMAIN queue
  /\ IF Len(queue) = 1 THEN clearQueue(radio)
     ELSE LET q == RemoveAt(queue, i)
          IN IF i = index THEN Select(q, IndexWithout(i), radio) /\ UNCHANGED loop
             ELSE queue' = q /\ index' = IndexWithout(i) /\ UNCHANGED <<radio, loop, song, net>>
moveQueue(from, to) ==
  /\ Command /\ ~radio.on /\ from \in DOMAIN queue /\ to \in DOMAIN queue /\ from # to
  /\ queue' = InsertAt(RemoveAt(queue, from), to, queue[from])
  /\ index' = IF index = from THEN to
              ELSE IF from < index /\ to >= index THEN index - 1
              ELSE IF from > index /\ to <= index THEN index + 1 ELSE index
  /\ UNCHANGED <<radio, loop, song, net>>

-----------------------------------------------------------------------------
(* fetchRadio(): one request at a time; pressing next while it runs is
   remembered. *)
FetchRadio(r, starting, advance) ==
  IF r.pending THEN [r |-> [r EXCEPT !.advance = @ \/ advance], n |-> {}]
  ELSE LET s == [r EXCEPT !.generation = @ + 1, !.advance = advance, !.pending = TRUE]
       IN [r |-> s, n |-> {[kind |-> IF starting THEN "start" ELSE "more", generation |-> s.generation, song |-> NoSong]}]
startRadio ==
  /\ Command /\ ~radio.pending /\ ~(radio.on /\ index # 0)
  /\ LET f == FetchRadio(radio, TRUE, FALSE) IN radio' = f.r /\ net' = net \cup f.n
  /\ UNCHANGED <<queue, index, loop, song>>
stopRadio ==
  /\ Command /\ radio.on /\ radio' = [Cancelled(radio) EXCEPT !.on = FALSE] /\ UNCHANGED <<queue, index, loop, song, net>>
setAccount ==
  /\ Command
  /\ IF radio.on THEN clearQueue(Cancelled(radio))
     ELSE radio' = Cancelled(radio) /\ UNCHANGED <<queue, index, loop, song, net>>

(* radioNext(): by the user or at the end of a song. *)
radioNext ==
  /\ Command /\ radio.on
  /\ IF index < Len(queue)
     THEN LET few == Len(queue) - index - 1 <= 2
              f == IF few THEN FetchRadio(radio, FALSE, FALSE) ELSE [r |-> radio, n |-> {}]
          IN /\ queue' = queue /\ index' = index + 1 /\ radio' = f.r
             /\ Resolve(queue, index + 1, net \cup f.n)
     ELSE LET f == FetchRadio(radio, FALSE, TRUE)
          IN radio' = f.r /\ net' = net \cup f.n /\ UNCHANGED <<queue, index, song>>
  /\ UNCHANGED loop

(* The answer: songs that are not in the queue yet; the oldest are dropped. *)
Fresh(q, songs) ==
  FoldLeft(LAMBDA kept, s : IF s \in ToSet(q) \cup ToSet(kept) THEN kept ELSE Append(kept, s), <<>>, songs)
Trim(q, i) == Max({i - History - 1, 0})
AnyFetch(m)   == TRUE
OwnFetch(m) == m.generation = radio.generation /\ (m.kind = "start" \/ radio.on)
RadioAnswered(m) ==
  /\ m.kind \in {"start", "more"}
  /\ IF ~OwnFetch(m) THEN net' = net \ {m} /\ UNCHANGED <<queue, index, radio, song>>
     ELSE \E songs \in RadioAnswers :
       LET starting == m.kind = "start"
           fresh == Fresh(IF starting THEN <<>> ELSE queue, songs)
           r     == [radio EXCEPT !.pending = FALSE, !.advance = FALSE]
       IN IF fresh = <<>> THEN radio' = r /\ net' = net \ {m} /\ UNCHANGED <<queue, index, song>>
          ELSE IF starting
          THEN /\ queue' = fresh /\ index' = 1 /\ radio' = [r EXCEPT !.on = TRUE]
               /\ Resolve(fresh, 1, net \ {m})
          ELSE LET long == queue \o fresh
                   trim == Trim(long, index)
                   q    == SubSeq(long, trim + 1, Len(long))
                   i    == index - trim
                   on   == radio.advance /\ i < Len(q)
               IN /\ queue' = q /\ radio' = r
                  /\ IF on THEN index' = i + 1 /\ Resolve(q, i + 1, net \ {m})
                     ELSE index' = i /\ net' = net \ {m} /\ UNCHANGED song
  /\ UNCHANGED <<loop, commands>>

(* loadLyrics(): the candidates of the song, then the first one's text. *)
OwnLyric(m) == m.generation = song.generation
Lyric(m) ==
  /\ m.kind \in {"search", "lyric"}
  /\ \/ net' = net \ {m} /\ UNCHANGED song                         \* failed, empty, or given up
     \/ OwnLyric(m) /\ m.kind = "search" /\ net' = (net \ {m}) \cup {[m EXCEPT !.kind = "lyric"]} /\ UNCHANGED song
     \/ OwnLyric(m) /\ m.kind = "lyric" /\ song' = [song EXCEPT !.cues = m.song] /\ net' = net \ {m}
  /\ UNCHANGED <<queue, index, radio, loop, commands>>

PlayQueueNext ==
  \/ \E s, t \in Songs : playTracks(<<s, t>>, 1) \/ playTracks(<<s, t>>, 2) \/ enqueueTrack(s)
  \/ \E i \in 1..MaxQueue : playQueue(i) \/ removeQueue(i) \/ \E j \in 1..MaxQueue : moveQueue(i, j)
  \/ step(1) \/ step(-1) \/ EndOfMedia \/ cycleLoopMode \/ Clear
  \/ startRadio \/ stopRadio \/ setAccount \/ radioNext
  \/ \E m \in net : RadioAnswered(m) \/ Lyric(m)

-----------------------------------------------------------------------------
(* However the queue is edited, trimmed or replaced, the song it marks is the
   one that was resolved, and lyrics shown are that song's.  (A song added to an
   empty queue is not marked until it is played.) *)
MarkIsWhatPlays ==
  /\ IF index = 0 THEN song.resolved = NoSong
     ELSE index \in DOMAIN queue /\ queue[index] = song.resolved
  /\ song.cues \in {NoSong, song.resolved}

(* The radio's queue grows and is cut only behind what is still to come: its
   songs are heard in the order they arrived and none is dropped unheard. *)
After(q, i) == SubSeq(q, i, Len(q))
KeepsUnplayed ==
  radio.on /\ radio'.on /\ queue' # queue =>
    IsPrefix(After(queue, index + 1),
             After(queue', IF song'.generation = song.generation THEN index' + 1 ELSE index'))
RadioKeepsUnplayed == [][KeepsUnplayed]_queueVars
=============================================================================
