------------------------------ MODULE PlayStats ------------------------------
(* Listens and their statistics: PlaySession measures one, StatsController sends
   it to PlayStatsService, which keeps the table play_history_v2; StatsArchive
   reads tables and archives and merges them into the table, a restart or a
   cancellation in the middle included.  One tick is a second of playback. *)
EXTENDS Naturals, Integers, Sequences, SequencesExt, FiniteSetsExt

CONSTANTS Songs, Albums, NoAlbum,
          NoSession,          \* a row older than sessions
          CountedSeconds,     \* kMinCountedListenedSeconds: 60
          JumpTicks,          \* a step of 2000 ms or more is no playback
          Tables,             \* tables the profile may start with
          Archive,            \* rows of the file that is imported, by their ids
          kMaxStatsRows,      \* a list of the busiest is no longer: 100
          LastTick, MaxSessions, MaxImports, MaxTrouble      \* bounds

VARIABLES
  session,   \* PlaySession, and the player's position
  sent,      \* records on their way to the table
  table,     \* play_history_v2
  import,    \* DataMigration::importStatistics, and the worker in restore()
  world      \* history: what each session really heard; counts
statsVars == <<session, sent, table, import, world>>

NoListen == [id |-> 0, song |-> CHOOSE s \in Songs : TRUE, listened |-> 0, previous |-> -1,
             playing |-> FALSE, started |-> FALSE, finalized |-> TRUE, at |-> 0]
NoImport == [phase |-> "idle", next |-> 1, stopped |-> FALSE, whole |-> FALSE]
PlayStatsInit ==
  /\ session = NoListen /\ sent = {} /\ table \in Tables /\ import = NoImport
  /\ world = [heard |-> [n \in 1..MaxSessions |-> 0], sessions |-> 0, imports |-> 0, trouble |-> 0]

-----------------------------------------------------------------------------
(* PlaySession. *)
intend(s, song) ==
  [s EXCEPT !.id = world.sessions + 1, !.song = song, !.listened = 0, !.previous = -1,
            !.playing = FALSE, !.started = FALSE, !.finalized = FALSE, !.at = 0]
setPlaying(s, playing) ==
  IF s.finalized THEN s
  ELSE [s EXCEPT !.playing = playing, !.previous = IF playing THEN s.at ELSE -1, !.started = @ \/ playing]
SteadyStep(s, delta) == s.previous >= 0 /\ delta > 0 /\ delta < JumpTicks
position(s, value) ==
  LET moved == [s EXCEPT !.at = value] IN
  IF ~s.playing \/ s.finalized THEN moved
  ELSE [moved EXCEPT !.previous = value,
                     !.listened = IF SteadyStep(s, value - s.previous) THEN @ + (value - s.previous) ELSE @]
OnlySeeks(s) == s
seek(s) == [s EXCEPT !.previous = -1]
(* finish(): nothing, or the record of a listen that is long enough, once. *)
Finished(s) ==
  IF s.finalized \/ ~s.started \/ s.listened <= CountedSeconds THEN {}
  ELSE {[session |-> <<"listen", s.id>>, song |-> s.song, album |-> NoAlbum, seconds |-> s.listened, at |-> s.id]}
finish(s) == [s EXCEPT !.finalized = TRUE, !.playing = FALSE]

Intend(song) ==
  /\ world.sessions < MaxSessions
  /\ sent' = sent \cup Finished(session)
  /\ session' = intend(finish(session), song)
  /\ world' = [world EXCEPT !.sessions = @ + 1] /\ UNCHANGED <<table, import>>
PlayOrPause ==
  /\ session.id # 0 /\ session' = setPlaying(session, ~session.playing) /\ UNCHANGED <<sent, table, import, world>>
(* The player goes on by one or two ticks before it says so. *)
Plays(delta) ==
  /\ session.playing /\ session.at + delta <= LastTick /\ world.heard[session.id] + delta <= LastTick
  /\ session' = position(session, session.at + delta)
  /\ world' = [world EXCEPT !.heard = [world.heard EXCEPT ![session.id] = @ + delta]] /\ UNCHANGED <<sent, table, import>>
Seek(to) ==
  /\ session.id # 0 /\ to # session.at
  /\ session' = position(seek(session), to) /\ UNCHANGED <<sent, table, import, world>>
EndOfMedia ==
  /\ session.playing /\ session.at = LastTick
  /\ sent' = sent \cup Finished(session) /\ session' = finish(session) /\ UNCHANGED <<table, import, world>>

-----------------------------------------------------------------------------
(* PlayStatsService::RecordPlay and its unique index on the session: the status
   of a record, and the table after it. *)
RecordStatus(rows, r) ==
  IF r.seconds <= CountedSeconds THEN "BelowThreshold"
  ELSE IF r.session # NoSession /\ \E i \in DOMAIN rows : rows[i].session = r.session THEN "Duplicate" ELSE "Recorded"
RecordPlay(rows, r) == IF RecordStatus(rows, r) = "Recorded" THEN Append(rows, r) ELSE rows

(* StatsController::record; a storage error is only a notice. *)
Record(r) ==
  /\ r \in sent /\ sent' = sent \ {r}
  /\ \/ table' = RecordPlay(table, r) /\ UNCHANGED world
     \/ world.trouble < MaxTrouble /\ world' = [world EXCEPT !.trouble = @ + 1] /\ UNCHANGED table
  /\ UNCHANGED <<session, import>>

-----------------------------------------------------------------------------
(* StatsArchive.  A row without a session is given one made of all it holds and
   of its id in the table it comes from. *)
canonical(id, row) == [row EXCEPT !.session = IF @ = NoSession THEN <<"legacy", row, id>> ELSE @]
read(rows) == [i \in DOMAIN rows |-> canonical(i, rows[i])]

importStatistics ==
  /\ import.phase = "idle" /\ world.imports < MaxImports
  /\ import' = [NoImport EXCEPT !.phase = "reading"]
  /\ world' = [world EXCEPT !.imports = @ + 1] /\ UNCHANGED <<session, sent, table>>
(* The backup of the table is written before the first row, unless the import
   was cancelled by then or a file cannot be read or written. *)
Backup ==
  /\ import.phase = "reading"
  /\ import' = IF import.stopped THEN NoImport ELSE [import EXCEPT !.phase = "merging"]
  /\ UNCHANGED <<session, sent, table, world>>
Unreadable ==
  /\ import.phase = "reading" /\ world.trouble < MaxTrouble
  /\ import' = NoImport /\ world' = [world EXCEPT !.trouble = @ + 1] /\ UNCHANGED <<session, sent, table>>
Merge ==
  /\ import.phase = "merging" /\ ~import.stopped /\ import.next <= Len(Archive)
  /\ LET row == read(Archive)[import.next]
     IN \/ table' = (IF row.at > 0 THEN RecordPlay(table, row) ELSE table)
           /\ import' = [import EXCEPT !.next = @ + 1] /\ UNCHANGED world
        \/ world.trouble < MaxTrouble /\ world' = [world EXCEPT !.trouble = @ + 1]
           /\ import' = NoImport /\ UNCHANGED table
  /\ UNCHANGED <<session, sent>>
Merged ==
  /\ import.phase = "merging" /\ (import.stopped \/ import.next > Len(Archive))
  /\ import' = IF import.next > Len(Archive) THEN [NoImport EXCEPT !.whole = TRUE] ELSE NoImport
  /\ UNCHANGED <<session, sent, table, world>>
cancelStatistics ==
  /\ import.phase # "idle" /\ ~import.stopped
  /\ import' = [import EXCEPT !.stopped = TRUE] /\ UNCHANGED <<session, sent, table, world>>
(* Only what is in the table outlives the program. *)
Restart ==
  /\ world.trouble < MaxTrouble /\ world' = [world EXCEPT !.trouble = @ + 1]
  /\ session' = NoListen /\ sent' = {} /\ import' = NoImport /\ UNCHANGED table

PlayStatsNext ==
  \/ \E s \in Songs : Intend(s)
  \/ PlayOrPause \/ EndOfMedia \/ (\E d \in 1..JumpTicks : Plays(d)) \/ (\E p \in 0..LastTick : Seek(p))
  \/ \E r \in sent : Record(r)
  \/ importStatistics \/ Backup \/ Unreadable \/ Merge \/ Merged \/ cancelStatistics \/ Restart

-----------------------------------------------------------------------------
(* The queries, over the rows since a time. *)
CountedRows(rows, since) == {i \in DOMAIN rows : rows[i].seconds > CountedSeconds /\ rows[i].at >= since}
GetSummary(rows, since) ==
  [plays |-> Cardinality({i \in DOMAIN rows : rows[i].seconds > CountedSeconds /\ rows[i].at >= since}),
   songs |-> Cardinality({rows[i].song : i \in CountedRows(rows, since)})]
(* An album that has no id is its song's album, by name. *)
DimGroup(dim, row) == IF dim = "song" THEN row.song
                      ELSE IF row.album # NoAlbum THEN row.album ELSE <<"byname", row.song>>
Groups(rows, dim, since) ==
  LET groups == {DimGroup(dim, rows[i]) : i \in CountedRows(rows, since)}
  IN {[key |-> g, plays |-> Cardinality({i \in CountedRows(rows, since) : DimGroup(dim, rows[i]) = g})] : g \in groups}
(* The lists it may answer: as many of the busiest as are asked for and allowed,
   any of those that tie, and nothing when none are asked for. *)
SafeLimit(limit) == IF limit <= 0 THEN 0 ELSE IF limit < kMaxStatsRows THEN limit ELSE kMaxStatsRows
GetTop(rows, dim, since, limit) ==
  LET groups == Groups(rows, dim, since)
  IN {shown \in SUBSET groups :
        /\ Cardinality(shown) = IF Cardinality(groups) < SafeLimit(limit) THEN Cardinality(groups) ELSE SafeLimit(limit)
        /\ \A some \in shown, other \in groups \ shown : some.plays >= other.plays}
GetTimeline(rows, since) ==
  {[day |-> d, count |-> Cardinality({i \in CountedRows(rows, since) : rows[i].at = d})] :
     d \in {rows[i].at : i \in CountedRows(rows, since)}}

-----------------------------------------------------------------------------
(* A listen is in the table once however often it is sent or merged, for as long
   as it was really heard at most; and once an import has gone through, every
   listen of the archive that counts is there, whatever was cancelled, failed or
   restarted before. *)
EachListenOnce ==
  /\ \A i, j \in DOMAIN table : table[i].session = table[j].session /\ table[i].session # NoSession => i = j
  /\ import.whole =>
       Cardinality({i \in DOMAIN Archive : Archive[i].at > 0 /\ Archive[i].seconds > CountedSeconds})
         = Cardinality({i \in DOMAIN table : \E k \in DOMAIN Archive : table[i].session = read(Archive)[k].session})
ListenedWasHeard ==
  \A r \in sent : r.seconds <= world.heard[r.session[2]]

(* What the pages show of a table agrees, however many rows they ask for: the
   plays by day add up to the summary's; those of the busiest songs or albums to
   no more than that, and to just that when the list is not full or has as many
   songs as the summary counts. *)
StatisticsAgree ==
  \A since \in {0, 2} :
    LET summary == GetSummary(table, since) IN
    /\ MapThenSumSet(LAMBDA item : item.count, GetTimeline(table, since)) = summary.plays
    /\ \A dim \in {"song", "album"}, limit \in -1..(kMaxStatsRows + 1) :
         \A shown \in GetTop(table, dim, since, limit) :
           LET plays == MapThenSumSet(LAMBDA item : item.plays, shown) IN
           /\ plays <= summary.plays
           /\ Cardinality(shown) < SafeLimit(limit) => plays = summary.plays
           /\ dim = "song" => /\ Cardinality(shown) <= summary.songs
                              /\ Cardinality(shown) = summary.songs => plays = summary.plays
=============================================================================
