------------------------------ MODULE MCStores ------------------------------
(***************************************************************************)
(* Everything that is kept in a file, for TLC: the two settings stores, the *)
(* diagnostic log, the database (its thread, its records, its files), the  *)
(* statistics and the import of a profile.  They share no state, so one run *)
(* checks them one after another: "suite" says which of them a behaviour is *)
(* about, and the variables of the others stay as they began.              *)
(***************************************************************************)
EXTENDS PlaybackStore, JsonStore

CONSTANTS Suites,
          MaxAppearances,                                        \* AppearanceStore
          Flushers, Capacity, ErrorReserve, MaxLines, MaxRecords, MaxDropped, MaxCrashes,
          Clients, MaxOpens, MaxCalls,                           \* DatabaseActor
          MaxDatabases, MaxRenames,                              \* DatabaseFiles
          Files, MaxChanges, MaxImports,                         \* DataMigration
          s1, s2, NoAlbum, album, NoSession, CountedSeconds, JumpTicks, Archive, Tables,
          kMaxStatsRows, LastTick, MaxListens, MaxTrouble                       \* PlayStats

ASSUME QueueAssumption == Capacity \in Nat /\ ErrorReserve \in 0..Capacity /\ MaxLines \in Nat \ {0}
ASSUME FilesAssumption == MaxDatabases \in Nat /\ MaxRenames \in Nat

VARIABLES suite,
          look, healthy, timer, lookDisk, alive, lookLog, lookDurable, lookAcked,
          queue, accepted, dropped, criticalDropped, written, failed, completed, reported,
          ending, writer, record, seen, at, until, owner, file, previous, base, crashes, announced,
          dbState, dbQueue, dbThread, dbHandle, dbCall, dbOwner,
          live, content, quarantined, opening, damaged, tally,
          profile, backups, unwritten, held, playing, job, told,
          session, sent, table, import, world

Look    == INSTANCE AppearanceStore WITH
             MaxUpdates <- MaxAppearances, pending <- look, disk <- lookDisk, log <- lookLog,
             durable <- lookDurable, acked <- lookAcked
Writer  == INSTANCE DiagnosticWriter WITH stopping <- ending, worker <- writer, pc <- at, target <- until
Actor   == INSTANCE DatabaseActor
Data    == INSTANCE DatabaseFiles WITH backups <- quarantined, MaxTrouble <- MaxRenames
Migrate == INSTANCE DataMigration WITH disk <- profile, pending <- unwritten
Stats   == INSTANCE PlayStats WITH Songs <- {s1}, Albums <- {album}, MaxSessions <- MaxListens,
                                   MaxImports <- 1

lookVars   == <<look, healthy, timer, lookDisk, alive, lookLog, lookDurable, lookAcked>>
writerVars == <<queue, accepted, dropped, criticalDropped, written, failed, completed, reported,
                ending, writer, record, seen, at, until, owner, file, previous, base, crashes,
                announced>>
actorVars  == <<dbState, dbQueue, dbThread, dbHandle, dbCall, dbOwner>>
dataVars   == <<live, content, quarantined, opening, damaged, tally>>
profileVars == <<profile, backups, unwritten, held, playing, job, told>>
statsVars  == <<session, sent, table, import, world>>
storeVars  == <<pending, batch, submitted, attempted, revision, accepting, stopping, succeeded, worker,
                pc, target, disk, log, durable, taken, barrier, acked>>
storesVars == <<suite, storeVars, lookVars, writerVars, actorVars, jsonVars, dataVars, profileVars,
                statsVars>>

-----------------------------------------------------------------------------
(* Values of the constants: an archive with two alike rows of an old player, a  *)
(* row that is too short and a listen the profile may have already; and a table *)
(* that begins empty or with some of these.                                     *)
Row(id, song, of, seconds, when) ==
  [session |-> id, song |-> song, album |-> of, seconds |-> seconds, at |-> when]
OldArchive == <<Row(NoSession, s1, NoAlbum, 2, 1), Row(NoSession, s1, NoAlbum, 2, 1),
                Row(NoSession, s2, album, 1, 2), Row(<<"listen", 9>>, s2, album, 3, 3)>>
OldTables  == {<<>>, <<Row(NoSession, s2, album, 1, 1), Row(<<"listen", 9>>, s2, album, 3, 3),
                       Row(NoSession, s1, NoAlbum, 2, 2), Row(NoSession, s2, NoAlbum, 2, 1)>>}

\* Rows are lists of records; a session stands for one listen wherever it is kept,
\* and a listen that is too short is kept nowhere, nor under the name of a new one.
IsList(rows)   == rows \in Seq({rows[i] : i \in DOMAIN rows})
Counting(row)  == row.at > 0 /\ row.seconds > CountedSeconds
Sessions(rows) == {rows[i].session : i \in DOMAIN rows}
OneListen(rows) ==
  \A i, j \in DOMAIN rows : rows[i].session = rows[j].session /\ rows[i].session # NoSession => i = j
Listens == {<<"listen", n>> : n \in 1..MaxListens}
ASSUME NumbersAssumption == {CountedSeconds, JumpTicks, kMaxStatsRows, LastTick, MaxListens} \subseteq Nat
ASSUME ArchiveAssumption ==
  /\ IsList(Archive) /\ OneListen(Stats!read(Archive)) /\ NoSession \notin Sessions(Stats!read(Archive)) \cup Listens
  /\ \A i \in DOMAIN Archive :
       LET row == Archive[i] IN row = Row(row.session, row.song, row.album, row.seconds, row.at)
                                /\ row.seconds \in Nat /\ row.at \in Nat
ASSUME TablesAssumption ==
  /\ \A rows \in Tables : IsList(rows) /\ OneListen(rows)
  /\ \A k \in DOMAIN Archive : ~Counting(Archive[k]) =>
       Stats!read(Archive)[k].session \notin Listens \cup UNION {Sessions(rows) : rows \in Tables}

-----------------------------------------------------------------------------
(* The other suites begin in one of their states.                              *)
StoresInit ==
  /\ suite \in Suites
  /\ Init                  /\ (suite # "playback"    => worker = "check")
  /\ Look!Init             /\ (suite # "appearance"  => healthy)
  /\ Writer!Init           /\ (suite # "diagnostics" => writer = "check")
  /\ Actor!DatabaseActorInit
  /\ JsonStoreInit
  /\ Data!DatabaseFilesInit
  /\ Migrate!DataMigrationInit /\ (suite # "profile" => playing)
  /\ Stats!PlayStatsInit   /\ (suite # "statistics"  => table = <<>>)

StoresNext ==
  /\ UNCHANGED suite
  /\ \/ suite = "playback" /\ Next
     \/ suite # "playback" /\ UNCHANGED storeVars
  /\ \/ suite = "appearance" /\ Look!Next
     \/ suite # "appearance" /\ UNCHANGED lookVars
  /\ \/ suite = "diagnostics" /\ Writer!Next
     \/ suite # "diagnostics" /\ UNCHANGED writerVars
  /\ \/ suite = "database" /\ Actor!DatabaseActorNext
     \/ suite # "database" /\ UNCHANGED actorVars
  /\ \/ suite = "records" /\ JsonStoreNext
     \/ suite # "records" /\ UNCHANGED jsonVars
  /\ \/ suite = "files" /\ Data!DatabaseFilesNext
     \/ suite # "files" /\ UNCHANGED dataVars
  /\ \/ suite = "profile" /\ Migrate!DataMigrationNext
     \/ suite # "profile" /\ UNCHANGED profileVars
  /\ \/ suite = "statistics" /\ Stats!PlayStatsNext
     \/ suite # "statistics" /\ UNCHANGED statsVars

(* The fairness each of them states: its thread runs, and so does whoever is
   inside a call; what belongs to another suite is never enabled. *)
PlaybackFairness ==
  /\ WF_storeVars(suite = "playback" /\ WorkerStep)
  /\ \A c \in Callers : WF_storeVars(suite = "playback" /\ (FlushStep(c) \/ StopStep(c)))
DiagnosticsFairness ==
  /\ WF_writerVars(suite = "diagnostics" /\ Writer!WorkerStep)
  /\ WF_writerVars(suite = "diagnostics" /\ (Writer!ShutdownWake \/ Writer!ShutdownJoin))
  /\ \A f \in Flushers : WF_writerVars(suite = "diagnostics" /\ Writer!FlushStep(f))
DatabaseFairness ==
  /\ WF_actorVars(suite = "database" /\ Actor!ActorStep)
  /\ WF_actorVars(suite = "database" /\ (Actor!OpenEnqueues \/ Actor!Joined))

StoresSpec == /\ StoresInit /\ [][StoresNext]_storesVars
              /\ PlaybackFairness /\ DiagnosticsFairness /\ DatabaseFairness

-----------------------------------------------------------------------------
(* The appearance settings are never lost, reordered or forgotten, and their
   store keeps the promise of a write-behind store (AppearanceStore). *)
AppearanceIsKept == []Look!NothingForgotten /\ Look!ImplementsStore

(* Every diagnostic record is counted once, the files stay bounded, whole and in
   order, a flush covers what was accepted before it, losses are announced, and
   the end drains the queue (DiagnosticWriter). *)
RecordsAreKept ==
  /\ [](Writer!EveryRecordCounted /\ Writer!FilesIntact /\ Writer!ShutdownDrains)
  /\ [][Writer!FlushCoversRecords]_at
  /\ [][Writer!LossesAreTold]_writerVars

(* Every call returns: flush() and stop() of the playback store (PlaybackStore),
   flush() and shutdown() of the log (DiagnosticWriter), and the calls of the
   database, its owner's among them (DatabaseActor). *)
GuiCalls      == Calling("gui") \/ Writer!Flushing("gui") \/ Actor!Waits("gui")
GuiReturned   == Returned("gui") /\ ~Writer!Flushing("gui") /\ ~Actor!Waits("gui")
OtherCalls    == Calling("other") \/ Writer!Ending \/ Actor!Waits("other")
OtherReturned == Returned("other") /\ Writer!Ended /\ ~Actor!Waits("other")
EveryCallReturns ==
  /\ GuiCalls ~> GuiReturned
  /\ OtherCalls ~> OtherReturned
  /\ ~Actor!OwnerIs("idle") ~> Actor!OwnerIs("idle")

(* A damaged database is kept whole in quarantine (DatabaseFiles). *)
QuarantineLosesNothing == Data!QuarantineLosesNothing

(* An import can be taken back, and is not undone by a late writer
   (DataMigration). *)
ImportIsSafe == [][Migrate!Recoverable /\ Migrate!Stays]_profileVars

(* A listen counts once, for what was heard, and the statistics agree (PlayStats). *)
ListensAreTrue == Stats!EachListenOnce /\ Stats!ListenedWasHeard /\ Stats!StatisticsAgree
=============================================================================
