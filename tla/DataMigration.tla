---------------------------- MODULE DataMigration ----------------------------
(* desktop/qt/src/settings/DataMigration: an import of settings replaces six
   files one after the other, after a backup of them, while two of them have
   writers of their own: PlaybackStore's thread (preferences.ini) and
   AppearanceController's timer (appearance.ini).  The program may end between
   any two writes.  A content is the number of the change that made it. *)
EXTENDS Naturals, Sequences

CONSTANTS Files,        \* preferences, appearance and those nobody else writes here
          MaxChanges, MaxImports       \* bounds

VARIABLES
  disk,      \* the content of every file
  backups,   \* the import-backup-*.json files: [file -> content], in order
  pending,   \* what the two writers still have to write; 0: nothing
  held,      \* shuttingDown_ and storage_ is stopped, since importing()
  playing,   \* the player plays: its pause saves the queue
  job,       \* importData(): its phase and the files it has not synced yet
  told       \* history: the changes, the imports begun, and at which change

Writers == {"preferences", "appearance"}
Idle == [phase |-> "idle", left |-> {}, failed |-> FALSE]
DataMigrationInit ==
  /\ disk = [f \in Files |-> 0] /\ backups = <<>> /\ pending = [w \in Writers |-> 0]
  /\ held = FALSE /\ playing \in BOOLEAN /\ job = Idle
  /\ told = [changes |-> 0, imports |-> 0, last |-> 0]

(* A preference, the queue or an appearance setting changes; a stopped
   PlaybackStore takes nothing. *)
Submit(w) == [pending EXCEPT ![w] = IF w = "preferences" /\ held THEN 0 ELSE told.changes + 1]
Change(w) ==
  /\ job.phase = "idle" /\ told.changes < MaxChanges
  /\ pending' = Submit(w) /\ told' = [told EXCEPT !.changes = @ + 1]
  /\ UNCHANGED <<disk, backups, held, playing, job>>
PlayOrPause ==
  /\ job.phase = "idle" /\ ~held /\ playing' = ~playing /\ UNCHANGED <<disk, backups, pending, held, job, told>>

Written(w) == [disk EXCEPT ![w] = IF pending[w] = 0 THEN @ ELSE pending[w]]
(* The thread writes at any time, the timer between two events. *)
Write(w) ==
  /\ pending[w] # 0 /\ (w = "appearance" => job.phase = "idle")
  /\ disk' = Written(w) /\ pending' = [pending EXCEPT ![w] = 0]
  /\ UNCHANGED <<backups, held, playing, job, told>>

-----------------------------------------------------------------------------
(* importData(), on the GUI thread.  The snapshot is prepared: both writers have
   written all they had, or the import stops. *)
Prepare ==
  /\ job.phase = "idle" /\ Len(backups) < MaxImports
  /\ \/ /\ disk' = [f \in Files |-> IF f \in Writers THEN Written(f)[f] ELSE disk[f]]
        /\ pending' = [w \in Writers |-> 0] /\ job' = [job EXCEPT !.phase = "prepared"]
     \/ UNCHANGED <<disk, pending, job>>
  /\ UNCHANGED <<backups, held, playing, told>>
(* No backup, no import. *)
BackUpIfPossible ==
  /\ job.phase = "prepared" /\ job' = [job EXCEPT !.phase = "backed"]
  /\ backups' \in {backups, Append(backups, disk)}
  /\ UNCHANGED <<disk, pending, held, playing, told>>
BackUp ==
  /\ job.phase = "prepared"
  /\ \/ backups' = Append(backups, disk) /\ job' = [job EXCEPT !.phase = "backed"]
     \/ job' = Idle /\ UNCHANGED backups
  /\ UNCHANGED <<disk, pending, held, playing, told>>

(* importing(): MusicController::holdPersistenceForImport; the pause of the
   player saves the queue unless it is shutting down, and the join writes what
   is left. *)
Paused == [pending EXCEPT !.preferences = IF playing THEN told.changes ELSE @]
Hold ==
  /\ held' = TRUE /\ playing' = FALSE
  /\ disk' = Written("preferences") /\ pending' = [pending EXCEPT !.preferences = 0]
importing ==
  /\ job.phase = "backed"
  /\ Hold
  /\ job' = [phase |-> "writing", left |-> Files, failed |-> FALSE]
  /\ told' = [told EXCEPT !.changes = @ + 1, !.imports = @ + 1, !.last = told.changes + 1]
  /\ UNCHANGED backups
(* A file the import says nothing of keeps its content; a sync may fail. *)
Sync(f) ==
  /\ job.phase = "writing" /\ f \in job.left
  /\ \E ok, named \in BOOLEAN :
       /\ disk' = IF ok /\ named THEN [disk EXCEPT ![f] = told.last] ELSE disk
       /\ job' = [job EXCEPT !.left = @ \ {f}, !.failed = @ \/ ~ok]
  /\ UNCHANGED <<backups, pending, held, playing, told>>
Imported ==      \* restart_, unless a file failed
  /\ job.phase = "writing" /\ job.left = {} /\ job' = Idle
  /\ UNCHANGED <<disk, backups, pending, held, playing, told>>
(* Killed, or restarted: what no writer had written is gone. *)
Restart ==
  /\ told.changes < MaxChanges /\ told.imports > 0
  /\ pending' = [w \in Writers |-> 0] /\ held' = FALSE /\ playing' = FALSE /\ job' = Idle
  /\ UNCHANGED <<disk, backups, told>>

DataMigrationNext ==
  \/ \E w \in Writers : Change(w) \/ Write(w)
  \/ PlayOrPause \/ Prepare \/ BackUp \/ importing \/ Imported \/ Restart
  \/ \E f \in Files : Sync(f)

-----------------------------------------------------------------------------
(* Whatever an import has replaced, also one that failed half-way or was killed,
   is in the backup made for it. *)
Recoverable ==
  \A f \in Files : job.phase = "writing" /\ disk'[f] # disk[f] =>
    backups # <<>> /\ backups[Len(backups)][f] = disk[f]
(* No writer puts a change of before the import over what was imported. *)
Stays ==
  \A f \in Files : told.last > 0 /\ disk'[f] # disk[f] => disk'[f] >= told.last
=============================================================================
