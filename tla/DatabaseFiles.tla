---------------------------- MODULE DatabaseFiles ----------------------------
(* The files of native/storage/Database.cpp: opening, the quarantine of a file
   that is not a database together with its WAL and SHM, and what the next
   start finds after a rename that failed or a process that died in between.
   A piece of a database is known by the number of the database it belongs to. *)
EXTENDS Naturals, Sequences

CONSTANTS MaxDatabases,  \* bound: databases created at the live path
          MaxTrouble     \* bound: renames and reads that fail, processes that die

Pieces   == <<"db", "wal", "shm">>
Piece    == {"db", "wal", "shm"}
Sidecars == {"wal", "shm"}

VARIABLES
  live,     \* the number of the database each live file belongs to, 0: no file
  content,  \* of the live database file
  backups,  \* <<name, piece, number>> of every quarantined file
  opening,  \* where Open() and Initialize() are
  damaged,  \* history: the pieces there were when a database was found damaged
  tally     \* databases created, trouble met

fileVars == <<live, content, backups, opening, damaged, tally>>
Closed == [at |-> "closed", name |-> 0, moved |-> <<>>, was |-> "none"]
DatabaseFilesInit ==
  /\ live = [p \in Piece |-> 0] /\ content = "none" /\ backups = {} /\ damaged = {}
  /\ opening = Closed /\ tally = [made |-> 0, trouble |-> 0]

OpeningIs(at) == opening.at = at
Step(at) == opening' = [opening EXCEPT !.at = at]
Throw    == opening' = Closed
Trouble  == tally.trouble < MaxTrouble /\ tally' = [tally EXCEPT !.trouble = @ + 1]

(* QuarantinePathFor: the first name no quarantined database has; in the worst
   case all of them fall into the same second.  Sidecars take the same name. *)
Taken(n) == \E b \in backups : b[1] = n /\ b[2] = "db"
FreeName == CHOOSE n \in 0..MaxDatabases + MaxTrouble : ~Taken(n) /\ \A i \in 0..n - 1 : Taken(i)
(* A rename replaces a plain file of the target's name. *)
MovedTo(n, p) == {b \in backups : <<b[1], b[2]>> # <<n, p>>} \cup {<<n, p, live[p]>>}

Quarantine == opening' = [at |-> "quarantine", name |-> FreeName, moved |-> <<>>, was |-> content]

-----------------------------------------------------------------------------
(* OpenLocked.  A missing or empty database next to a WAL or an SHM is the trace
   of a quarantine that could not be undone: it is not opened. *)
Orphaned == live["db"] = 0 /\ \E s \in Sidecars : live[s] # 0
OpenLocked ==
  /\ OpeningIs("closed") /\ ~Orphaned
  /\ \/ content # "foreign" /\ Step("open") /\ UNCHANGED tally
     \/ content = "foreign" /\ Quarantine
        /\ UNCHANGED tally
     \/ live["db"] # 0 /\ Trouble /\ Throw            \* sqlite_header_read_failed
  /\ UNCHANGED <<live, content, backups, damaged>>

(* sqlite3_open16 and InitializeSchema: a file that is not there is created; the
   schema of one that only looks like a database fails, and it is closed and put
   into quarantine too. *)
Initialize ==
  /\ OpeningIs("open")
  /\ IF live["db"] = 0
     THEN /\ tally.made < MaxDatabases /\ tally' = [tally EXCEPT !.made = @ + 1]
          /\ live' = [p \in Piece |-> IF live[p] = 0 THEN tally.made + 1 ELSE live[p]]
          /\ content' = "good" /\ Step("ready")
     ELSE IF content = "corrupt"
     THEN /\ Quarantine
          /\ UNCHANGED <<live, content, tally>>
     ELSE /\ live' = [p \in Piece |-> IF live[p] = 0 THEN live["db"] ELSE live[p]]
          /\ Step("ready") /\ UNCHANGED <<content, tally>>
  /\ UNCHANGED <<backups, damaged>>

(* QuarantineWithSidecars: the database, then each sidecar there is. *)
NextMove == Pieces[Len(opening.moved) + 1]
Moved(p) == [opening EXCEPT !.moved = Append(@, p)]
\* A mutant: the sidecars are removed.
MoveDatabaseOnly ==
  /\ OpeningIs("quarantine") /\ opening' = [opening EXCEPT !.moved = Pieces]
  /\ backups' = MovedTo(opening.name, "db") /\ live' = [p \in Piece |-> 0] /\ content' = "none"
  /\ UNCHANGED <<damaged, tally>>
MoveAside ==
  /\ OpeningIs("quarantine") /\ Len(opening.moved) < 3
  /\ LET p == NextMove IN
     \/ /\ live[p] = 0 /\ opening' = Moved(p) /\ UNCHANGED <<live, content, backups, tally>>
     \/ /\ live[p] # 0 /\ opening' = Moved(p)
        /\ backups' = MovedTo(opening.name, p) /\ live' = [live EXCEPT ![p] = 0]
        /\ content' = IF p = "db" THEN "none" ELSE content
        /\ UNCHANGED tally
     \/ /\ live[p] # 0 /\ Trouble
        /\ IF p = "db" THEN Throw ELSE Step("undo")
        /\ UNCHANGED <<live, content, backups>>
  /\ UNCHANGED damaged

(* The rollback, last move first; a piece that cannot be moved back stays. *)
MoveBack ==
  /\ OpeningIs("undo") /\ opening.moved # <<>>
  /\ LET p == opening.moved[Len(opening.moved)]
         mine == {b \in backups : b[1] = opening.name /\ b[2] = p}
         rest == SubSeq(opening.moved, 1, Len(opening.moved) - 1)
     IN /\ opening' = IF rest = <<>> THEN Closed ELSE [opening EXCEPT !.moved = rest]
        /\ \/ mine # {} /\ Trouble /\ UNCHANGED <<live, content, backups>>
           \/ /\ backups' = backups \ mine
              /\ live' = [live EXCEPT ![p] = IF mine = {} THEN @ ELSE (CHOOSE b \in mine : TRUE)[3]]
              /\ content' = IF p = "db" THEN opening.was ELSE content
              /\ UNCHANGED tally
  /\ UNCHANGED damaged
Quarantined ==
  /\ OpeningIs("quarantine") /\ Len(opening.moved) = 3 /\ Step("open")
  /\ UNCHANGED <<live, content, backups, damaged, tally>>

(* CloseLocked: SQLite folds the WAL into the database.  A process that dies
   leaves the files as they are. *)
CloseLocked ==
  /\ OpeningIs("ready") /\ Throw
  /\ live' = [live EXCEPT !["wal"] = 0, !["shm"] = 0]
  /\ UNCHANGED <<content, backups, damaged, tally>>
Die ==
  /\ ~OpeningIs("closed") /\ Throw /\ Trouble
  /\ UNCHANGED <<live, content, backups, damaged>>
(* Between two runs of the program, something overwrites the database. *)
Damage ==
  /\ OpeningIs("closed") /\ content = "good"
  /\ content' \in {"foreign", "corrupt"}
  /\ damaged' = damaged \cup {<<p, live[p]>> : p \in {q \in Piece : live[q] # 0}}
  /\ UNCHANGED <<live, backups, opening, tally>>

DatabaseFilesNext ==
  \/ OpenLocked \/ Initialize \/ MoveAside \/ MoveBack \/ Quarantined
  \/ CloseLocked \/ Die \/ Damage

-----------------------------------------------------------------------------
(* Whatever rename fails and wherever the process dies, every byte of a damaged
   database is still on disk, and no database is opened next to the WAL or SHM
   of another one, which SQLite would replay into it (comments at B04). *)
QuarantineLosesNothing ==
  /\ damaged \subseteq {<<p, live[p]>> : p \in Piece} \cup {<<b[2], b[3]>> : b \in backups}
  /\ OpeningIs("ready") => \A s \in Sidecars : live[s] = live["db"]
=============================================================================
