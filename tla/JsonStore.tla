------------------------------ MODULE JsonStore ------------------------------
(* UpdateJson and UpdateJsonPair of native/storage/Database.cpp: the conditional
   commit of one or two records, in one write transaction of one connection,
   while other processes have the same file open.  The two records stand for the
   session and the account generation that SessionRepository commits together;
   a value is the number of updates it has seen. *)
EXTENDS Naturals

CONSTANTS Connections,  \* processes (each with one actor, hence one update at a time)
          Nobody,
          MaxCommits    \* bound: updates begun by one connection

Records == {"first", "second"}
VARIABLES
  stored,    \* the committed records
  writeLock, \* SQLite's write lock
  update,    \* the update each connection is in, and how many it began
  commits    \* history: updates that were committed

jsonVars == <<stored, writeLock, update, commits>>
NoUpdate == [at |-> "none", seen |-> [r \in Records |-> 0], next |-> [r \in Records |-> 0]]

JsonStoreInit ==
  /\ stored = [r \in Records |-> 0] /\ writeLock = Nobody
  /\ update = [c \in Connections |-> [tx |-> NoUpdate, begun |-> 0]] /\ commits = 0

At(c, place) == update[c].tx.at = place
Tx(c, tx)    == update' = [update EXCEPT ![c].tx = tx]

(* BEGIN IMMEDIATE takes the lock before the read; a competitor waits, and
   gives up after the busy timeout. *)
BeginDeferred(c) ==
  /\ At(c, "none") /\ update[c].begun < MaxCommits
  /\ update' = [update EXCEPT ![c].begun = @ + 1,
                  ![c].tx = [at |-> "begun", seen |-> stored, next |-> stored]]
  /\ UNCHANGED <<writeLock, stored, commits>>
Begin(c) ==
  /\ At(c, "none") /\ update[c].begun < MaxCommits
  /\ \/ /\ writeLock = Nobody /\ writeLock' = c
        /\ update' = [update EXCEPT ![c].begun = @ + 1,
                        ![c].tx = [at |-> "begun", seen |-> stored, next |-> stored]]
     \/ writeLock # Nobody /\ update' = [update EXCEPT ![c].begun = @ + 1] /\ UNCHANGED writeLock
  /\ UNCHANGED <<stored, commits>>

Bump(tx, r) == [tx.next EXCEPT ![r] = tx.seen[r] + 1]
(* The mutator sees both values and refuses, throws or decides; the pair writes
   the second record inside it, before the first. *)
Mutate(c) ==
  /\ At(c, "begun")
  /\ \/ Tx(c, [update[c].tx EXCEPT !.at = "commit"])
     \/ Tx(c, [update[c].tx EXCEPT !.at = "rollback"])
     \/ Tx(c, [update[c].tx EXCEPT !.at = "written", !.next = Bump(update[c].tx, "second")])
  /\ UNCHANGED <<stored, writeLock, commits>>
SetFirst(c) ==
  /\ At(c, "written")
  /\ \/ Tx(c, [update[c].tx EXCEPT !.at = "commit", !.next = Bump(update[c].tx, "first")])
     \/ Tx(c, [update[c].tx EXCEPT !.at = "rollback"])
  /\ UNCHANGED <<stored, writeLock, commits>>

Leave(c) == /\ update' = [update EXCEPT ![c].tx = NoUpdate]
            /\ writeLock' = IF writeLock = c THEN Nobody ELSE writeLock
Commit(c) ==
  /\ At(c, "commit")
  /\ \/ Tx(c, [update[c].tx EXCEPT !.at = "rollback"]) /\ UNCHANGED <<stored, writeLock, commits>>
     \/ /\ stored' = update[c].tx.next /\ Leave(c)
        /\ commits' = commits + (IF update[c].tx.next = update[c].tx.seen THEN 0 ELSE 1)
Rollback(c) == At(c, "rollback") /\ UNCHANGED <<stored, commits>> /\ Leave(c)
(* The process dies: SQLite drops what was not committed. *)
Die(c) == ~At(c, "none") /\ UNCHANGED <<stored, commits>> /\ Leave(c)

JsonStoreNext ==
  \E c \in Connections : Begin(c) \/ Mutate(c) \/ SetFirst(c) \/ Commit(c) \/ Rollback(c) \/ Die(c)
JsonStoreSpec == JsonStoreInit /\ [][JsonStoreNext]_jsonVars

-----------------------------------------------------------------------------
(* The two records change together or not at all, whatever step of an update
   fails and whichever process dies, and no update of one process is lost under
   another's: a session never meets the generation of another commit. *)
PairsStayWhole ==
  /\ stored["first"] = stored["second"]
  /\ stored["first"] = commits
=============================================================================
