-------------------------- MODULE WriteBehindStore --------------------------
(* What the owner of settings may rely on when it hands its updates to a store
   that writes them later: the file always holds some prefix of the accepted
   updates, the prefix only grows, and what the store reported as saved is in
   it.  PlaybackStore (a worker thread) and AppearanceStore (a timer) implement
   it; MusicController and AppearanceController are its clients. *)
EXTENDS Naturals, Sequences

CONSTANT Keys       \* the settings: preference keys and the queue snapshot

VARIABLES log,      \* accepted updates in order: update i sets key log[i]
          saved,    \* the file holds exactly the first saved updates
          acked,    \* the client was told that the first acked updates are saved
          open      \* updates are accepted

vars == <<log, saved, acked, open>>

TypeOK == /\ log \in Seq(Keys)
          /\ saved \in 0..Len(log)
          /\ acked \in 0..saved
          /\ open \in BOOLEAN

(* A store whose worker could not be started is born closed. *)
Init == log = <<>> /\ saved = 0 /\ acked = 0 /\ open \in BOOLEAN

Submit == /\ open
          /\ \E k \in Keys : log' = Append(log, k)
          /\ UNCHANGED <<saved, acked, open>>

(* A batch reaches the file (updates accepted meanwhile may stay behind), a
   flush reports what is saved, or the store is closed for ever. *)
Settle == /\ saved' \in saved..Len(log)
          /\ acked' \in acked..saved'
          /\ open' \in BOOLEAN /\ (open' => open)
          /\ UNCHANGED log

Next == Submit \/ Settle

Spec == Init /\ [][Next]_vars
=============================================================================
