--------------------------- MODULE AppearanceStore ---------------------------
(* desktop/qt/src/ui/AppearanceController: the presentation settings are merged
   in memory and written by flushStorage(), which a timer calls 250 ms after the
   last change, a retry button after an error, the data page as a barrier before an
   export or an import, and the destructor.  Everything runs on the GUI thread. *)
EXTENDS SettingsMaps     \* Keys: mode, accent, sidebarWidth, ...

CONSTANT MaxUpdates      \* bound: changes of a setting

VARIABLES pending,   \* pending_
          healthy,   \* storageStatus_ is NoError
          timer,     \* saveTimer_ runs
          disk,      \* appearance.ini
          alive,     \* the controller exists
          log, durable, acked   \* history, as in WriteBehindStore

vars == <<pending, healthy, timer, disk, alive, log, durable, acked>>

TypeOK == /\ log \in Seq(Keys)
          /\ pending \in [Keys -> 0..Len(log)] /\ disk \in [Keys -> 0..Len(log)]
          /\ healthy \in BOOLEAN /\ timer \in BOOLEAN /\ alive \in BOOLEAN
          /\ durable \in 0..Len(log) /\ acked \in 0..Len(log)

(* The file may be unreadable at start: the settings are then the defaults. *)
Init == /\ pending = Empty /\ disk = Empty
        /\ healthy \in BOOLEAN /\ timer = FALSE /\ alive = TRUE
        /\ log = <<>> /\ durable = 0 /\ acked = 0


(* A setter with a new value: scheduleSave. *)
Change(k) ==
  /\ alive /\ Len(log) < MaxUpdates
  /\ log' = Append(log, k)
  /\ pending' = [pending EXCEPT ![k] = Len(log) + 1]
  /\ timer' = TRUE
  /\ UNCHANGED <<healthy, disk, alive, durable, acked>>

(* The writer's status decides whether the batch is forgotten. *)
Kept(ok) == IF ok THEN Empty ELSE pending

(* The value it returns. *)
ToldAlways(ok) == Len(log)
Told(ok) == IF ok THEN Len(log) ELSE acked

(* flushStorage: nothing to do, or one synchronous write by a fresh QSettings;
   sync() replaces the file or not, and may report an error after it did. *)
FlushStorage ==
  /\ timer' = FALSE
  /\ IF pending = Empty /\ healthy
     THEN acked' = Len(log) /\ UNCHANGED <<pending, healthy, disk, durable>>
     ELSE \E ok, landed \in BOOLEAN :
            /\ ok => landed
            /\ IF landed THEN disk' = Over(pending, disk) /\ durable' = Len(log)
                         ELSE UNCHANGED <<disk, durable>>
            /\ pending' = Kept(ok)
            /\ healthy' = ok
            /\ acked' = Told(ok)
  /\ UNCHANGED log

Timeout == alive /\ timer /\ FlushStorage /\ UNCHANGED alive
(* retryStorage and the barrier of the data page. *)
Flush == alive /\ FlushStorage /\ UNCHANGED alive
Destroy == alive /\ FlushStorage /\ alive' = FALSE

Next == (\E k \in Keys : Change(k)) \/ Timeout \/ Flush \/ Destroy

Spec == Init /\ [][Next]_vars

-----------------------------------------------------------------------------
(* No change is lost, reordered or forgotten: the file is the state of the
   settings after a prefix of the changes, what is not in it is pending, and
   while something is pending either the timer runs or the page shows the
   storage error and offers the retry. *)
NothingForgotten ==
  /\ Newest(disk, log, durable)
  /\ Newest(Over(pending, disk), log, Len(log))
  /\ pending # Empty => timer \/ ~healthy

(* flushStorage keeps the promise of a write-behind store. *)
Service == INSTANCE WriteBehindStore WITH saved <- durable, open <- alive
ImplementsStore == Service!Spec
=============================================================================
