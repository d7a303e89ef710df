---------------------------- MODULE SettingsMaps ----------------------------
(* Maps from settings keys to the number of the update that set them, 0 where
   the map has no entry: what a merged batch, or the file, contains.  QVariantMap
   and QSettings merge the same way for both stores. *)
EXTENDS Naturals, Sequences

CONSTANT Keys

Empty == [k \in Keys |-> 0]

(* The newer map where it has an entry, the older one elsewhere. *)
Over(newer, older) ==
  [k \in Keys |-> IF newer[k] # 0 THEN newer[k] ELSE older[k]]

(* The map has, for every key, the newest of the first n updates of log. *)
Newest(map, log, n) ==
  \A k \in Keys :
    /\ map[k] <= n
    /\ map[k] # 0 => log[map[k]] = k
    /\ \A i \in (map[k] + 1)..n : log[i] # k
=============================================================================
