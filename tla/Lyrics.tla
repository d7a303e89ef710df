------------------------------- MODULE Lyrics -------------------------------
(***************************************************************************)
(* LyricService (core/LyricService.cpp): searching the lyrics of a song by *)
(* its hash and downloading one candidate of the list, both through one    *)
(* least-recently-used cache that all the worker threads share.  A cached  *)
(* list names candidates by an id and an access key; the server refuses a  *)
(* candidate whose access key has expired, and every cached list that      *)
(* names it is then dropped.  The cache is locked per operation and not    *)
(* across the request, so two requests for one hash overlap and answers    *)
(* come in any order.                                                      *)
(***************************************************************************)
EXTENDS Integers, FiniteSets, Sequences, FiniteSetsExt, Functions

CONSTANTS Workers,         \* threads that run the two lyric routes
          Hashes,          \* songs a list is searched for
          Candidates,      \* an id together with its access key
          Lists,           \* candidate lists the server sends, without the empty one
          Costs,           \* bytes an entry may take
          MaxEntries, MaxBytes, MaxEntryBytes,    \* Cache::kMax...
          SearchLife, DetailLife,                 \* ten minutes and six hours, in ticks
          LastTick, MaxUses                       \* bounds of a run

NoWork == <<"none">>
NoLyrics == <<>>

SearchCacheKey(h) == <<"S", h>>
DetailCacheKey(k) == <<"D", k>>
CacheKeys == {SearchCacheKey(h) : h \in Hashes} \cup {DetailCacheKey(k) : k \in Candidates}

VARIABLES cache,     \* entries by key, bytes and sequence
          clock,     \* the steady clock, in ticks
          work,      \* the request a worker waits for, by its cache key
          refused    \* history: cache.sequence when a candidate was last refused

vars == <<cache, clock, work, refused>>

Entries == [list : Seq(Candidates), born : Nat, used : Nat, expires : Int, cost : Nat]

TypeOK == /\ DOMAIN cache.entries \subseteq CacheKeys
          /\ \A key \in DOMAIN cache.entries : cache.entries[key] \in Entries
          /\ cache.bytes \in Nat /\ cache.sequence \in Nat
          /\ clock \in Nat
          /\ work \in [Workers -> CacheKeys \cup {NoWork}]
          /\ refused \in [Candidates -> Nat]

Init == /\ cache = [entries |-> [key \in {} |-> 0], bytes |-> 0, sequence |-> 0]
        /\ clock = 0
        /\ work = [w \in Workers |-> NoWork]
        /\ refused = [k \in Candidates |-> 0]

-----------------------------------------------------------------------------
(* The cache                                                               *)

TotalCost(entries, keys) == MapThenSumSet(LAMBDA key : entries[key].cost, keys)

\* Erase: `bytes' is not a sum over the entries in the code but a running
\* counter, less what each erased entry cost.
Erase(c, keys) == [c EXCEPT !.entries = Restrict(c.entries, DOMAIN c.entries \ keys),
                            !.bytes = @ - TotalCost(c.entries, keys)]

Prune(c) == Erase(c, {key \in DOMAIN c.entries : c.entries[key].expires <= clock})

\* Get of a key that Prune left: the entry becomes the most recent one.
Touch(c, key) == [c EXCEPT !.entries[key].used = c.sequence + 1, !.sequence = @ + 1]

\* Entries the loop of Put evicts, the least recently used first, until the
\* new one fits: those from which on to the newest there are too many.
Oldest(c, cost) ==
  {key \in DOMAIN c.entries :
     LET newer == {k \in DOMAIN c.entries : c.entries[k].used >= c.entries[key].used}
     IN  Cardinality(newer) >= MaxEntries \/ TotalCost(c.entries, newer) + cost > MaxBytes}

Insert(c, key, list, life, cost) ==
  LET entry == [list |-> list, born |-> c.sequence + 1, used |-> c.sequence + 1,
                expires |-> clock + life, cost |-> cost]
  IN  [entries  |-> [k \in DOMAIN c.entries \cup {key} |->
                       IF k = key THEN entry ELSE c.entries[k]],
       bytes    |-> c.bytes + cost,
       sequence |-> c.sequence + 1]

Put(key, list, life, cost) ==
  IF cost > MaxEntryBytes THEN cache
  ELSE LET without == Erase(Prune(cache), {key} \cap DOMAIN Prune(cache).entries)
       IN  Insert(Erase(without, Oldest(without, cost)), key, list, life, cost)

\* A mutant: only the lists that name it first.
InvalidateFirst(k) ==
  Erase(cache, {key \in DOMAIN cache.entries :
                  key[1] = "S" /\ cache.entries[key].list # NoLyrics /\ cache.entries[key].list[1] = k})

\* Every cached search that names the candidate, first or as a fallback.
InvalidateSearch(k) ==
  Erase(cache, {key \in DOMAIN cache.entries : key[1] = "S" /\ k \in Range(cache.entries[key].list)})

-----------------------------------------------------------------------------
(* The two operations                                                      *)

\* Search and GetDetail up to the request: a hit answers at once.
Ask(w, key) ==
  LET pruned == Prune(cache)
  IN  /\ work[w] = NoWork /\ cache.sequence < MaxUses
      /\ \/ /\ key \in DOMAIN pruned.entries
            /\ cache' = Touch(pruned, key)
            /\ UNCHANGED work
         \/ /\ key \notin DOMAIN pruned.entries
            /\ cache' = pruned
            /\ work' = [work EXCEPT ![w] = key]
      /\ UNCHANGED <<clock, refused>>

Done(w) == work' = [work EXCEPT ![w] = NoWork]

\* Search: network and HTTP errors, unreadable and refused answers, a list
\* with no usable candidate and an empty list are answered without being kept.
SearchFails(w) == /\ work[w][1] = "S"
                  /\ Done(w)
                  /\ UNCHANGED <<cache, clock, refused>>

SearchAnswers(w) == /\ work[w][1] = "S" /\ cache.sequence < MaxUses
                    /\ \E list \in Lists, cost \in Costs :
                         cache' = Put(work[w], list, SearchLife, cost)
                    /\ Done(w)
                    /\ UNCHANGED <<clock, refused>>

\* GetDetail: the network failed, another HTTP error, or an unreadable
\* document: nothing is known of the candidate.
DetailFails(w) == /\ work[w][1] = "D"
                  /\ Done(w)
                  /\ UNCHANGED <<cache, clock, refused>>

\* GetDetail: 401 or 403, a business error, or a content that is not timed
\* text in base64 and UTF-8.
DetailRefused(w) == /\ work[w][1] = "D"
                    /\ cache' = InvalidateSearch(work[w][2])
                    /\ refused' = [refused EXCEPT ![work[w][2]] = cache.sequence]
                    /\ Done(w)
                    /\ UNCHANGED clock

DetailAnswers(w) == /\ work[w][1] = "D" /\ cache.sequence < MaxUses
                    /\ \E cost \in Costs :
                         cache' = Put(work[w], NoLyrics, DetailLife, cost)
                    /\ Done(w)
                    /\ UNCHANGED <<clock, refused>>

Tick == /\ clock < LastTick
        /\ clock' = clock + 1
        /\ UNCHANGED <<cache, work, refused>>

Next == \/ \E w \in Workers, key \in CacheKeys : Ask(w, key)
        \/ \E w \in Workers : \/ SearchFails(w) \/ SearchAnswers(w)
                              \/ DetailFails(w) \/ DetailRefused(w) \/ DetailAnswers(w)
        \/ Tick

Spec == Init /\ [][Next]_vars

-----------------------------------------------------------------------------
(* Correctness                                                             *)

\* Once a candidate is refused no list cached before that names it, whatever
\* its place in the list: the next search asks the server for fresh access
\* keys instead of serving the dead one for ten minutes.  And the shared cache
\* stays within its limits: the running count of bytes is what the entries
\* really cost, after any overlap of expiry, replacement, eviction and
\* invalidation, so it neither grows past the limit nor evicts for ever.
LyricCacheIsSound ==
  LET entries == cache.entries
  IN  /\ \A key \in DOMAIN entries :
           \A k \in Range(entries[key].list) : entries[key].born > refused[k]
      /\ cache.bytes = TotalCost(entries, DOMAIN entries)
      /\ cache.bytes <= MaxBytes /\ Cardinality(DOMAIN entries) <= MaxEntries
=============================================================================
