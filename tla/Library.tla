------------------------------- MODULE Library -------------------------------
(* desktop/qt/src/library/LibraryController.cpp: the account's lists and the
   tracks of one playlist or album, loaded page by page from PlaylistService;
   epochs tell the answers of a load that was given up. *)
EXTENDS PlaylistService

CONSTANTS Accounts, Nobody, Owned, Public, NoList, \* ids of the accounts' and of public lists
          Shelves,                             \* the rows of every list, as they may be
          Silent,                              \* lists the upstream announces no total of
          PageLimit,                           \* 40
          MaxOpens, MaxEdits, MaxTrouble       \* bounds

VARIABLES
  lib,      \* the controller
  shelf,    \* upstream: the rows of every list
  wire,     \* requests under way or answered and not delivered
  played,   \* history: what playRequested carried last
  asked     \* history: what the current load should end with; counts
libVars == <<lib, shelf, wire, played, asked>>

Closed == [id |-> NoList, tracks |-> <<>>, pages |-> {}, total |-> 0,
           loading |-> FALSE, complete |-> FALSE, pending |-> 0]
LibraryInit ==
  /\ lib = [account |-> Nobody, ready |-> FALSE, listEpoch |-> 0, lists |-> {}, listsLoading |-> FALSE, listPage |-> 0, listsMore |-> FALSE,
                        epoch |-> 0, open |-> Closed]
  /\ shelf \in Shelves
  /\ wire = {} /\ played = [tracks |-> <<>>, rows |-> <<>>, still |-> TRUE, counted |-> TRUE]
  /\ asked = [rows |-> <<>>, still |-> TRUE, counted |-> TRUE, opens |-> 0, edits |-> 0, trouble |-> 0]

Ask(kind, epoch, id, page) ==
  [kind |-> kind, epoch |-> epoch, id |-> id, page |-> page, done |-> FALSE, ok |-> FALSE, rows |-> <<>>, total |-> 0]

-----------------------------------------------------------------------------
(* refreshPlaylists(): the request of the load before is cancelled, and still
   answered; only its epoch tells it. *)
Refreshed(l, w) ==
  IF l.account = Nobody \/ ~l.ready THEN [l |-> l, w |-> w]
  ELSE LET n == [l EXCEPT !.listEpoch = @ + 1, !.listsLoading = TRUE]
       IN [l |-> n, w |-> w \cup {Ask("lists", n.listEpoch, l.account, 1)}]
refreshPlaylists ==
  /\ asked.opens < MaxOpens
  /\ LET r == Refreshed([lib EXCEPT !.listPage = 0], wire) IN lib' = r.l /\ wire' = r.w
  /\ asked' = [asked EXCEPT !.opens = @ + 1] /\ UNCHANGED <<shelf, played>>
morePlaylists ==
  /\ lib.listsMore /\ ~lib.listsLoading /\ lib.listPage < PageLimit
  /\ lib' = [lib EXCEPT !.listsLoading = TRUE]
  /\ wire' = wire \cup {Ask("lists", lib.listEpoch, lib.account, lib.listPage + 1)}
  /\ UNCHANGED <<shelf, played, asked>>
setAccount(account) ==
  /\ account # lib.account /\ asked.opens < MaxOpens
  /\ LET r == Refreshed([lib EXCEPT !.account = account, !.listEpoch = @ + 1, !.epoch = @ + 1,
                           !.lists = {}, !.listsLoading = FALSE, !.listsMore = FALSE, !.open = Closed], wire)
     IN lib' = r.l /\ wire' = r.w
  /\ asked' = [asked EXCEPT !.opens = @ + 1] /\ UNCHANGED <<shelf, played>>
ready ==
  /\ ~lib.ready /\ lib' = [lib EXCEPT !.ready = TRUE] /\ UNCHANGED <<shelf, wire, played, asked>>

(* retryTracks(): from the first page, of the list that is selected. *)
Tracks(id) ==
  IF lib.ready /\ id # NoList
  THEN /\ lib' = [lib EXCEPT !.epoch = @ + 1, !.open = [Closed EXCEPT !.id = id, !.loading = TRUE]]
       /\ wire' = wire \cup {Ask("tracks", lib.epoch + 1, id, 1)}
       /\ asked' = [asked EXCEPT !.rows = shelf[id], !.still = TRUE, !.counted = id \notin Silent, !.opens = @ + 1]
  ELSE /\ lib' = [lib EXCEPT !.open.id = id]
       /\ asked' = [asked EXCEPT !.opens = @ + 1] /\ UNCHANGED wire
retryTracks ==
  /\ lib.open.id # NoList /\ (lib.open.id \in Public \/ lib.account # Nobody) /\ asked.opens < MaxOpens
  /\ Tracks(lib.open.id) /\ UNCHANGED <<shelf, played>>
openPlaylist(id) ==
  /\ id \in lib.lists /\ asked.opens < MaxOpens /\ Tracks(id) /\ UNCHANGED <<shelf, played>>
openPublicPlaylist(id) ==      \* openAlbum is alike; another service has its rows
  /\ id \in Public /\ asked.opens < MaxOpens /\ Tracks(id) /\ UNCHANGED <<shelf, played>>
cancelTracks ==
  /\ asked.opens < MaxOpens
  /\ lib' = [lib EXCEPT !.epoch = @ + 1, !.open.pending = 0, !.open.loading = FALSE]
  /\ asked' = [asked EXCEPT !.opens = @ + 1] /\ UNCHANGED <<shelf, wire, played>>

-----------------------------------------------------------------------------
(* The answers.  Lists: a row without a collection id is skipped. *)
ListsLoaded(m) ==
  /\ m.kind = "lists" /\ m.done
  /\ wire' = wire \ {m}
  /\ lib' = IF m.epoch # lib.listEpoch THEN lib
            ELSE IF ~m.ok THEN [lib EXCEPT !.listsLoading = FALSE]
            ELSE LET have  == IF m.page = 1 THEN {} ELSE lib.lists
                     added == {row.gid : row \in Range(m.rows)} \ have
                 IN [lib EXCEPT !.listsLoading = FALSE, !.lists = have \cup added, !.listPage = m.page,
                       !.listsMore = Len(m.rows) >= PageSize /\ added # {} /\ m.page < PageLimit]
  /\ UNCHANGED <<shelf, played, asked>>

(* A row without a hash is dropped, and one whose file id is there already: the
   file id tells songs apart, "0" like any other. *)
Known(k, row) == \E kept \in Range(k) : NormalizeTrack(kept).fileId = NormalizeTrack(row).fileId
Distinct(kept, rows) ==
  FoldLeft(LAMBDA k, row : IF row = NoHash \/ Known(k, row) THEN k ELSE Append(k, row), kept, rows)
Whole(rows) == Distinct(<<>>, rows)

LatestLoad(m) == m.epoch = lib.epoch
Emitted(o) == [tracks |-> o.tracks, rows |-> asked.rows, still |-> asked.still, counted |-> asked.counted]
TracksLoaded(m) ==
  /\ m.kind = "tracks" /\ m.done
  /\ IF ~LatestLoad(m) THEN wire' = wire \ {m} /\ UNCHANGED <<lib, played>>
     ELSE LET hashes == [i \in DOMAIN m.rows |-> m.rows[i].hash]
              o      == [lib.open EXCEPT !.total = Max({@, m.total})]
              again  == m.rows # <<>> /\ m.rows \in o.pages
              n      == [o EXCEPT !.pages = @ \cup {m.rows}, !.tracks = Distinct(@, hashes)]
              ended  == (n.total > 0 /\ Len(n.tracks) >= n.total) \/ Len(m.rows) < PageSize
              stuck  == m.page >= PageLimit \/ n.tracks = o.tracks
              x      == IF ~m.ok THEN [lib.open EXCEPT !.loading = FALSE]
                        ELSE IF again THEN [o EXCEPT !.loading = FALSE]
                        ELSE IF ended THEN [n EXCEPT !.loading = FALSE, !.complete = TRUE, !.total = Len(n.tracks)]
                        ELSE [n EXCEPT !.loading = ~stuck]
              plays  == x.complete /\ ~again /\ m.ok /\ x.pending > 0
          IN /\ lib' = [lib EXCEPT !.open = IF plays THEN [x EXCEPT !.pending = 0] ELSE x]
             /\ wire' = (wire \ {m}) \cup
                  IF x.loading /\ m.ok /\ ~again THEN {Ask("tracks", m.epoch, x.id, m.page + 1)} ELSE {}
             /\ played' = IF plays /\ x.pending <= Len(x.tracks) THEN Emitted(x) ELSE played
  /\ UNCHANGED <<shelf, asked>>

(* play(index): while the list loads it waits for the end of the load. *)
play(index) ==
  /\ index <= Len(lib.open.tracks)
  /\ IF lib.open.loading THEN lib' = [lib EXCEPT !.open.pending = index] /\ UNCHANGED played
     ELSE IF ~lib.open.complete THEN lib' = [lib EXCEPT !.open.pending = 0] /\ UNCHANGED played
     ELSE played' = Emitted(lib.open) /\ UNCHANGED lib
  /\ UNCHANGED <<shelf, wire, asked>>

-----------------------------------------------------------------------------
(* The upstream answers, through PlaylistService; a list changes under a load. *)
ListRows == LET rows == {[gid |-> id, listid |-> 1, named |-> TRUE] : id \in Owned}
            IN  CHOOSE list \in [1..Cardinality(rows) -> rows] : IsInjective(list)
Serve(m) ==
  /\ ~m.done
  /\ \E exchange \in {"ok", "network"} :
       /\ exchange = "ok" \/ asked.trouble < MaxTrouble
       /\ LET r == IF m.kind = "tracks" THEN GetTracks(shelf[m.id], m.page, exchange, m.id \notin Silent)
                   ELSE GetUserPlaylists(TRUE, exchange, -1, 1, Rows(ListRows, m.page))
          IN wire' = (wire \ {m}) \cup
               {[m EXCEPT !.done = TRUE, !.ok = IF m.kind = "lists" THEN r.status = 1 ELSE r.answer.status = 1,
                          !.rows = r.rows, !.total = IF m.kind = "lists" THEN 0 ELSE r.total]}
       /\ asked' = IF exchange = "ok" THEN asked ELSE [asked EXCEPT !.trouble = @ + 1]
  /\ UNCHANGED <<lib, shelf, played>>
Edit(id) ==
  /\ asked.edits < MaxEdits /\ Len(shelf[id]) > 1
  /\ shelf' = [shelf EXCEPT ![id] = Tail(@)]
  /\ asked' = [asked EXCEPT !.edits = @ + 1, !.still = @ /\ id # lib.open.id]
  /\ UNCHANGED <<lib, wire, played>>

LibraryNext ==
  \/ \E a \in Accounts \cup {Nobody} : setAccount(a)
  \/ ready \/ refreshPlaylists \/ morePlaylists \/ retryTracks \/ cancelTracks
  \/ \E id \in Owned \cup Public : openPlaylist(id) \/ openPublicPlaylist(id) \/ Edit(id)
  \/ \E i \in 1..3 : play(i)
  \/ \E m \in wire : Serve(m) \/ ListsLoaded(m) \/ TracksLoaded(m)

-----------------------------------------------------------------------------
(* The songs of a list: every one, once, in its order, a song being a file id; of
   a list without an announced total perhaps those of its first pages only, but
   no less than a page of songs. *)
AsFarAsKnown(songs, rows, counted) ==
  \E n \in 0..Len(rows) :
    /\ songs = Whole(SubSeq(rows, 1, n))
    /\ n = Len(rows) \/ (~counted /\ Len(songs) >= PageSize)

(* What is played is of the list that was selected when it was loaded, never of a
   list that was left; and if that one did not change under the load, it is all
   the program could know of it. *)
PlaysWhole ==
  /\ Range(played.tracks) \subseteq Range(played.rows)
  /\ played.still => AsFarAsKnown(played.tracks, played.rows, played.counted)
=============================================================================
