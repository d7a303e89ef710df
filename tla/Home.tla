-------------------------------- MODULE Home --------------------------------
(* desktop/qt/src/home/HomeController.cpp: the first page.  A refresh asks for
   four things at once (songs, two shelves of playlists, albums); an account that
   has no recommendations is shown the top songs; and the albums that have no
   name are asked for a few at a time.  Answers come in any order, also those of
   cancelled requests.

   The page is told by AccountController who is signed in and hands its songs to
   the player (setFeed).  A song stands for its album; what was asked for an
   account says so. *)
EXTENDS PlaylistService

CONSTANTS Accounts, NoOne,
          Albums,           \* of a day's songs, in their order
          MetadataAtOnce,   \* 2 in the code
          MetadataAlbums,   \* 12 in the code
          MaxGenerations, MaxDays   \* bounds for TLC

VARIABLES home, homeCalls, feed, today
homeVars == <<home, homeCalls, feed, today>>

Sorts == {2, 5}
At(page, calls, rows) == [page |-> page, calls |-> calls, feed |-> rows]
Now   == At(home, homeCalls, feed)
Becomes(s) == home' = s.page /\ homeCalls' = s.calls /\ feed' = s.feed
Asked(what, page, id) == [what |-> what, gen |-> page.gen, meta |-> page.meta, id |-> id]
Bounded == home.gen < MaxGenerations /\ home.meta < MaxGenerations

HomeInit ==
  /\ home = [account |-> NoOne, gen |-> 0, meta |-> 0, pending |-> 0, metadata |-> 0,
             ready |-> FALSE, active |-> TRUE, day |-> 0, daily |-> <<>>, attempted |-> {},
             lists |-> [x \in Sorts |-> <<>>], albums |-> FALSE]
  /\ homeCalls = {} /\ feed = <<>> /\ today = 1

-----------------------------------------------------------------------------
(* loadAlbumMetadata: a song whose album has a name already is passed over. *)
Missing(page, row) == row.album \notin page.attempted /\ ~row.named
AskAlbum(s, row) ==
  IF s.page.metadata < MetadataAtOnce /\ Cardinality(s.page.attempted) < MetadataAlbums
       /\ Missing(s.page, row)
  THEN At([s.page EXCEPT !.metadata = @ + 1, !.attempted = @ \cup {row.album}],
          s.calls \cup {Asked("album", s.page, row.album)}, s.feed)
  ELSE s
LoadAlbumMetadata(s) ==
  IF s.page.active /\ s.page.ready THEN FoldLeft(AskAlbum, s, s.page.daily) ELSE s

Refresh(s) ==
  IF ~s.page.ready \/ s.page.pending > 0 THEN s
  ELSE LET page == [s.page EXCEPT !.gen = @ + 1, !.meta = @ + 1, !.metadata = 0,
                                  !.attempted = {}, !.day = today, !.pending = 4]
           songs == IF page.account = NoOne THEN "top" ELSE "recommend"
       IN  At(page, s.calls \cup {Asked(songs, page, page.account), Asked("albums", page, 0)}
                            \cup {Asked("lists", page, x) : x \in Sorts}, s.feed)

-----------------------------------------------------------------------------
\* The gateway is ready, once.
Ready ==
  /\ ~home.ready
  /\ LET s == At([home EXCEPT !.ready = TRUE], homeCalls, feed)
     IN  Becomes(IF home.pending = 0 /\ home.day = 0 THEN Refresh(s) ELSE s)
  /\ UNCHANGED today

\* A mutant: the requests of the account before are left to count.
SetAccountOnly(account) ==
  /\ Bounded /\ home.account # account
  /\ Becomes(Refresh(At([home EXCEPT !.account = account, !.gen = @ + 1, !.daily = <<>>,
                                     !.albums = FALSE, !.lists = [x \in Sorts |-> <<>>]],
                        homeCalls, <<>>)))
  /\ UNCHANGED today
\* setAccount(): everything shown goes, and is asked for again.
SetAccount(account) ==
  /\ Bounded /\ home.account # account
  /\ Becomes(Refresh(At([home EXCEPT !.account = account, !.gen = @ + 1, !.daily = <<>>,
                                     !.albums = FALSE, !.lists = [x \in Sorts |-> <<>>],
                                     !.pending = 0],
                        homeCalls, <<>>)))
  /\ UNCHANGED today

PressRefresh == Bounded /\ Becomes(Refresh(Now)) /\ UNCHANGED today

\* Leaving the page gives up the albums; coming back goes on, or begins a new day.
SetActive ==
  /\ Bounded
  /\ LET page == [home EXCEPT !.active = ~@]
         s == At(page, homeCalls, feed)
     IN  Becomes(IF home.active THEN At([page EXCEPT !.meta = @ + 1, !.metadata = 0], homeCalls, feed)
                 ELSE IF home.day # today THEN Refresh(s) ELSE LoadAlbumMetadata(s))
  /\ UNCHANGED today

NextDay  == today < MaxDays /\ today' = today + 1 /\ UNCHANGED <<home, homeCalls, feed>>
DayTimer == /\ home.active /\ home.day # today /\ Bounded
            /\ Becomes(Refresh(Now)) /\ UNCHANGED today

-----------------------------------------------------------------------------
(* The callbacks.  Each forgets its request; one of another generation does
   nothing else. *)
Rest(c)  == homeCalls \ {c}
Heard(c) == At(home, Rest(c), feed)
Done(s)  == At([s.page EXCEPT !.pending = @ - 1], s.calls, s.feed)
\* A mutant: an answer is taken whatever was asked since.
AnyOwner(c) == TRUE
Own(c)   == c.gen = home.gen

\* Songs, of the account or the top ones, which also replace the songs of an
\* account that has none.
HearSongs(c) ==
  /\ c.what \in {"recommend", "top"}
  /\ \E rows \in {<<>>, Albums} :
       LET songs == [i \in DOMAIN rows |-> [album |-> rows[i], named |-> FALSE, of |-> c.id]]
           shown == At([home EXCEPT !.daily = songs], Rest(c), songs)
       IN  Becomes(IF ~Own(c) THEN Heard(c)
                   ELSE IF rows = <<>> /\ c.what = "recommend"
                   THEN At(home, Rest(c) \cup {[c EXCEPT !.what = "top"]}, feed)
                   ELSE Done(IF rows = <<>> THEN Heard(c) ELSE LoadAlbumMetadata(shown)))

\* A shelf of playlists keeps what it showed when the new rows do not come.
HearLists(c) ==
  /\ c.what = "lists"
  /\ \E exchange \in {"ok", "network"} :
       LET answer == GetTopPlaylists(exchange, <<c.id>>)
           lists == [home.lists EXCEPT ![c.id] = answer.rows]
       IN  Becomes(IF ~Own(c) THEN Heard(c)
                   ELSE Done(IF answer.status = 1
                             THEN At([home EXCEPT !.lists = lists], Rest(c), feed) ELSE Heard(c)))

HearAlbums(c) ==
  /\ c.what = "albums"
  /\ \E some \in BOOLEAN :
       Becomes(IF Own(c) THEN Done(At([home EXCEPT !.albums = some], Rest(c), feed)) ELSE Heard(c))

\* The name of one album; the next is asked for.
Named(rows, album) == [i \in DOMAIN rows |-> [rows[i] EXCEPT !.named = @ \/ rows[i].album = album]]
HearAlbum(c) ==
  /\ c.what = "album"
  /\ \E found \in BOOLEAN :
       LET page == [home EXCEPT !.metadata = @ - 1]
           rows == Named(home.daily, c.id)
           named == At([page EXCEPT !.daily = rows], Rest(c), rows)
       IN  Becomes(IF ~Own(c) \/ c.meta # home.meta THEN Heard(c)
                   ELSE LoadAlbumMetadata(IF found THEN named ELSE At(page, Rest(c), feed)))

HomeNext ==
  \/ Ready \/ PressRefresh \/ SetActive \/ NextDay \/ DayTimer
  \/ \E account \in Accounts \cup {NoOne} : SetAccount(account)
  \/ \E c \in homeCalls : /\ HearSongs(c) \/ HearLists(c) \/ HearAlbums(c) \/ HearAlbum(c)
                          /\ UNCHANGED today

-----------------------------------------------------------------------------
\* The spinner turns exactly while something the page waits for is on its way,
\* and so do the two places for album names: a counter that lost its request
\* would refuse every later refresh.
LoadingEnds ==
  /\ home.pending = Cardinality({c \in homeCalls : Own(c) /\ c.what # "album"})
  /\ home.metadata = Cardinality({c \in homeCalls : Own(c) /\ c.meta = home.meta /\ c.what = "album"})
  /\ home.metadata <= MetadataAtOnce

\* The songs on the page, and the ones the player was given, are the account's
\* own, and each shelf shows its own list.
HomeIsOfAccount ==
  /\ feed = home.daily
  /\ \A i \in DOMAIN home.daily : home.daily[i].of = home.account
  /\ \A x \in Sorts : home.lists[x] \in {<<>>, <<x>>}
=============================================================================
