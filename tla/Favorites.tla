------------------------------ MODULE Favorites ------------------------------
(* desktop/qt/src/library/FavoriteController.cpp: the liked list of the account
   in the cloud, what the program has loaded of it, and the outbox of changes
   that are not confirmed yet, kept per account in favorites.ini; the requests
   are answered by PlaylistService in any order, a cancelled one too. *)
EXTENDS PlaylistService

CONSTANTS Accounts, Nobody, Songs,
          Clouds, Local,         \* the liked lists, and the local favourites, to begin with
          PageLimit,             \* 40
          MaxWishes, MaxLoads, MaxSwitches, MaxTrouble  \* bounds

VARIABLES
  fav,      \* the controller
  disk,     \* favorites.ini: the outbox of each account, the local favourites
  cloud,    \* the liked list of each account
  net,      \* requests under way or answered and not delivered
  told      \* history: what each account's list was seen to hold; wishes; counts
favVars == <<fav, disk, cloud, net, told>>

Fresh == [account |-> Nobody, generation |-> 0, load |-> 0, confirmed |-> {}, fileIds |-> {},
          pages |-> {}, loading |-> FALSE, complete |-> FALSE, mutating |-> FALSE,
          reload |-> FALSE, total |-> 0, outbox |-> <<>>, liked |-> FALSE]
FavoritesInit ==
  /\ fav = Fresh
  /\ disk = [outbox |-> [a \in Accounts |-> <<>>], local |-> Local]
  /\ cloud \in Clouds
  /\ net = {}
  /\ told = [seen |-> cloud, wish |-> [a \in Accounts |-> [s \in Songs |-> "none"]],
             wishes |-> 0, loads |-> 0, switches |-> 0, trouble |-> 0]

LoggedIn == fav.account # Nobody
Wanted(outbox, s) == {i \in DOMAIN outbox : outbox[i].song = s}
IsFavorite(s) ==
  IF ~LoggedIn THEN s \in disk.local
  ELSE IF Wanted(fav.outbox, s) # {} THEN fav.outbox[Min(Wanted(fav.outbox, s))].desired
  ELSE s \in fav.confirmed
Without(outbox, s) == SelectSeq(outbox, LAMBDA o : o.song # s)

(* saveOutbox(), of the account that is set. *)
Saved(d, f) == [d EXCEPT !.outbox[f.account] = f.outbox]
Send(kind, f, page, song, rev) ==
  [kind |-> kind, account |-> f.account, generation |-> f.generation, load |-> f.load,
   page |-> page, song |-> song, rev |-> rev, result |-> "none", rows |-> <<>>, total |-> 0]

-----------------------------------------------------------------------------
(* What a step does to the controller, the file, the net and the wishes, before
   flushNext() or retry() goes on from there: [f, d, n, w]. *)
World(f, d, n) == [f |-> f, d |-> d, n |-> n, w |-> told.wish]
Wished(f, s, wish) == [told.wish EXCEPT ![f.account][s] = wish]

(* retry(): from the first page again, after the mutation that is under way. *)
Retry(x) ==
  IF x.f.account = Nobody \/ ~x.f.liked THEN x
  ELSE IF x.f.mutating THEN [x EXCEPT !.f.reload = TRUE]
  ELSE LET f == [x.f EXCEPT !.reload = FALSE, !.load = @ + 1, !.pages = {}, !.total = 0,
                            !.loading = TRUE, !.complete = FALSE]
       IN [x EXCEPT !.f = f, !.n = @ \cup {Send("page", f, 1, NoHash, 0)}]

(* flushNext(): the operations that already hold are dropped, in order; the
   first that does not is sent, once its file id is known. *)
Holds(f, o) == (o.song \in f.confirmed) = o.desired
FlushNext(x) ==
  IF x.f.mutating \/ ~x.f.complete \/ x.f.account = Nobody \/ x.f.outbox = <<>> THEN x
  ELSE LET due  == {i \in DOMAIN x.f.outbox : ~Holds(x.f, x.f.outbox[i])}
           rest == IF due = {} THEN <<>> ELSE SubSeq(x.f.outbox, Min(due), Len(x.f.outbox))
           gone == {x.f.outbox[i].song : i \in 1..Len(x.f.outbox) - Len(rest)}
           f    == [x.f EXCEPT !.outbox = rest]
           w    == [x.w EXCEPT ![f.account] = [s \in Songs |-> IF s \in gone THEN "none" ELSE @[s]]]
           y    == [x EXCEPT !.f = f, !.d = Saved(@, f), !.w = w]
       IN IF rest = <<>> \/ (~rest[1].desired /\ rest[1].song \notin f.fileIds) THEN y
          ELSE [y EXCEPT !.f = [f EXCEPT !.mutating = TRUE],
                  !.n = @ \cup {Send(IF rest[1].desired THEN "add" ELSE "remove", f, 0, rest[1].song, rest[1].rev)}]
Become(x) == fav' = x.f /\ disk' = x.d /\ net' = x.n

-----------------------------------------------------------------------------
setAccount(account) ==
  /\ account # fav.account /\ told.switches < MaxSwitches
  /\ fav' = [Fresh EXCEPT !.account = account, !.generation = fav.generation + 1, !.load = fav.load + 1,
               !.outbox = IF account = Nobody THEN <<>> ELSE disk.outbox[account]]
  /\ told' = [told EXCEPT !.switches = @ + 1]
  /\ UNCHANGED <<disk, cloud, net>>      \* cancelled requests are answered all the same

(* The account's lists arrive, the liked one among them, or are refreshed. *)
setPlaylists ==
  /\ LoggedIn /\ ~(fav.liked /\ (fav.loading \/ fav.complete)) /\ told.loads < MaxLoads
  /\ Become(Retry(World([fav EXCEPT !.liked = TRUE], disk, net)))
  /\ told' = [told EXCEPT !.loads = @ + 1] /\ UNCHANGED cloud
retry ==
  /\ LoggedIn /\ fav.liked /\ told.loads < MaxLoads
  /\ Become(Retry(World(fav, disk, net)))
  /\ told' = [told EXCEPT !.loads = @ + 1] /\ UNCHANGED cloud

toggle(s) ==
  /\ told.wishes < MaxWishes
  /\ IF ~LoggedIn
     THEN /\ disk' = [disk EXCEPT !.local = IF s \in @ THEN @ \ {s} ELSE @ \cup {s}]
          /\ told' = [told EXCEPT !.wishes = @ + 1]
          /\ UNCHANGED <<fav, cloud, net>>
     ELSE /\ fav.complete
          /\ LET desired == ~IsFavorite(s)
                 f == [fav EXCEPT !.outbox = Append(Without(@, s),
                          [song |-> s, desired |-> desired, rev |-> told.wishes + 1])]
                 wish == IF desired THEN "liked" ELSE "unliked"
                 x == FlushNext([World(f, Saved(disk, f), net) EXCEPT !.w = Wished(f, s, wish)])
             IN Become(x) /\ told' = [told EXCEPT !.wishes = @ + 1, !.wish = x.w]
          /\ UNCHANGED cloud

syncLocal ==
  /\ LoggedIn /\ fav.complete /\ told.wishes < MaxWishes
  /\ \E s \in disk.local : ~IsFavorite(s)
  /\ LET s == CHOOSE s \in disk.local : ~IsFavorite(s)
         f == [fav EXCEPT !.outbox = Append(@, [song |-> s, desired |-> TRUE, rev |-> told.wishes + 1])]
         x == FlushNext([World(f, Saved(disk, f), net) EXCEPT !.w = Wished(f, s, "liked")])
     IN Become(x) /\ told' = [told EXCEPT !.wishes = @ + 1, !.wish = x.w]
  /\ UNCHANGED cloud

(* A change of the liked list from the page of that list, outside the outbox. *)
modifyPlaylist(s, kind) ==
  /\ LoggedIn /\ fav.liked /\ told.wishes < MaxWishes
  /\ kind = "remove" => s \in fav.fileIds
  /\ net' = net \cup {Send(kind, fav, 0, s, 0)}
  /\ told' = [told EXCEPT !.wishes = @ + 1] /\ UNCHANGED <<fav, disk, cloud>>

-----------------------------------------------------------------------------
(* The native side runs a request at some time: PlaylistService. *)
Seen(seen, m) == [seen EXCEPT ![m.account] = IF m.song \in Range(@) THEN @ ELSE Append(@, m.song)]
Serve(m) ==
  /\ m.result = "none"
  /\ \E exchange \in {"ok", "refused", "network", "deadline"}, reached, counted \in BOOLEAN :
       /\ reached \in Reached(exchange)
       /\ (exchange \in {"ok", "refused"} \/ told.trouble < MaxTrouble)
       /\ LET list == cloud[m.account]
              page == GetTracks(list, m.page, exchange, counted)
              did  == reached /\ m.kind # "page"
              answer == IF m.kind = "page" THEN page.answer
                        ELSE IF m.kind = "add" THEN AddPlaylistTracksStructured(<<m.song>>, exchange)
                        ELSE PassThrough(exchange)
              result == IF answer.status = 1 THEN "ok" ELSE IF answer.transport THEN "transport" ELSE "refused"
          IN /\ net' = (net \ {m}) \cup {[m EXCEPT !.result = result, !.rows = page.rows, !.total = page.total]}
             /\ cloud' = IF ~did THEN cloud
                         ELSE [cloud EXCEPT ![m.account] =
                                 IF m.kind = "remove" THEN DeletePlaylistTracks(@, NormalizeTrack(m.song).fileId)
                                 ELSE IF m.song \in Range(@) THEN @ ELSE SendAddTracksPayload(@, <<m.song>>)]
             /\ told' = [told EXCEPT !.trouble = IF exchange \in {"ok", "refused"} THEN @ ELSE @ + 1,
                           !.seen = IF did /\ m.kind = "add" THEN Seen(@, m) ELSE @,
                           !.wish = IF m.rev # 0 /\ exchange \in {"ok", "refused"}
                                    THEN [@ EXCEPT ![m.account][m.song] = "none"] ELSE @]
  /\ UNCHANGED <<fav, disk>>

(* loadPage's answer: the page is added; a short page, the announced total, a
   repeated page or the page limit ends the load. *)
OwnPage(m)  == m.load = fav.load
PageLoaded(m) ==
  /\ m.kind = "page" /\ m.result # "none"
  /\ IF ~OwnPage(m) THEN Become(World(fav, disk, net \ {m})) /\ UNCHANGED told
     ELSE IF m.result # "ok"
     THEN Become(World([fav EXCEPT !.loading = FALSE], disk, net \ {m})) /\ UNCHANGED told
     ELSE LET first == IF m.page = 1 THEN [fav EXCEPT !.confirmed = {}, !.fileIds = {}] ELSE fav
              total == Max({fav.total, m.total})
              again == m.rows # <<>> /\ m.rows \in fav.pages
              songs == {m.rows[i].hash : i \in DOMAIN m.rows} \ {NoHash}
              f     == [first EXCEPT !.total = total, !.pages = @ \cup {m.rows},
                                     !.confirmed = @ \cup songs, !.fileIds = @ \cup songs]
              short == Len(m.rows) < PageSize
              all   == Cardinality(f.confirmed) >= total
              ended == (total > 0 /\ all) \/ short
              g     == IF again THEN [first EXCEPT !.total = total, !.loading = FALSE]
                       ELSE IF ended THEN [f EXCEPT !.loading = FALSE, !.complete = total = 0 \/ all]
                       ELSE IF m.page >= PageLimit THEN [f EXCEPT !.loading = FALSE] ELSE f
              next  == IF g.loading THEN {Send("page", g, m.page + 1, NoHash, 0)} ELSE {}
              x     == World(g, disk, (net \ {m}) \cup next)
              y     == IF g.complete /\ ~again THEN FlushNext(x) ELSE x
          IN Become(y) /\ told' = [told EXCEPT !.wish = y.w]
  /\ UNCHANGED cloud

(* The answer of an operation of the outbox; what was not done because of the
   transport stays in it, everything else leaves it. *)
AnyOwner(m) == TRUE
OwnRequest(m) == m.generation = fav.generation
Mutated(m) ==
  /\ m.kind # "page" /\ m.rev # 0 /\ m.result # "none"
  /\ IF ~OwnRequest(m) THEN Become(World(fav, disk, net \ {m})) /\ UNCHANGED told
     ELSE LET f == [fav EXCEPT !.mutating = FALSE,
                      !.confirmed = IF m.result # "ok" THEN @
                                    ELSE IF m.kind = "add" THEN @ \cup {m.song} ELSE @ \ {m.song},
                      !.fileIds = IF m.result = "ok" /\ m.kind = "remove" THEN @ \ {m.song} ELSE @]
              g == [f EXCEPT !.outbox = SelectSeq(@, LAMBDA o : o.rev # m.rev)]
              x == World(g, Saved(disk, g), net \ {m})
              y == IF (m.kind = "add" /\ m.result = "ok") \/ g.reload THEN Retry(x) ELSE FlushNext(x)
          IN IF m.result = "transport" THEN Become(World(f, disk, net \ {m})) /\ UNCHANGED told
             ELSE Become(y) /\ told' = [told EXCEPT !.wish = y.w]
  /\ UNCHANGED cloud
Modified(m) ==
  /\ m.kind # "page" /\ m.rev = 0 /\ m.result # "none"
  /\ LET x == World(fav, disk, net \ {m})
     IN Become(IF m.generation = fav.generation /\ m.result = "ok" THEN Retry(x) ELSE x)
  /\ UNCHANGED <<cloud, told>>

(* The program ends and starts again: its requests are answered to nobody. *)
Restart ==
  /\ told.switches < MaxSwitches
  /\ fav' = Fresh /\ net' = {} /\ told' = [told EXCEPT !.switches = @ + 1]
  /\ UNCHANGED <<disk, cloud>>

FavoritesNext ==
  \/ \E a \in Accounts \cup {Nobody} : setAccount(a)
  \/ setPlaylists \/ retry \/ syncLocal \/ Restart
  \/ \E s \in Songs : toggle(s) \/ \E kind \in {"add", "remove"} : modifyPlaylist(s, kind)
  \/ \E m \in net : Serve(m) \/ PageLoaded(m) \/ Mutated(m) \/ Modified(m)

-----------------------------------------------------------------------------
(* A late answer of one account's request never marks a song in another's list,
   nor a song that account's list never held. *)
FavoritesAreOfAccount ==
  LoggedIn => fav.confirmed \subseteq Range(told.seen[fav.account])

(* A wish the upstream never decided on is still in the account's outbox, on
   disk: it survives a network failure, a change of account and a restart. *)
PendingIsKept ==
  \A a \in Accounts, s \in Songs :
    told.wish[a][s] # "none" =>
      \E i \in DOMAIN disk.outbox[a] :
         disk.outbox[a][i].song = s /\ disk.outbox[a][i].desired = (told.wish[a][s] = "liked")
=============================================================================
