-------------------------------- MODULE Pages --------------------------------
(* The pages of Qt that live on late answers: the favourites, the library, the *)
(* account and its entitlements, the first page and what was played.           *)
EXTENDS ServiceSuites, Integers, Sequences, FiniteSets

CONSTANTS Accounts, Nobody, NoHash, AudioId, PageLimit, ShelfPage,  \* of several pages
          FavoriteSongs, Clouds, Local, FavoritePage, MaxWishes, MaxLoads, MaxSwitches,
          Owned, Public, NoList, Shelves, Silent, MaxOpens, MaxEdits, MaxTrouble,          \* Library
          Failures, MaxAttempts, MaxSignings, MaxTroubles,          \* Account
          Entitlements, Confirmations, VipTicks, MaxAsks, MaxRefusals, MaxGrants,  \* Vip
          HomeAlbums, HomeAtOnce, HomeLookups, MaxHomes, MaxDays,   \* Home
          Played, Remote, Kept, Recently, MaxPlays, MaxRefreshes    \* History

VARIABLES fav, disk, cloud, net, told,
          lib, shelf, wire, played, asked,
          page, calls, native, vip, asks, products, wallClock,
          home, homeCalls, feed, today,
          history, recent, heard, instant

Favs      == INSTANCE Favorites WITH Songs <- FavoriteSongs, PageSize <- FavoritePage, MaxTrouble <- 1
Lib       == INSTANCE Library WITH PageSize <- ShelfPage
Panel     == INSTANCE Vip WITH NoOne <- Nobody, MaxSessions <- MaxSignings, LastTick <- VipTicks,
                              clock <- wallClock
First     == INSTANCE Home WITH NoOne <- Nobody, PageSize <- ShelfPage, Albums <- HomeAlbums,
                                MetadataAtOnce <- HomeAtOnce, MetadataAlbums <- HomeLookups,
                                MaxGenerations <- MaxHomes
Lately    == INSTANCE History WITH NoOne <- Nobody

\* The bounds are numbers, and an account has finitely many products.
ASSUME PanelAssumption == /\ MaxAttempts \in Nat \ {0} /\ MaxTroubles \in Nat
                          /\ \A rows \in Entitlements : IsFiniteSet(rows) /\ \A row \in rows : row.end \in Nat
\* The songs of a day are a list, and two names of albums are asked for at once.
ASSUME HomeAssumption == /\ HomeAlbums \in Seq({HomeAlbums[i] : i \in DOMAIN HomeAlbums})
                         /\ HomeAtOnce \in Nat
\* What the upstream knows of is a list, of records with their times.
ASSUME HistoryAssumption == /\ Kept \in Nat /\ Recently \in Int
                            /\ \A rows \in Remote : /\ rows \in Seq({rows[i] : i \in DOMAIN rows})
                                                    /\ \A i \in DOMAIN rows : rows[i].at \in Int
\* The upstream's lists are lists, and a page of one has a size.
ASSUME FavoritesAssumption ==
  /\ FavoritePage \in Int
  /\ \A lists \in Clouds : /\ DOMAIN lists = Accounts
                           /\ \A x \in Accounts : lists[x] \in Seq({lists[x][i] : i \in DOMAIN lists[x]})

\* Lists are lists; the native side reads no page beyond the thousandth and none
\* of more than two hundred rows, and the controller asks for neither.
ASSUME LibraryAssumption ==
  /\ ShelfPage \in 1..200 /\ PageLimit \in 1..1000 /\ NoList \notin Owned \cup Public
  /\ \A lists \in Shelves : /\ DOMAIN lists = Owned \cup Public
                            /\ \A id \in Owned \cup Public : lists[id] \in Seq({lists[id][i] : i \in DOMAIN lists[id]})

favVars       == <<fav, disk, cloud, net, told>>
libVars       == <<lib, shelf, wire, played, asked>>
accountVars   == <<page, calls, native>>
vipVars       == <<vip, asks, products, wallClock>>
homeVars      == <<home, homeCalls, feed, today>>
historyVars   == <<history, recent, heard, instant>>
pageVars      == <<favVars, libVars, accountVars, vipVars, homeVars, historyVars>>

Until(product, end) == [product |-> product, flag |-> TRUE, end |-> end]

\* Somebody is signed in when the entitlements are looked at, with products of
\* the lower kind, and the other account has the higher one: a claim has both
\* its stages to go through and a sign-out in between shows.
SignedIn == /\ native.user # Nobody
            /\ \A x \in Accounts :
                 products.of[x] = IF x = native.user THEN {Until("tvip", 1), Until("tvip", 2)}
                                  ELSE {Until("svip", 1), Until("tvip", 0)}

PagesInit ==
  /\ \/ suite = "favorites" /\ Favs!FavoritesInit
     \/ suite # "favorites" /\ fav = Off /\ disk = Off /\ cloud = Off /\ net = Off /\ told = Off
  /\ \/ suite = "library" /\ Lib!LibraryInit
     \/ suite # "library" /\ lib = Off /\ shelf = Off /\ wire = Off /\ played = Off /\ asked = Off
  /\ \/ suite = "account" /\ Panel!AccountInit(0, 0)
     \/ suite = "vip" /\ Panel!VipInit(MaxAttempts - 1, MaxTroubles) /\ SignedIn
     \/ suite \notin {"account", "vip"} /\ page = Off /\ calls = Off /\ native = Off
  /\ suite # "vip" => vip = Off /\ asks = Off /\ products = Off /\ wallClock = Off
  /\ \/ suite = "home" /\ First!HomeInit
     \/ suite # "home" /\ home = Off /\ homeCalls = Off /\ feed = Off /\ today = Off
  /\ \/ suite = "history" /\ Lately!HistoryInit
     \/ suite # "history" /\ history = Off /\ recent = Off /\ heard = Off /\ instant = Off

PagesNext ==
  /\ \/ suite = "favorites" /\ Favs!FavoritesNext
     \/ suite # "favorites" /\ UNCHANGED favVars
  /\ \/ suite = "library" /\ Lib!LibraryNext
     \/ suite # "library" /\ UNCHANGED libVars
  /\ \/ suite = "account" /\ Panel!AccountNext
     \/ suite = "vip" /\ Panel!VipNext
     \/ suite \notin {"account", "vip"} /\ UNCHANGED accountVars
  /\ suite # "vip" => UNCHANGED vipVars
  /\ \/ suite = "home" /\ First!HomeNext
     \/ suite # "home" /\ UNCHANGED homeVars
  /\ \/ suite = "history" /\ Lately!HistoryNext
     \/ suite # "history" /\ UNCHANGED historyVars

PagesSpec == PagesInit /\ [][UNCHANGED suite /\ PagesNext]_<<suite, pageVars>>

-----------------------------------------------------------------------------
\* What is shown and sent as favourites is the account's own, and so are the songs
\* of the first page and the records of what was played (Favorites, Home, History).
PagesAreOfAccount == /\ suite = "favorites" => Favs!FavoritesAreOfAccount
                     /\ suite = "home" => First!HomeIsOfAccount
                     /\ suite = "history" => Lately!HistoryIsOfAccount

\* A list is played whole, each file id of it once; one without an announced total
\* perhaps only as far as its full pages go, which end the load; and never mixed
\* with another (Library).
PlaysWhole == suite = "library" => Lib!PlaysWhole

\* The panel never goes back to an older session, nor its entitlements to an
\* older answer (Account, Vip).
SessionsMoveForward ==
  [][/\ suite \in {"account", "vip"} => Panel!MovesForward
     /\ suite = "vip" => Panel!NewerAnswers]_<<suite, pageVars>>

\* The tier shown is what the account's products grant (Vip).
TierIsTrue == suite = "vip" => Panel!TierIsTrue

\* A code on the screen is being polled, a claim that is busy is being worked
\* on, a page that loads is waiting for something (Account, Vip, Home, History).
PanelIsAlive == /\ suite \in {"account", "vip"} => Panel!CodeIsAlive
                /\ suite = "vip" => Panel!ClaimIsInHand
                /\ suite = "home" => First!LoadingEnds
                /\ suite = "history" => Lately!HistoryIsAwaited

\* A claim that was stopped begins nothing more (Vip).
StopIsFinal == [][suite = "vip" => Panel!NothingBegun]_<<suite, pageVars>>

\* A wish the upstream never decided on stays in the outbox (Favorites).
PendingIsKept == suite = "favorites" => Favs!PendingIsKept
=============================================================================
