# BottlePlayer in TLA+

This directory holds the specification of BottlePlayer (a Qt desktop player on a
native C++ service library): TLA+ modules translated from the source, TLC
configurations that check them on small instances, and TLAPS proofs for every
value of the constants. Paths below are relative to the repository's `src/`.

## The system

    QML -> Qt controllers -> NativeGateway ==C ABI==> C_API -> CompatApi -> routes -> services -> HttpClient
                 |                                       |                     |
           PlaybackStore,                        RequestScheduler,      SessionRepository,
           AppearanceController,                 RequestWatchdog,       Database actor,
           DiagnosticWriter, DataMigration       request control        play statistics

Everything of Qt runs on the GUI thread, except the workers of the settings
store, of the diagnostic log and of an import, and the pool of the gateway. A
controller asks, keeps a generation or an epoch, and hears the answer later, if
only a failure, also after it has cancelled. The native side runs requests on a
pool of workers under deadlines of a watchdog, and keeps one database behind an
actor.

| Component | State | Operations | What is hard | What makes it correct |
|---|---|---|---|---|
| Request watchdog (`native/async/RequestWatchdog`) | deadline heap, capacity counter, delivery queue, a claim per request | Arm, Cancel, timer thread, executor pool, teardown | owner against timeout; a bounded queue that pushes back; teardown with deliveries queued and running | one winner per request, exact budget |
| Request scheduler (`native/async/RequestScheduler`) | job queue, image slots, newest tokens, workers, abandoned workers | six submit calls, worker loop, Cancel, two shutdowns, Restart | promise settled once; lost wake-ups; shutdown against a hung worker | no future orphaned, none settled twice, nothing stuck |
| C ABI and request control (`native/core/C_API`, `RequestControlRegistry.h`, `OperationContext.h`) | request ids, cancels that came first; database, api and scheduler of one initialisation | register, cancel, commit, finish; initialise, shut down, handle, statistics | a cancel before, while and after its request; shutdown against callers and jobs inside | a cancel that was accepted stops the commit; the database outlives the work on it |
| Native gateway (`desktop/qt/src/core/NativeGateway`) | pieces of work, cancelled ids, pool | initialise, dispatch, cancel, deliver, destroy | a destructor with work in every stage | everything dispatched returns; the library may be unloaded |
| Database (`native/storage/Database`) | actor queue and state; records; live files and quarantine | open, initialise, submit, close; update one or two records; quarantine | closing against submitters; several processes; a rename that fails, a crash in between | every accepted call returns, pairs stay whole, nothing is lost |
| Identity (`native/storage/SessionRepository`, `compat_routes/LoginRoutes`, `UserRoutes`) | rows of session and device; what each request captured | QR key, check, cancel; logout; patches; registration; lazy refresh; process start | late answers of ended accounts, attempts and devices; a restart in the middle | accounts never mix |
| HTTP client (`native/core/HttpClient`) | attempts, budget, stop reasons; exchanges, registry of states, pool of connects | Get, Post and their interactive forms; callbacks, close, cancel, renewal of the session | budgets at their edges; callbacks after the owner has gone; dead connects | budgets hold, callbacks find their state |
| Song addresses (`native/core/SongUrlService`) | up to five legs, evidence of each | Resolve | slices of one deadline; the evidence of one reply beside the address of another | an answer describes the reply it came from |
| Lyrics (`native/core/LyricService`) | cache bounded in entries, bytes and time | search, detail, invalidation | overlapping searches; a refused candidate in cached lists | limits hold; a refused candidate is forgotten |
| Play statistics (`native/stats/PlayStatsService`, `desktop/qt/src/playback/PlaySession`, `settings/StatsArchive`) | a listen, the table, an import | play, seek, stall, record; queries; export, import, cancel | jumps of the position; records sent twice; an import killed half-way | a listen counts once, for what was heard; the statistics agree |
| Media session and queue (`desktop/qt/src/music/MusicController`) | song, generation, source, quality, place, two timers; queue, radio, loop mode | select, play, retry, switch, seek, close; play, add, move, remove, next | late answers, stale player signals, switches that fail; index shifts, late radio | only the current selection is heard; a switch falls back in place; the mark is what plays |
| Settings (`PlaybackStore`, `AppearanceController`) | dirty values, batch, revisions, timer | set, save, flush, stop | coalescing, failed writes, barriers | no accepted change is lost |
| Diagnostic log (`core/DiagnosticWriter`) | bounded queue with a reserve, counters, two files | enqueue, flush, shutdown, worker | overload; short writes; a crash in an append | losses are counted, files are readable |
| Import and export (`settings/DataMigration`) | files, backups, writers held | prepare, back up, write, restart | a crash half-way; late writers | an import can be taken back and is not undone |
| Library, favourites, history, home (`library/`, `home/`) | epochs, pages, outbox, counters | open, page, refresh, play all; like; record; edit | late pages, edits between pages, changes of account, failures | a page is of one account and one list; wishes are kept |
| Account and VIP (`account/`) | session shown, code, poll; entitlements, claim | begin, poll, cancel, sign out; refresh, claim, confirm, stop | stale answers in every stage | sessions move forward, codes are polled, tiers are true |

`PROJECT.json` lists every part with its sources, modelled or not, and every
hazard with its line and the properties that would catch it.

## Modules

### Threads of the native library

**`DeadlineService`** is what a client of the watchdog may rely on: an armed
request ends by exactly one of its owner or its timeout, and a fired timeout is
delivered unless the service is torn down. **`RequestWatchdog`** implements it:
`ArmReserve`/`ArmInsert` are the two critical sections of `Arm`, `TimerPop`,
`TimerClaim`, `TimerDeliver` and `TimerRetry` one round of the timer thread,
`ExecutorTake`/`ExecutorDone`/`ExecutorExit` an executor, the three `Destroy`
actions the destructor. The abstract alarm is computed from the heap, the
timer's local variables, the queue and the executors.

**`RequestScheduler`** uses the abstract service and models submitters, workers,
the deadline action and the lifecycle calls. Each call of the condition variable
is a step: waiting, `notify_one`, `notify_all` and spurious wake-ups. What each
job is (submit call, image or not, whether its function returns, hangs until it
is cancelled, or hangs for ever) comes from a *workload*, chosen in `Init` from a
constant set, so that one run covers several mixes.

**`Backend`** is the C ABI: every caller makes one call, whose steps are the
locks it takes, the registration of its id, the binding of its stop state, the
submission, and the answer; the thread that initialises and shuts down is `life`.
The scheduler is what `RequestScheduler` shows of it. An api refers to the
database it was made with, so both are one number, and `DatabaseOutlivesWork`
compares the number a job uses with the one that still exists.
**`NativeGateway`** extends it by the Qt side: the pool, the cancelled ids, the
destructor.

### What is stored

**`DatabaseActor`** is the thread all accesses go through; **`JsonStore`** the
conditional update of one or two records while other processes have the file
open; **`DatabaseFiles`** opening, quarantine and what the next start finds.
**`IdentityStore`** models the rows of session and device and the routes that
touch them: a call of `SessionRepository` is one transaction of the actor, hence
one action, which `JsonStore` justifies; a route is the sequence of its
transactions with the network waits between them. A start of the process forgets
the attempt in charge, so the property speaks of the checks under way and of those
begun later with its key. Credentials are abstracted to
the login they were issued for, so that a wrong account in the row is visible.

**`WriteBehindStore`** is the abstract promise of a settings store: changes are
logged, some prefix of them is durable, and success is reported only for durable
ones. **`PlaybackStore`** (worker thread, batch, revisions, `flush`, `stop`) and
**`AppearanceStore`** (timer, retry button, exit) implement it.
**`SettingsMaps`** has the operators on merged batches they share.

**`DiagnosticWriter`** models the bounded queue with its reserve for errors, the
worker, the two files (lines, a torn line, rotation, repair at the next append),
`flush`, `shutdown`, and a crash inside an append followed by a new process.
**`PlayStats`** follows a listen from the positions of the player to the table
and its queries, and the import of an archive. The lists of the busiest songs and
albums have the code's `LIMIT` (an album without an id is told by its song), and any
of the rows that tie may be in them; the list of artists is a split of a text and is
left out. **`DataMigration`** replaces six
files while two of them have writers of their own.

### Requests to the upstream

**`HttpRetry`** is the arithmetic of budgets, attempts and pauses in
milliseconds, for every route deadline the services use, and the two reads of a
poll: `Interrupted` looks at the clock, `Polled` a step later at the flags, and the
deadline may pass, and the watchdog raise its token, in between. Only `Get` asks
again at the end (`Attempted`, `SetStopReason`). The token may be a little early,
since the time of the watchdog is rounded down to a millisecond
(`C_API.cpp:500`); a scheduler that shuts down cancels like a caller. **`HttpTransport`** one
asynchronous exchange per request, with the registry of states the system's
callbacks write into and the pool of connects; a request that cannot be set up
leaves with or without evicting its connect, as the code does. **`SongUrl`** tries its legs in
the order of the code, each with its slice, on replies of every kind the
classification tells apart, with or without an error text of the upstream's own. **`PlaylistService`** is a module of pure operators:
the answer of a route from the request and what came of the exchange. A row carries
the file id 0 when it has no audio id, and a list may have no announced total, for
which the code takes the length of the page.
**`Lyrics`** is the shared cache under several workers.

### Pages and playback

**`Playback`** models the media session of `MusicController`. It lives on one
thread, so a handler is one action, written as an operator on the record `music`
with the name of its function (`applyResume`, `resolveCurrent`,
`recoverQualitySwitch`, ...), because handlers call each other in the middle.
What interleaves: user calls, answers (a cancelled request still answers),
signals of the player, the two deadlines, and the zero timers (`Deferred` runs
all that are due in one turn of the event loop, and before a 20 s deadline that
the same handler restarted). `QMediaPlayer` is external: `setSource` of another
URL may signal the old stream's `LoadedMedia` under the new name, as the code's
comment says, then signals `LoadingMedia`. Positions are the beginning and a
place inside; preview and quality fold into "worth replacing the kept source or
not". **`PlayQueue`** is the queue of the same controller, the radio and the
lyrics of the current song; what becomes of a selected song is `Playback`'s. It
begins with the restored snapshot, marked or not and in radio mode or not.

**`Library`**, **`Favorites`** and **`Home`** stand on `PlaylistService`,
**`History`** on itself, **`Vip`** on **`Account`**, because a change of the
account resets the other panel within the same step. The native side of
`Account` is what `IdentityStore` shows of it: one session and one attempt in
charge. A sign-in or sign-out may be stored and its answer lost (`Unheard`), and a
check may be confirmed without a token. A sign-out that is stored only after its
answer has timed out is placed at that answer.

### How they are put together

`RequestWatchdog` is checked as it stands; `MCRequestScheduler`,
`MCIdentityStore`, `MCPlayback` and `MCBackend` instantiate one component or
composition each. The smaller components share no state with one another, and
are put side by side: a variable `suite`, chosen in `Init`, says which one a
behaviour is about, and the variables of the others stay as they began
(`ServiceSuites`). One run then checks them one after another; the product of
their states is never built, and nothing is lost, since no step of one reads or
writes a variable of another. **`MCStores`** does so for what is kept in files.
**`Upstream`** does so for the calls, the exchange, the addresses, the lyrics and
the queue, **`Pages`** for the controllers that live on late answers; they
declare the assumptions on the constants, state the properties, and are what the
proofs are about (`UpstreamSpec`, `PagesSpec`). **`MCServices`** extends both
with values for TLC, and a behaviour of its `ServicesSpec` is one of `UpstreamSpec` and of
`PagesSpec`.

## Runs

| Run | Instance | What it shows |
|---|---|---|
| `watchdog` | 3 requests, budget 2, delivery queue of 1, 2 executors | one winner per request, the abstract service with its liveness, the budget comes back |
| `scheduler_safety` | 3 jobs, 2 workers, queue of 3, workloads with deadlines, images and "latest" calls; both shutdowns, restarts, threads that fail to start | a promise settles once, by the winner of its claim, and is never orphaned; an expired job leaves the queue; images leave room; a clean stop is clean |
| `scheduler_live` | 2 jobs, 2 workers, functions that return, hang until cancelled, or hang for ever | no wake-up is lost, deadlines settle, lifecycle calls return |
| `backend` | 2 callers, 1 worker, 1 registry entry, 2 threads of the pool, through the gateway or directly with ids that collide | work never outlives its database, requests can be reached by a cancel, an accepted cancel stops the commit, everything dispatched returns, the library may be unloaded when it says so |
| `identity` | 4 requests in five workloads, a restart at any point, every form of stored row | account isolation with one lazy refresh, no late login, credentials only beside their device and generations that advance |
| `playback` | a streamed and a local song, 2 qualities, one backup address, 4 generations | only the selection is heard, qualities are committed by their own media, a switch falls back, in place, and stays timed |
| `stores` | `playback`: 2 keys, 2 callers, 2 updates, 3 revisions; `appearance`: 4 changes; `diagnostics`: queue of 2 with a reserve of 1, files of 2 lines, 3 records, 1 crash; `database`: 2 clients with 2 calls, 2 opens; `records`: 3 processes with 2 updates; `files`: 3 databases, 3 troubles; `profile`: 3 files, 4 changes, 2 imports; `statistics`: 1 listen of 3 seconds, an archive of 4 rows, lists of 2 rows at most, 1 import and 1 trouble | nothing is lost, reordered or written after `stop`; both settings stores implement the abstract one; records are counted and files whole; every call returns; pairs change together; quarantine and import can be undone; a listen counts once, and the statistics agree |
| `services` | `retry`: 16 budgets on both sides of every threshold; `transport`: 3 exchanges, 2 hosts, pool of 1; `url`: 11 and 28 replies; `favorites`, `library`: pages of 1 and 2 rows, 2 accounts, an edit upstream, two songs without an audio id, a list without a total; `queue`: 3 songs, 3 commands, queue of 4; `lyrics`: 2 workers, cache of 2 entries and 3 bytes; `account`, `vip`: 2 codes, 2 sessions, 2 confirmations; `home`, `history`: 2 days, 3 plays | budgets and handles are kept, an answer is of one reply, a page is of one account, lists are played whole, the mark is what plays, the lyric cache is sound, tiers are true, panels are alive, stops are final |
| `backend_again`, `playback_timeout`, `playback_place`, `favorites` | as above | the findings below |

A property of a run is often the conjunction of what its component has to
promise, each part named and commented in the component's module: `SettledOnce`
is `OneSettler`, `NoOrphan` and `ExpiredLeavesQueue`; `AccountIsolation` has
`OneLazyRefresh` in it; `EveryDispatchReturns` has `UnloadIsSafe`;
`RecordsAreKept` the five promises of the log; `PagesAreOfAccount` and
`PanelIsAlive` speak of several pages.

**Bounds** are the constants of the configurations, and each module says what
they bound. Three jobs and two workers are the least with which a queue holds a
job while both workers are busy; two QR attempts with two checks the least with
which a key, an attempt and a check can each be stale on its own; one restart at
every point is what recovery has to survive; four generations allow a load, a
switch, a second switch that overtakes it, and the recovery of either. In `vip` the attempts and the
troubles of `account` are used up but for one sign-in, since its own requests are the
question there; the proof is for any bounds. Two updates and three revisions of the playback store allow one value in a running
batch and a newer one pending, and a failed batch merged back under it; larger
numbers are covered by its proof. Files of two lines rotate within three
records. Three processes are a writer, its competitor and one that dies. The
budgets of `retry` are on, below and above the places where the code changes its
mind (100, 500, 1000, 1500, 2000 and 5500 ms). Pages of one or two rows make a
list of three rows end on, before and after a page border. The radio keeps no heard
row (100 in the code), so that it cuts the queue within three commands; the lists of
statistics have two rows at most (100), so that they are full with three songs. The cache of two
entries and three bytes is full by either count. `CHECK_DEADLOCK FALSE` is set
because requests are finite and the system may come to rest; that nobody is left
waiting is stated by the liveness properties.

**Symmetry** is used where the values are alike: the two requests of one host and
the two accounts in `services`, the two qualities in `playback`. No run with a
symmetry has a liveness property.

**Fairness.** Threads of the watchdog, the scheduler, the playback store, the
diagnostic writer and the database are weakly fair: they are OS threads in a loop
whose waits are condition variables with a timeout or a notification. `TimerPop`
is strongly fair, because the timer pops each expired entry while others come and
go. A user function is fair only where its workload says it returns; in `backend`
a job has no fairness at all, and its call returns through its deadline. Callers
inside a call go on; new calls, cancellations, imports and shutdowns have no
fairness. The pages and the media session are checked for safety only: the
network, the player and the user owe nothing. That a load ends is shown as
`StaysTimed`, that a page does not wait for nothing as `PanelIsAlive`: what it
says it waits for is on its way.

`EveryCallReturns` promises the return of `flush` of the playback store to the
thread that also calls `stop`, the only caller in the program; a second thread
could wait for ever when `stop` is raised under it, and the property allows it.

## Findings

1. `backend_again`. A second initialisation that fails releases the database
   under a job that is running (`native/core/C_API.cpp:243`). The desktop program
   initialises once.
2. `playback_timeout`. A load has a deadline of 20 s, but when a source fails
   *after* it was loaded, the retry of its backup address is not timed
   (`MusicController.cpp:144`): a backup that hangs leaves the player loading.
3. `playback_place`. A quality chosen while a restored song has not been loaded
   loses the position that was to be resumed, and saves the beginning
   (`MusicController.cpp:365`).
4. `favorites`. A favourite changed while the network fails is answered without an
   error code by the native route, hence taken as refused, and leaves the outbox
   that was to keep it (`FavoriteController.cpp:139`).

`SwitchKeepsPlace` is what holds: the place is kept by a switch from a loaded
source of known length, through seeks, failed replacements, backups and the
return to the kept source. It leaves out a second switch that overtakes such a
return: if it is refused, the code takes the half-restored source for a playing
one and stays paused at its beginning.

### Observations

What a reader of the code may not expect; none contradicts a promise a run could
check.

- `EchoShutdown` may return 0 while direct callers are still inside
  `EchoHandleRequest`; a cancel of work that has just finished leaves a
  short-lived orphan record.
- `CommitLoginAttempt` refuses when no login attempt is registered, although the
  comment in `SessionRepository.h:90` reads as if a matching generation were
  enough (the code is the safer of the two).
- `Database::Close` may miss the Closed state if another thread is reopening; the
  program has one owner, as the model.
- The comment before `StoppedForDeadline` (`HttpClient.cpp:100`) tells a spent budget from
  a cancellation by the clock, and `interrupted()` reads the clock before the flags
  (`:613`): a deadline that passes in between is a cancellation to all calls but `Get`.
  The deadline's token also settles the promise of its request
  (`RequestScheduler.h:204`), so the caller has its answer by then.
- A rejected session is answered with the upstream's own error text, if it has one,
  and the code for an empty address (`SongUrlService.cpp:1426-1429`).
- Songs without an audio id share the file id 0 (`PlaylistService.cpp:172`), by which
  `LibraryController.cpp:108` drops all but the first of them. A list whose total the
  upstream does not announce ends after its first full page (`PlaylistService.cpp:229`,
  `LibraryController.cpp:113`).
- The most heard songs of a page are ten, so their plays need not add up to the
  summary above them (`StatsController.cpp:26`).
- A budget slightly above 5500 ms leaves the first attempt of `Get` about one
  millisecond.
- A lyric search answered before a key was refused may be cached after the
  invalidation.
- After a failure of the transport `FavoriteController.cpp:144` speaks of a
  refresh before the replay; a toggle replays without one. A lost answer of an add
  that was applied, followed by an un-favourite, drops the remove.
- Native drops rows without ids before Qt counts them, so a full page of the
  upstream with such a row looks like the last one.
- Rows without a session are exported under a new name, so that the import of a
  profile's own backup doubles them.
- The favourites and the history in memory are written over imported files if
  they change between import and restart; `ImportIsSafe` speaks of the two stores
  that are held.
- A song enqueued on an empty queue leaves no song marked.
- A code confirmed natively while the panel cancels leaves the native side signed
  in and the panel idle until its next refresh.
- An album whose name was asked for when the page was left is not asked for again
  before the next refresh.
- After a load was given up, a late error of it still starts its backup address.

## Proofs

Every theorem holds for all values of the constants, the bounds of the runs
among them.

`RequestWatchdogProofs`: type correctness, the exactness of the capacity counter,
one winner per request, the consistency of the delivery queue, and that the
watchdog implements `DeadlineService!SafeSpec`. The inductive invariant `IInv`
adds which thread holds a request in which stage (`HoldersConsistent`): without
it a step of `TimerRetry` or `ExecutorDone` could return budget for a request it
does not own. Each action has its step, and the cardinality facts about the
counter are lemmas.

`StoresProofs` is about `MCStores`, for any constants.

- The playback store: type correctness, `NothingLost`, `ReportedIsDurable`,
  `QuietAfterStop`, and that the store implements `WriteBehindStore`. `IInv` is
  the conjunction of `TypeOK`, `DataInv` (pending over batch over file is the
  newest value of every key), `RevisionInv` (what each revision counter says of
  those maps), `WaitInv` (what a waiting caller waits for) and `StopInv` (what
  `stop` has already ended). None is inductive alone: a completed batch lowers
  the revision distance that `WaitInv` speaks of only because `DataInv` holds of
  the batch. The lemmas on merged maps (merging is associative and absorbs itself,
  an accepted update makes the merged map newest, what a file holds is not
  changed by a later update) are shared with the next store.
- `AppearanceIsKept`: nothing is forgotten and the timer, the retry button and the
  exit implement `WriteBehindStore`. A flush that finds nothing pending and no
  error answers success without a look at the file, so the invariant adds
  `CaughtUp`: nothing is pending only when the file has every change.
- `PairsStayWhole`, for any number of processes. Whoever is inside a transaction
  holds the write lock, so only one is, and what it has seen is what is stored;
  its two records differ from what it saw by one, both or neither.
- `ImportIsSafe`. While an import is under way nobody else writes, and what it
  has not replaced yet is in its backup already, so that both survive a crash at
  any point.
- `QuarantineLosesNothing`. Every name below `free` is taken in quarantine, and a
  sidecar that stands under the name `free` belongs to the damaged database that
  is still live: this is what a rename that fails half-way leaves behind, and what
  the next start must not mix with another database.
- `RecordsAreKept`. An accepted record is in the queue, in the hands of the worker,
  or counted as written or failed; the queue is numbered without a gap up to the one
  accepted last, so what the worker holds is the next one after the completed ones;
  the lines of both files are in order and no younger than that, through rotations,
  and a torn line is the last of its file, because it is cut before anything
  follows it. A crash begins the numbering anew, above the old one.
- `ListensAreTrue`. A record on its way was heard that long, since `heard` only
  grows for a session (`RecordLands`); the table holds a session once, and a session
  of the archive only if its row counts (`TableInv`); an import that stands at a row
  has brought every counting row before it (`MergedUpTo`), so that after one that
  went through the counting rows of the archive and their rows of the table are in
  one-to-one correspondence. The statistics add up because each row falls into one
  group: a sum over the rows is the sum over the groups (`SumOfFibres`). A list that
  its limit cuts short has no more plays than the summary; one that is not full, or
  that has as many songs as the summary counts, has all of them.

`UpstreamProofs` is about `Upstream`.

- `AnswerIsOfOneReply`. Whatever the answer, the fallback and the best leg
  carry was obtained from one reply (`ClaimsAreObtained`), and each leg gets a
  slice within what is left of the route's deadline. A rejected session is said to be
  that only where the upstream gave no words of its own: an error text is passed on
  under `native_song_url_empty` (`SongUrlService.cpp:1426`).
- `CallsKeepBudget`. The time used, with the slice of the attempt or the pause
  under way, is within the budget; the arithmetic of every slice and cap is a
  lemma of its own. A deadline is reported as a cancellation only by an early
  watchdog, or where it passed between the clock and the flags of one poll
  (`raced`); and then by `GetInteractive`, `Post` and `PostInteractive` alone, since
  `Get` reads the clock once more.
- `TransportIsSafe`. `HandleInv` says what the handle and the callbacks of an
  exchange may be at every place of its owner; a state leaves the registry only when
  its handle is closed and nobody is calling (`StateKept`). `PoolInv`: a connect of
  the pool is of the session in use, no exchange failed on it, and whoever holds it
  has its host.
- `MarkIsWhatPlays` and the action property `RadioKeepsUnplayed`. `CallOK`: a
  request of the present generation is the one the radio waits for, or asks for the
  lyrics of the song that was resolved; every other is of an earlier generation. A
  lemma for each command says where the marked row goes.
- `LyricCacheIsSound`. The running count of bytes is a sum over the entries, so
  the proof goes through the lemmas on sums: erasing, inserting and evicting.

`PagesProofs` is about `Pages`.

- `PanelIsSound` has the invariants `PanelInv` and `VipInv`. At most one request of
  the attempt under way and one for the session count at a time; every other is
  told apart by its generation. *No check of an abandoned code can sign anybody in*
  (`Settled`) is what the native side has to promise here, because the panel goes on
  without waiting for its cancel; and an answer that counts names the account that
  is shown. No check of an attempt has another one beside it, so that one which was
  confirmed without a token, and left its attempt in charge, is the last of it.
  `VipInv` says the same of the requests of the entitlements, and that the
  two buckets kept of an answer reduce its list of products: from that moment on the
  buckets and the list say the same at every time.
- `SessionsMoveForward` and `StopIsFinal` are action properties from these
  invariants, `TierIsTrue` an invariant.
- `PanelIsAlive` adds `HomeInv` and `HistoryInv`. The counters of the first page are
  the cardinalities of the requests it waits for, one of them at most for its songs,
  which is why the top songs that replace an empty recommendation are not counted
  twice; loading the names of albums is a fold over the songs, and the invariant
  passes through each of its steps. An awaited request of the history is the only
  one of its generation.
- `PagesAreOfAccount` is proved for each page by itself. The favourites: a request of
  the present load or generation is the account's, and the rows of an answer, and a
  song an answer says was added, were in that account's list (`FavOwned`). The first
  page: the songs shown and the songs an answer of the present generation brings are
  the account's, through the fold over the names of albums (`HomeOwned`). The history:
  what was played here is nobody's, what the upstream knows of the account's, and a
  request that still counts names the account (`HistoryOwned`); the k-th row shown is
  the one that k - 1 others are newer than (`Newest`), so the ranks are a bijection,
  and a row is missing only behind a newer one of its song or from a full page. A fold
  that drops entries of a list leaves a list of the others (`FilterKeeps`).

- `PlaysWhole`. A song of a list is a file id, so that rows without an audio id are
  one song; and a list whose total is not announced ends after a full page, as the
  page's own length stands for the total. For such a list only a page of songs is
  promised. A request of the present load is the only one, and asks for the page
  that follows those loaded (`LibOwned`). While the list stays as it was, the songs
  loaded are what is left of its first rows when those without a hash and those that
  are there already are dropped (`Part`), which the next page continues
  (`PartGrows`). A list counts as complete when it holds as many songs as the
  upstream counts rows, or after a short page; either way the first rows are then all
  rows (`LibEnds`): as many songs as rows can only be left when nothing was dropped.
  An answer of an earlier load or of another list is told by its epoch.

`BackendProofs`: `CancelStopsCommit`, `RequestsStayReachable` and, for a library
that is initialised at most once, `DatabaseOutlivesWork`; `backend_again` shows why
that assumption is needed. The first rests on `Ownership`: an id that is owned
belongs to a request under way, which owns no other, so that a cancel raises the
flag of the request it names and of no other, and the flag is never lowered. The
second adds that the registry holds an id at most once (`RegOK`); the lemmas about
it follow a suffix, an eviction, an append and the removal of one orphan. The third
adds, for every caller, what its api number says in each state of the scheduler and
the life cycle (`CallDB`): a teardown finds no worker because a shutdown that gave
one up never gets there.

The second half of `BackendProofs` is about `Playback`, for any songs, qualities and
number of generations.

- `SourceOfSelection`, `StaysTimed` and `SwitchFallsBack` rest on the inductive
  invariant `MInv`. `Selected`: what the player holds, waits for or keeps belongs to
  the selected song, and so do a request and a deferred call that this generation
  still wants. `Loads`: at most one answer is awaited, and only while the load has no
  source; a retry of a backup address excludes it; a deferred reload comes before a
  retry. `Tells` and `Falls`: the quality a settled load would commit is that of its
  source. `AtClose`: a closed generation has nothing under way. A step that begins a
  generation makes everything older irrelevant (`NewGeneration`), so a late answer or
  timer finds nothing that is its own.
- `Deferred` runs all the zero timers of a turn, a fold over a list of any length.
  The parts of the invariant are therefore stated of the calls from the k-th on
  (`Rest`), shown for one call (`CallRuns`) and carried through the list by an
  induction on how many have run (`DeferredHolds`).
- `SwitchKeepsPlace` needs to know where a switch goes on in each of its phases
  (`PlaceKept`): it waits for the answer with the listener in the kept source
  (`Waits`), it loads a source that is to go on there (`GoesOn`), or it plays there
  (`Plays`); and the one retry that may be due starts there too (`TriesAt`). A late
  `LoadedMedia` of the old stream under the new name settles nothing, because a
  pending source counts only once it was seen loading, and then the player has it
  (`Loads`).

`IdentityStoreProofs`: `AccountIsolation`, `MintedOnStoredDevice` and
`LateLoginNeverLands`, for any number of requests, login attempts and restarts.
What a request captured is of now or of the past (`Captured`), and every change of
the account moves the generation forward (`Forward`), so a request whose generation
still matches holds the login in charge (`Logged`), and one whose revision still
matches holds the stored device (`MintInv`). `LazyInv` says that a refresh under way
in the present generation is the one the claim names; `KeyInv` that a login which
was ended, by a restart too, has neither the active key nor the active attempt. `MayPatchProfile` and
`MayPatchCredentials` preserve `RowInv` only because of `Logged`, and `Logged` needs
`Captured`: without it a later generation could catch up with an old capture.

`RequestSchedulerProofs`: `SettledOnce`, `ImagesBounded` and `CleanStop`, for any
number of jobs and workers. `PlaceInv` says that a job is in one place at a time:
the queue, the rejected jobs or the hands of one worker. `JobInv` says of each job
who may still settle it, from the claim, the deadline, the place and the submit
call together: the promise is pending exactly while somebody who may settle it is
still on the way. Its first two conjuncts are the claim rule read in both
directions, and the one on an unclaimed job whose promise is not pending excuses
the request that the watchdog refused. `LifeInv` says what each stage of a shutdown
knows of the threads; a restart relies on it. `ImageInv` counts running images by
the workers that hold one. A job is taken out of the queue by its position, which
is why the queue holds it only once.

`DataLemmas` is what they share: the least member of a set of numbers, induction on
it and on the subsets of a finite set, concatenation, removal and insertion in
sequences, and folds. A theorem with an operator as parameter cannot be used by the
provers at hand, so an induction is done on a *set* of numbers or of subsets, and a
fold on the recursive function inside it, whose existence is shown once
(`FoldExists`); sums are folds of numbers (`SumRemoves`, `SumSplits`).

**Assumptions.** Those of the modules, each named, checked by every run of the
module, and as weak as the code allows: sets of threads and requests are finite and
capacities natural numbers; the owner is one of the callers; "nobody" is no process;
`BudgetsAssumption`, `TransportAssumption`, `SongUrlAssumption` (budgets, capacities
and delays are natural, a pool holds one connect at least, a reply is a list),
`QueueAssumption` and `LyricAssumption` of `Upstream` (the radio answers with songs,
an entry of the cache fits into it), `SongAssumption` of `Playback` (local songs are songs;
"nothing" is no song, quality or source), `QueueAssumption` and `FilesAssumption` of
`MCStores` (the reserve is within the capacity, a file holds a line, bounds are natural),
`NumbersAssumption`, `ArchiveAssumption` and `TablesAssumption` of `MCStores` (times
are natural; the archive and the tables are lists with one row for a session, and a row
of the archive that is too short to count is in no table under its session),
`PanelAssumption` (an account has finitely many products, their ends are natural),
`HomeAssumption` (the songs of a day are a list), `HistoryAssumption` (what the
upstream has heard of is a list, of records with their times), `FavoritesAssumption`
(the upstream's favourites are one list for each account) and `LibraryAssumption` (lists
are lists; a page has 200 rows at most and a list is read up to its 1000th page at most,
which are the limits of the native side: the controller asks for 50 and 40).

**Only model-checked.** Liveness and `ENABLED` are out of the prover's reach:
`NothingStuck`, `BudgetReturns`, `EveryCallReturns`, `EveryDispatchReturns`, the
liveness of `DeadlineService` (the safety part of `ImplementsService` is a theorem). Every
other property of the runs that pass is a theorem for every value of the constants;
`DatabaseOutlivesWork` for a library that is initialised once, as said above. The
properties of the runs that expect a violation do not hold.

## Not modelled

Parsers and stateless translations of upstream answers, cryptography, route
tables, QML and painting, audio processing, operating-system facilities, and the
upstream server, whose answers are inputs. `UpdateController` (the download of a
release) has a generation like the other pages and is not covered; in it `skip`
clears the version and not the asset, so that a download may still be begun.
`PROJECT.json` has the reason for each part, and for a part that is `partly`
modelled what is left out.

## Plan

What is left, most important first:

1. `IdentityStore` over `JsonStore`: a transaction of the repository as the
   refinement of one conditional update.
2. The download of a release, and the list of qualities a song offers.
