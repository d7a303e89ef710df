------------------------------ MODULE Upstream ------------------------------
(* What reaches the upstream and what is played of its answers: the attempts  *)
(* of a call, its exchange, the address of a song, the lyrics, and the queue  *)
(* with its radio.                                                            *)
EXTENDS ServiceSuites, Integers, Sequences

CONSTANTS Budgets,                                                  \* HttpRetry
          Requests, Hosts, HostOf, NoHandle, MaxAsyncRequests, PoolCapacity, MaxSessions,
          V5Replies, V6Replies, Delay,                              \* SongUrl
          Workers, Hashes, Candidates, Lists, Costs, MaxEntries, MaxBytes, MaxEntryBytes,
          SearchLife, DetailLife, LyricTicks, MaxUses,              \* Lyrics
          QueueSongs, NoSong, RadioAnswers, History, MaxQueue, MaxCommands

ASSUME BudgetsAssumption == Budgets \subseteq Nat

ASSUME TransportAssumption == MaxAsyncRequests \in Nat /\ PoolCapacity \in Nat \ {0}

\* A reply of v6 is a list of items.
ASSUME SongUrlAssumption == /\ Delay \in Nat
                            /\ \A r \in V6Replies : DOMAIN r.items \subseteq Nat

\* The radio answers with songs.
ASSUME QueueAssumption == RadioAnswers \subseteq Seq(QueueSongs) /\ History \in Nat

\* Cache::kMaxEntries, kMaxBytes and kMaxEntryBytes; an entry of the last kind fits.
ASSUME LyricAssumption == /\ Lists \subseteq Seq(Candidates) /\ Costs \subseteq Nat
                          /\ MaxEntries \in Nat \ {0} /\ MaxBytes \in Nat /\ MaxEntryBytes \in Nat
                          /\ MaxEntryBytes <= MaxBytes
                          /\ SearchLife \in Nat /\ DetailLife \in Nat

VARIABLES http, stop,
          pool, session, registry, request, state, system, broken,
          song,
          cache, clock, work, refused,
          queue, index, radio, loop, cue, queueNet, commands

Retry     == INSTANCE HttpRetry
Transport == INSTANCE HttpTransport
Url       == INSTANCE SongUrl
Lyric     == INSTANCE Lyrics WITH LastTick <- LyricTicks
Queue     == INSTANCE PlayQueue WITH Songs <- QueueSongs, song <- cue, net <- queueNet

httpVars      == <<http, stop>>
transportVars == <<pool, session, registry, request, state, system, broken>>
lyricVars     == <<cache, clock, work, refused>>
queueVars     == <<queue, index, radio, loop, cue, queueNet, commands>>
upstreamVars  == <<httpVars, transportVars, song, lyricVars, queueVars>>

UpstreamInit ==
  /\ \/ suite = "retry" /\ Retry!HttpRetryInit
     \/ suite # "retry" /\ http = Off /\ stop = Off
  /\ \/ suite = "transport" /\ Transport!HttpTransportInit
     \/ /\ suite # "transport"
        /\ pool = Off /\ session = Off /\ registry = Off /\ request = Off /\ state = Off
        /\ system = Off /\ broken = Off
  /\ \/ suite = "url" /\ Url!SongUrlInit
     \/ suite # "url" /\ song = Off
  /\ \/ suite = "lyrics" /\ Lyric!Init
     \/ suite # "lyrics" /\ cache = Off /\ clock = Off /\ work = Off /\ refused = Off
  /\ \/ suite = "queue" /\ Queue!PlayQueueInit
     \/ /\ suite # "queue"
        /\ queue = Off /\ index = Off /\ radio = Off /\ loop = Off /\ cue = Off
        /\ queueNet = Off /\ commands = Off

UpstreamNext ==
  /\ \/ suite = "retry" /\ Retry!HttpRetryNext
     \/ suite # "retry" /\ UNCHANGED httpVars
  /\ \/ suite = "transport" /\ Transport!HttpTransportNext
     \/ suite # "transport" /\ UNCHANGED transportVars
  /\ \/ suite = "url" /\ Url!SongUrlNext
     \/ suite # "url" /\ UNCHANGED song
  /\ \/ suite = "lyrics" /\ Lyric!Next
     \/ suite # "lyrics" /\ UNCHANGED lyricVars
  /\ \/ suite = "queue" /\ Queue!PlayQueueNext
     \/ suite # "queue" /\ UNCHANGED queueVars

UpstreamSpec == UpstreamInit /\ [][UNCHANGED suite /\ UpstreamNext]_<<suite, upstreamVars>>

-----------------------------------------------------------------------------
\* Attempts and pauses of one call share its budget, stalls leave room for the
\* retries, and a deadline is reported as a cancellation only where the watchdog
\* was early or, but by Get(), where it passed between two reads (HttpRetry).
CallsKeepBudget == suite = "retry" => Retry!BudgetIsShared /\ Retry!DeadlineIsNoCancel

\* A late callback finds the state it writes into, and no exchange is given a
\* connect that failed or that belongs to a closed session (HttpTransport).
TransportIsSafe == suite = "transport" => Transport!CallbacksFindState /\ Transport!PoolIsFresh

\* An address is described by the reply that carried it, and one that was
\* obtained is returned; a rejected session is said to be that unless the upstream
\* has words of its own, and no leg outlives the deadline of the route (SongUrl).
AnswerIsOfOneReply == suite = "url" => /\ Url!AnswerIsOfOneReply /\ Url!LegsKeepDeadline
                                       /\ Url!RejectedSessionIsSaid

\* A refused candidate is in no older list, and the cache keeps to its limits
\* (Lyrics).
LyricCacheIsSound == suite = "lyrics" => Lyric!LyricCacheIsSound

\* The radio keeps the songs not played yet (PlayQueue).
RadioKeepsUnplayed == [][suite = "queue" => Queue!KeepsUnplayed]_queueVars

\* The marked row, the song that is resolved and the lyrics on the screen are
\* one song (PlayQueue).
MarkIsWhatPlays == suite = "queue" => Queue!MarkIsWhatPlays
=============================================================================
