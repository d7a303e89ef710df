------------------------------ MODULE History -------------------------------
(* desktop/qt/src/library/HistoryController.cpp: what was played.  The songs
   played here are kept on disk, whoever is signed in; those the upstream knows
   of are the account's; the page shows both in one list.

   A record is a song, the time it was played, 0 when the upstream does not say,
   and whose it is: NoOne's if it was played here. *)
EXTENDS Integers, Sequences, FiniteSetsExt

CONSTANTS Accounts, NoOne, Played,
          Remote,          \* what the upstream may answer: songs and times
          Kept, Recently,  \* 100 in the code; the first day of the week or month
          MaxPlays, MaxRefreshes   \* bounds for TLC

VARIABLES history, recent, heard, instant
historyVars == <<history, recent, heard, instant>>

Entry(song, at, of) == [song |-> song, at |-> at, of |-> of]
First(rows, n)      == SubSeq(rows, 1, IF Len(rows) < n THEN Len(rows) ELSE n)

HistoryInit ==
  /\ history = [account |-> NoOne, gen |-> 0, ready |-> FALSE, active |-> FALSE, loading |-> FALSE,
                scope |-> "all", remote |-> <<>>]
  /\ recent \in {<<>>} \cup {<<Entry(x, 1, NoOne)>> : x \in Played}
  /\ heard = {} /\ instant = 1

(* tracks(): newest first, a song once.  The k-th newest position is the one that
   k - 1 others are newer than. *)
Newer(rows, i, j) == rows[i].at > rows[j].at \/ (rows[i].at = rows[j].at /\ i < j)
Newest(rows, positions) ==
  [k \in 1..Cardinality(positions) |->
     CHOOSE i \in positions : Cardinality({j \in positions : Newer(rows, j, i)}) = k - 1]
tracks ==
  LET rows  == recent \o history.remote
      asked == {i \in DOMAIN rows : history.scope = "all" \/ rows[i].at >= Recently}
      once  == {i \in asked : \A j \in asked : rows[j].song = rows[i].song => ~Newer(rows, j, i)}
      order == Newest(rows, once)
  IN  First([k \in DOMAIN order |-> rows[order[k]]], Kept)

-----------------------------------------------------------------------------
\* refresh(): whoever asks, the request before is given up.
Refresh(page) ==
  LET next == [page EXCEPT !.gen = @ + 1, !.loading = page.ready /\ page.account # NoOne]
  IN  /\ page.gen < MaxRefreshes /\ history' = next
      /\ heard' = IF next.loading THEN heard \cup {[gen |-> next.gen, of |-> next.account]} ELSE heard

Ready == /\ ~history.ready
         /\ LET page == [history EXCEPT !.ready = TRUE]
            IN  IF history.active THEN Refresh(page) ELSE history' = page /\ UNCHANGED heard
         /\ UNCHANGED <<recent, instant>>

\* setAccount(): the generation moves before refresh() moves it again.
SetAccount(account) ==
  /\ history.account # account
  /\ LET page == [history EXCEPT !.account = account, !.gen = @ + 1, !.remote = <<>>, !.loading = FALSE]
     IN  IF history.active THEN Refresh(page)
         ELSE history.gen < MaxRefreshes /\ history' = page /\ UNCHANGED heard
  /\ UNCHANGED <<recent, instant>>

SetActive(active) ==
  /\ IF active THEN Refresh([history EXCEPT !.active = TRUE])
     ELSE /\ history.gen < MaxRefreshes /\ UNCHANGED heard
          /\ history' = [history EXCEPT !.active = FALSE, !.gen = @ + 1, !.loading = FALSE]
  /\ UNCHANGED <<recent, instant>>

PressRefresh == Refresh(history) /\ UNCHANGED <<recent, instant>>

SetScope(scope) ==
  /\ history.scope # scope /\ history' = [history EXCEPT !.scope = scope]
  /\ UNCHANGED <<recent, heard, instant>>

Without(rows, x) ==
  MapThenFoldSet(LAMBDA row, kept : IF row.song = x THEN kept ELSE Append(kept, row), <<>>,
                 LAMBDA i : rows[i], LAMBDA S : Max(S), DOMAIN rows)

\* started(): the song moves to the front.  Whether it is reported upstream as
\* well changes nothing here.
Started(x) ==
  /\ instant < MaxPlays /\ instant' = instant + 1
  /\ recent' = First(<<Entry(x, instant', NoOne)>> \o Without(recent, x), Kept)
  /\ UNCHANGED <<history, heard>>

Own(c) == c.gen = history.gen

\* The answer: a refused request leaves the rows as they are.
HearHistory(c) ==
  /\ heard' = heard \ {c}
  /\ \/ ~Own(c) /\ UNCHANGED history
     \/ /\ Own(c)
        /\ \/ history' = [history EXCEPT !.loading = FALSE]
           \/ \E rows \in Remote :
                history' = [history EXCEPT !.loading = FALSE,
                  !.remote = [i \in DOMAIN rows |-> Entry(rows[i].song, rows[i].at, c.of)]]
  /\ UNCHANGED <<recent, instant>>

HistoryNext ==
  \/ Ready \/ PressRefresh
  \/ \E account \in Accounts \cup {NoOne} : SetAccount(account)
  \/ \E active \in BOOLEAN : SetActive(active)
  \/ \E scope \in {"week", "all"} : SetScope(scope)
  \/ \E x \in Played : Started(x)
  \/ \E c \in heard : HearHistory(c)

-----------------------------------------------------------------------------
Shown(row, list) == \E i \in DOMAIN list : list[i].song = row.song
\* What is on the page is the account's own or was played here, a song stands
\* once, with the latest time it is known for, and a song played here in the
\* time looked at is missing only from a full page.
HistoryIsOfAccount ==
  LET rows == recent \o history.remote
  IN  /\ \A i \in DOMAIN tracks :
           /\ tracks[i].of \in {NoOne, history.account}
           /\ \A j \in DOMAIN rows : rows[j].song = tracks[i].song => rows[j].at <= tracks[i].at
           /\ \A j \in DOMAIN tracks :
                j > i => tracks[j].song # tracks[i].song /\ tracks[j].at <= tracks[i].at
      /\ \A k \in DOMAIN recent : recent[k].at >= Recently =>
           Shown(recent[k], tracks) \/ Len(tracks) = Kept

\* The page says it is loading while the request it waits for is out.
HistoryIsAwaited == history.loading <=> \E c \in heard : c.gen = history.gen
=============================================================================
