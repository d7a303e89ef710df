--------------------------- MODULE PlaylistService ---------------------------
(* native/core/PlaylistService.cpp and its routes, as functions from a request
   and what the upstream did with it to the answer the desktop program sees.

   What came of the one HTTP exchange of a call: "ok" or "refused" (a JSON body
   whose status is 1 or 0), "failed" (the same with an HTTP status that is no
   success), "garbage" (no JSON), "network" (no answer at all) and "deadline"
   (the watchdog answered in the call's place, C_API.cpp).  A row stands for its
   hash; NoHash is one without. *)
EXTENDS Naturals, Integers, Sequences, FiniteSetsExt

CONSTANTS NoHash,    \* a row of a list that has no hash
          AudioId,   \* of every row the audio id it comes with, 0 where it has none
          PageSize   \* rows of a page (50 in both controllers)

(* NativeGateway::request marks the answers whose HTTP status is 408, 429 or
   from 500; every route answers 200, so that only a deadline is marked. *)
Answer(status, gone) == [status |-> status, transport |-> gone]

Clamp(value, lo, hi) == Max({lo, Min({value, hi})})

(* Along a list, from its first entry. *)
FoldLeft(op(_, _), base, list) ==
  MapThenFoldSet(LAMBDA row, sofar : op(sofar, row), base, LAMBDA i : list[i], LAMBDA S : Max(S), DOMAIN list)

-----------------------------------------------------------------------------
(* Reads.  An HTTP status that is no success, no JSON and no answer are errors
   without rows; for a JSON body the upstream's own status decides. *)
Readable(exchange) == exchange \in {"ok", "refused"}
ReadStatus(exchange) == IF exchange = "ok" THEN 1 ELSE 0

(* NormalizeTrack: the file id a row is given is its audio id, and so 0 for every
   row without one. *)
NormalizeTrack(row) == [hash |-> row, fileId |-> AudioId[row]]

\* A mutant: the offset forgets that pages count from one.
PageIdx(page)  == Clamp(page, 1, 1000) * Clamp(PageSize, 1, 200)
BeginIdx(page) == (Clamp(page, 1, 1000) - 1) * Clamp(PageSize, 1, 200)
Rows(list, page) == SubSeq(list, BeginIdx(page) + 1, Min({BeginIdx(page) + PageSize, Len(list)}))
ErrorTracks(exchange) ==
  [answer |-> Answer(0, exchange = "deadline"), rows |-> <<>>, total |-> 0]
(* Where the upstream does not announce a total, the rows of the page stand for it. *)
BuildTracksFromUpstream(list, page, exchange, counted) ==
  LET rows == Rows(list, page) IN
  [answer |-> Answer(ReadStatus(exchange), FALSE),
   rows |-> [i \in DOMAIN rows |-> NormalizeTrack(rows[i])],
   total |-> IF counted THEN Len(list) ELSE Len(rows)]
(* A user's collection by its index, a public list by its page: the same rows. *)
GetTracks(list, page, exchange, counted) ==
  IF Readable(exchange) THEN BuildTracksFromUpstream(list, page, exchange, counted)
  ELSE ErrorTracks(exchange)

(* Discovery needs a success in both codes and rows that are objects. *)
ErrorPlaylistDiscovery == [status |-> 0, rows |-> <<>>]
Discovery(exchange, rows) ==
  IF exchange = "ok" /\ rows # <<>> THEN [status |-> 1, rows |-> rows] ELSE ErrorPlaylistDiscovery
GetTopPlaylists(exchange, rows) == Discovery(exchange, rows)

(* The user's lists.  A row needs a collection id and a numeric list id, "gid"
   and "listid" (0 where it has none); a collection is listed once. *)
LooksLikeUserPlaylist(row) == row.gid # 0 \/ row.listid # 0 \/ row.named
Complete(row) == row.gid # 0 /\ row.listid # 0
CollectUserPlaylists(rows) ==
  FoldLeft(LAMBDA kept, row : IF Complete(row) /\ \A k \in Range(kept) : k.gid # row.gid
                              THEN Append(kept, row) ELSE kept, <<>>, rows)
Skipped(rows) == {i \in DOMAIN rows : ~Complete(rows[i]) /\ LooksLikeUserPlaylist(rows[i])}

(* NormalizeUserPlaylistsResponse: an error code decides first, then the status,
   then whether anything was listed; rows none of which has its ids are no
   empty account.  -1: the field is missing. *)
PlaylistsStatus(code, status, rows) ==
  LET listed == CollectUserPlaylists(rows) # <<>>
      ok == IF code # -1 /\ code # 0 THEN FALSE
            ELSE IF status = 0 THEN FALSE
            ELSE IF code = 0 \/ status = 1 THEN TRUE ELSE listed
  IN IF ok /\ (listed \/ Skipped(rows) = {}) THEN 1 ELSE 0
(* The HTTP status of this POST is not looked at. *)
GetUserPlaylists(loggedIn, exchange, code, status, rows) ==
  IF ~loggedIn \/ exchange \in {"network", "garbage", "deadline"}
  THEN [status |-> 0, rows |-> <<>>]
  ELSE [status |-> PlaylistsStatus(code, status, rows), rows |-> CollectUserPlaylists(rows)]

-----------------------------------------------------------------------------
(* Writes: the body of the upstream is passed through, with an HTTP status that
   is no success too; a failed exchange is an error without a code. *)
PassThrough(exchange) ==
  Answer(IF exchange = "ok" THEN 1 ELSE 0, exchange = "deadline")

(* The rows of a structured add need a hash, all of them. *)
Structured(rows) == rows # <<>> /\ NoHash \notin Range(rows)
AddPlaylistTracksStructured(rows, exchange) ==
  IF Structured(rows) THEN PassThrough(exchange) ELSE Answer(0, FALSE)
SendAddTracksPayload(list, rows)   == list \o rows
DeletePlaylistTracks(list, fileId) ==
  FoldLeft(LAMBDA kept, row : IF NormalizeTrack(row).fileId = fileId THEN kept ELSE Append(kept, row), <<>>, list)

(* Did the upstream do it, given what came of the exchange?  It may have, when
   the answer was lost on the way. *)
Reached(exchange) == IF exchange = "ok" THEN {TRUE}
                     ELSE IF exchange \in {"garbage", "network", "deadline"} THEN BOOLEAN ELSE {FALSE}
=============================================================================
