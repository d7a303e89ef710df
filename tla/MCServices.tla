----------------------------- MODULE MCServices -----------------------------
(* The services for TLC: one run checks them one after another.              *)
EXTENDS Upstream, Pages, Sequences, FiniteSets, TLC

CONSTANTS r1, r2, r3, a, b, own, other, public

ServicesInit == suite \in Suites /\ UpstreamInit /\ PagesInit
ServicesNext == UNCHANGED suite /\ UpstreamNext /\ PagesNext
vars         == <<suite, upstreamVars, pageVars>>

\* A behaviour of this is one of UpstreamSpec and of PagesSpec.
ServicesSpec == ServicesInit /\ [][ServicesNext]_vars

-----------------------------------------------------------------------------
(* Values of the constants                                                 *)

TwoHosts == [r \in Requests |-> IF r = r3 THEN "other" ELSE "gateway"]

\* Two requests for one host are alike, and so are two accounts; the workers and
\* the songs of the lyrics bear the same names.
Symmetry == Permutations({r1, r2}) \cup Permutations({a, b})

\* Replies of v5/url and v6/priv_url, one of every kind the classification
\* tells apart, those included that disagree with themselves.
Five(mark, window, offset, fail, err, blocked, container) ==
  [outcome |-> "answer", mark |-> mark, window |-> window, offset |-> offset, fail |-> fail,
   err |-> err, blocked |-> blocked, container |-> container, text |-> FALSE]
FiveReplies ==
  {[Five("none", "none", FALSE, "none", "ok", FALSE, "none") EXCEPT !.outcome = o] :
     o \in {"transport", "invalid_json"}} \cup
  {[Five("none", "none", FALSE, "none", err, FALSE, "none") EXCEPT !.text = TRUE] :
     err \in {"20018", "other"}} \cup
  {Five("full", "whole", FALSE, "none", "ok", FALSE, "flac"),
   Five("full", "none", FALSE, "12", "ok", FALSE, "128"),
   Five("clip", "short", TRUE, "pkg", "ok", FALSE, "128"),
   Five("plain", "odd", FALSE, "none", "ok", FALSE, "none"),
   Five("none", "short", TRUE, "pkg", "ok", FALSE, "none"),
   Five("none", "none", FALSE, "pkg", "20018", FALSE, "none"),
   Five("none", "none", FALSE, "none", "20018", FALSE, "none"),
   Five("none", "none", FALSE, "vip", "ok", FALSE, "none"),
   Five("none", "none", FALSE, "none", "other", TRUE, "none")}
Six(outcome, err, items) == [outcome |-> outcome, err |-> err, items |-> items]
Item(mark, window, fail, container) ==
  [mark |-> mark, window |-> window, fail |-> fail, container |-> container]
SixReplies ==
  {Six("transport", "ok", <<>>), Six("answer", "20018", <<>>),
   Six("answer", "ok", <<Item("none", "none", "pkg", "128")>>),
   Six("answer", "ok", <<Item("clip", "short", "12", "128"), Item("clip", "none", "none", "flac")>>)}
  \cup {Six("answer", "ok", <<Item(m1, w, "none", q), Item(m2, "none", "none", "128")>>) :
          m1 \in {"full", "plain"}, w \in {"none", "past"}, q \in {"flac", "128"},
          m2 \in {"none", "full", "clip"}}

\* One account likes a song already.
OneLiked == {[x \in Accounts |-> IF x = y THEN <<1>> ELSE <<>>] : y \in Accounts}

\* Lists of two pages, one with a row that has no hash and two songs without an
\* audio id, one with a song twice, and one of three songs; they share songs.
SomeShelves == {[id \in {own, other, public} |-> IF id = own THEN <<1, NoHash, 4>>
                                                ELSE IF id = public THEN <<2, 3, 4>> ELSE <<2, 2, 4>>]}
SomeIds     == [row \in {NoHash, 1, 2, 3, 4} |-> IF row \in {NoHash, 1, 4} THEN 0 ELSE row]
SomeRadio   == {<<>>, <<1, 2>>, <<3, 3, 1>>}
LyricLists  == {list \in [1..1 -> Candidates] \cup [1..2 -> Candidates] :
                  Len(list) = 2 => list[1] # list[2]}

\* Songs of a day: two of them from one album.
ThreeAlbums == <<1, 2, 2, 3>>

\* What the upstream knows: two of three songs, one of them twice, or without a time.
SomePlayed == {<<[song |-> 1, at |-> 3], [song |-> 2, at |-> 2], [song |-> 1, at |-> 1]>>,
               <<[song |-> 2, at |-> 0], [song |-> 1, at |-> 2]>>}

SomeEntitlements == {{Until("tvip", 1), Until("tvip", 2)}, {Until("svip", 1), Until("tvip", 0)}}

=============================================================================
