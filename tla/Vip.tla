--------------------------------- MODULE Vip ---------------------------------
(***************************************************************************)
(* The entitlements of the account (desktop/qt/src/account/VipController)  *)
(* and the daily claim, a chain of requests: claim the day, confirm it,    *)
(* report an advertisement, claim the upgrade, confirm that.  It stands on *)
(* Account: a change of the account resets the panel within the same step. *)
(* The routes (core/compat_routes/YouthVipRoutes, UserRoutes) act for the  *)
(* account native has stored at that moment, whichever one Qt shows, and   *)
(* core/UserService reduces the list of products to two buckets.           *)
(***************************************************************************)
EXTENDS Account, FiniteSetsExt

CONSTANTS Entitlements,    \* the product lists upstream may hold for an account
          Confirmations,   \* confirmations of one claim (four)
          LastTick,        \* bound: the wall clock, in ticks
          MaxAsks,         \* bound: requests of the panel that start something
          MaxRefusals,     \* bound: requests that fail, those of Account among them
          MaxGrants        \* bound: changes of the products upstream

PremiumProducts == {"svip", "music", "musicpack"}
ListenProducts  == {"tvip"}
Forever         == 0       \* vip_end_time is empty

VARIABLES vip,             \* the fields of VipController
          asks,            \* its requests, cancelled ones too
          products,        \* upstream: the busi_vip list of each account, and its changes
          clock            \* the wall clock

vipVars == <<vip, asks, products, clock>>
vars    == <<accountVars, vipVars>>

NoBucket == [active |-> FALSE, end |-> Forever]
NoAnswer == [known |-> FALSE, accepted |-> FALSE, reason |-> "refused", rows |-> {}, of |-> NoOne,
             premium |-> NoBucket, listen |-> NoBucket]

\* route is the one a claim uses; gen the generation_ of the request, and for
\* "detail" dgen its detailGeneration_; at numbers the requests of the panel.
Ask(kind, route, v) == [kind |-> kind, route |-> route, gen |-> v.gen, dgen |-> v.dgen,
                        at |-> v.asked, cancelled |-> FALSE, done |-> FALSE, answer |-> NoAnswer]
ClaimKinds == {"claim", "confirm", "ad"}        \* claimId_

Blank(user) == [account |-> user, tier |-> "unknown", premium |-> NoBucket, listen |-> NoBucket,
                authoritative |-> FALSE, busy |-> FALSE, loading |-> FALSE, cancelled |-> FALSE, attempts |-> 0,
                stage |-> "", timer |-> FALSE, claiming |-> FALSE, gen |-> 0, dgen |-> 0,
                asked |-> 0, told |-> {}, judged |-> 0, of |-> NoOne, at |-> 0]


VipInit(begun, trouble) ==
           /\ AccountInit(begun, trouble)
           /\ vip = Blank(NoOne) /\ asks = {} /\ clock = 0
           /\ \E of \in [Accounts -> Entitlements] : products = [of |-> of, changes |-> 0]

-----------------------------------------------------------------------------
(* UserService: the products become two buckets                            *)

VipEntryActive(row) == row.flag /\ (row.end = Forever \/ row.end > clock)

\* A mutant: the first entry that is active.
PickAnyActive(rows, list) ==
  LET live == {row \in rows : row.product \in list /\ VipEntryActive(row)}
  IN  IF live = {} THEN NoBucket
      ELSE [active |-> TRUE, end |-> Min({row.end : row \in live})]

\* The active entry that lasts longest, or else the latest to have expired.
PickEntitlementBucket(rows, list) ==
  LET mine == {row \in rows : row.product \in list}
      live == {row \in mine : VipEntryActive(row)}
      ends == {row.end : row \in live}
  IN  IF live = {} THEN [active |-> FALSE, end |-> Max({row.end : row \in mine} \cup {Forever})]
      ELSE [active |-> TRUE, end |-> IF Forever \in ends THEN Forever ELSE Max(ends)]

\* active() of the panel: the bucket may have run out since.
Lasts(bucket) == bucket.active /\ (bucket.end = Forever \/ bucket.end > clock)
TierOf(v) == IF Lasts(v.premium) THEN "premium" ELSE IF Lasts(v.listen) THEN "listen"
             ELSE IF v.authoritative THEN "none" ELSE "unknown"

-----------------------------------------------------------------------------
(* What the handlers do to the panel s.vip and to its requests s.asks      *)

State(v, xs) == [vip |-> v, asks |-> xs]

CancelAsks(xs, kinds) ==
  {IF a.kind \in kinds /\ ~a.done THEN [a EXCEPT !.cancelled = TRUE] ELSE a : a \in xs}
Send(s, kind, route) == LET v == [s.vip EXCEPT !.asked = s.vip.asked + 1]
                        IN  State(v, s.asks \cup {Ask(kind, route, v)})

Finish(s) == State([s.vip EXCEPT !.timer = FALSE, !.busy = FALSE], s.asks)

Refresh(s) == IF s.vip.account = NoOne \/ s.vip.busy THEN s
              ELSE Send(State([s.vip EXCEPT !.dgen = s.vip.dgen + 1, !.loading = TRUE],
                              CancelAsks(s.asks, {"detail"})), "detail", "")

SetAccount(s, user) ==
  Refresh(State([Blank(user) EXCEPT !.gen = s.vip.gen + 1, !.dgen = s.vip.dgen + 1,
                                    !.claiming = s.vip.claiming, !.asked = s.vip.asked],
                CancelAsks(s.asks, ClaimKinds \cup {"detail"})))

Claiming(s) == State([s.vip EXCEPT !.claiming = TRUE], s.asks)
\* A mutant: a claim that was stopped goes on.
ClaimAnyway(s, route) == Send(Claiming(s), "claim", route)
RequestClaim(s, route) == IF s.vip.cancelled THEN Finish(s) ELSE Send(Claiming(s), "claim", route)
Confirm(s) == IF ~s.vip.busy THEN s
              ELSE Send(State([s.vip EXCEPT !.claiming = TRUE, !.attempts = s.vip.attempts + 1], s.asks),
                        "confirm", "")
Advance(s) == IF s.vip.cancelled THEN Finish(s) ELSE Send(Claiming(s), "ad", "")

\* apply() of a successful detail, with what it was about.
Apply(v, a) ==
  LET w == [v EXCEPT !.premium = a.answer.premium, !.listen = a.answer.listen,
                     !.authoritative = TRUE, !.told = a.answer.rows, !.judged = clock,
                     !.of = a.answer.of, !.at = a.at]
  IN  IF a.answer.known THEN [w EXCEPT !.tier = TierOf(w)] ELSE v

NowVip == State(vip, asks)
Gives(s) == vip' = s.vip /\ asks' = s.asks
Rest == UNCHANGED <<accountVars, products, clock>>

-----------------------------------------------------------------------------
(* The user and the timers                                                 *)

PressVipRefresh == /\ vip.account # NoOne /\ ~vip.busy /\ vip.asked < MaxAsks
                   /\ ~vip.loading
                   /\ Gives(Refresh(NowVip)) /\ Rest

\* claim(), which supersedes a refresh under way.
BeginClaim == [vip EXCEPT !.dgen = @ + 1, !.gen = @ + 1, !.busy = TRUE, !.loading = FALSE,
                          !.cancelled = FALSE, !.attempts = 0, !.stage = "day"]
Claim == /\ vip.account # NoOne /\ ~vip.busy /\ vip.asked < MaxAsks
         /\ Gives(RequestClaim(State(BeginClaim, CancelAsks(asks, {"detail"})), "day")) /\ Rest

CancelClaim ==
  /\ vip.busy /\ ~vip.cancelled
  /\ LET s == State([vip EXCEPT !.cancelled = TRUE, !.timer = FALSE], asks)
     IN  Gives(IF vip.claiming THEN s ELSE Finish(s))
  /\ Rest

ConfirmTimer == /\ vip.timer
                /\ Gives(Confirm(State([vip EXCEPT !.timer = FALSE], asks))) /\ Rest

ExpiryTimer == /\ vip.account # NoOne
               /\ vip' = [vip EXCEPT !.tier = TierOf(vip), !.judged = clock]
               /\ UNCHANGED asks /\ Rest

-----------------------------------------------------------------------------
(* The routes                                                              *)

Replies(a, answer) ==
  asks' = (asks \ {a}) \cup {[a EXCEPT !.done = TRUE, !.answer = answer]}
OnlyAnswered == UNCHANGED <<page, calls, native, products>>

\* HandleUserVipDetail and GetUserVip, for the account native has stored.
VipDetail(a) ==
  /\ a.kind \in {"detail", "confirm"} /\ native.user # NoOne
  /\ LET rows == products.of[native.user]
     IN  Replies(a, [NoAnswer EXCEPT !.known = TRUE, !.of = native.user, !.rows = rows,
                                     !.premium = PickEntitlementBucket(rows, PremiumProducts),
                                     !.listen = PickEntitlementBucket(rows, ListenProducts)])
  /\ OnlyAnswered

\* What a claim that upstream refuses is called, by its error code.
ClassifyClaimCode(code) ==
  CASE code = 131001 -> "already_claimed_today"
    [] code = 297002 -> "upgrade_already_claimed"
    [] OTHER -> "refused"

\* Accepted, or refused with a code; what an accepted claim grants comes now
\* or later, see Grant.
Claimed(a) == \/ Replies(a, [NoAnswer EXCEPT !.accepted = TRUE])
              \/ \E code \in {131001, 297002} :
                   Replies(a, [NoAnswer EXCEPT !.reason = ClassifyClaimCode(code)])
Claims(a, route) == a.kind = "claim" /\ a.route = route /\ native.user # NoOne

ClaimVip(a)         == Claims(a, "day") /\ Claimed(a) /\ OnlyAnswered
UpgradeVipReward(a) == Claims(a, "upgrade") /\ Claimed(a) /\ OnlyAnswered

\* ClaimYouthAdVip: nothing depends on its answer.
ReportAd(a) == a.kind = "ad" /\ Replies(a, NoAnswer) /\ OnlyAnswered

\* Not logged in, refused upstream, or no answer from it.
VipRefused(a) == /\ a.kind # "ad"
                 /\ \/ (native.user = NoOne \/ a.cancelled) /\ UNCHANGED native
                    \/ /\ native.user # NoOne /\ ~a.cancelled /\ native.trouble < MaxRefusals
                       /\ native' = [native EXCEPT !.trouble = @ + 1]
                 /\ Replies(a, NoAnswer)
                 /\ UNCHANGED <<page, calls, products>>

Serve(a) == /\ ~a.done
            /\ VipDetail(a) \/ ClaimVip(a) \/ UpgradeVipReward(a) \/ ReportAd(a) \/ VipRefused(a)
            /\ UNCHANGED <<vip, clock>>

\* Upstream changes what the account has, for a claim or for anything else.
Grant == /\ native.user # NoOne /\ products.changes < MaxGrants
         /\ \E rows \in Entitlements \ {products.of[native.user]} :
              products' = [of |-> [products.of EXCEPT ![native.user] = rows],
                           changes |-> products.changes + 1]
         /\ UNCHANGED <<accountVars, vip, asks, clock>>

Tick == /\ clock < LastTick /\ clock' = clock + 1
        /\ UNCHANGED <<accountVars, vip, asks, products>>

-----------------------------------------------------------------------------
(* The callbacks                                                           *)

Past(a) == State(vip, asks \ {a})
Back(v, a) == State([v EXCEPT !.claiming = FALSE], asks \ {a})
Current(a) == a.gen = vip.gen

HearVipDetail(a) ==
  /\ a.kind = "detail"
  /\ Gives(IF Current(a) /\ a.dgen = vip.dgen
           THEN State(Apply([vip EXCEPT !.loading = FALSE], a), asks \ {a}) ELSE Past(a))

HearClaim(a) ==
  LET already == a.answer.reason = (IF a.route = "day" THEN "already_claimed_today"
                                    ELSE "upgrade_already_claimed")
      next == IF a.route = "day" THEN "confirm-listen" ELSE "confirm-premium"
  IN  /\ a.kind = "claim"
      /\ Gives(IF ~Current(a) THEN Past(a)
               ELSE IF ~a.answer.accepted /\ ~already THEN Finish(Back(vip, a))
               ELSE Confirm(Back([vip EXCEPT !.stage = next, !.attempts = 0], a)))

HearConfirm(a) ==
  LET v == Apply(vip, a)
      s == Back(v, a)
      known == a.answer.known
  IN  /\ a.kind = "confirm"
      /\ Gives(IF ~Current(a) THEN Past(a)
               ELSE IF known /\ v.tier = "premium" THEN Finish(s)
               ELSE IF known /\ v.stage = "confirm-listen" /\ v.tier = "listen"
                 THEN IF v.cancelled THEN Finish(s) ELSE Advance(Back([v EXCEPT !.stage = "upgrade"], a))
               ELSE IF v.cancelled \/ v.attempts >= Confirmations THEN Finish(s)
               ELSE State([s.vip EXCEPT !.timer = TRUE], s.asks))

HearAd(a) == /\ a.kind = "ad"
             /\ Gives(IF ~Current(a) THEN Past(a) ELSE RequestClaim(Back(vip, a), "upgrade"))

HearVip(a) == /\ a.done
              /\ HearVipDetail(a) \/ HearClaim(a) \/ HearConfirm(a) \/ HearAd(a)
              /\ Rest

-----------------------------------------------------------------------------
AccountStep == /\ AccountNext
               /\ IF page'.user = page.user THEN UNCHANGED <<vip, asks>>
                  ELSE Gives(SetAccount(NowVip, page'.user))
               /\ UNCHANGED <<products, clock>>

VipNext == \/ AccountStep
           \/ PressVipRefresh \/ Claim \/ CancelClaim \/ ConfirmTimer \/ ExpiryTimer
           \/ \E a \in asks : Serve(a) \/ HearVip(a)
           \/ Grant \/ Tick


-----------------------------------------------------------------------------
(* Correctness                                                             *)

\* What the panel shows is the account's own, and true: the tier is the one
\* that the product list it was last told grants at the moment it was last
\* judged.  A product counts while it is flagged and its own end has not come,
\* and the panel has to reach that verdict without the list, from two buckets
\* reduced earlier, when another entry may have been the one still running.
TierIsTrue ==
  LET grants(list) == \E row \in vip.told : /\ row.product \in list /\ row.flag
                                            /\ row.end = Forever \/ row.end > vip.judged
  IN  vip.tier # "unknown" =>
        /\ vip.of = vip.account /\ vip.account = page.user
        /\ vip.tier = IF grants(PremiumProducts) THEN "premium"
                      ELSE IF grants(ListenProducts) THEN "listen" ELSE "none"

\* An answer asked for earlier never replaces one asked for later: a refresh
\* that was under way when a claim began cannot take back what the claim's
\* confirmation showed.
NewerAnswers == vip'.gen >= vip.gen /\ (vip'.account = vip.account => vip'.at >= vip.at)

\* A claim comes to its end: while it is busy a request is out that will be
\* heard, or the timer runs, whatever was refused, stopped or overtaken.
ClaimIsInHand == vip.busy => vip.timer \/ \E a \in asks : a.gen = vip.gen /\ a.kind \in ClaimKinds

\* Once the user has stopped a claim nothing more is claimed or reported: the
\* steps that were still to come are not begun by the answer of the last one.
NothingBegun == vip.busy /\ vip.cancelled =>
  \A a \in asks' : a.kind \in {"claim", "ad"} => \E b \in asks : b.kind = a.kind /\ b.at = a.at
StopIsFinal == [][NothingBegun]_asks
=============================================================================
