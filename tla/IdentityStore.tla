---------------------------- MODULE IdentityStore ----------------------------
(***************************************************************************)
(* The account and device records of one profile, and every request that   *)
(* reads them before a network wait and writes them after it.              *)
(*                                                                         *)
(* native/storage/SessionRepository.cpp keeps two rows, session.info and   *)
(* device.info.  Each of its calls is one transaction of the database      *)
(* actor, so a transaction is one action here; what interleaves is the     *)
(* requests of native/core/compat_routes, which hold a captured version    *)
(* (account generation, device revision) across calls to the upstream.     *)
(* A login is told from another by its incarnation, a number the code does *)
(* not have: the values of the tokens and of the profile are abstracted to *)
(* the incarnation they were issued for.                                   *)
(***************************************************************************)
EXTENDS Integers, FiniteSets

CONSTANTS
  Requests,         \* API calls; each is made once
  Attempts,         \* attempt_id values the QR page may send
  Workloads,        \* what the requests may be, see Calls; the attempt counts
                    \* for key and cancel, and each key has a new one
  RecoveryFloor,    \* the wall clock NextGeneration falls back to
  MaxEpoch,         \* bound: how many times the process starts
  None

Kinds == {"key", "check", "cancel", "logout", "settings", "detail", "playlist"}
Calls == [Requests -> [kind : Kinds, attempt : Attempts]]

ASSUME ConstantsAssumption ==
  /\ IsFiniteSet(Requests) /\ None \notin Requests /\ None \notin Attempts
  /\ Workloads \subseteq Calls
  /\ \A calls \in Workloads : \A r, q \in Requests :
       calls[r].kind = "key" /\ calls[q] = calls[r] => r = q
  /\ RecoveryFloor \in Nat \ {0} /\ MaxEpoch \in Nat \ {0}

VARIABLES
  session,          \* the row session.info
  device,           \* the row device.info
  migrated,         \* the row session.encryption_migrated
  epoch,            \* CurrentProcessEpoch, counted; 0 before the first start
  running,          \* a process holds the profile
  pc, held,         \* where each request stands; its call, and what it captured
  stopped,          \* requests cancelled or past their deadline (StopState)
  owner,            \* history: the incarnation of the account in charge, 0 for none
  logins,           \* history: how many incarnations there have been
  identities,       \* history: how many device identities have been made
  ended,            \* history: key and check requests of a login the user gave up
  unfinished        \* history: claims whose FinishLazyVipRefresh failed

history == <<owner, logins, identities, ended, unfinished>>
rows    == <<session, device, migrated>>
vars    == <<rows, epoch, running, pc, held, stopped, history>>

-----------------------------------------------------------------------------
NoClaim == [state |-> "none", epoch |-> 0, claim |-> None]
Cooling(c) == [c EXCEPT !.state = "cooling"]
Blank   == [form |-> "envelope", gen |-> 0, token |-> 0, profile |-> 0, minted |-> 0,
            vip |-> FALSE, lazy |-> NoClaim, attempt |-> None, key |-> None]
NoDevice(rev) == [rev |-> rev, id |-> 0, registered |-> FALSE]
Holding(call) == [call |-> call, gen |-> 0, rev |-> 0, login |-> 0,
                  device |-> NoDevice(0), key |-> None]
Kind(r)    == held[r].call.kind
Attempt(r) == held[r].call.attempt

(* What a profile may hold when the process first starts: nothing, a row   *)
(* of the plaintext format, a readable envelope, or an unreadable one.     *)
StoredRows ==
  {[Blank EXCEPT !.form = "absent"], [Blank EXCEPT !.form = "damaged"],
   [Blank EXCEPT !.form = "plaintext", !.token = 1, !.profile = 1],
   [Blank EXCEPT !.gen = 1, !.token = 1, !.profile = 1]}

Init ==
  /\ session \in StoredRows
  /\ migrated \in BOOLEAN
  /\ device = NoDevice(0)
  /\ epoch = 0 /\ running = FALSE
  /\ pc = [r \in Requests |-> "idle"]
  /\ \E calls \in Workloads : held = [r \in Requests |-> Holding(calls[r])]
  /\ stopped = {}
  /\ owner = IF session.form = "plaintext" /\ migrated THEN 0 ELSE session.token
  /\ logins = 1 /\ identities = 0 /\ ended = {} /\ unfinished = {}

Credentials(s) == s.form = "envelope" /\ s.token # 0

(* NextGeneration: an absent row starts the sequence, an unreadable one    *)
(* jumps to the wall clock.                                                *)
NextGeneration(s) == CASE s.form = "absent"  -> 1
                       [] s.form = "damaged" -> RecoveryFloor
                       [] OTHER              -> s.gen + 1
StampDevice(d)    == [d EXCEPT !.rev = device.rev + 1]

Cleared(s) == [Blank EXCEPT !.gen = NextGeneration(s)]

(* The login in progress ends: every key and check request on the way to   *)
(* it, of any attempt or of one attempt, must come to nothing.             *)
Pending(attempts) ==
  {r \in Requests : \/ Kind(r) = "key" /\ pc[r] # "idle" /\ Attempt(r) \in attempts
                    \/ held[r].key # None /\ Attempt(held[r].key) \in attempts}
EndLogins(requests) == ended' = ended \cup requests

(* LoadSnapshot seals a plaintext row once; after the migration marker is  *)
(* set a plaintext row is ignored.                                         *)
Migrates == session.form = "plaintext" /\ ~migrated
LoadSnapshot(s) == IF Migrates THEN [s EXCEPT !.form = "envelope", !.gen = s.gen + 1] ELSE s

(* BeginRuntimeEpoch keeps the credentials it can read, advances the       *)
(* generation and drops every login attempt.                               *)
BeginRuntimeEpoch(s) ==
  IF Credentials(s)
    THEN [s EXCEPT !.gen = NextGeneration(s), !.attempt = None, !.key = None]
    ELSE Cleared(s)

Start ==
  /\ ~running /\ epoch < MaxEpoch
  /\ running' = TRUE
  /\ epoch' = epoch + 1
  /\ session' = BeginRuntimeEpoch(LoadSnapshot(session))
  /\ migrated' = (migrated \/ Migrates)
  /\ device' = StampDevice(device)
  /\ EndLogins(Pending(Attempts))
  /\ UNCHANGED <<pc, held, stopped, owner, logins, identities, unfinished>>

(* The process dies: the rows stay, the requests are gone.                 *)
Crash ==
  /\ running
  /\ running' = FALSE
  /\ pc' = [r \in Requests |-> IF pc[r] = "idle" THEN "idle" ELSE "done"]
  /\ UNCHANGED <<rows, epoch, held, stopped, history>>

-----------------------------------------------------------------------------
(* StopState and OperationContext: a request is cancelled, or its deadline *)
(* passes, at any time; TryCommit looks inside the transaction.            *)
Stop(r) ==
  /\ running /\ pc[r] \notin {"idle", "done"} /\ r \notin stopped
  /\ stopped' = stopped \cup {r}
  /\ UNCHANGED <<rows, epoch, running, pc, held, history>>

TryCommit(r) == r \notin stopped

At(r, kind, place) == running /\ Kind(r) = kind /\ pc[r] = place
Goto(r, place)     == pc' = [pc EXCEPT ![r] = place]

(* CaptureIdentity with PrepareDevice: the pair of rows in one transaction, *)
(* making a device identity when none is stored.                           *)
Prepared == IF device.id # 0 THEN device
            ELSE StampDevice([id |-> identities + 1, registered |-> FALSE, rev |-> 0])
PrepareDevice == /\ device' = Prepared
                 /\ identities' = IF device.id # 0 THEN identities ELSE identities + 1

CaptureIdentity(r) ==
  /\ PrepareDevice
  /\ held' = [held EXCEPT ![r] = [@ EXCEPT !.gen = session.gen, !.rev = Prepared.rev,
                                             !.login = session.token, !.device = Prepared]]

SameAccount(r) == session.gen = held[r].gen
SameDevice(r)  == device.rev = held[r].rev

-----------------------------------------------------------------------------
(* /login/qr/key: reserve the attempt, capture, ask the upstream for a     *)
(* key, publish it.  The upstream never issues a key twice, so the key is  *)
(* the request that obtained it.                                           *)
Reserved(s, a) == [s EXCEPT !.attempt = a, !.key = None]

BeginLoginAttempt(r) ==
  /\ At(r, "key", "idle")
  /\ session' = Reserved(session, Attempt(r))
  /\ EndLogins(Pending(Attempts))
  /\ Goto(r, "reserved")
  /\ UNCHANGED <<device, migrated, epoch, running, held, stopped, owner, logins,
                 identities, unfinished>>

KeyCapture(r) ==
  /\ At(r, "key", "reserved")
  /\ CaptureIdentity(r)
  /\ Goto(r, "asking")
  /\ UNCHANGED <<session, migrated, epoch, running, stopped, owner, logins, ended,
                 unfinished>>

MayPublishAnyAttempt(r) == SameAccount(r) /\ SameDevice(r) /\ TryCommit(r)
MayPublish(r) == /\ session.attempt = Attempt(r)
                 /\ SameAccount(r) /\ SameDevice(r)
                 /\ TryCommit(r)

PublishLoginKey(r) ==
  /\ At(r, "key", "asking")
  /\ session' = IF MayPublish(r) THEN [session EXCEPT !.key = r] ELSE session
  /\ Goto(r, "done")
  /\ UNCHANGED <<device, migrated, epoch, running, held, stopped, history>>

(* /login/qr/cancel.                                                       *)
OwnsAttempt(r) == session.attempt = Attempt(r)

CancelLoginAttempt(r) ==
  /\ At(r, "cancel", "idle")
  /\ session' = IF OwnsAttempt(r) THEN [session EXCEPT !.attempt = None, !.key = None]
                ELSE session
  /\ EndLogins(Pending({Attempt(r)}))
  /\ Goto(r, "done")
  /\ UNCHANGED <<device, migrated, epoch, running, held, stopped, owner, logins,
                 identities, unfinished>>

-----------------------------------------------------------------------------
(* /login/qr/check: load the generation, see that the key is the active    *)
(* one, capture, poll the upstream, register and refresh, commit.          *)
IsLoginAttemptCurrent(r) == SameAccount(r) /\ session.key = held[r].key

CheckLoad(r) ==
  /\ At(r, "check", "idle")
  /\ \E k \in Requests : /\ Kind(k) = "key" /\ pc[k] = "done"
                         /\ held' = [held EXCEPT ![r].gen = session.gen, ![r].key = k]
  /\ Goto(r, "loaded")
  /\ UNCHANGED <<rows, epoch, running, stopped, history>>

CheckCurrent(r) ==
  /\ At(r, "check", "loaded")
  /\ Goto(r, IF IsLoginAttemptCurrent(r) /\ r \notin stopped THEN "current" ELSE "done")
  /\ UNCHANGED <<rows, epoch, running, held, stopped, history>>

(* CaptureIdentity with the expected generation leaves the device alone    *)
(* when the account has moved on, and the request ends.                    *)
CheckCapture(r) ==
  /\ At(r, "check", "current")
  /\ IF SameAccount(r)
       THEN CaptureIdentity(r) /\ Goto(r, "polling")
       ELSE Goto(r, "done") /\ UNCHANGED <<device, held, identities>>
  /\ UNCHANGED <<session, migrated, epoch, running, stopped, owner, logins, ended,
                 unfinished>>

(* The scan is confirmed; an unregistered device may be registered on the  *)
(* way, in memory; commitRefusal ends the request when the attempt is no   *)
(* longer current or the request has been stopped.  An unconfirmed scan or *)
(* a failing upstream is Fail.                                             *)
CheckConfirmed(r) ==
  /\ At(r, "check", "polling")
  /\ \/ /\ ~IsLoginAttemptCurrent(r) \/ r \in stopped
        /\ Goto(r, "done")
        /\ UNCHANGED <<held, identities>>
     \/ /\ IsLoginAttemptCurrent(r) /\ r \notin stopped
        /\ Goto(r, "confirmed")
        /\ UNCHANGED <<held, identities>>
     \/ /\ IsLoginAttemptCurrent(r) /\ r \notin stopped
        /\ ~held[r].device.registered
        /\ Goto(r, "registered")
        /\ held' = [held EXCEPT ![r].device.id = identities + 1,
                                ![r].device.registered = TRUE]
        /\ identities' = identities + 1
  /\ UNCHANGED <<rows, epoch, running, stopped, owner, logins, ended, unfinished>>

DeviceUnchecked(r) == TRUE
DeviceUnmoved(r) == SameDevice(r)
AttemptLives(r)  == SameAccount(r) /\ session.key = held[r].key
MayLogin(r)      == DeviceUnmoved(r) /\ AttemptLives(r) /\ TryCommit(r)

(* The transaction of CommitLoginAttempt: a new generation, the new        *)
(* credentials, no attempt, no lazy-refresh metadata, and the device the   *)
(* credentials were minted on when this request registered it.             *)
CommitLoginAttempt(r) ==
  /\ running /\ pc[r] \in {"confirmed", "registered"}
  /\ Goto(r, "done")
  /\ IF MayLogin(r)
       THEN /\ \E vip \in BOOLEAN :
                 session' = [Blank EXCEPT !.gen = NextGeneration(session),
                               !.token = logins + 1, !.profile = logins + 1,
                               !.minted = held[r].device.id, !.vip = vip]
            /\ device' = IF pc[r] = "registered" THEN StampDevice(held[r].device) ELSE device
            /\ logins' = logins + 1
            /\ owner' = logins + 1
            /\ EndLogins(Pending(Attempts) \ {r})
       ELSE UNCHANGED <<session, device, logins, owner, ended>>
  /\ UNCHANGED <<migrated, epoch, running, held, stopped, identities, unfinished>>

-----------------------------------------------------------------------------
(* /auth/logout: ClearWithDevice, unconditionally.                         *)
ClearWithDevice(r) ==
  /\ At(r, "logout", "idle")
  /\ session' = Cleared(session)
  /\ device' = StampDevice(NoDevice(0))
  /\ owner' = 0
  /\ EndLogins(Pending(Attempts))
  /\ Goto(r, "done")
  /\ UNCHANGED <<migrated, epoch, running, held, stopped, logins, identities, unfinished>>

(* /settings/device: capture, then replace exactly that device.            *)
SettingsCapture(r) ==
  /\ At(r, "settings", "idle")
  /\ CaptureIdentity(r)
  /\ Goto(r, "replacing")
  /\ UNCHANGED <<session, migrated, epoch, running, stopped, owner, logins, ended,
                 unfinished>>

MayReplaceDevice(r) == SameAccount(r) /\ SameDevice(r) /\ TryCommit(r)

ReplaceDevice(r) ==
  /\ At(r, "settings", "replacing")
  /\ \E registered \in BOOLEAN :
       IF MayReplaceDevice(r)
         THEN /\ device' = StampDevice([id |-> identities + 1, registered |-> registered,
                                        rev |-> 0])
              /\ identities' = identities + 1
         ELSE UNCHANGED <<device, identities>>
  /\ Goto(r, "done")
  /\ UNCHANGED <<session, migrated, epoch, running, held, stopped, owner, logins, ended,
                 unfinished>>

-----------------------------------------------------------------------------
(* /user/detail and /user/playlist: capture once, then patch.              *)
ContextCapture(r) ==
  /\ running /\ Kind(r) \in {"detail", "playlist"} /\ pc[r] = "idle"
  /\ CaptureIdentity(r)
  /\ Goto(r, IF ~Credentials(session) THEN "done"
             ELSE IF Kind(r) = "detail" /\ ~session.vip THEN "claiming"
             ELSE IF Kind(r) = "playlist" /\ ~Prepared.registered THEN "registering"
             ELSE "patching")
  /\ UNCHANGED <<session, migrated, epoch, running, stopped, owner, logins, ended,
                 unfinished>>

(* A claim suppresses another only while it is in flight in this process,  *)
(* or cooling down.                                                        *)
Suppressed == \/ session.lazy.state = "inFlight" /\ session.lazy.epoch = epoch
              \/ session.lazy.state = "cooling"
MayClaim(r) == SameAccount(r) /\ Credentials(session) /\ ~session.vip /\ ~Suppressed

TryClaimLazyVipRefresh(r) ==
  /\ At(r, "detail", "claiming")
  /\ IF MayClaim(r)
       THEN /\ session' = [session EXCEPT
                             !.lazy = [state |-> "inFlight", epoch |-> epoch, claim |-> r]]
            /\ held' = [held EXCEPT ![r].login = session.token]
            /\ Goto(r, "refreshing")
       ELSE UNCHANGED <<session, held>> /\ Goto(r, "patching")
  /\ UNCHANGED <<device, migrated, epoch, running, stopped, history>>

(* PatchIdentity with credentials: what the upstream answered to the token *)
(* of the ticket, minted on the captured device; it may bring no vip token. *)
(* RefreshSession sends nothing for a device that is not registered.       *)
MayPatchCredentials(r) == /\ SameAccount(r) /\ SameDevice(r)
                          /\ Credentials(session) /\ TryCommit(r)

ReplaceCredentials(r) ==
  /\ At(r, "detail", "refreshing") /\ held[r].device.registered
  /\ \E vip \in BOOLEAN :
       session' = IF MayPatchCredentials(r)
                    THEN [session EXCEPT !.token = held[r].login, !.vip = vip,
                                         !.minted = held[r].device.id]
                    ELSE session
  /\ Goto(r, "finishing")
  /\ UNCHANGED <<device, migrated, epoch, running, held, stopped, history>>

(* The guard's destructor.  The write may fail, which is swallowed.        *)
HoldsClaim(r) == /\ SameAccount(r)
                 /\ session.lazy = [state |-> "inFlight", epoch |-> epoch, claim |-> r]

FinishLazyVipRefresh(r) ==
  /\ running /\ pc[r] \in {"finishing", "unwinding"}
  /\ Goto(r, IF pc[r] = "finishing" THEN "patching" ELSE "done")
  /\ \/ /\ session' = IF HoldsClaim(r) THEN [session EXCEPT !.lazy = Cooling(@)] ELSE session
        /\ UNCHANGED unfinished
     \/ /\ HoldsClaim(r)
        /\ unfinished' = unfinished \cup {r}
        /\ UNCHANGED session
  /\ UNCHANGED <<device, migrated, epoch, running, held, stopped, owner, logins, identities,
                 ended>>

(* The 30 seconds after a finished refresh have passed.                    *)
CooldownEnds ==
  /\ running /\ session.lazy.state = "cooling"
  /\ session' = [session EXCEPT !.lazy = NoClaim]
  /\ UNCHANGED <<device, migrated, epoch, running, pc, held, stopped, history>>

(* RegisterDevice: the upstream answers with a dfid, CommitRegistration    *)
(* stores it on the very device it was asked for.                          *)
MayRegister(r) == SameAccount(r) /\ SameDevice(r) /\ TryCommit(r)

RegisterDevice(r) ==
  /\ At(r, "playlist", "registering")
  /\ IF MayRegister(r)
       THEN /\ device' = StampDevice([id |-> identities + 1, registered |-> TRUE, rev |-> 0])
            /\ identities' = identities + 1
            /\ held' = [held EXCEPT ![r].rev = @ + 1]
            /\ Goto(r, "patching")
       ELSE Goto(r, "done") /\ UNCHANGED <<device, identities, held>>
  /\ UNCHANGED <<session, migrated, epoch, running, stopped, owner, logins, ended,
                 unfinished>>

(* PatchIdentity with a profile: nickname and picture of the account the   *)
(* request asked about.  The device may have moved meanwhile.              *)
MayPatchAnyAccount(r) == Credentials(session) /\ TryCommit(r)
MayPatchProfile(r) == SameAccount(r) /\ Credentials(session) /\ TryCommit(r)

PatchProfile(r) ==
  /\ running /\ pc[r] = "patching"
  /\ session' = IF MayPatchProfile(r) THEN [session EXCEPT !.profile = held[r].login]
                ELSE session
  /\ Goto(r, "done")
  /\ UNCHANGED <<device, migrated, epoch, running, held, stopped, history>>

(* An exception, a failing upstream or an answer that asks for no write.   *)
(* The destructor of the claim guard runs on every way out of a refresh.   *)
AfterFailure(place) == CASE place = "refreshing"  -> {"finishing", "unwinding"}
                         [] place = "registering" -> {"patching", "done"}
                         [] OTHER                 -> {"done"}

Fail(r) ==
  /\ running /\ pc[r] \notin {"idle", "done", "finishing", "unwinding"}
  /\ \E place \in AfterFailure(pc[r]) : Goto(r, place)
  /\ UNCHANGED <<rows, epoch, running, held, stopped, history>>

-----------------------------------------------------------------------------
LoginStep(r)   == \/ BeginLoginAttempt(r) \/ KeyCapture(r) \/ PublishLoginKey(r)
                  \/ CancelLoginAttempt(r) \/ CheckLoad(r) \/ CheckCurrent(r)
                  \/ CheckCapture(r) \/ CheckConfirmed(r) \/ CommitLoginAttempt(r)
AccountStep(r) == \/ ClearWithDevice(r) \/ SettingsCapture(r) \/ ReplaceDevice(r)
                  \/ ContextCapture(r) \/ RegisterDevice(r) \/ PatchProfile(r)
RefreshStep(r) == \/ TryClaimLazyVipRefresh(r) \/ ReplaceCredentials(r)
                  \/ FinishLazyVipRefresh(r)

Next == \/ Start \/ Crash \/ CooldownEnds
        \/ \E r \in Requests : \/ LoginStep(r) \/ AccountStep(r) \/ RefreshStep(r)
                               \/ Stop(r) \/ Fail(r)

Spec == Init /\ [][Next]_vars
-----------------------------------------------------------------------------
Places == {"idle", "done", "reserved", "asking", "loaded", "current", "polling",
           "confirmed", "registered", "replacing", "claiming", "refreshing", "finishing",
           "unwinding", "registering", "patching"}
Devices == [rev : Nat, id : Nat, registered : BOOLEAN]

TypeOK ==
  /\ session \in [form : {"absent", "plaintext", "envelope", "damaged"},
                  gen : Nat, token : Nat, profile : Nat, minted : Nat, vip : BOOLEAN,
                  lazy : [state : {"none", "inFlight", "cooling"}, epoch : Nat,
                          claim : Requests \cup {None}],
                  attempt : Attempts \cup {None}, key : Requests \cup {None}]
  /\ device \in Devices
  /\ migrated \in BOOLEAN /\ running \in BOOLEAN /\ epoch \in 0..MaxEpoch
  /\ pc \in [Requests -> Places]
  /\ held \in [Requests -> [call : [kind : Kinds, attempt : Attempts], gen : Nat, rev : Nat, login : Nat, device : Devices,
                            key : Requests \cup {None}]]
  /\ stopped \subseteq Requests /\ ended \subseteq Requests /\ unfinished \subseteq Requests
  /\ owner \in Nat /\ logins \in Nat /\ identities \in Nat

Refreshing(r) == pc[r] \in {"refreshing", "finishing", "unwinding"}

(* One account generation has one lazy VIP refresh in flight at a time;    *)
(* and a claim that suppresses refreshes in this process is held by a      *)
(* request that will still release it, unless the release could not be     *)
(* written.                                                                *)
OneLazyRefresh ==
  /\ \A r, q \in Requests :
       Refreshing(r) /\ Refreshing(q) /\ r # q => held[r].gen # held[q].gen
  /\ running /\ session.lazy.state = "inFlight" /\ session.lazy.epoch = epoch
       => Refreshing(session.lazy.claim) \/ session.lazy.claim \in unfinished

(* Whatever the order of requests and restarts, the credentials and the    *)
(* profile stored are those of the account that logged in last and has not *)
(* logged out: no late answer puts an ended session, or a piece of it,     *)
(* back, and no restart loses one.  While a process runs the row can be    *)
(* read, so no login attempt starts the generations again from 0.  Nor do  *)
(* two refreshes race to replace one token.                                *)
AccountIsolation ==
  /\ TypeOK /\ OneLazyRefresh
  /\ running => /\ session.form = "envelope" /\ session.gen > 0
                /\ session.token = owner /\ session.profile = owner

(* A late QR login never lands: a check does not commit, and a key is not  *)
(* published, for an attempt that has since been superseded by another,    *)
(* cancelled, completed by another check or ended by a logout or by a      *)
(* restart; nor does a check that begins only then, with the ended key.    *)
LateLoginNeverLands ==
  [][/\ \A r \in Requests :
          /\ pc[r] \in {"confirmed", "registered"} /\ pc'[r] = "done"
          /\ (r \in ended \/ held[r].key \in ended)
          => logins' = logins
     /\ session'.key \in Requests /\ session'.key # session.key
           => session'.key \notin ended]_vars

(* Credentials are stored only beside the device they were minted on: a    *)
(* device replaced, registered or cleared during the network wait refuses  *)
(* the credentials of the old one.  And the generation never goes back:    *)
(* whatever changes the account in charge moves it forward, so that no     *)
(* version captured before a wait matches a later account.                 *)
MintedOnStoredDevice ==
  [][/\ session'.minted # session.minted => session'.minted \in {0, device'.id}
     /\ session'.gen >= session.gen
     /\ owner' # owner \/ logins' # logins => session'.gen > session.gen]_vars
=============================================================================
