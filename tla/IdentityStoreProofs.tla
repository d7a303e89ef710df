------------------------- MODULE IdentityStoreProofs -------------------------
(* The account and device records for any number of requests, login attempts
   and restarts, and any wall clock. *)
EXTENDS IdentityStore, TLAPS

LazyClaims == [state : {"none", "inFlight", "cooling"}, epoch : Nat, claim : Requests \cup {None}]
Forms      == {"absent", "plaintext", "envelope", "damaged"}
Sessions   == [form : Forms, gen : Nat, token : Nat, profile : Nat, minted : Nat, vip : BOOLEAN,
               lazy : LazyClaims, attempt : Attempts \cup {None}, key : Requests \cup {None}]
CallSet    == [kind : Kinds, attempt : Attempts]
Holdings   == [call : CallSet, gen : Nat, rev : Nat, login : Nat, device : Devices,
               key : Requests \cup {None}]

HeldOK == held \in [Requests -> Holdings]
PlacesOK == pc \in [Requests -> Places]
RowsOK == session \in Sessions /\ device \in Devices /\ migrated \in BOOLEAN
RestOK ==
  /\ running \in BOOLEAN /\ epoch \in Nat
  /\ stopped \subseteq Requests /\ ended \subseteq Requests /\ unfinished \subseteq Requests
  /\ owner \in Nat /\ logins \in Nat /\ identities \in Nat
Typed == HeldOK /\ PlacesOK /\ RowsOK /\ RestOK

LEMMA BlankTyped ==
  /\ Blank \in Sessions /\ Blank.form = "envelope" /\ Blank.gen = 0 /\ Blank.token = 0
  /\ Blank.profile = 0 /\ Blank.minted = 0 /\ Blank.attempt = None /\ Blank.key = None
  /\ Blank.lazy = NoClaim /\ NoClaim.state = "none" /\ NoClaim.epoch = 0
  /\ NoClaim \in LazyClaims
<1>1. NoClaim \in LazyClaims /\ NoClaim.state = "none" /\ NoClaim.epoch = 0
  BY DEF NoClaim, LazyClaims
<1> QED BY <1>1 DEF Blank, Sessions, Forms

LEMMA NextTyped == ASSUME NEW s \in Sessions PROVE NextGeneration(s) \in Nat
BY ConstantsAssumption DEF NextGeneration, Sessions

LEMMA ClearedTyped ==
  ASSUME NEW s \in Sessions
  PROVE  /\ Cleared(s) \in Sessions /\ Cleared(s).form = "envelope" /\ Cleared(s).token = 0
         /\ Cleared(s).profile = 0 /\ Cleared(s).minted = 0
         /\ Cleared(s).gen = NextGeneration(s) /\ Cleared(s).attempt = None
         /\ Cleared(s).key = None /\ Cleared(s).lazy = NoClaim
BY BlankTyped, NextTyped DEF Cleared, Sessions

LEMMA StampTyped ==
  ASSUME Typed, NEW d \in Devices
  PROVE  /\ StampDevice(d) \in Devices /\ StampDevice(d).rev = device.rev + 1
         /\ StampDevice(d).id = d.id
BY DEF Typed, RowsOK, Devices, StampDevice

LEMMA PreparedTyped ==
  ASSUME Typed
  PROVE  /\ Prepared \in Devices /\ Prepared.rev >= device.rev
         /\ Prepared = device \/ Prepared.rev = device.rev + 1
<1> DEFINE d == [id |-> identities + 1, registered |-> FALSE, rev |-> 0]
<1>1. Prepared = IF device.id # 0 THEN device ELSE StampDevice(d)
  BY DEF Prepared
<1>2. d \in Devices
  BY DEF Typed, RestOK, Devices
<1>3. device \in Devices /\ device.rev \in Nat
  BY DEF Typed, RowsOK, Devices
<1> HIDE DEF d
<1> QED BY <1>1, <1>2, <1>3, StampTyped

(* What a capture puts in the hands of a request. *)
LEMMA CaptureFacts ==
  ASSUME Typed, NEW r \in Requests, CaptureIdentity(r)
  PROVE  /\ HeldOK' /\ device' \in Devices /\ identities' \in Nat
         /\ \A q \in Requests \ {r} : held'[q] = held[q]
         /\ held'[r].gen = session.gen /\ held'[r].login = session.token
         /\ held'[r].rev = device'.rev /\ held'[r].device = device'
         /\ held'[r].call = held[r].call /\ held'[r].key = held[r].key
         /\ device' = device \/ device'.rev = device.rev + 1
<1> DEFINE h == [held[r] EXCEPT !.gen = session.gen, !.rev = Prepared.rev,
                                !.login = session.token, !.device = Prepared]
<1>1. held' = [held EXCEPT ![r] = h] /\ device' = Prepared /\ identities' \in Nat
  BY DEF CaptureIdentity, PrepareDevice, Typed, RestOK
<1>2. held[r] \in Holdings /\ session \in Sessions
  BY DEF Typed, HeldOK, RowsOK
<1>3. Prepared \in Devices
  BY PreparedTyped
<1>4. /\ h.gen = session.gen /\ h.login = session.token /\ h.rev = Prepared.rev
      /\ h.device = Prepared /\ h.call = held[r].call /\ h.key = held[r].key
  BY <1>2 DEF Holdings
<1>5. h \in Holdings
  BY <1>2, <1>3 DEF Holdings, Sessions, Devices
<1> HIDE DEF h
<1> QED BY <1>1, <1>3, <1>4, <1>5, PreparedTyped DEF Typed, HeldOK
-----------------------------------------------------------------------------
(* What each step writes, field by field. *)
HeldKept(r) == \A q \in Requests \ {r} : held'[q] = held[q]
Moved(r)    == \A q \in Requests \ {r} : pc'[q] = pc[q]

LEMMA GotoFacts ==
  ASSUME PlacesOK, NEW r \in Requests, NEW place \in Places, Goto(r, place)
  PROVE  PlacesOK' /\ Moved(r) /\ pc'[r] = place
BY DEF PlacesOK, Goto, Moved

(* The capture steps. *)
LEMMA CheckLoadFacts ==
  ASSUME Typed, NEW r \in Requests, CheckLoad(r)
  PROVE  /\ HeldOK' /\ HeldKept(r)
         /\ held'[r].gen = session.gen /\ held'[r].rev = held[r].rev
         /\ held'[r].login = held[r].login /\ held'[r].device = held[r].device
         /\ held'[r].call = held[r].call
         /\ held'[r].key \in Requests /\ Kind(held'[r].key) = "key" /\ pc[held'[r].key] = "done"
<1>1. PICK k \in Requests : /\ Kind(k) = "key" /\ pc[k] = "done"
                            /\ held' = [held EXCEPT ![r].gen = session.gen, ![r].key = k]
  BY DEF CheckLoad
<1> DEFINE h == [held[r] EXCEPT !.gen = session.gen, !.key = k]
<1>2. held[r] \in Holdings /\ session.gen \in Nat
  BY DEF Typed, HeldOK, RowsOK, Sessions
<1>3. /\ h.gen = session.gen /\ h.login = held[r].login /\ h.rev = held[r].rev
      /\ h.device = held[r].device /\ h.call = held[r].call /\ h.key = k
  BY <1>2 DEF Holdings
<1>4. h \in Holdings
  BY <1>2 DEF Holdings
<1>5. held' = [held EXCEPT ![r] = h]
  BY <1>1, <1>2 DEF Typed, HeldOK
<1> HIDE DEF h
<1> QED BY <1>1, <1>3, <1>4, <1>5 DEF Typed, HeldOK, HeldKept

LEMMA RegisteredTyped ==
  ASSUME NEW d \in Devices, NEW n \in Nat, NEW b \in BOOLEAN
  PROVE  [d EXCEPT !.id = n, !.registered = b] \in Devices
BY DEF Devices

LEMMA ConfirmedFacts ==
  ASSUME Typed, NEW r \in Requests, CheckConfirmed(r)
  PROVE  /\ HeldOK' /\ HeldKept(r) /\ identities' \in Nat
         /\ held'[r].gen = held[r].gen /\ held'[r].rev = held[r].rev
         /\ held'[r].login = held[r].login /\ held'[r].call = held[r].call
         /\ held'[r].key = held[r].key
         /\ pc'[r] = "confirmed" => held'[r].device = held[r].device
<1>1. CASE held' = held /\ identities' = identities
  BY <1>1 DEF Typed, HeldOK, HeldKept, RestOK
<1>2. CASE /\ held' = [held EXCEPT ![r].device.id = identities + 1, ![r].device.registered = TRUE]
           /\ identities' = identities + 1 /\ Goto(r, "registered")
  <2> DEFINE d == [held[r].device EXCEPT !.id = identities + 1, !.registered = TRUE]
             h == [held[r] EXCEPT !.device = d]
  <2>1. held[r] \in Holdings /\ held[r].device \in Devices /\ identities \in Nat
    BY DEF Typed, HeldOK, Holdings, RestOK
  <2>2. d \in Devices /\ identities' \in Nat
    <3>1. identities + 1 \in Nat /\ TRUE \in BOOLEAN
      BY <2>1
    <3>2. d \in Devices
      BY <2>1, <3>1, RegisteredTyped
    <3> QED BY <1>2, <3>1, <3>2
  <2>3. held' = [held EXCEPT ![r] = h]
    BY <1>2, <2>1 DEF Typed, HeldOK, Holdings, Devices
  <2> HIDE DEF d
  <2>4. /\ h \in Holdings /\ h.gen = held[r].gen /\ h.login = held[r].login /\ h.rev = held[r].rev
        /\ h.call = held[r].call /\ h.key = held[r].key
    BY <2>1, <2>2 DEF Holdings
  <2> HIDE DEF h
  <2>5. pc'[r] = "registered"
    BY <1>2 DEF Goto, Typed, PlacesOK
  <2>6. HeldOK' /\ HeldKept(r) /\ held'[r] = h
    BY <2>3, <2>4 DEF Typed, HeldOK, HeldKept
  <2> QED BY <2>2, <2>4, <2>5, <2>6
<1> QED BY <1>1, <1>2 DEF CheckConfirmed

LEMMA ClaimFacts ==
  ASSUME Typed, NEW r \in Requests, TryClaimLazyVipRefresh(r), MayClaim(r)
  PROVE  /\ HeldOK' /\ HeldKept(r)
         /\ held'[r].gen = held[r].gen /\ held'[r].rev = held[r].rev
         /\ held'[r].login = session.token /\ held'[r].call = held[r].call
         /\ held'[r].key = held[r].key /\ held'[r].device = held[r].device
         /\ session' \in Sessions
         /\ session'.lazy = [state |-> "inFlight", epoch |-> epoch, claim |-> r]
         /\ session'.form = session.form /\ session'.gen = session.gen
         /\ session'.token = session.token /\ session'.profile = session.profile
         /\ session'.minted = session.minted
         /\ session'.attempt = session.attempt /\ session'.key = session.key
<1> DEFINE l == [state |-> "inFlight", epoch |-> epoch, claim |-> r]
           h == [held[r] EXCEPT !.login = session.token]
<1>1. session' = [session EXCEPT !.lazy = l] /\ held' = [held EXCEPT ![r] = h]
  BY DEF TryClaimLazyVipRefresh, Typed, HeldOK
<1>2. held[r] \in Holdings /\ session \in Sessions
  BY DEF Typed, HeldOK, RowsOK
<1>3. l \in LazyClaims
  BY DEF Typed, RestOK, LazyClaims
<1>4. /\ h \in Holdings /\ h.gen = held[r].gen /\ h.login = session.token /\ h.rev = held[r].rev
      /\ h.call = held[r].call /\ h.key = held[r].key /\ h.device = held[r].device
  BY <1>2 DEF Holdings, Sessions
<1> HIDE DEF h
<1>5. HeldOK' /\ HeldKept(r) /\ held'[r] = h
  BY <1>1, <1>4 DEF Typed, HeldOK, HeldKept
<1> HIDE DEF l
<1>6. /\ session' \in Sessions /\ session'.lazy = l
      /\ session'.form = session.form /\ session'.gen = session.gen
      /\ session'.token = session.token /\ session'.profile = session.profile
      /\ session'.minted = session.minted
      /\ session'.attempt = session.attempt /\ session'.key = session.key
  BY <1>1, <1>2, <1>3 DEF Sessions
<1> QED BY <1>4, <1>5, <1>6 DEF l

LEMMA RegisterFacts ==
  ASSUME Typed, NEW r \in Requests, RegisterDevice(r), MayRegister(r)
  PROVE  /\ HeldOK' /\ HeldKept(r) /\ identities' \in Nat
         /\ device' \in Devices /\ device'.rev = device.rev + 1
         /\ held'[r].gen = held[r].gen /\ held'[r].rev = held[r].rev + 1
         /\ held'[r].login = held[r].login /\ held'[r].call = held[r].call
         /\ held'[r].key = held[r].key
<1> DEFINE d == [id |-> identities + 1, registered |-> TRUE, rev |-> 0]
           h == [held[r] EXCEPT !.rev = held[r].rev + 1]
<1>1. device' = StampDevice(d) /\ held' = [held EXCEPT ![r] = h] /\ identities' = identities + 1
  BY DEF RegisterDevice, Typed, HeldOK
<1>2. held[r] \in Holdings /\ identities \in Nat
  BY DEF Typed, HeldOK, RestOK
<1>3. d \in Devices
  BY <1>2 DEF Devices
<1> HIDE DEF d
<1>4. /\ h \in Holdings /\ h.gen = held[r].gen /\ h.login = held[r].login /\ h.rev = held[r].rev + 1
      /\ h.call = held[r].call /\ h.key = held[r].key
  BY <1>2 DEF Holdings
<1> HIDE DEF h
<1> QED BY <1>1, <1>2, <1>3, <1>4, StampTyped DEF Typed, HeldOK, HeldKept

(* The steps that write the session row. *)
RowKept   == /\ session'.form = session.form /\ session'.gen = session.gen
             /\ session'.profile = session.profile
TokenKept == session'.token = session.token /\ session'.minted = session.minted
LazyKept  == session'.lazy = session.lazy
LoginKept == session'.attempt = session.attempt /\ session'.key = session.key

LEMMA SealedFacts ==
  ASSUME NEW s \in Sessions, NEW g \in Nat
  PROVE  LET t == [s EXCEPT !.form = "envelope", !.gen = g] IN
         /\ t \in Sessions /\ t.form = "envelope" /\ t.gen = g /\ t.token = s.token
         /\ t.profile = s.profile /\ t.lazy = s.lazy /\ t.minted = s.minted
BY DEF Sessions, Forms

LEMMA ResumedFacts ==
  ASSUME NEW s \in Sessions, NEW g \in Nat
  PROVE  LET t == [s EXCEPT !.gen = g, !.attempt = None, !.key = None] IN
         /\ t \in Sessions /\ t.form = s.form /\ t.gen = g /\ t.token = s.token
         /\ t.profile = s.profile /\ t.lazy = s.lazy /\ t.minted = s.minted
         /\ t.attempt = None /\ t.key = None
BY DEF Sessions

LEMMA StartFacts ==
  ASSUME Typed, session.form \in {"absent", "damaged"} => session.gen = 0, Start
  PROVE  /\ session' \in Sessions /\ session'.form = "envelope" /\ session'.gen > session.gen
         /\ session'.attempt = None /\ session'.key = None
         /\ session'.lazy = session.lazy \/ session'.lazy = NoClaim
         /\ session'.minted = session.minted \/ session'.minted = 0
         /\ \/ /\ session.token # 0 /\ session'.token = session.token
               /\ session'.profile = session.profile
               /\ session.form = "envelope" \/ Migrates
            \/ /\ session'.token = 0 /\ session'.profile = 0
               /\ session.token = 0 \/ (session.form # "envelope" /\ ~Migrates)
<1> DEFINE s == LoadSnapshot(session)
<1>0. session \in Sessions /\ session.gen \in Nat
  BY DEF Typed, RowsOK, Sessions
<1>1. /\ s \in Sessions /\ s.gen >= session.gen /\ s.token = session.token
      /\ s.profile = session.profile /\ s.lazy = session.lazy /\ s.minted = session.minted
      /\ s.form = IF Migrates THEN "envelope" ELSE session.form
  <2>1. CASE Migrates
    <3>1. s = [session EXCEPT !.form = "envelope", !.gen = session.gen + 1]
      BY <2>1 DEF LoadSnapshot
    <3>2. session.gen + 1 \in Nat /\ session.gen + 1 >= session.gen
      BY <1>0
    <3> HIDE DEF s
    <3>3. /\ s \in Sessions /\ s.form = "envelope" /\ s.gen = session.gen + 1 /\ s.token = session.token
          /\ s.profile = session.profile /\ s.lazy = session.lazy /\ s.minted = session.minted
      BY <1>0, <3>1, <3>2, SealedFacts
    <3> QED BY <2>1, <3>2, <3>3
  <2>2. CASE ~Migrates
    BY <1>0, <2>2 DEF LoadSnapshot
  <2> QED BY <2>1, <2>2
<1>2. session' = BeginRuntimeEpoch(s)
  BY DEF Start
<1> HIDE DEF s
<1>3. NextGeneration(s) \in Nat
  BY <1>1, NextTyped
<1>4. CASE Credentials(s)
  <2>1. NextGeneration(s) = s.gen + 1 /\ s.form = "envelope" /\ s.token # 0
    BY <1>4 DEF NextGeneration, Credentials
  <2>2. session' = [s EXCEPT !.gen = s.gen + 1, !.attempt = None, !.key = None]
    BY <1>2, <1>4, <2>1 DEF BeginRuntimeEpoch
  <2>3. /\ session' \in Sessions /\ session'.gen = s.gen + 1 /\ session'.form = s.form
        /\ session'.attempt = None /\ session'.key = None /\ session'.lazy = s.lazy
        /\ session'.token = s.token /\ session'.profile = s.profile /\ session'.minted = s.minted
    <3>1. s.gen + 1 \in Nat
      BY <1>1 DEF Sessions
    <3> QED BY <1>1, <2>2, <3>1, ResumedFacts
  <2>4. session.form = "envelope" \/ Migrates
    BY <1>1, <2>1
  <2>5. s.gen + 1 > session.gen
    BY <1>0, <1>1 DEF Sessions
  <2> QED BY <1>1, <2>1, <2>3, <2>4, <2>5
<1>5. CASE ~Credentials(s)
  <2>1. session' = Cleared(s)
    BY <1>2, <1>5 DEF BeginRuntimeEpoch
  <2>2. session'.gen = NextGeneration(s)
    BY <1>1, <2>1, ClearedTyped
  <2>3. s.token = 0 \/ s.form # "envelope"
    BY <1>5 DEF Credentials
  <2>4. session.token = 0 \/ (session.form # "envelope" /\ ~Migrates)
    BY <1>1, <2>3
  <2>5. session'.gen > session.gen
    BY <1>0, <1>1, <2>2, ConstantsAssumption DEF NextGeneration, Sessions
  <2>6. /\ session' \in Sessions /\ session'.form = "envelope" /\ session'.token = 0
        /\ session'.profile = 0 /\ session'.minted = 0 /\ session'.attempt = None
        /\ session'.key = None /\ session'.lazy = NoClaim
    BY <1>1, <2>1, ClearedTyped
  <2> QED BY <2>4, <2>5, <2>6
<1> QED BY <1>4, <1>5

LEMMA AttemptFacts ==
  ASSUME Typed, NEW r \in Requests,
         BeginLoginAttempt(r) \/ PublishLoginKey(r) \/ CancelLoginAttempt(r)
  PROVE  session' \in Sessions /\ RowKept /\ TokenKept /\ LazyKept
<1>0. session \in Sessions /\ Attempt(r) \in Attempts
  BY DEF Typed, RowsOK, HeldOK, Holdings, CallSet, Attempt
<1>1. \/ session' = session
      \/ session' = [session EXCEPT !.key = r]
      \/ session' = [session EXCEPT !.attempt = Attempt(r), !.key = None]
      \/ session' = [session EXCEPT !.attempt = None, !.key = None]
  BY DEF BeginLoginAttempt, Reserved, PublishLoginKey, CancelLoginAttempt
<1> QED BY <1>0, <1>1 DEF Sessions, RowKept, TokenKept, LazyKept

LEMMA CommitFacts ==
  ASSUME Typed, NEW r \in Requests, CommitLoginAttempt(r), MayLogin(r)
  PROVE  /\ session' \in Sessions /\ session'.form = "envelope"
         /\ session'.gen = NextGeneration(session) /\ session'.token = logins + 1
         /\ session'.profile = logins + 1 /\ session'.minted = held[r].device.id
         /\ session'.lazy = NoClaim /\ session'.attempt = None /\ session'.key = None
         /\ device' \in Devices
         /\ device' = device \/ device'.rev = device.rev + 1
         /\ pc[r] = "registered" => device'.id = held[r].device.id
<1>1. PICK vip \in BOOLEAN :
        session' = [Blank EXCEPT !.gen = NextGeneration(session),
                      !.token = logins + 1, !.profile = logins + 1,
                      !.minted = held[r].device.id, !.vip = vip]
  BY DEF CommitLoginAttempt
<1>2. /\ NextGeneration(session) \in Nat /\ logins + 1 \in Nat
      /\ held[r].device \in Devices /\ held[r].device.id \in Nat
  BY NextTyped DEF Typed, RowsOK, RestOK, HeldOK, Holdings, Devices
<1>3. /\ session' \in Sessions /\ session'.form = "envelope"
      /\ session'.gen = NextGeneration(session) /\ session'.token = logins + 1
      /\ session'.profile = logins + 1 /\ session'.minted = held[r].device.id
      /\ session'.lazy = NoClaim /\ session'.attempt = None /\ session'.key = None
  BY <1>1, <1>2, BlankTyped DEF Sessions
<1>4. device' = IF pc[r] = "registered" THEN StampDevice(held[r].device) ELSE device
  BY DEF CommitLoginAttempt
<1> QED BY <1>2, <1>3, <1>4, StampTyped DEF Typed, RowsOK

LEMMA ReplaceFacts ==
  ASSUME Typed, NEW r \in Requests, ReplaceCredentials(r)
  PROVE  /\ session' \in Sessions /\ RowKept /\ LazyKept /\ LoginKept
         /\ \/ session' = session
            \/ /\ MayPatchCredentials(r)
               /\ session'.token = held[r].login /\ session'.minted = held[r].device.id
<1>1. PICK vip \in BOOLEAN :
        session' = IF MayPatchCredentials(r)
                   THEN [session EXCEPT !.token = held[r].login, !.vip = vip,
                                        !.minted = held[r].device.id]
                   ELSE session
  BY DEF ReplaceCredentials
<1>2. session \in Sessions /\ held[r].login \in Nat /\ held[r].device.id \in Nat
  BY DEF Typed, RowsOK, HeldOK, Holdings, Devices
<1> QED BY <1>1, <1>2 DEF Sessions, RowKept, LazyKept, LoginKept

LEMMA LazyFacts ==
  ASSUME Typed, CooldownEnds \/ \E r \in Requests : FinishLazyVipRefresh(r)
  PROVE  /\ session' \in Sessions /\ RowKept /\ TokenKept /\ LoginKept
         /\ session' = session \/ session'.lazy.state # "inFlight"
<1>1. session \in Sessions /\ session.lazy \in LazyClaims
  BY DEF Typed, RowsOK, Sessions
<1>2. /\ NoClaim \in LazyClaims /\ NoClaim.state # "inFlight"
      /\ Cooling(session.lazy) \in LazyClaims /\ Cooling(session.lazy).state # "inFlight"
  BY <1>1 DEF Cooling, LazyClaims, NoClaim
<1>3. \/ session' = session
      \/ session' = [session EXCEPT !.lazy = NoClaim]
      \/ session' = [session EXCEPT !.lazy = Cooling(session.lazy)]
  BY DEF CooldownEnds, FinishLazyVipRefresh
<1> QED BY <1>1, <1>2, <1>3 DEF Sessions, RowKept, TokenKept, LoginKept

LEMMA ProfileFacts ==
  ASSUME Typed, NEW r \in Requests, PatchProfile(r)
  PROVE  /\ session' \in Sessions /\ session'.form = session.form /\ session'.gen = session.gen
         /\ TokenKept /\ LazyKept /\ LoginKept
         /\ \/ session' = session
            \/ MayPatchProfile(r) /\ session'.profile = held[r].login
<1>1. session' = IF MayPatchProfile(r) THEN [session EXCEPT !.profile = held[r].login] ELSE session
  BY DEF PatchProfile
<1>2. session \in Sessions /\ held[r].login \in Nat
  BY DEF Typed, RowsOK, HeldOK, Holdings
<1> QED BY <1>1, <1>2 DEF Sessions, TokenKept, LazyKept, LoginKept
-----------------------------------------------------------------------------
RequestStep(r) == LoginStep(r) \/ AccountStep(r) \/ RefreshStep(r) \/ Stop(r) \/ Fail(r)

LEMMA PlacesStep ==
  ASSUME Typed, NEW r \in Requests, RequestStep(r)
  PROVE  PlacesOK' /\ Moved(r)
<1>1. \/ pc' = pc
      \/ \E place \in Places : Goto(r, place)
  <2>1. CASE LoginStep(r)
    <3>1. CASE BeginLoginAttempt(r) \/ KeyCapture(r) \/ PublishLoginKey(r) \/ CancelLoginAttempt(r)
               \/ CheckLoad(r)
      BY <3>1 DEF BeginLoginAttempt, KeyCapture, PublishLoginKey, CancelLoginAttempt, CheckLoad, Places
    <3>2. CASE CheckCurrent(r) \/ CheckCapture(r) \/ CheckConfirmed(r) \/ CommitLoginAttempt(r)
      BY <3>2 DEF CheckCurrent, CheckCapture, CheckConfirmed, CommitLoginAttempt, Places
    <3> QED BY <2>1, <3>1, <3>2 DEF LoginStep
  <2>2. CASE AccountStep(r)
    BY <2>2 DEF AccountStep, ClearWithDevice, SettingsCapture, ReplaceDevice, ContextCapture,
                RegisterDevice, PatchProfile, Places
  <2>3. CASE RefreshStep(r)
    BY <2>3 DEF RefreshStep, TryClaimLazyVipRefresh, ReplaceCredentials, FinishLazyVipRefresh, Places
  <2>4. CASE Stop(r)
    BY <2>4 DEF Stop
  <2>5. CASE Fail(r)
    BY <2>5 DEF Fail, AfterFailure, Places
  <2> QED BY <2>1, <2>2, <2>3, <2>4, <2>5 DEF RequestStep
<1> QED BY <1>1, GotoFacts DEF Moved, Typed, PlacesOK

LEMMA RestStep == ASSUME Typed, [Next]_vars PROVE RestOK'
<1> USE DEF Typed, RestOK
<1>1. CASE Start
  <2>1. Pending(Attempts) \subseteq Requests
    BY DEF Pending
  <2> QED BY <1>1, <2>1 DEF Start, EndLogins
<1>2. CASE Crash
  BY <1>2 DEF Crash, history
<1>3. CASE CooldownEnds
  BY <1>3 DEF CooldownEnds, history
<1>4. ASSUME NEW r \in Requests, LoginStep(r) PROVE RestOK'
  <2>0. \A S : Pending(S) \subseteq Requests
    BY DEF Pending
  <2>1. CASE BeginLoginAttempt(r) \/ CancelLoginAttempt(r)
    BY <2>0, <2>1 DEF BeginLoginAttempt, CancelLoginAttempt, EndLogins
  <2>2. CASE KeyCapture(r)
    BY <2>2, CaptureFacts DEF KeyCapture
  <2>3. CASE PublishLoginKey(r) \/ CheckLoad(r) \/ CheckCurrent(r)
    BY <2>3 DEF PublishLoginKey, CheckLoad, CheckCurrent, history
  <2>4. CASE CheckCapture(r)
    BY <2>4, CaptureFacts DEF CheckCapture
  <2>5. CASE CheckConfirmed(r)
    BY <2>5, ConfirmedFacts DEF CheckConfirmed
  <2>6. CASE CommitLoginAttempt(r)
    <3>1. /\ running' = running /\ epoch' = epoch /\ stopped' = stopped
          /\ unfinished' = unfinished /\ identities' = identities
      BY <2>6 DEF CommitLoginAttempt
    <3>2. CASE MayLogin(r)
      <4>1. /\ logins' = logins + 1 /\ owner' = logins + 1
            /\ ended' = ended \cup (Pending(Attempts) \ {r})
        BY <2>6, <3>2 DEF CommitLoginAttempt, EndLogins
      <4> QED BY <2>0, <3>1, <4>1
    <3>3. CASE ~MayLogin(r)
      <4>1. logins' = logins /\ owner' = owner /\ ended' = ended
        BY <2>6, <3>3 DEF CommitLoginAttempt
      <4> QED BY <3>1, <4>1
    <3> QED BY <3>2, <3>3
  <2> QED BY <1>4, <2>1, <2>2, <2>3, <2>4, <2>5, <2>6 DEF LoginStep
<1>5. ASSUME NEW r \in Requests, AccountStep(r) PROVE RestOK'
  <2>0. \A S : Pending(S) \subseteq Requests
    BY DEF Pending
  <2>1. CASE ClearWithDevice(r)
    BY <2>0, <2>1 DEF ClearWithDevice, EndLogins
  <2>2. CASE SettingsCapture(r)
    BY <2>2, CaptureFacts DEF SettingsCapture
  <2>3. CASE ReplaceDevice(r)
    BY <2>3 DEF ReplaceDevice
  <2>4. CASE ContextCapture(r)
    BY <2>4, CaptureFacts DEF ContextCapture
  <2>5. CASE RegisterDevice(r)
    BY <2>5 DEF RegisterDevice
  <2>6. CASE PatchProfile(r)
    BY <2>6 DEF PatchProfile, history
  <2> QED BY <1>5, <2>1, <2>2, <2>3, <2>4, <2>5, <2>6 DEF AccountStep
<1>6. ASSUME NEW r \in Requests, RefreshStep(r) PROVE RestOK'
  BY <1>6 DEF RefreshStep, TryClaimLazyVipRefresh, ReplaceCredentials, FinishLazyVipRefresh, history
<1>7. ASSUME NEW r \in Requests, Stop(r) \/ Fail(r) PROVE RestOK'
  BY <1>7 DEF Stop, Fail, history
<1>8. CASE UNCHANGED vars
  BY <1>8 DEF vars, history
<1> QED BY <1>1, <1>2, <1>3, <1>4, <1>5, <1>6, <1>7, <1>8 DEF Next

(* The steps that change what a request holds. *)
LEMMA HeldSplit ==
  ASSUME NEW r \in Requests, RequestStep(r)
  PROVE  \/ held' = held \/ CaptureIdentity(r) \/ CheckLoad(r) \/ CheckConfirmed(r)
         \/ TryClaimLazyVipRefresh(r) /\ MayClaim(r)
         \/ RegisterDevice(r) /\ MayRegister(r)
<1>1. LoginStep(r) => held' = held \/ CaptureIdentity(r) \/ CheckLoad(r) \/ CheckConfirmed(r)
  BY DEF LoginStep, BeginLoginAttempt, KeyCapture, PublishLoginKey, CancelLoginAttempt,
         CheckCurrent, CheckCapture, CommitLoginAttempt
<1>2. AccountStep(r) => held' = held \/ CaptureIdentity(r) \/ (RegisterDevice(r) /\ MayRegister(r))
  BY DEF AccountStep, ClearWithDevice, SettingsCapture, ReplaceDevice, ContextCapture,
         RegisterDevice, PatchProfile
<1>3. RefreshStep(r) => held' = held \/ (TryClaimLazyVipRefresh(r) /\ MayClaim(r))
  BY DEF RefreshStep, TryClaimLazyVipRefresh, ReplaceCredentials, FinishLazyVipRefresh
<1>4. Stop(r) \/ Fail(r) => held' = held
  BY DEF Stop, Fail
<1> QED BY <1>1, <1>2, <1>3, <1>4 DEF RequestStep

(* What a request holds, and the rows. *)
LEMMA HeldStep ==
  ASSUME Typed, NEW r \in Requests, RequestStep(r)
  PROVE  HeldOK' /\ HeldKept(r) /\ held'[r].call = held[r].call
<1>1. CASE held' = held
  BY <1>1 DEF Typed, HeldOK, HeldKept
<1>2. CASE CaptureIdentity(r)
  BY <1>2, CaptureFacts DEF HeldKept
<1>3. CASE CheckLoad(r)
  BY <1>3, CheckLoadFacts
<1>4. CASE CheckConfirmed(r)
  BY <1>4, ConfirmedFacts
<1>5. CASE TryClaimLazyVipRefresh(r) /\ MayClaim(r)
  BY <1>5, ClaimFacts
<1>6. CASE RegisterDevice(r) /\ MayRegister(r)
  BY <1>6, RegisterFacts
<1> QED BY <1>1, <1>2, <1>3, <1>4, <1>5, <1>6, HeldSplit

(* Whatever changes the device moves its revision. *)
LEMMA DeviceStep ==
  ASSUME Typed, [Next]_vars
  PROVE  device' \in Devices /\ (device' = device \/ device'.rev = device.rev + 1)
<1> DEFINE Good == device' \in Devices /\ (device' = device \/ device'.rev = device.rev + 1)
<1>1. CASE device' = device
  BY <1>1 DEF Typed, RowsOK
<1>2. ASSUME NEW r \in Requests, CaptureIdentity(r) PROVE Good
  BY <1>2, CaptureFacts
<1>3. ASSUME NEW d \in Devices, device' = StampDevice(d) PROVE Good
  BY <1>3, StampTyped
<1>4. CASE Start
  BY <1>3, <1>4 DEF Start, Typed, RowsOK
<1>5. ASSUME NEW r \in Requests, CommitLoginAttempt(r) PROVE Good
  BY <1>1, <1>5, CommitFacts DEF CommitLoginAttempt
<1>6. ASSUME NEW r \in Requests, ClearWithDevice(r) PROVE Good
  <2>1. NoDevice(0) \in Devices
    BY DEF NoDevice, Devices
  <2> QED BY <1>3, <1>6, <2>1 DEF ClearWithDevice
<1>7. ASSUME NEW r \in Requests, ReplaceDevice(r) PROVE Good
  <2>1. PICK b \in BOOLEAN :
          \/ device' = device
          \/ device' = StampDevice([id |-> identities + 1, registered |-> b, rev |-> 0])
    BY <1>7 DEF ReplaceDevice
  <2>2. [id |-> identities + 1, registered |-> b, rev |-> 0] \in Devices
    BY DEF Devices, Typed, RestOK
  <2> QED BY <1>1, <1>3, <2>1, <2>2
<1>8. ASSUME NEW r \in Requests, RegisterDevice(r) PROVE Good
  BY <1>1, <1>8, RegisterFacts DEF RegisterDevice
<1>9. ASSUME NEW r \in Requests, LoginStep(r), ~CommitLoginAttempt(r)
      PROVE  device' = device \/ CaptureIdentity(r)
  BY <1>9 DEF LoginStep, BeginLoginAttempt, KeyCapture, PublishLoginKey, CancelLoginAttempt,
              CheckLoad, CheckCurrent, CheckCapture, CheckConfirmed, rows
<1>10. ASSUME NEW r \in Requests, AccountStep(r), ~ClearWithDevice(r), ~ReplaceDevice(r), ~RegisterDevice(r)
       PROVE  device' = device \/ CaptureIdentity(r)
  BY <1>10 DEF AccountStep, SettingsCapture, ContextCapture, PatchProfile
<1>11. ASSUME NEW r \in Requests, RefreshStep(r) \/ Stop(r) \/ Fail(r) PROVE device' = device
  BY <1>11 DEF RefreshStep, TryClaimLazyVipRefresh, ReplaceCredentials, FinishLazyVipRefresh,
               Stop, Fail, rows
<1>12. Crash \/ CooldownEnds \/ UNCHANGED vars => device' = device
  BY DEF Crash, CooldownEnds, vars, rows
<1> HIDE DEF Good
<1>13. ASSUME NEW r \in Requests, RequestStep(r) PROVE Good
  BY <1>1, <1>2, <1>5, <1>6, <1>7, <1>8, <1>9, <1>10, <1>11, <1>13 DEF RequestStep, Good
<1> QED BY <1>1, <1>4, <1>12, <1>13 DEF Next, RequestStep, Good

(* The steps that leave the session row alone. *)
SessionQuiet(r) ==
  \/ KeyCapture(r) \/ CheckLoad(r) \/ CheckCurrent(r) \/ CheckCapture(r) \/ CheckConfirmed(r)
  \/ SettingsCapture(r) \/ ReplaceDevice(r) \/ ContextCapture(r) \/ RegisterDevice(r)
  \/ Stop(r) \/ Fail(r)
  \/ CommitLoginAttempt(r) /\ ~MayLogin(r)
  \/ TryClaimLazyVipRefresh(r) /\ ~MayClaim(r)

LEMMA QuietFacts ==
  ASSUME NEW r \in Requests, SessionQuiet(r)
  PROVE  session' = session /\ owner' = owner /\ migrated' = migrated /\ running' = running
         /\ epoch' = epoch /\ unfinished' = unfinished /\ logins' = logins /\ ended' = ended
<1>1. CASE KeyCapture(r) \/ CheckLoad(r) \/ CheckCurrent(r) \/ CheckCapture(r) \/ CheckConfirmed(r)
  BY <1>1 DEF KeyCapture, CheckLoad, CheckCurrent, CheckCapture, CheckConfirmed, rows, history
<1>2. CASE SettingsCapture(r) \/ ReplaceDevice(r) \/ ContextCapture(r) \/ RegisterDevice(r)
  BY <1>2 DEF SettingsCapture, ReplaceDevice, ContextCapture, RegisterDevice
<1>3. CASE Stop(r) \/ Fail(r)
  BY <1>3 DEF Stop, Fail, rows, history
<1>4. CASE CommitLoginAttempt(r) /\ ~MayLogin(r)
  BY <1>4 DEF CommitLoginAttempt
<1>5. CASE TryClaimLazyVipRefresh(r) /\ ~MayClaim(r)
  BY <1>5 DEF TryClaimLazyVipRefresh, history
<1> QED BY <1>1, <1>2, <1>3, <1>4, <1>5 DEF SessionQuiet

LEMMA RequestSplit ==
  ASSUME NEW r \in Requests, RequestStep(r)
  PROVE  \/ SessionQuiet(r)
         \/ BeginLoginAttempt(r) \/ PublishLoginKey(r) \/ CancelLoginAttempt(r)
         \/ CommitLoginAttempt(r) /\ MayLogin(r)
         \/ ClearWithDevice(r) \/ PatchProfile(r) \/ ReplaceCredentials(r) \/ FinishLazyVipRefresh(r)
         \/ TryClaimLazyVipRefresh(r) /\ MayClaim(r)
BY DEF RequestStep, SessionQuiet, LoginStep, AccountStep, RefreshStep

LEMMA TypedStep ==
  ASSUME Typed, session.form \in {"absent", "damaged"} => session.gen = 0, [Next]_vars
  PROVE  Typed'
<1>1. ASSUME NEW r \in Requests, RequestStep(r) PROVE HeldOK' /\ PlacesOK' /\ session' \in Sessions
  <2>1. session \in Sessions
    BY DEF Typed, RowsOK
  <2>2. session' \in Sessions
    BY <1>1, <2>1, RequestSplit, QuietFacts, AttemptFacts, CommitFacts, ProfileFacts, ReplaceFacts,
       LazyFacts, ClaimFacts, ClearedTyped DEF ClearWithDevice
  <2> QED BY <1>1, <2>2, HeldStep, PlacesStep
<1>2. CASE Start
  <2>1. HeldOK' /\ PlacesOK'
    BY <1>2 DEF Start, Typed, HeldOK, PlacesOK
  <2> QED BY <1>2, <2>1, StartFacts, RestStep, DeviceStep DEF Typed, RowsOK, Start
<1>3. CASE Crash
  <2>1. PlacesOK'
    BY <1>3 DEF Crash, Typed, PlacesOK, Places
  <2> QED BY <1>3, <2>1, RestStep, DeviceStep DEF Crash, Typed, HeldOK, RowsOK, rows
<1>4. CASE CooldownEnds
  BY <1>4, LazyFacts, RestStep, DeviceStep DEF CooldownEnds, Typed, HeldOK, PlacesOK, RowsOK
<1>5. CASE UNCHANGED vars
  BY <1>5, RestStep DEF vars, rows, Typed, HeldOK, PlacesOK, RowsOK
<1>6. ASSUME NEW r \in Requests, RequestStep(r) PROVE migrated' = migrated
  <2>1. CASE LoginStep(r)
    BY <2>1 DEF LoginStep, BeginLoginAttempt, KeyCapture, PublishLoginKey, CancelLoginAttempt, CheckLoad,
                CheckCurrent, CheckCapture, CheckConfirmed, CommitLoginAttempt, rows
  <2>2. CASE AccountStep(r)
    BY <2>2 DEF AccountStep, ClearWithDevice, SettingsCapture, ReplaceDevice, ContextCapture,
                RegisterDevice, PatchProfile
  <2>3. CASE RefreshStep(r) \/ Stop(r) \/ Fail(r)
    BY <2>3 DEF RefreshStep, TryClaimLazyVipRefresh, ReplaceCredentials, FinishLazyVipRefresh,
                Stop, Fail, rows
  <2> QED BY <1>6, <2>1, <2>2, <2>3 DEF RequestStep
<1>7. ASSUME NEW r \in Requests, RequestStep(r) PROVE Typed'
  BY <1>1, <1>6, <1>7, RestStep, DeviceStep DEF Typed, RowsOK, Next, RequestStep
<1> QED BY <1>2, <1>3, <1>4, <1>5, <1>7 DEF Next, RequestStep
-----------------------------------------------------------------------------
(* What the row says of the account in charge. *)
RowInv ==
  /\ session.form \in {"absent", "damaged"} =>
       session.gen = 0 /\ session.token = 0 /\ owner = 0
  /\ session.form = "plaintext" =>
       /\ session.gen = 0 /\ session.token = 1 /\ session.profile = 1
       /\ owner = IF migrated THEN 0 ELSE 1
  /\ session.form = "envelope" =>
       session.gen > 0 /\ session.token = owner /\ session.profile = owner
  /\ running => session.form = "envelope"

(* A version that was captured is of now or of the past. *)
Captured == \A r \in Requests : held[r].gen <= session.gen /\ held[r].rev <= device.rev

(* A request that acts for an account holds its login, while the generation it
   captured is the present one. *)
Contexts == {"claiming", "refreshing", "finishing", "unwinding", "registering", "patching"}
Logged   == \A r \in Requests :
  pc[r] \in Contexts /\ held[r].gen = session.gen => held[r].login = session.token

(* The generation moves only forward, and with every change of the account. *)
Forward == /\ session'.gen >= session.gen
           /\ owner' # owner \/ logins' # logins => session'.gen > session.gen
           /\ session'.token = session.token \/ session'.gen > session.gen

LEMMA NextGrows ==
  ASSUME Typed, RowInv PROVE NextGeneration(session) > session.gen
<1>1. session.gen \in Nat
  BY DEF Typed, RowsOK, Sessions
<1> QED BY <1>1, ConstantsAssumption DEF NextGeneration, RowInv

LEMMA RowStep ==
  ASSUME Typed, RowInv, Logged, [Next]_vars
  PROVE  RowInv' /\ Forward
<1>0. session.gen \in Nat /\ session.token \in Nat /\ logins \in Nat /\ session.form \in Forms
  BY DEF Typed, RowsOK, RestOK, Sessions
<1>1. CASE /\ RowKept /\ session'.token = session.token /\ owner' = owner /\ migrated' = migrated
           /\ running' = running \/ running' = FALSE
           /\ logins' = logins
  BY <1>0, <1>1 DEF RowInv, Forward, RowKept
<1>2. CASE Start
  <2>1. owner' = owner /\ logins' = logins /\ session'.gen \in Nat
    BY <1>2, StartFacts DEF Start, history, RowInv, Sessions
  <2>2. session'.form = "envelope" /\ session'.gen > session.gen
    BY <1>2, StartFacts DEF RowInv
  <2>3. session'.token = owner /\ session'.profile = owner
    BY <1>0, <1>2, StartFacts DEF RowInv, Migrates, Forms
  <2> QED BY <1>0, <2>1, <2>2, <2>3 DEF RowInv, Forward
<1>3. CASE Crash \/ UNCHANGED vars
  BY <1>1, <1>3 DEF Crash, vars, rows, history, RowKept
<1>4. CASE CooldownEnds
  BY <1>1, <1>4, LazyFacts DEF CooldownEnds, TokenKept, history
<1>5. ASSUME NEW r \in Requests, SessionQuiet(r) PROVE RowInv' /\ Forward
  BY <1>1, <1>5, QuietFacts DEF RowKept
<1>6. ASSUME NEW r \in Requests, BeginLoginAttempt(r) \/ PublishLoginKey(r) \/ CancelLoginAttempt(r)
      PROVE  RowInv' /\ Forward
  BY <1>1, <1>6, AttemptFacts DEF BeginLoginAttempt, PublishLoginKey, CancelLoginAttempt, TokenKept, history
<1>7. ASSUME NEW r \in Requests, CommitLoginAttempt(r), MayLogin(r) PROVE RowInv' /\ Forward
  <2>1. /\ session'.form = "envelope" /\ session'.token = logins + 1 /\ session'.profile = logins + 1
        /\ session'.gen = NextGeneration(session)
    BY <1>7, CommitFacts
  <2>2. owner' = logins + 1
    BY <1>7 DEF CommitLoginAttempt
  <2>3. NextGeneration(session) > session.gen /\ NextGeneration(session) \in Nat
    BY NextGrows, NextTyped DEF Typed, RowsOK
  <2> QED BY <1>0, <2>1, <2>2, <2>3 DEF RowInv, Forward
<1>8. ASSUME NEW r \in Requests, ClearWithDevice(r) PROVE RowInv' /\ Forward
  <2>1. session' = Cleared(session) /\ owner' = 0
    BY <1>8 DEF ClearWithDevice
  <2>2. /\ session'.form = "envelope" /\ session'.token = 0 /\ session'.profile = 0
        /\ session'.gen = NextGeneration(session)
    BY <2>1, ClearedTyped DEF Typed, RowsOK
  <2>3. NextGeneration(session) > session.gen /\ NextGeneration(session) \in Nat
    BY NextGrows, NextTyped DEF Typed, RowsOK
  <2> QED BY <1>0, <2>1, <2>2, <2>3 DEF RowInv, Forward
<1>9. ASSUME NEW r \in Requests, PatchProfile(r) PROVE RowInv' /\ Forward
  <2>1. /\ owner' = owner /\ logins' = logins /\ migrated' = migrated /\ running' = running /\ running
        /\ pc[r] = "patching"
    BY <1>9 DEF PatchProfile, history
  <2>2. CASE session' = session
    BY <1>1, <2>1, <2>2 DEF RowKept
  <2>3. CASE MayPatchProfile(r) /\ session'.profile = held[r].login
    <3>1. held[r].login = session.token
      BY <2>1, <2>3 DEF Logged, Contexts, MayPatchProfile, SameAccount
    <3>2. session'.form = session.form /\ session'.gen = session.gen /\ session'.token = session.token
      BY <1>9, ProfileFacts DEF TokenKept
    <3> QED BY <1>0, <2>1, <2>3, <3>1, <3>2 DEF RowInv, Forward
  <2> QED BY <1>9, <2>2, <2>3, ProfileFacts
<1>10. ASSUME NEW r \in Requests, ReplaceCredentials(r) PROVE RowInv' /\ Forward
  <2>1. /\ owner' = owner /\ logins' = logins /\ migrated' = migrated /\ running' = running
        /\ pc[r] = "refreshing"
    BY <1>10 DEF ReplaceCredentials, At, history
  <2>2. RowKept
    BY <1>10, ReplaceFacts
  <2>3. session'.token = session.token
    BY <1>10, <2>1, ReplaceFacts DEF Logged, Contexts, MayPatchCredentials, SameAccount
  <2> QED BY <1>1, <2>1, <2>2, <2>3
<1>11. ASSUME NEW r \in Requests, FinishLazyVipRefresh(r) PROVE RowInv' /\ Forward
  BY <1>1, <1>11, LazyFacts DEF FinishLazyVipRefresh, TokenKept
<1>12. ASSUME NEW r \in Requests, TryClaimLazyVipRefresh(r), MayClaim(r) PROVE RowInv' /\ Forward
  BY <1>1, <1>12, ClaimFacts DEF TryClaimLazyVipRefresh, RowKept, history
<1> QED BY <1>2, <1>3, <1>4, <1>5, <1>6, <1>7, <1>8, <1>9, <1>10, <1>11, <1>12, RequestSplit
        DEF Next, RequestStep

LEMMA CapturedStep ==
  ASSUME Typed, Typed', Captured, Forward, [Next]_vars
  PROVE  Captured'
<1>0. /\ session'.gen >= session.gen /\ device'.rev >= device.rev
      /\ session.gen \in Nat /\ session'.gen \in Nat /\ device.rev \in Nat /\ device'.rev \in Nat
  BY DeviceStep DEF Forward, Typed, RowsOK, Sessions, Devices
<1>1. \A q \in Requests : held[q].gen \in Nat /\ held[q].rev \in Nat
  BY DEF Typed, HeldOK, Holdings
<1>2. CASE held' = held
  BY <1>0, <1>1, <1>2 DEF Captured
<1>3. ASSUME NEW r \in Requests, RequestStep(r),
             held'[r].gen <= session'.gen /\ held'[r].rev <= device'.rev
      PROVE  Captured'
  BY <1>0, <1>1, <1>3, HeldStep DEF Captured, HeldKept
<1>4. ASSUME NEW r \in Requests, RequestStep(r), held'[r].gen = held[r].gen, held'[r].rev = held[r].rev
      PROVE  Captured'
  BY <1>0, <1>1, <1>3, <1>4 DEF Captured
<1>5. ASSUME NEW r \in Requests, RequestStep(r) PROVE Captured'
  <2>1. CASE CaptureIdentity(r)
    BY <1>0, <1>3, <1>5, <2>1, CaptureFacts
  <2>2. CASE CheckLoad(r)
    BY <1>0, <1>1, <1>3, <1>5, <2>2, CheckLoadFacts DEF Captured
  <2>3. CASE CheckConfirmed(r)
    BY <1>4, <1>5, <2>3, ConfirmedFacts
  <2>4. CASE TryClaimLazyVipRefresh(r) /\ MayClaim(r)
    BY <1>4, <1>5, <2>4, ClaimFacts
  <2>5. CASE RegisterDevice(r) /\ MayRegister(r)
    BY <1>0, <1>1, <1>3, <1>5, <2>5, RegisterFacts DEF Captured
  <2> QED BY <1>2, <1>5, <2>1, <2>2, <2>3, <2>4, <2>5, HeldSplit
<1>6. Start \/ Crash \/ CooldownEnds \/ UNCHANGED vars => held' = held
  BY DEF Start, Crash, CooldownEnds, vars
<1> QED BY <1>2, <1>5, <1>6 DEF Next, RequestStep

(* How a request comes to act for an account. *)
LEMMA ContextMoves ==
  ASSUME Typed, NEW r \in Requests, RequestStep(r), pc'[r] \in Contexts
  PROVE  \/ ContextCapture(r)
         \/ /\ pc[r] \in Contexts /\ held'[r].gen = held[r].gen
            /\ held'[r].login \in {held[r].login, session.token}
<1> USE DEF Contexts
<1>a. pc \in [Requests -> Places]
  BY DEF Typed, PlacesOK
<1>1. CASE LoginStep(r)
  <2>1. ASSUME NEW place, Goto(r, place), place \notin Contexts PROVE FALSE
    BY <1>a, <2>1 DEF Goto
  <2>2. CASE BeginLoginAttempt(r) \/ KeyCapture(r) \/ PublishLoginKey(r) \/ CancelLoginAttempt(r)
             \/ CheckLoad(r)
    BY <2>1, <2>2 DEF BeginLoginAttempt, KeyCapture, PublishLoginKey, CancelLoginAttempt, CheckLoad
  <2>3. CASE CheckCurrent(r) \/ CheckCapture(r) \/ CheckConfirmed(r) \/ CommitLoginAttempt(r)
    BY <2>1, <2>3 DEF CheckCurrent, CheckCapture, CheckConfirmed, CommitLoginAttempt
  <2> QED BY <1>1, <2>2, <2>3 DEF LoginStep
<1>2. CASE AccountStep(r)
  <2>1. ASSUME NEW place, Goto(r, place), place \notin Contexts PROVE FALSE
    BY <1>a, <2>1 DEF Goto
  <2>2. CASE ClearWithDevice(r) \/ SettingsCapture(r) \/ ReplaceDevice(r) \/ PatchProfile(r)
    BY <2>1, <2>2 DEF ClearWithDevice, SettingsCapture, ReplaceDevice, PatchProfile
  <2>3. CASE RegisterDevice(r)
    <3>1. pc[r] \in Contexts
      BY <2>3 DEF RegisterDevice, At
    <3>2. CASE MayRegister(r)
      BY <2>3, <3>1, <3>2, RegisterFacts
    <3>3. CASE ~MayRegister(r)
      BY <2>3, <3>1, <3>3 DEF RegisterDevice
    <3> QED BY <3>2, <3>3
  <2> QED BY <1>2, <2>2, <2>3 DEF AccountStep
<1>3. CASE RefreshStep(r)
  <2>1. CASE TryClaimLazyVipRefresh(r)
    <3>1. CASE MayClaim(r)
      BY <2>1, <3>1, ClaimFacts DEF TryClaimLazyVipRefresh, At
    <3>2. CASE ~MayClaim(r)
      BY <2>1, <3>2 DEF TryClaimLazyVipRefresh, At
    <3> QED BY <3>1, <3>2
  <2>2. CASE ReplaceCredentials(r) \/ FinishLazyVipRefresh(r)
    BY <2>2 DEF ReplaceCredentials, FinishLazyVipRefresh, At
  <2> QED BY <1>3, <2>1, <2>2 DEF RefreshStep
<1>4. CASE Stop(r)
  BY <1>4 DEF Stop
<1>5. CASE Fail(r)
  <2>1. PICK place \in AfterFailure(pc[r]) : Goto(r, place)
    BY <1>5 DEF Fail
  <2>2. place \in Contexts /\ held' = held
    BY <1>5, <1>a, <2>1 DEF Goto, Fail
  <2>3. pc[r] \in Contexts
    BY <2>1, <2>2 DEF AfterFailure
  <2> QED BY <2>2, <2>3
<1> QED BY <1>1, <1>2, <1>3, <1>4, <1>5 DEF RequestStep

LEMMA LoggedStep ==
  ASSUME Typed, Typed', Captured, Logged, Forward, [Next]_vars
  PROVE  Logged'
<1>0. session.gen \in Nat /\ session'.gen \in Nat
  BY DEF Typed, RowsOK, Sessions
<1>1. \A q \in Requests : held[q].gen \in Nat /\ held[q].gen <= session.gen
  BY DEF Typed, HeldOK, Holdings, Captured
<1>2. ASSUME NEW q \in Requests, held'[q] = held[q], pc'[q] \in Contexts => pc[q] \in Contexts,
             pc'[q] \in Contexts, held'[q].gen = session'.gen
      PROVE  held'[q].login = session'.token
  <2>1. session'.gen = session.gen /\ session'.token = session.token
    BY <1>0, <1>1, <1>2 DEF Forward
  <2> QED BY <1>2, <2>1 DEF Logged
<1>3. CASE /\ held' = held
           /\ \A q \in Requests : pc'[q] \in Contexts => pc[q] \in Contexts
  BY <1>2, <1>3 DEF Logged
<1>4. Start \/ Crash \/ CooldownEnds \/ UNCHANGED vars => Logged'
  BY <1>3 DEF Start, Crash, CooldownEnds, vars, Contexts
<1>5. ASSUME NEW r \in Requests, RequestStep(r) PROVE Logged'
  <2>1. ASSUME pc'[r] \in Contexts, held'[r].gen = session'.gen PROVE held'[r].login = session'.token
    <3>1. CASE ContextCapture(r)
      BY <3>1, CaptureFacts DEF ContextCapture
    <3>2. CASE /\ pc[r] \in Contexts /\ held'[r].gen = held[r].gen
               /\ held'[r].login \in {held[r].login, session.token}
      <4>1. session'.gen = session.gen /\ session'.token = session.token
        BY <1>0, <1>1, <2>1, <3>2 DEF Forward
      <4> QED BY <2>1, <3>2, <4>1 DEF Logged
    <3> QED BY <1>5, <2>1, <3>1, <3>2, ContextMoves
  <2>2. \A q \in Requests \ {r} : held'[q] = held[q] /\ pc'[q] = pc[q]
    BY <1>5, HeldStep, PlacesStep DEF HeldKept, Moved
  <2> QED BY <1>2, <2>1, <2>2 DEF Logged
<1> QED BY <1>4, <1>5 DEF Next, RequestStep
-----------------------------------------------------------------------------
(* A refresh under way holds the claim of the present generation; and a claim of
   this process belongs to a refresh of that generation, once it is under way. *)
InFlight(q) == [state |-> "inFlight", epoch |-> epoch, claim |-> q]
LazyInv ==
  /\ session.lazy.epoch <= epoch
  /\ session.lazy.state = "inFlight" => session.lazy.claim \in Requests
  /\ \A q \in Requests : Refreshing(q) /\ held[q].gen = session.gen => session.lazy = InFlight(q)
  /\ \A q \in Requests : Refreshing(q) /\ session.lazy = InFlight(q) => held[q].gen = session.gen
  /\ \A r, q \in Requests :
       Refreshing(r) /\ Refreshing(q) /\ r # q => held[r].gen # held[q].gen
  /\ (running /\ session.lazy.state = "inFlight" /\ session.lazy.epoch = epoch) =>
       \/ session.lazy = InFlight(session.lazy.claim) /\ Refreshing(session.lazy.claim)
       \/ session.lazy.claim \in unfinished

LEMMA InFlightFacts ==
  ASSUME NEW q
  PROVE  InFlight(q).state = "inFlight" /\ InFlight(q).epoch = epoch /\ InFlight(q).claim = q
BY DEF InFlight

(* Steps of which neither the refreshes nor the claim take notice. *)
LEMMA LazyFrame ==
  ASSUME LazyInv, session'.lazy = session.lazy, session'.gen = session.gen, epoch' = epoch,
         running' => running, unfinished' = unfinished,
         \A q \in Requests : (Refreshing(q)' <=> Refreshing(q))
                             /\ (Refreshing(q) => held'[q].gen = held[q].gen)
  PROVE  LazyInv'
BY DEF LazyInv, InFlight

(* A new generation, whose row has no claim of this process. *)
LEMMA LazyFresh ==
  ASSUME Typed, Typed', Captured, LazyInv, session'.gen > session.gen, epoch' >= epoch,
         session'.lazy.epoch <= epoch',
         session'.lazy.state # "inFlight" \/ (session'.lazy = session.lazy /\ epoch' > epoch),
         \A q \in Requests : Refreshing(q)' => Refreshing(q) /\ held'[q].gen = held[q].gen
  PROVE  LazyInv'
<1>0. session.gen \in Nat /\ session'.gen \in Nat /\ epoch \in Nat /\ epoch' \in Nat
      /\ session.lazy.epoch \in Nat
  BY DEF Typed, RowsOK, RestOK, Sessions, LazyClaims
<1>1. \A q \in Requests : held[q].gen \in Nat /\ held[q].gen < session'.gen
  BY <1>0 DEF Typed, HeldOK, Holdings, Captured
<1>2. \A q \in Requests : Refreshing(q)' => held'[q].gen # session'.gen
  BY <1>0, <1>1
<1>3. \A q : session'.lazy # InFlight(q)'
  BY <1>0, InFlightFacts DEF LazyInv, InFlight
<1>4. session'.lazy.state = "inFlight" => session'.lazy.claim \in Requests /\ session'.lazy.epoch # epoch'
  BY <1>0 DEF LazyInv
<1> QED BY <1>2, <1>3, <1>4 DEF LazyInv

LEMMA NoClaimFacts == NoClaim.epoch = 0 /\ NoClaim.state # "inFlight"
BY DEF NoClaim

(* Which steps begin and end a refresh. *)
LEMMA RefreshMoves ==
  ASSUME Typed, NEW r \in Requests, RequestStep(r),
         ~(TryClaimLazyVipRefresh(r) /\ MayClaim(r)), ~FinishLazyVipRefresh(r)
  PROVE  /\ Refreshing(r)' <=> Refreshing(r)
         /\ Refreshing(r) => held'[r].gen = held[r].gen
<1> USE DEF Refreshing
<1>a. pc \in [Requests -> Places]
  BY DEF Typed, PlacesOK
<1>1. CASE LoginStep(r)
  <2>1. ASSUME NEW place, Goto(r, place), place \notin {"refreshing", "finishing", "unwinding"},
               pc[r] \notin {"refreshing", "finishing", "unwinding"}
        PROVE  ~Refreshing(r)' /\ ~Refreshing(r)
    BY <1>a, <2>1 DEF Goto
  <2>2. CASE BeginLoginAttempt(r) \/ KeyCapture(r) \/ PublishLoginKey(r) \/ CancelLoginAttempt(r)
             \/ CheckLoad(r)
    BY <2>1, <2>2 DEF BeginLoginAttempt, KeyCapture, PublishLoginKey, CancelLoginAttempt, CheckLoad, At
  <2>3. CASE CheckCurrent(r) \/ CheckCapture(r) \/ CheckConfirmed(r) \/ CommitLoginAttempt(r)
    BY <2>1, <2>3 DEF CheckCurrent, CheckCapture, CheckConfirmed, CommitLoginAttempt, At
  <2> QED BY <1>1, <2>2, <2>3 DEF LoginStep
<1>2. CASE AccountStep(r)
  <2>1. ASSUME NEW place, Goto(r, place), place \notin {"refreshing", "finishing", "unwinding"},
               pc[r] \notin {"refreshing", "finishing", "unwinding"}
        PROVE  ~Refreshing(r)' /\ ~Refreshing(r)
    BY <1>a, <2>1 DEF Goto
  <2> QED BY <1>2, <2>1 DEF AccountStep, ClearWithDevice, SettingsCapture, ReplaceDevice, ContextCapture,
                RegisterDevice, PatchProfile, At
<1>3. CASE ReplaceCredentials(r)
  BY <1>3, <1>a DEF ReplaceCredentials, At, Goto
<1>4. CASE TryClaimLazyVipRefresh(r) /\ ~MayClaim(r)
  BY <1>4, <1>a DEF TryClaimLazyVipRefresh, At, Goto
<1>5. CASE Stop(r)
  BY <1>5 DEF Stop
<1>6. CASE Fail(r)
  <2>1. PICK place \in AfterFailure(pc[r]) : Goto(r, place)
    BY <1>6 DEF Fail
  <2>2. pc'[r] = place /\ held' = held /\ pc[r] \notin {"finishing", "unwinding"}
    BY <1>6, <1>a, <2>1 DEF Goto, Fail
  <2>3. pc[r] = "refreshing" <=> place \in {"refreshing", "finishing", "unwinding"}
    BY <2>1, <2>2 DEF AfterFailure
  <2> QED BY <2>2, <2>3
<1> QED BY <1>1, <1>2, <1>3, <1>4, <1>5, <1>6 DEF RequestStep, RefreshStep

LEMMA LazyStep ==
  ASSUME Typed, Typed', RowInv, Captured, LazyInv, [Next]_vars
  PROVE  LazyInv'
<1>0. /\ epoch \in Nat /\ session.lazy \in LazyClaims /\ session.lazy.epoch <= epoch
      /\ pc \in [Requests -> Places]
  BY DEF Typed, RowsOK, RestOK, PlacesOK, Sessions, LazyInv
<1>1. CASE Start
  <2>1. epoch' = epoch + 1 /\ held' = held /\ pc' = pc
    BY <1>1 DEF Start
  <2>2. session'.gen > session.gen /\ (session'.lazy = session.lazy \/ session'.lazy = NoClaim)
    BY <1>1, StartFacts DEF RowInv
  <2>3. session'.lazy.epoch <= epoch' /\ epoch' > epoch /\ epoch' >= epoch
    BY <1>0, <2>1, <2>2, NoClaimFacts DEF LazyClaims
  <2>4. session'.lazy.state # "inFlight" \/ (session'.lazy = session.lazy /\ epoch' > epoch)
    BY <2>2, <2>3, NoClaimFacts
  <2> QED BY <2>1, <2>2, <2>3, <2>4, LazyFresh DEF Refreshing
<1>2. CASE Crash
  <2>1. \A q \in Requests : ~Refreshing(q)'
    BY <1>2 DEF Crash, Refreshing
  <2> QED BY <1>2, <2>1 DEF Crash, rows, history, LazyInv
<1>3. CASE CooldownEnds
  <2>1. /\ session'.lazy = NoClaim /\ session'.gen = session.gen /\ session.lazy.state # "inFlight"
        /\ epoch' = epoch /\ held' = held /\ pc' = pc
    BY <1>3, LazyFacts DEF CooldownEnds, RowKept, Typed, RowsOK, Sessions
  <2>2. \A q \in Requests : ~(Refreshing(q) /\ held[q].gen = session.gen)
    BY <2>1, InFlightFacts DEF LazyInv
  <2>3. \A q : NoClaim # InFlight(q)'
    BY InFlightFacts, NoClaimFacts DEF InFlight
  <2> QED BY <1>0, <2>1, <2>2, <2>3, NoClaimFacts DEF LazyInv, Refreshing, LazyClaims
<1>4. CASE UNCHANGED vars
  BY <1>4 DEF vars, rows, history, LazyInv, Refreshing, InFlight
<1>5. ASSUME NEW r \in Requests, RequestStep(r) PROVE LazyInv'
  <2>0. \A q \in Requests \ {r} : held'[q] = held[q] /\ pc'[q] = pc[q] /\ (Refreshing(q)' <=> Refreshing(q))
    BY <1>5, HeldStep, PlacesStep DEF HeldKept, Moved, Refreshing
  <2>1. ASSUME ~(TryClaimLazyVipRefresh(r) /\ MayClaim(r)), ~FinishLazyVipRefresh(r)
        PROVE  \A q \in Requests : (Refreshing(q)' <=> Refreshing(q))
                                   /\ (Refreshing(q) => held'[q].gen = held[q].gen)
    BY <1>5, <2>0, <2>1, RefreshMoves
  <2>2. CASE ~(TryClaimLazyVipRefresh(r) /\ MayClaim(r)) /\ ~FinishLazyVipRefresh(r)
    <3>1. CASE SessionQuiet(r)
      BY <2>1, <2>2, <3>1, QuietFacts, LazyFrame
    <3>2. CASE \/ BeginLoginAttempt(r) \/ PublishLoginKey(r) \/ CancelLoginAttempt(r)
               \/ PatchProfile(r) \/ ReplaceCredentials(r)
      <4>1. session'.lazy = session.lazy /\ session'.gen = session.gen
        BY <3>2, AttemptFacts, ProfileFacts, ReplaceFacts DEF RowKept, LazyKept
      <4>2. epoch' = epoch /\ running' = running /\ unfinished' = unfinished
        BY <3>2 DEF BeginLoginAttempt, PublishLoginKey, CancelLoginAttempt, PatchProfile,
                    ReplaceCredentials, history
      <4> QED BY <2>1, <2>2, <4>1, <4>2, LazyFrame
    <3>3. CASE (CommitLoginAttempt(r) /\ MayLogin(r)) \/ ClearWithDevice(r)
      <4>1. session'.gen = NextGeneration(session) /\ session'.lazy = NoClaim
        BY <3>3, CommitFacts, ClearedTyped DEF ClearWithDevice, Typed, RowsOK
      <4>2. session'.gen > session.gen
        BY <4>1, NextGrows
      <4>3. epoch' = epoch
        BY <3>3 DEF CommitLoginAttempt, ClearWithDevice
      <4> QED BY <1>0, <2>1, <2>2, <4>1, <4>2, <4>3, NoClaimFacts, LazyFresh
    <3> QED BY <1>5, <2>2, <3>1, <3>2, <3>3, RequestSplit
  <2>3. CASE TryClaimLazyVipRefresh(r) /\ MayClaim(r)
    <3>1. /\ session'.lazy = InFlight(r) /\ session'.gen = session.gen
          /\ epoch' = epoch /\ running' = running /\ unfinished' = unfinished
          /\ held'[r].gen = held[r].gen /\ held[r].gen = session.gen
          /\ pc[r] = "claiming" /\ pc'[r] = "refreshing"
      BY <1>0, <2>3, ClaimFacts DEF TryClaimLazyVipRefresh, At, Goto, InFlight, history, MayClaim, SameAccount
    <3>2. \A q \in Requests : ~(Refreshing(q) /\ held[q].gen = session.gen)
      BY <2>3, InFlightFacts DEF LazyInv, MayClaim, Suppressed
    <3>3. \A q : InFlight(q)' = InFlight(q)
      BY <3>1 DEF InFlight
    <3>4. Refreshing(r)' /\ ~Refreshing(r)
      BY <3>1 DEF Refreshing
    <3> QED BY <1>0, <2>0, <3>1, <3>2, <3>3, <3>4, InFlightFacts DEF LazyInv
  <2>4. CASE FinishLazyVipRefresh(r)
    <3>1. /\ session'.gen = session.gen /\ epoch' = epoch /\ running' = running /\ held' = held
          /\ Refreshing(r) /\ ~Refreshing(r)'
      BY <1>0, <2>4, LazyFacts DEF FinishLazyVipRefresh, Goto, RowKept, Refreshing
    <3>2. HoldsClaim(r) <=> held[r].gen = session.gen /\ session.lazy = InFlight(r)
      BY DEF HoldsClaim, SameAccount, InFlight
    <3>3. \A q : InFlight(q)' = InFlight(q)
      BY <3>1 DEF InFlight
    <3>4. CASE HoldsClaim(r) /\ session' = [session EXCEPT !.lazy = Cooling(@)]
      <4>1. session'.lazy = Cooling(session.lazy)
        BY <3>4 DEF Typed, RowsOK, Sessions
      <4>2. session'.lazy.state = "cooling" /\ session'.lazy.epoch = session.lazy.epoch
        BY <1>0, <4>1 DEF Cooling, LazyClaims
      <4>3. \A q \in Requests \ {r} : ~(Refreshing(q) /\ held[q].gen = session.gen)
        BY <3>2, <3>4, InFlightFacts DEF LazyInv
      <4> QED BY <2>0, <3>1, <3>3, <4>2, <4>3, InFlightFacts DEF LazyInv
    <3>5. CASE ~HoldsClaim(r) /\ session' = session /\ unfinished' = unfinished
      BY <2>0, <3>1, <3>2, <3>3, <3>5, InFlightFacts DEF LazyInv
    <3>6. CASE HoldsClaim(r) /\ session' = session /\ unfinished' = unfinished \cup {r}
      BY <2>0, <3>1, <3>2, <3>3, <3>6, InFlightFacts DEF LazyInv
    <3> QED BY <2>4, <3>4, <3>5, <3>6 DEF FinishLazyVipRefresh
  <2> QED BY <2>2, <2>3, <2>4
<1> QED BY <1>1, <1>2, <1>3, <1>4, <1>5 DEF Next, RequestStep
-----------------------------------------------------------------------------
(* A request that may still store credentials holds the device of its revision. *)
Minting == {"polling", "confirmed", "claiming", "refreshing"}
MintInv == \A r \in Requests :
  pc[r] \in Minting /\ held[r].rev = device.rev => held[r].device.id = device.id

LEMMA MintMoves ==
  ASSUME Typed, NEW r \in Requests, RequestStep(r), pc'[r] \in Minting
  PROVE  \/ CaptureIdentity(r)
         \/ /\ pc[r] \in Minting /\ held'[r].rev = held[r].rev
            /\ held'[r].device = held[r].device
<1> USE DEF Minting
<1>a. pc \in [Requests -> Places]
  BY DEF Typed, PlacesOK
<1>0. ASSUME NEW place, Goto(r, place), place \notin Minting PROVE FALSE
  BY <1>a, <1>0 DEF Goto
<1>1. CASE LoginStep(r)
  <2>1. CASE BeginLoginAttempt(r) \/ KeyCapture(r) \/ PublishLoginKey(r) \/ CancelLoginAttempt(r)
             \/ CheckLoad(r)
    BY <1>0, <2>1 DEF BeginLoginAttempt, KeyCapture, PublishLoginKey, CancelLoginAttempt, CheckLoad
  <2>2. CASE CheckCurrent(r) \/ CheckCapture(r) \/ CommitLoginAttempt(r)
    BY <1>0, <2>2 DEF CheckCurrent, CheckCapture, CommitLoginAttempt
  <2>3. CASE CheckConfirmed(r)
    <3>1. pc'[r] = "confirmed" /\ pc[r] = "polling"
      BY <1>0, <1>a, <2>3 DEF CheckConfirmed, Goto, At
    <3> QED BY <2>3, <3>1, ConfirmedFacts
  <2> QED BY <1>1, <2>1, <2>2, <2>3 DEF LoginStep
<1>2. CASE AccountStep(r)
  <2>1. CASE ClearWithDevice(r) \/ SettingsCapture(r) \/ ReplaceDevice(r) \/ PatchProfile(r)
             \/ RegisterDevice(r)
    BY <1>0, <2>1 DEF ClearWithDevice, SettingsCapture, ReplaceDevice, PatchProfile, RegisterDevice
  <2>2. CASE ContextCapture(r)
    BY <2>2 DEF ContextCapture
  <2> QED BY <1>2, <2>1, <2>2 DEF AccountStep
<1>3. CASE RefreshStep(r)
  <2>1. CASE TryClaimLazyVipRefresh(r)
    <3>1. CASE MayClaim(r)
      BY <2>1, <3>1, ClaimFacts DEF TryClaimLazyVipRefresh, At
    <3>2. CASE ~MayClaim(r)
      BY <1>0, <2>1, <3>2 DEF TryClaimLazyVipRefresh
    <3> QED BY <3>1, <3>2
  <2>2. CASE ReplaceCredentials(r) \/ FinishLazyVipRefresh(r)
    BY <1>0, <2>2 DEF ReplaceCredentials, FinishLazyVipRefresh
  <2> QED BY <1>3, <2>1, <2>2 DEF RefreshStep
<1>4. CASE Stop(r)
  BY <1>4 DEF Stop
<1>5. CASE Fail(r)
  <2>1. PICK place \in AfterFailure(pc[r]) : Goto(r, place)
    BY <1>5 DEF Fail
  <2>2. place \notin Minting
    BY <2>1 DEF AfterFailure
  <2> QED BY <1>0, <2>1, <2>2
<1> QED BY <1>1, <1>2, <1>3, <1>4, <1>5 DEF RequestStep

LEMMA MintStep ==
  ASSUME Typed, Typed', Captured, MintInv, [Next]_vars
  PROVE  MintInv'
<1>0. /\ device.rev \in Nat /\ device'.rev \in Nat
      /\ device' = device \/ device'.rev = device.rev + 1
  BY DeviceStep DEF Typed, RowsOK, Devices
<1>1. \A q \in Requests : held[q].rev \in Nat /\ held[q].rev <= device.rev
  BY DEF Typed, HeldOK, Holdings, Captured
<1>2. ASSUME NEW q \in Requests, held'[q].rev = held[q].rev, held'[q].device = held[q].device,
             pc[q] \in Minting, held'[q].rev = device'.rev
      PROVE  held'[q].device.id = device'.id
  <2>1. held[q].rev \in Nat /\ held[q].rev <= device.rev /\ held[q].rev = device'.rev
    BY <1>1, <1>2
  <2>2. device'.rev # device.rev + 1
    BY <1>0, <2>1
  <2>3. device' = device
    BY <1>0, <2>2
  <2> QED BY <1>2, <2>3 DEF MintInv
<1>3. Start \/ Crash \/ CooldownEnds \/ UNCHANGED vars =>
        held' = held /\ \A q \in Requests : pc'[q] \in Minting => pc[q] \in Minting
  BY DEF Start, Crash, CooldownEnds, vars, Minting
<1>4. ASSUME NEW r \in Requests, RequestStep(r) PROVE MintInv'
  <2>1. \A q \in Requests \ {r} : held'[q] = held[q] /\ pc'[q] = pc[q]
    BY <1>4, HeldStep, PlacesStep DEF HeldKept, Moved
  <2>2. ASSUME pc'[r] \in Minting, held'[r].rev = device'.rev PROVE held'[r].device.id = device'.id
    <3>1. CASE CaptureIdentity(r)
      BY <3>1, CaptureFacts
    <3>2. CASE ~CaptureIdentity(r)
      BY <1>2, <1>4, <2>2, <3>2, MintMoves
    <3> QED BY <3>1, <3>2
  <2> QED BY <1>2, <2>1, <2>2 DEF MintInv
<1> QED BY <1>2, <1>3, <1>4 DEF MintInv, Next, RequestStep

LEMMA MintedNow ==
  ASSUME Typed, RowInv, MintInv, [Next]_vars
  PROVE  session'.minted # session.minted => session'.minted \in {0, device'.id}
<1>1. CASE Start
  BY <1>1, StartFacts DEF RowInv
<1>2. Crash \/ UNCHANGED vars => session' = session
  BY DEF Crash, vars, rows
<1>3. CASE CooldownEnds
  BY <1>3, LazyFacts DEF TokenKept
<1>4. ASSUME NEW r \in Requests, RequestStep(r)
      PROVE  session'.minted # session.minted => session'.minted \in {0, device'.id}
  <2>1. CASE SessionQuiet(r)
    BY <2>1, QuietFacts
  <2>2. CASE \/ BeginLoginAttempt(r) \/ PublishLoginKey(r) \/ CancelLoginAttempt(r)
             \/ PatchProfile(r) \/ FinishLazyVipRefresh(r)
             \/ TryClaimLazyVipRefresh(r) /\ MayClaim(r)
    BY <2>2, AttemptFacts, ProfileFacts, LazyFacts, ClaimFacts DEF TokenKept
  <2>3. CASE ClearWithDevice(r)
    BY <2>3, ClearedTyped DEF ClearWithDevice, Typed, RowsOK
  <2>4. CASE CommitLoginAttempt(r) /\ MayLogin(r)
    <3>1. session'.minted = held[r].device.id
      BY <2>4, CommitFacts
    <3>2. CASE pc[r] = "registered"
      BY <2>4, <3>1, <3>2, CommitFacts
    <3>3. CASE pc[r] = "confirmed"
      <4>1. device' = device
        BY <2>4, <3>3 DEF CommitLoginAttempt
      <4>2. held[r].device.id = device.id
        BY <2>4, <3>3 DEF MayLogin, DeviceUnmoved, SameDevice, MintInv, Minting
      <4> QED BY <3>1, <4>1, <4>2
    <3> QED BY <2>4, <3>2, <3>3 DEF CommitLoginAttempt
  <2>5. CASE ReplaceCredentials(r)
    <3>1. device' = device /\ pc[r] = "refreshing"
      BY <2>5 DEF ReplaceCredentials, At
    <3>2. CASE session' = session
      BY <3>2
    <3>3. CASE MayPatchCredentials(r) /\ session'.minted = held[r].device.id
      BY <3>1, <3>3 DEF MayPatchCredentials, SameDevice, MintInv, Minting
    <3> QED BY <2>5, <3>2, <3>3, ReplaceFacts
  <2> QED BY <1>4, <2>1, <2>2, <2>3, <2>4, <2>5, RequestSplit
<1> QED BY <1>1, <1>2, <1>3, <1>4 DEF Next, RequestStep
-----------------------------------------------------------------------------
(* The attempt in charge is the one of the active key; a login that was ended is
   neither of that attempt nor of that key; and no two attempts are the same. *)
CheckPlaces == {"loaded", "current", "polling", "confirmed", "registered"}
KeyInv ==
  /\ session.key # None => session.attempt = Attempt(session.key)
  /\ \A r \in Requests : pc[r] = "idle" => held[r].key = None /\ r \notin ended
  /\ \A r \in Requests : held[r].key # None => pc[held[r].key] = "done" /\ Kind(r) = "check"
  /\ \A r \in Requests : held[r].key # None => held[r].key \in Requests /\ Kind(held[r].key) = "key"
  /\ \A r \in Requests : pc[r] \in {"confirmed", "registered"} => held[r].key # None
  /\ \A r \in Requests : pc[r] \in CheckPlaces => held[r].key # None
  /\ \A r \in ended : held[r].key # None => session.key # held[r].key
  /\ \A r \in ended : Kind(r) = "key" => session.attempt # Attempt(r)
  /\ \A r, q \in Requests :
       Kind(r) = "key" /\ Kind(q) = "key" /\ Attempt(r) = Attempt(q) => r = q

LEMMA KeyMoves ==
  ASSUME Typed, NEW r \in Requests, RequestStep(r)
  PROVE  /\ pc'[r] # "idle" /\ pc[r] # "done"
         /\ CheckLoad(r) \/ held'[r].key = held[r].key
         /\ pc'[r] \in CheckPlaces => CheckLoad(r) \/ pc[r] \in CheckPlaces
<1> USE DEF CheckPlaces
<1>a. pc \in [Requests -> Places]
  BY DEF Typed, PlacesOK
<1>0. ASSUME NEW place, Goto(r, place) PROVE pc'[r] = place
  BY <1>a, <1>0 DEF Goto
<1>1. CheckLoad(r) \/ held'[r].key = held[r].key
  BY HeldSplit, CaptureFacts, ConfirmedFacts, ClaimFacts, RegisterFacts
<1>2. CASE LoginStep(r)
  <2>1. CASE BeginLoginAttempt(r) \/ KeyCapture(r) \/ PublishLoginKey(r) \/ CancelLoginAttempt(r)
             \/ CheckLoad(r)
    BY <1>0, <1>1, <2>1 DEF BeginLoginAttempt, KeyCapture, PublishLoginKey, CancelLoginAttempt, CheckLoad, At
  <2>2. CASE CheckCurrent(r) \/ CheckCapture(r) \/ CheckConfirmed(r) \/ CommitLoginAttempt(r)
    BY <1>0, <1>1, <2>2 DEF CheckCurrent, CheckCapture, CheckConfirmed, CommitLoginAttempt, At
  <2> QED BY <1>2, <2>1, <2>2 DEF LoginStep
<1>3. CASE AccountStep(r)
  BY <1>0, <1>1, <1>3 DEF AccountStep, ClearWithDevice, SettingsCapture, ReplaceDevice, ContextCapture,
                RegisterDevice, PatchProfile, At
<1>4. CASE RefreshStep(r)
  BY <1>0, <1>1, <1>4 DEF RefreshStep, TryClaimLazyVipRefresh, ReplaceCredentials, FinishLazyVipRefresh, At
<1>5. CASE Stop(r)
  BY <1>1, <1>5 DEF Stop
<1>6. CASE Fail(r)
  <2>1. PICK place \in AfterFailure(pc[r]) : Goto(r, place)
    BY <1>6 DEF Fail
  <2>2. pc'[r] = place /\ pc[r] \notin {"idle", "done"}
    BY <1>0, <1>6, <2>1 DEF Fail
  <2>3. place \notin CheckPlaces /\ place # "idle"
    BY <2>1 DEF AfterFailure
  <2> QED BY <1>1, <2>2, <2>3
<1> QED BY <1>2, <1>3, <1>4, <1>5, <1>6 DEF RequestStep

(* What a step does to the keys held, whatever it does to the row. *)
LEMMA KeyFrame ==
  ASSUME Typed, KeyInv, NEW r \in Requests, RequestStep(r)
  PROVE  /\ \A q \in Requests : held'[q].call = held[q].call
         /\ \A q \in Requests : pc'[q] = "idle" => q # r /\ pc[q] = "idle" /\ held'[q].key = None
         /\ \A q \in Requests : held'[q].key # None => pc'[held'[q].key] = "done" /\ Kind(q) = "check"
         /\ \A q \in Requests : held'[q].key # None =>
              held'[q].key \in Requests /\ Kind(held'[q].key) = "key"
         /\ \A q \in Requests : pc'[q] \in CheckPlaces => held'[q].key # None
         /\ \A q \in ended : held'[q].key = held[q].key
<1>1. \A q \in Requests \ {r} : held'[q] = held[q] /\ pc'[q] = pc[q]
  BY HeldStep, PlacesStep DEF HeldKept, Moved
<1>2. held'[r].call = held[r].call
  BY HeldStep
<1>3. CASE ~CheckLoad(r)
  <2>1. \A q \in Requests : held'[q].key = held[q].key
    BY <1>1, <1>3, KeyMoves
  <2>2. \A q \in Requests : held[q].key \in Requests \cup {None}
    BY DEF Typed, HeldOK, Holdings
  <2> QED BY <1>1, <1>2, <1>3, <2>1, <2>2, KeyMoves DEF KeyInv, Typed, RestOK
<1>4. CASE CheckLoad(r)
  <2>1. /\ held'[r].key \in Requests /\ pc[held'[r].key] = "done" /\ None \notin Requests
        /\ Kind(held'[r].key) = "key"
    BY <1>4, CheckLoadFacts, ConstantsAssumption
  <2>2. pc[r] = "idle" /\ Kind(r) = "check" /\ r \notin ended
    BY <1>4 DEF CheckLoad, At, KeyInv
  <2>3. \A q \in Requests : held[q].key \in Requests \cup {None}
    BY DEF Typed, HeldOK, Holdings
  <2> QED BY <1>1, <1>2, <2>1, <2>2, <2>3, KeyMoves DEF KeyInv, Typed, RestOK
<1> QED BY <1>3, <1>4

LEMMA KeyStep ==
  ASSUME Typed, Typed', RowInv, KeyInv, [Next]_vars
  PROVE  KeyInv'
<1>0. /\ \A q \in Requests : Attempt(q) \in Attempts /\ Attempt(q) # None
      /\ session.key \in Requests \cup {None} /\ None \notin Requests /\ ended \subseteq Requests
  BY ConstantsAssumption DEF Typed, HeldOK, Holdings, CallSet, Attempt, RowsOK, RestOK, Sessions
<1>1. CASE Start
  <2>1. session'.attempt = None /\ session'.key = None
    BY <1>1, StartFacts DEF RowInv
  <2>2. held' = held /\ pc' = pc /\ ended' = ended \cup Pending(Attempts)
    BY <1>1 DEF Start, EndLogins
  <2>3. \A q \in Pending(Attempts) : q \in Requests /\ pc[q] # "idle"
    BY DEF Pending, KeyInv
  <2> QED BY <1>0, <2>1, <2>2, <2>3 DEF KeyInv, Attempt, Kind
<1>2. CASE Crash
  <2>1. session' = session /\ held' = held /\ ended' = ended
        /\ \A q \in Requests : pc'[q] = IF pc[q] = "idle" THEN "idle" ELSE "done"
    BY <1>2 DEF Crash, rows, history
  <2>2. \A q \in Requests : held[q].key \in Requests \cup {None}
    BY DEF Typed, HeldOK, Holdings
  <2> QED BY <1>0, <2>1, <2>2 DEF KeyInv, Attempt, Kind, CheckPlaces
<1>3. CASE CooldownEnds \/ UNCHANGED vars
  <2>1. LoginKept /\ held' = held /\ pc' = pc /\ ended' = ended
    BY <1>3, LazyFacts DEF CooldownEnds, vars, rows, history, LoginKept
  <2> QED BY <1>0, <2>1 DEF KeyInv, Attempt, Kind, LoginKept
<1>4. ASSUME NEW r \in Requests, RequestStep(r) PROVE KeyInv'
  <2>1. /\ \A q \in Requests : Attempt(q)' = Attempt(q) /\ (Kind(q)' = Kind(q))
        /\ \A q \in Requests : pc'[q] = "idle" => q # r /\ pc[q] = "idle" /\ held'[q].key = None
        /\ \A q \in Requests : held'[q].key # None => pc'[held'[q].key] = "done" /\ Kind(q) = "check"
        /\ \A q \in Requests : held'[q].key # None =>
             held'[q].key \in Requests /\ Kind(held'[q].key) = "key"
        /\ \A q \in Requests : pc'[q] \in CheckPlaces => held'[q].key # None
        /\ \A q \in ended : held'[q].key = held[q].key
    BY <1>4, KeyFrame DEF Attempt, Kind
  <2>2. CASE LoginKept /\ ended' = ended
    BY <1>0, <2>1, <2>2 DEF KeyInv, LoginKept, CheckPlaces
  <2>3. CASE SessionQuiet(r)
    BY <2>2, <2>3, QuietFacts DEF LoginKept
  <2>4. CASE \/ PatchProfile(r) \/ ReplaceCredentials(r) \/ FinishLazyVipRefresh(r)
             \/ TryClaimLazyVipRefresh(r) /\ MayClaim(r)
    <3>1. LoginKept
      BY <2>4, ProfileFacts, ReplaceFacts, LazyFacts, ClaimFacts DEF LoginKept
    <3>2. ended' = ended
      BY <2>4 DEF PatchProfile, ReplaceCredentials, FinishLazyVipRefresh, TryClaimLazyVipRefresh, history
    <3> QED BY <2>2, <3>1, <3>2
  <2>5. \A S : \A q \in Pending(S) : q \in Requests /\ pc[q] # "idle"
    BY DEF Pending, KeyInv
  <2>6. ASSUME held' = held, session'.key = None, ended' \subseteq ended \cup Pending(Attempts),
               \A q \in ended' : Kind(q) = "key" => session'.attempt # Attempt(q)
        PROVE  KeyInv'
    BY <1>0, <2>1, <2>5, <2>6 DEF KeyInv, CheckPlaces
  <2>7. CASE BeginLoginAttempt(r)
    <3>1. session'.attempt = Attempt(r) /\ session'.key = None
      BY <2>7 DEF BeginLoginAttempt, Reserved, Typed, RowsOK, Sessions
    <3>2. held' = held /\ ended' = ended \cup Pending(Attempts) /\ pc[r] = "idle" /\ Kind(r) = "key"
      BY <2>7 DEF BeginLoginAttempt, EndLogins, At
    <3>3. r \notin ended' /\ ended' \subseteq Requests
      BY <1>0, <2>5, <3>2 DEF KeyInv
    <3>4. \A q \in ended' : Kind(q) = "key" => session'.attempt # Attempt(q)
      BY <3>1, <3>2, <3>3 DEF KeyInv
    <3> QED BY <2>6, <3>1, <3>2, <3>4
  <2>8. CASE PublishLoginKey(r)
    <3>1. ended' = ended /\ held' = held /\ pc[r] = "asking"
      BY <2>8 DEF PublishLoginKey, At, history
    <3>2. CASE session' = session
      BY <2>2, <3>1, <3>2 DEF LoginKept
    <3>3. CASE MayPublish(r) /\ session' = [session EXCEPT !.key = r]
      <4>1. session'.key = r /\ session'.attempt = session.attempt /\ session.attempt = Attempt(r)
        BY <3>3 DEF MayPublish, Typed, RowsOK, Sessions
      <4>2. \A q \in ended : held[q].key # r
        BY <1>0, <3>1 DEF KeyInv
      <4> QED BY <1>0, <2>1, <3>1, <4>1, <4>2 DEF KeyInv, CheckPlaces
    <3> QED BY <2>8, <3>2, <3>3 DEF PublishLoginKey
  <2>9. CASE CancelLoginAttempt(r)
    <3>1. held' = held /\ ended' = ended \cup Pending({Attempt(r)})
      BY <2>9 DEF CancelLoginAttempt, EndLogins
    <3>2. Pending({Attempt(r)}) \subseteq Pending(Attempts)
      BY <1>0 DEF Pending
    <3>3. CASE OwnsAttempt(r)
      <4>1. session'.attempt = None /\ session'.key = None
        BY <2>9, <3>3 DEF CancelLoginAttempt, Typed, RowsOK, Sessions
      <4>2. \A q \in ended' : q \in Requests
        BY <1>0, <2>5, <3>1
      <4> QED BY <1>0, <2>6, <3>1, <3>2, <4>1, <4>2
    <3>4. CASE ~OwnsAttempt(r)
      <4>1. session' = session /\ session.attempt # Attempt(r)
        BY <2>9, <3>4 DEF CancelLoginAttempt, OwnsAttempt
      <4>2. \A q \in Pending({Attempt(r)}) :
              /\ q \in Requests /\ pc[q] # "idle"
              /\ Kind(q) = "key" => session.attempt # Attempt(q)
              /\ held[q].key # None => session.key # held[q].key
        <5>1. ASSUME NEW q \in Pending({Attempt(r)}) PROVE Kind(q) = "key" => session.attempt # Attempt(q)
          <6>1. Kind(q) = "key" => Attempt(q) = Attempt(r)
            BY <2>5, <5>1 DEF Pending, KeyInv
          <6> QED BY <4>1, <6>1
        <5>2. ASSUME NEW q \in Pending({Attempt(r)}), held[q].key # None PROVE session.key # held[q].key
          <6>1. q \in Requests /\ Kind(q) = "check"
            BY <2>5, <5>2 DEF KeyInv
          <6>2. Attempt(held[q].key) = Attempt(r)
            BY <5>2, <6>1 DEF Pending
          <6>3. session.key = held[q].key => session.attempt = Attempt(r)
            BY <5>2, <6>2 DEF KeyInv
          <6> QED BY <4>1, <6>3
        <5> QED BY <2>5, <5>1, <5>2
      <4>3. /\ \A q \in ended' : held'[q].key # None => session'.key # held'[q].key
            /\ \A q \in ended' : Kind(q) = "key" => session'.attempt # Attempt(q)
            /\ \A q \in Requests : pc'[q] = "idle" => q \notin ended'
        BY <1>0, <2>1, <3>1, <4>1, <4>2 DEF KeyInv
      <4>4. session'.key # None => session'.attempt = Attempt(session'.key)
        BY <4>1 DEF KeyInv
      <4>5. ended' \subseteq Requests
        BY <1>0, <3>1, <4>2
      <4> QED BY <1>0, <2>1, <4>3, <4>4, <4>5, <4>1 DEF KeyInv, CheckPlaces
    <3> QED BY <3>3, <3>4
  <2>10. CASE CommitLoginAttempt(r) /\ MayLogin(r)
    <3>1. session'.attempt = None /\ session'.key = None
      BY <2>10, CommitFacts
    <3>2. held' = held /\ ended' = ended \cup (Pending(Attempts) \ {r})
      BY <2>10 DEF CommitLoginAttempt, EndLogins
    <3>3. \A q \in ended' : q \in Requests
      BY <1>0, <2>5, <3>2
    <3> QED BY <1>0, <2>6, <3>1, <3>2, <3>3
  <2>11. CASE ClearWithDevice(r)
    <3>1. session'.attempt = None /\ session'.key = None
      BY <2>11, ClearedTyped DEF ClearWithDevice, Typed, RowsOK
    <3>2. held' = held /\ ended' = ended \cup Pending(Attempts)
      BY <2>11 DEF ClearWithDevice, EndLogins
    <3>3. \A q \in ended' : q \in Requests
      BY <1>0, <2>5, <3>2
    <3> QED BY <1>0, <2>6, <3>1, <3>2, <3>3
  <2> QED BY <1>4, <2>3, <2>4, <2>7, <2>8, <2>9, <2>10, <2>11, RequestSplit
<1> QED BY <1>1, <1>2, <1>3, <1>4 DEF Next, RequestStep
-----------------------------------------------------------------------------
(* The process starts at most MaxEpoch times. *)
Bounded == epoch \in 0..MaxEpoch

LEMMA BoundedStep ==
  ASSUME Typed, Bounded, [Next]_vars
  PROVE  Bounded'
<1>0. MaxEpoch \in Nat
  BY ConstantsAssumption
<1>1. CASE Start
  BY <1>0, <1>1 DEF Start, Bounded
<1>2. CASE Crash \/ CooldownEnds \/ UNCHANGED vars
  BY <1>2 DEF Crash, CooldownEnds, vars, Bounded
<1>3. ASSUME NEW r \in Requests, RequestStep(r) PROVE epoch' = epoch
  <2>1. CASE SessionQuiet(r)
    BY <2>1, QuietFacts
  <2>2. CASE ~SessionQuiet(r)
    BY <1>3, <2>2, RequestSplit
       DEF BeginLoginAttempt, PublishLoginKey, CancelLoginAttempt, CommitLoginAttempt, ClearWithDevice,
           PatchProfile, ReplaceCredentials, FinishLazyVipRefresh, TryClaimLazyVipRefresh
  <2> QED BY <2>1, <2>2
<1> QED BY <1>1, <1>2, <1>3 DEF Next, RequestStep, Bounded

(* The inductive invariant. *)
IInv == Typed /\ Bounded /\ RowInv /\ Captured /\ Logged /\ LazyInv /\ MintInv /\ KeyInv

LEMMA StoredFacts ==
  ASSUME NEW s \in StoredRows
  PROVE  /\ s \in Sessions /\ s.lazy = NoClaim /\ s.key = None
         /\ s.form = "plaintext" => s.gen = 0 /\ s.token = 1 /\ s.profile = 1
         /\ s.form = "envelope" => s.gen = 1 /\ s.token = 1 /\ s.profile = 1
         /\ s.form \in {"absent", "damaged"} => s.gen = 0 /\ s.token = 0
<1>1. CASE s = [Blank EXCEPT !.form = "absent"] \/ s = [Blank EXCEPT !.form = "damaged"]
  BY <1>1, BlankTyped DEF Sessions, Forms
<1>2. CASE s = [Blank EXCEPT !.form = "plaintext", !.token = 1, !.profile = 1]
  BY <1>2, BlankTyped DEF Sessions, Forms
<1>3. CASE s = [Blank EXCEPT !.gen = 1, !.token = 1, !.profile = 1]
  BY <1>3, BlankTyped DEF Sessions, Forms
<1> QED BY <1>1, <1>2, <1>3 DEF StoredRows

LEMMA HoldingFacts ==
  ASSUME NEW c \in CallSet
  PROVE  /\ Holding(c) \in Holdings /\ Holding(c).call = c /\ Holding(c).gen = 0
         /\ Holding(c).rev = 0 /\ Holding(c).key = None
BY DEF Holding, Holdings, Devices, NoDevice

LEMMA InitHolds == Init => IInv
<1> SUFFICES ASSUME Init PROVE IInv
  OBVIOUS
<1>1. PICK calls \in Workloads : held = [r \in Requests |-> Holding(calls[r])]
  BY DEF Init
<1>2. /\ calls \in [Requests -> CallSet]
      /\ \A r, q \in Requests : calls[r].kind = "key" /\ calls[q] = calls[r] => r = q
  BY ConstantsAssumption DEF Calls, CallSet
<1>3. \A r \in Requests : /\ held[r] \in Holdings /\ held[r].call = calls[r] /\ held[r].gen = 0
                          /\ held[r].rev = 0 /\ held[r].key = None
  BY <1>1, <1>2, HoldingFacts
<1>4. /\ session \in Sessions /\ session.lazy = NoClaim /\ session.key = None
      /\ session.form = "plaintext" => session.gen = 0 /\ session.token = 1 /\ session.profile = 1
      /\ session.form = "envelope" => session.gen = 1 /\ session.token = 1 /\ session.profile = 1
      /\ session.form \in {"absent", "damaged"} => session.gen = 0 /\ session.token = 0
  BY StoredFacts DEF Init
<1>5. \A r \in Requests : pc[r] = "idle"
  BY DEF Init
<1>6. HeldOK
  BY <1>1, <1>2, HoldingFacts DEF HeldOK
<1>7. device \in Devices /\ device.rev = 0
  BY DEF Init, NoDevice, Devices
<1>8. session.gen \in Nat /\ session.token \in Nat /\ session.form \in Forms /\ migrated \in BOOLEAN
  BY <1>4 DEF Sessions, Init
<1>9. owner = IF session.form = "plaintext" /\ migrated THEN 0 ELSE session.token
  BY DEF Init
<1>10. Typed
  <2>1. RowsOK
    BY <1>4, <1>7, <1>8 DEF RowsOK
  <2>2. PlacesOK
    BY DEF Init, PlacesOK, Places
  <2>3. running = FALSE /\ epoch = 0 /\ stopped = {} /\ ended = {} /\ unfinished = {}
        /\ logins = 1 /\ identities = 0
    BY DEF Init
  <2>4. owner \in Nat
    BY <1>8, <1>9
  <2>5. RestOK
    BY <2>3, <2>4 DEF RestOK
  <2> QED BY <1>6, <2>1, <2>2, <2>5 DEF Typed
<1>11. Bounded
  BY ConstantsAssumption DEF Init, Bounded
<1>12. RowInv
  <2>1. ~running
    BY DEF Init
  <2> QED BY <1>4, <1>8, <1>9, <2>1 DEF RowInv, Forms
<1>13. Captured
  BY <1>3, <1>7, <1>8 DEF Captured
<1>14. Logged /\ MintInv
  BY <1>5 DEF Logged, MintInv, Contexts, Minting
<1>15. LazyInv
  BY <1>4, <1>5, NoClaimFacts DEF LazyInv, Refreshing, Init
<1>16. KeyInv
  <2>1. ended = {}
    BY DEF Init
  <2>2. \A r, q \in Requests :
          Kind(r) = "key" /\ Kind(q) = "key" /\ Attempt(r) = Attempt(q) => r = q
    <3>1. \A r \in Requests : Kind(r) = calls[r].kind /\ Attempt(r) = calls[r].attempt
                              /\ calls[r] \in CallSet
      BY <1>2, <1>3 DEF Kind, Attempt
    <3>2. ASSUME NEW c \in CallSet, NEW d \in CallSet, c.kind = d.kind, c.attempt = d.attempt
          PROVE  c = d
      BY <3>2 DEF CallSet
    <3> QED BY <1>2, <3>1, <3>2
  <2> QED BY <1>3, <1>4, <1>5, <2>1, <2>2 DEF KeyInv, CheckPlaces
<1> QED BY <1>10, <1>11, <1>12, <1>13, <1>14, <1>15, <1>16 DEF IInv

LEMMA InvStep == IInv /\ [Next]_vars => IInv' /\ Forward
<1> SUFFICES ASSUME IInv, [Next]_vars PROVE IInv' /\ Forward
  OBVIOUS
<1> USE DEF IInv
<1>1. Typed'
  BY TypedStep DEF RowInv
<1>2. RowInv' /\ Forward
  BY RowStep
<1>3. Captured' /\ Logged'
  BY <1>1, <1>2, CapturedStep, LoggedStep
<1>4. LazyInv' /\ MintInv' /\ KeyInv' /\ Bounded'
  BY <1>1, LazyStep, MintStep, KeyStep, BoundedStep
<1> QED BY <1>1, <1>2, <1>3, <1>4

LEMMA InvIsolates == IInv => AccountIsolation
<1> SUFFICES ASSUME IInv PROVE AccountIsolation
  OBVIOUS
<1>1. TypeOK
  BY DEF IInv, Bounded, Typed, HeldOK, PlacesOK, RowsOK, RestOK, Sessions, LazyClaims, Forms,
         Holdings, CallSet, TypeOK
<1>2. OneLazyRefresh
  BY DEF IInv, LazyInv, OneLazyRefresh
<1>3. running => /\ session.form = "envelope" /\ session.gen > 0
                 /\ session.token = owner /\ session.profile = owner
  BY DEF IInv, RowInv
<1> QED BY <1>1, <1>2, <1>3 DEF AccountIsolation

LEMMA InvCorrect == Spec => []IInv
<1>1. Init => IInv
  BY InitHolds
<1>2. IInv /\ [Next]_vars => IInv'
  BY InvStep
<1> QED BY <1>1, <1>2, PTL DEF Spec

(* No late answer puts an ended session, or a piece of it, back, and no restart
   loses one: CommitLoginAttempt, ReplaceCredentials, PatchProfile and
   BeginRuntimeEpoch against ClearWithDevice, with any number of requests. *)
THEOREM IsolationCorrect == Spec => []AccountIsolation
<1>1. IInv => AccountIsolation
  BY InvIsolates
<1> QED BY <1>1, InvCorrect, PTL

Minted == /\ session'.minted # session.minted => session'.minted \in {0, device'.id}
          /\ session'.gen >= session.gen
          /\ owner' # owner \/ logins' # logins => session'.gen > session.gen

(* Credentials are stored only beside the device they were minted on, and the
   account generation moves forward with every change of the account in charge:
   the checks of revision and generation inside the transactions suffice. *)
THEOREM MintedCorrect == Spec => MintedOnStoredDevice
<1>1. IInv /\ [Next]_vars => Minted
  BY InvStep, MintedNow DEF Minted, IInv, Forward
<1>2. Minted => [Minted]_vars
  OBVIOUS
<1> QED BY <1>1, InvCorrect, PTL DEF Spec, MintedOnStoredDevice, Minted

Late == /\ \A r \in Requests :
             /\ pc[r] \in {"confirmed", "registered"} /\ pc'[r] = "done"
             /\ (r \in ended \/ held[r].key \in ended)
             => logins' = logins
        /\ session'.key \in Requests /\ session'.key # session.key => session'.key \notin ended

(* The steps that add a login, and those that publish a key. *)
LEMMA LoginMoves ==
  ASSUME Typed, RowInv, [Next]_vars
  PROVE  /\ logins' = logins \/ \E r \in Requests : CommitLoginAttempt(r) /\ MayLogin(r)
         /\ \/ session'.key \in {session.key, None}
            \/ \E r \in Requests : PublishLoginKey(r) /\ MayPublish(r) /\ session'.key = r
<1> DEFINE Good ==
      /\ logins' = logins \/ \E r \in Requests : CommitLoginAttempt(r) /\ MayLogin(r)
      /\ \/ session'.key \in {session.key, None}
         \/ \E r \in Requests : PublishLoginKey(r) /\ MayPublish(r) /\ session'.key = r
<1>1. CASE Start
  BY <1>1, StartFacts DEF RowInv, Start, history
<1>2. CASE Crash \/ UNCHANGED vars
  BY <1>2 DEF Crash, vars, rows, history
<1>3. CASE CooldownEnds
  BY <1>3, LazyFacts DEF CooldownEnds, LoginKept, history
<1>4. ASSUME NEW r \in Requests, RequestStep(r) PROVE Good
  <2>1. CASE SessionQuiet(r)
    BY <2>1, QuietFacts
  <2>2. CASE BeginLoginAttempt(r) \/ CancelLoginAttempt(r)
    BY <2>2 DEF BeginLoginAttempt, Reserved, CancelLoginAttempt, Typed, RowsOK, Sessions
  <2>3. CASE PublishLoginKey(r)
    BY <2>3 DEF PublishLoginKey, history, Typed, RowsOK, Sessions
  <2>4. CASE CommitLoginAttempt(r) /\ MayLogin(r)
    BY <2>4, CommitFacts
  <2>5. CASE ClearWithDevice(r)
    BY <2>5, ClearedTyped DEF ClearWithDevice, Typed, RowsOK
  <2>6. CASE \/ PatchProfile(r) \/ ReplaceCredentials(r) \/ FinishLazyVipRefresh(r)
             \/ TryClaimLazyVipRefresh(r) /\ MayClaim(r)
    <3>1. LoginKept
      BY <2>6, ProfileFacts, ReplaceFacts, LazyFacts, ClaimFacts DEF LoginKept
    <3>2. logins' = logins
      BY <2>6 DEF PatchProfile, ReplaceCredentials, FinishLazyVipRefresh, TryClaimLazyVipRefresh, history
    <3> QED BY <3>1, <3>2 DEF LoginKept
  <2> QED BY <1>4, <2>1, <2>2, <2>3, <2>4, <2>5, <2>6, RequestSplit
<1> QED BY <1>1, <1>2, <1>3, <1>4 DEF Next, RequestStep

(* A QR login that was superseded, cancelled, completed by another check or
   ended by a logout or a restart never lands: neither its key nor the commit of
   a check, also of one that begins only then. *)
THEOREM LateLoginCorrect == Spec => LateLoginNeverLands
<1>1. ASSUME IInv, [Next]_vars PROVE Late
  <2>0. ended \subseteq Requests /\ pc \in [Requests -> Places]
    BY <1>1 DEF IInv, Typed, RestOK, PlacesOK
  <2>1. ASSUME NEW r \in Requests, pc[r] \in {"confirmed", "registered"}, pc'[r] = "done",
               r \in ended \/ held[r].key \in ended, logins' # logins
        PROVE  FALSE
    <3>1. PICK q \in Requests : CommitLoginAttempt(q) /\ MayLogin(q)
      BY <1>1, <2>1, LoginMoves DEF IInv
    <3>2. r = q
      BY <2>0, <2>1, <3>1 DEF CommitLoginAttempt, Goto
    <3>3. /\ held[r].key # None /\ held[r].key \in Requests
          /\ session.key = held[r].key /\ session.attempt = Attempt(held[r].key)
      BY <1>1, <2>1, <3>1, <3>2 DEF IInv, KeyInv, Typed, HeldOK, Holdings, MayLogin, AttemptLives
    <3>4. r \notin ended
      BY <1>1, <3>3 DEF IInv, KeyInv
    <3>5. held[r].key \in ended /\ Kind(held[r].key) = "key"
      BY <1>1, <2>1, <3>3, <3>4 DEF IInv, KeyInv
    <3> QED BY <1>1, <3>3, <3>5 DEF IInv, KeyInv
  <2>2. ASSUME session'.key \in Requests, session'.key # session.key, session'.key \in ended
        PROVE  FALSE
    <3>1. PICK q \in Requests : PublishLoginKey(q) /\ MayPublish(q) /\ session'.key = q
      BY <1>1, <2>2, LoginMoves, ConstantsAssumption DEF IInv
    <3>2. Kind(q) = "key" /\ session.attempt = Attempt(q)
      BY <3>1 DEF PublishLoginKey, At, MayPublish
    <3> QED BY <1>1, <2>2, <3>1, <3>2 DEF IInv, KeyInv
  <2> QED BY <2>1, <2>2 DEF Late
<1> QED BY <1>1, InvCorrect, PTL DEF Spec, LateLoginNeverLands, Late
=============================================================================
