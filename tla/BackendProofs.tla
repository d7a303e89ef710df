---------------------------- MODULE BackendProofs -----------------------------
(* The C ABI for any number of callers, workers and registry entries; then the media
   session of MusicController, which shares nothing with it. *)
EXTENDS Backend, Playback, DataLemmas, SequenceTheorems, FiniteSetTheorems, TLAPS

Reg     == {"registered", "bound", "waiting"}
Stages  == Inside \cup {"out", "answered"}
Answers == {None, "value", "timeout", "cancelled", "exhausted", "shutdown", "duplicate",
            "overload", "busy", "uninitialised"}
CallOf  == [pc : Stages, id : Ids \cup {None}, api : Nat, late : BOOLEAN, kill : BOOLEAN,
            flag : BOOLEAN, stop : BOOLEAN, future : Answers, answer : Answers]
CallsOK == call \in [Callers -> CallOf]

(* An id that is owned belongs to the request of a caller that is under way, and
   every request under way owns its id. *)
Shape(r)      == r = [orphans |-> r.orphans, owner |-> r.owner]
RegistryShape == Shape(registry)
Ownership ==
  /\ \A id \in DOMAIN registry.owner :
       /\ registry.owner[id] \in Callers
       /\ call[registry.owner[id]].id = id /\ call[registry.owner[id]].pc \in Reg
  /\ \A c \in Callers : call[c].pc \in Reg =>
       call[c].id \in DOMAIN registry.owner /\ registry.owner[call[c].id] = c

(* An accepted cancel has raised the flag of a request that was registered. *)
CancelKept ==
  /\ asked \subseteq Callers
  /\ \A c \in asked : call[c].flag /\ call[c].pc \in Reg \cup {"answered"}

CInv == CallsOK /\ RegistryShape /\ Ownership /\ CancelKept

LEMMA InitHolds == BackendInit => CInv
<1> SUFFICES ASSUME BackendInit PROVE CInv
  OBVIOUS
<1>1. NoCall \in CallOf
  BY DEF NoCall, CallOf, Stages, Inside, Answers
<1>2. CallsOK
  BY <1>1 DEF BackendInit, CallsOK
<1>3. \A c \in Callers : call[c].pc = "out"
  BY DEF BackendInit, NoCall
<1>4. registry.orphans = <<>> /\ registry.owner = <<>> /\ DOMAIN registry.owner = {}
  BY DEF BackendInit
<1>5. RegistryShape
  BY <1>4 DEF BackendInit, RegistryShape, Shape
<1> QED BY <1>2, <1>3, <1>4, <1>5 DEF CInv, Ownership, CancelKept, Reg, BackendInit

(* Steps that leave the registry, and the places, ids and flags of the calls. *)
LEMMA FrameHolds ==
  ASSUME CInv, CallsOK', registry' = registry, asked' = asked,
         \A c \in Callers : /\ call'[c].pc = call[c].pc /\ call'[c].id = call[c].id
                            /\ call'[c].flag = call[c].flag
  PROVE  CInv'
BY DEF CInv, RegistryShape, Shape, Ownership, CancelKept

(* A caller that owns nothing moves to another place where it owns nothing. *)
LEMMA OutsideHolds ==
  ASSUME CInv, NEW c \in Callers, NEW x \in CallOf, call' = [call EXCEPT ![c] = x],
         call[c].pc \notin Reg \cup {"answered"}, x.pc \notin Reg,
         RegistryShape', registry'.owner = registry.owner, asked' = asked
  PROVE  CInv'
<1>1. /\ call'[c] = x
      /\ \A d \in Callers \ {c} : call'[d] = call[d]
      /\ CallsOK'
  BY DEF CInv, CallsOK
<1>2. c \notin asked /\ \A id \in DOMAIN registry.owner : registry.owner[id] # c
  BY DEF CInv, CancelKept, Ownership
<1>3. Ownership'
  BY <1>1, <1>2 DEF CInv, Ownership
<1>4. CancelKept'
  BY <1>1, <1>2 DEF CInv, CancelKept
<1> QED BY <1>1, <1>3, <1>4 DEF CInv

(* A caller that is registered moves on, or its flag is raised by a cancel. *)
LEMMA InsideHolds ==
  ASSUME CInv, NEW c \in Callers, NEW x \in CallOf, call' = [call EXCEPT ![c] = x],
         call[c].pc \in Reg, x.pc \in Reg, x.id = call[c].id, call[c].flag => x.flag,
         RegistryShape', registry'.owner = registry.owner,
         \/ asked' = asked
         \/ asked' = asked \cup {c} /\ x.flag
  PROVE  CInv'
<1>1. /\ call'[c] = x
      /\ \A d \in Callers \ {c} : call'[d] = call[d]
      /\ CallsOK'
  BY DEF CInv, CallsOK
<1>2. Ownership'
  BY <1>1 DEF CInv, Ownership
<1>3. CancelKept'
  BY <1>1 DEF CInv, CancelKept
<1> QED BY <1>1, <1>2, <1>3 DEF CInv

(* A caller answers and gives its id back. *)
LEMMA FinishHolds ==
  ASSUME CInv, NEW c \in Callers, NEW x \in CallOf, call' = [call EXCEPT ![c] = x],
         call[c].pc \in Reg, x.pc = "answered", x.flag = call[c].flag,
         Finish(c), asked' = asked
  PROVE  CInv'
<1>1. /\ call'[c] = x
      /\ \A d \in Callers \ {c} : call'[d] = call[d]
      /\ CallsOK'
  BY DEF CInv, CallsOK
<1>2. /\ RegistryShape'
      /\ registry'.owner = Without(registry.owner, call[c].id)
  BY DEF CInv, RegistryShape, Shape, Finish
<1>3. /\ DOMAIN registry'.owner = DOMAIN registry.owner \ {call[c].id}
      /\ \A id \in DOMAIN registry'.owner : registry'.owner[id] = registry.owner[id]
  BY <1>2 DEF Without
<1>4. registry.owner[call[c].id] = c
  BY DEF CInv, Ownership
<1>5. Ownership'
  BY <1>1, <1>3, <1>4 DEF CInv, Ownership, Reg
<1>6. CancelKept'
  BY <1>1 DEF CInv, CancelKept
<1> QED BY <1>1, <1>2, <1>5, <1>6 DEF CInv

(* A caller takes its id, with the flag of a cancel that came before. *)
LEMMA RegisteredHolds ==
  ASSUME CInv, NEW c \in Callers, NEW x \in CallOf, call' = [call EXCEPT ![c] = x],
         call[c].pc = "held", x.pc = "registered", x.id = call[c].id,
         x.id \notin DOMAIN registry.owner,
         RegistryShape', registry'.owner = With(registry.owner, x.id, c),
         asked' = asked \cup (IF x.flag THEN {c} ELSE {})
  PROVE  CInv'
<1>1. /\ call'[c] = x
      /\ \A d \in Callers \ {c} : call'[d] = call[d]
      /\ CallsOK'
  BY DEF CInv, CallsOK
<1>2. /\ DOMAIN registry'.owner = DOMAIN registry.owner \cup {x.id}
      /\ registry'.owner[x.id] = c
      /\ \A id \in DOMAIN registry.owner : registry'.owner[id] = registry.owner[id]
  BY DEF With
<1>3. c \notin asked /\ \A id \in DOMAIN registry.owner : registry.owner[id] # c
  BY DEF CInv, CancelKept, Ownership, Reg
<1>4. Ownership'
  <2>1. ASSUME NEW id \in DOMAIN registry'.owner
        PROVE  /\ registry'.owner[id] \in Callers
               /\ call'[registry'.owner[id]].id = id /\ call'[registry'.owner[id]].pc \in Reg
    BY <1>1, <1>2, <1>3 DEF CInv, Ownership, Reg
  <2>2. ASSUME NEW d \in Callers, call'[d].pc \in Reg
        PROVE  call'[d].id \in DOMAIN registry'.owner /\ registry'.owner[call'[d].id] = d
    BY <1>1, <1>2, <2>2 DEF CInv, Ownership, Reg
  <2> QED BY <2>1, <2>2 DEF Ownership
<1>5. CancelKept'
  BY <1>1, <1>3 DEF CInv, CancelKept, Reg
<1> QED BY <1>1, <1>4, <1>5 DEF CInv
-----------------------------------------------------------------------------
LEMMA PrunedShape ==
  ASSUME RegistryShape, NEW n
  PROVE  Shape(Pruned(n)) /\ Pruned(n).owner = registry.owner
<1> DEFINE tail == SubSeq(registry.orphans, n + 1, Len(registry.orphans))
<1>1. Pruned(n) = [registry EXCEPT !.orphans = tail]
  BY DEF Pruned
<1> HIDE DEF tail
<1> QED BY <1>1 DEF RegistryShape, Shape

LEMMA CapacityShape ==
  ASSUME NEW r, Shape(r), NEW q \in EnsureCapacity(r)
  PROVE  Shape(q) /\ q.owner = r.owner
BY DEF EnsureCapacity, Shape

LEMMA RegisterHolds == ASSUME CInv, NEW c \in Callers, Register(c) PROVE CInv'
<1>1. PICK n \in 0..Len(registry.orphans) :
        LET r == Pruned(n)  id == call[c].id IN
        \/ /\ id \in DOMAIN r.owner
           /\ registry' = r /\ Answer(c, "duplicate") /\ UNCHANGED asked
        \/ /\ id \notin DOMAIN r.owner
           /\ id \notin Range(r.orphans) /\ EnsureCapacity(r) = {}
           /\ registry' = r /\ Answer(c, "overload") /\ UNCHANGED asked
        \/ /\ id \notin DOMAIN r.owner
           /\ \E q \in IF id \in Range(r.orphans) THEN {r} ELSE EnsureCapacity(r) :
                registry' = Registered(q, id, c)
           /\ call' = [call EXCEPT ![c].pc = "registered", ![c].flag = Adopted(r, id)]
           /\ asked' = asked \cup (IF id \in Range(r.orphans) THEN {c} ELSE {})
  BY DEF Register
<1> DEFINE r == Pruned(n)
           id == call[c].id
<1>2. Shape(r) /\ r.owner = registry.owner /\ call[c].pc = "held" /\ call[c] \in CallOf
  BY PrunedShape DEF CInv, Register, CallsOK
<1>3. ASSUME NEW a \in {"duplicate", "overload"}, registry' = r, Answer(c, a), asked' = asked
      PROVE  CInv'
  <2> DEFINE x == [call[c] EXCEPT !.pc = "answered", !.answer = a]
  <2>1. x \in CallOf /\ x.pc = "answered" /\ call' = [call EXCEPT ![c] = x]
    BY <1>2, <1>3 DEF Answer, CallOf, Stages, Answers
  <2>2. RegistryShape' /\ registry'.owner = registry.owner
    BY <1>2, <1>3 DEF Shape, RegistryShape
  <2> HIDE DEF x
  <2> QED BY <1>2, <1>3, <2>1, <2>2, OutsideHolds DEF Reg
<1>4. ASSUME id \notin DOMAIN r.owner,
             NEW q \in IF id \in Range(r.orphans) THEN {r} ELSE EnsureCapacity(r),
             registry' = Registered(q, id, c),
             call' = [call EXCEPT ![c].pc = "registered", ![c].flag = Adopted(r, id)],
             asked' = asked \cup (IF id \in Range(r.orphans) THEN {c} ELSE {})
      PROVE  CInv'
  <2> DEFINE x == [call[c] EXCEPT !.pc = "registered", !.flag = Adopted(r, id)]
  <2>0. Adopted(r, id) \in BOOLEAN
    BY DEF Adopted
  <2>1. /\ x.pc = "registered" /\ x.id = id /\ x.flag = Adopted(r, id)
        /\ call' = [call EXCEPT ![c] = x]
    <3>1. x.pc = "registered" /\ x.id = id /\ x.flag = Adopted(r, id)
      BY <1>2 DEF CallOf
    <3>2. call' = [call EXCEPT ![c] = x]
      BY <1>4 DEF CInv, CallsOK
    <3> QED BY <3>1, <3>2
  <2>1a. x \in CallOf
    BY <1>2, <2>0 DEF CallOf, Stages, Inside
  <2>2. Shape(q) /\ q.owner = r.owner
    BY <1>2, <1>4, CapacityShape
  <2>3. RegistryShape' /\ registry'.owner = With(registry.owner, x.id, c)
    BY <1>2, <1>4, <2>1, <2>2 DEF RegistryShape, Shape, Registered
  <2>4. asked' = asked \cup (IF x.flag THEN {c} ELSE {})
    BY <1>4, <2>1 DEF Adopted
  <2> HIDE DEF x
  <2> QED BY <1>2, <1>4, <2>1, <2>1a, <2>3, <2>4, RegisteredHolds
<1> QED BY <1>1, <1>3, <1>4

LEMMA CancelHolds == ASSUME CInv, NEW id \in Ids, EchoCancelRequest(id) PROVE CInv'
<1>1. PICK n \in 0..Len(registry.orphans) :
        LET r == Pruned(n) IN
        \/ /\ id \in DOMAIN r.owner
           /\ LET c == r.owner[id] IN
                /\ call' = [call EXCEPT ![c].flag = TRUE,
                                        ![c].stop = @ \/ call[c].pc \in {"bound", "waiting"}]
                /\ asked' = asked \cup {c}
           /\ registry' = r
        \/ /\ id \notin DOMAIN r.owner
           /\ registry' = IF id \in Range(r.orphans) THEN r
                          ELSE IF EnsureCapacity(r) = {} THEN r
                          ELSE LET q == CHOOSE q \in EnsureCapacity(r) : TRUE
                               IN [q EXCEPT !.orphans = Append(@, id)]
           /\ UNCHANGED <<call, asked>>
  BY DEF EchoCancelRequest, Cancel
<1> DEFINE r == Pruned(n)
<1>2. Shape(r) /\ r.owner = registry.owner
  BY PrunedShape DEF CInv
<1>3. ASSUME id \in DOMAIN r.owner, registry' = r, NEW c, c = r.owner[id],
             call' = [call EXCEPT ![c].flag = TRUE,
                                  ![c].stop = @ \/ call[c].pc \in {"bound", "waiting"}],
             asked' = asked \cup {c}
      PROVE  CInv'
  <2>1. c \in Callers /\ call[c].pc \in Reg /\ call[c] \in CallOf
    BY <1>2, <1>3 DEF CInv, Ownership, CallsOK
  <2> DEFINE x == [call[c] EXCEPT !.flag = TRUE, !.stop = @ \/ call[c].pc \in {"bound", "waiting"}]
  <2>2. /\ x \in CallOf /\ x.pc = call[c].pc /\ x.id = call[c].id /\ x.flag
        /\ call' = [call EXCEPT ![c] = x]
    BY <1>3, <2>1 DEF CallOf
  <2>3. RegistryShape' /\ registry'.owner = registry.owner
    BY <1>2, <1>3 DEF Shape, RegistryShape
  <2> HIDE DEF x
  <2> QED BY <1>3, <2>1, <2>2, <2>3, InsideHolds
<1>4. ASSUME NEW q, Shape(q), q.owner = registry.owner, call' = call, asked' = asked,
             registry' = q \/ registry' = [q EXCEPT !.orphans = Append(@, id)]
      PROVE  CInv'
  <2>1. RegistryShape' /\ registry'.owner = registry.owner
    BY <1>4 DEF Shape, RegistryShape
  <2> QED BY <1>4, <2>1 DEF CInv, CallsOK, Ownership, CancelKept
<1>5. ASSUME id \notin Range(r.orphans), EnsureCapacity(r) # {}
      PROVE  LET q == CHOOSE q \in EnsureCapacity(r) : TRUE IN Shape(q) /\ q.owner = r.owner
  BY <1>2, <1>5, CapacityShape
<1> QED BY <1>1, <1>2, <1>3, <1>4, <1>5
-----------------------------------------------------------------------------
LEMMA EnterHolds ==
  ASSUME CInv, NEW c \in Callers, NEW id \in Ids, Enter(c, id), registry' = registry, asked' = asked
  PROVE  CInv'
<1> DEFINE x == [call[c] EXCEPT !.pc = "entering", !.id = id]
<1>1. call[c] \in CallOf /\ call[c].pc = "out"
  BY DEF CInv, CallsOK, Enter
<1>2. x \in CallOf /\ x.pc = "entering"
  BY <1>1 DEF CallOf, Stages, Inside
<1>3. call' = [call EXCEPT ![c] = x]
  BY DEF Enter
<1>4. RegistryShape' /\ registry'.owner = registry.owner
  BY DEF CInv, RegistryShape, Shape
<1> HIDE DEF x
<1> QED BY <1>1, <1>2, <1>3, <1>4, OutsideHolds DEF Reg

(* An answer before the registration, or of the statistics calls. *)
LEMMA AnswerHolds ==
  ASSUME CInv, NEW c \in Callers, NEW a \in Answers, Answer(c, a),
         call[c].pc \notin Reg \cup {"answered"}, registry' = registry, asked' = asked
  PROVE  CInv'
<1> DEFINE x == [call[c] EXCEPT !.pc = "answered", !.answer = a]
<1>1. call[c] \in CallOf
  BY DEF CInv, CallsOK
<1>2. x \in CallOf /\ x.pc = "answered"
  BY <1>1 DEF CallOf, Stages
<1>3. call' = [call EXCEPT ![c] = x]
  BY DEF Answer
<1>4. RegistryShape' /\ registry'.owner = registry.owner
  BY DEF CInv, RegistryShape, Shape
<1> HIDE DEF x
<1> QED BY <1>2, <1>3, <1>4, OutsideHolds DEF Reg

(* The api a caller takes is the one of the context. *)
LEMMA HoldHolds ==
  ASSUME CInv, NEW c \in Callers, NEW p \in {"held", "reading"}, backend.db \in Nat,
         call' = [call EXCEPT ![c].pc = p, ![c].api = backend.db],
         call[c].pc \notin Reg \cup {"answered"}, registry' = registry, asked' = asked
  PROVE  CInv'
<1> DEFINE x == [call[c] EXCEPT !.pc = p, !.api = backend.db]
<1>1. call[c] \in CallOf
  BY DEF CInv, CallsOK
<1>2. x \in CallOf /\ x.pc \notin Reg
  BY <1>1 DEF CallOf, Stages, Inside, Reg
<1>3. call' = [call EXCEPT ![c] = x]
  BY <1>1 DEF CInv, CallsOK
<1>4. RegistryShape' /\ registry'.owner = registry.owner
  BY DEF CInv, RegistryShape, Shape
<1> HIDE DEF x
<1> QED BY <1>2, <1>3, <1>4, OutsideHolds

LEMMA AcquireHolds ==
  ASSUME CInv, NEW c \in Callers, Acquire(c), backend.db \in Nat
  PROVE  CInv'
<1>1. /\ call[c].pc = "entering" /\ registry' = registry /\ asked' = asked
      /\ call[c].pc \notin Reg \cup {"answered"}
  BY DEF Acquire, Reg
<1>2. \/ Answer(c, "busy") \/ Answer(c, "uninitialised")
      \/ call' = [call EXCEPT ![c].pc = "held", ![c].api = backend.db]
  BY DEF Acquire
<1> QED BY <1>1, <1>2, AnswerHolds, HoldHolds DEF Answers

LEMMA StatsHolds ==
  ASSUME CInv, NEW c \in Callers, StatsBegin(c) \/ StatsEnd(c), backend.db \in Nat
  PROVE  CInv'
<1>1. CASE StatsBegin(c)
  <2>1. /\ registry' = registry /\ asked' = asked
        /\ call[c].pc \notin Reg \cup {"answered"}
    BY <1>1 DEF StatsBegin, Reg
  <2>2. \/ Answer(c, "uninitialised")
        \/ call' = [call EXCEPT ![c].pc = "reading", ![c].api = backend.db]
    BY <1>1 DEF StatsBegin
  <2> QED BY <2>1, <2>2, AnswerHolds, HoldHolds DEF Answers
<1>2. CASE StatsEnd(c)
  BY <1>2, AnswerHolds DEF StatsEnd, Reg, Answers
<1> QED BY <1>1, <1>2

LEMMA BindStopHolds == ASSUME CInv, NEW c \in Callers, BindStop(c) PROVE CInv'
<1> DEFINE x == [call[c] EXCEPT !.pc = "bound", !.stop = call[c].flag]
<1>1. call[c] \in CallOf /\ call[c].pc = "registered"
  BY DEF CInv, CallsOK, BindStop
<1>2. x \in CallOf /\ x.pc = "bound" /\ x.id = call[c].id /\ x.flag = call[c].flag
  BY <1>1 DEF CallOf, Stages, Inside
<1>3. call' = [call EXCEPT ![c] = x] /\ registry' = registry /\ asked' = asked
  BY <1>1 DEF BindStop, CInv, CallsOK
<1>4. RegistryShape' /\ registry'.owner = registry.owner
  BY <1>3 DEF CInv, RegistryShape, Shape
<1> HIDE DEF x
<1> QED BY <1>1, <1>2, <1>3, <1>4, InsideHolds DEF Reg

(* Leaving the try block with an answer. *)
LEMMA LeaveHolds ==
  ASSUME CInv, NEW c \in Callers, NEW a \in Answers, call[c].pc \in Reg,
         Finish(c), Answer(c, a), asked' = asked
  PROVE  CInv'
<1> DEFINE x == [call[c] EXCEPT !.pc = "answered", !.answer = a]
<1>1. call[c] \in CallOf
  BY DEF CInv, CallsOK
<1>2. x \in CallOf /\ x.pc = "answered" /\ x.flag = call[c].flag
  BY <1>1 DEF CallOf, Stages
<1>3. call' = [call EXCEPT ![c] = x]
  BY DEF Answer
<1> HIDE DEF x
<1> QED BY <1>2, <1>3, FinishHolds

LEMMA SubmitHolds == ASSUME CInv, NEW c \in Callers, Submit(c) PROVE CInv'
<1>1. call[c].pc = "bound" /\ call[c].pc \in Reg /\ asked' = asked
  BY DEF Submit, Reg
<1>2. CASE call' = [call EXCEPT ![c].pc = "waiting"] /\ registry' = registry
  <2> DEFINE x == [call[c] EXCEPT !.pc = "waiting"]
  <2>1. call[c] \in CallOf
    BY DEF CInv, CallsOK
  <2>2. x \in CallOf /\ x.pc = "waiting" /\ x.id = call[c].id /\ x.flag = call[c].flag
    BY <2>1 DEF CallOf, Stages, Inside
  <2>3. call' = [call EXCEPT ![c] = x]
    BY <1>2
  <2>4. RegistryShape' /\ registry'.owner = registry.owner
    BY <1>2 DEF CInv, RegistryShape, Shape
  <2> HIDE DEF x
  <2> QED BY <1>1, <2>2, <2>3, <2>4, InsideHolds DEF Reg
<1>3. CASE Finish(c) /\ Answer(c, IF backend.up THEN "overload" ELSE "shutdown")
  BY <1>1, <1>3, LeaveHolds DEF Answers
<1> QED BY <1>2, <1>3 DEF Submit

LEMMA ReturnHolds == ASSUME CInv, NEW c \in Callers, Return(c) PROVE CInv'
<1>1. call[c].pc = "waiting" /\ call[c].pc \in Reg /\ asked' = asked
  BY DEF Return, Reg
<1>2. call[c].future \in Answers
  BY DEF CInv, CallsOK, CallOf
<1> QED BY <1>1, <1>2, LeaveHolds DEF Return
-----------------------------------------------------------------------------
(* Steps of the job, the deadline and the life cycle touch none of it. *)
LEMMA SettledOK ==
  ASSUME NEW x \in CallOf, NEW a \in Answers
  PROVE  /\ Settled(x, a) \in CallOf /\ Settled(x, a).pc = x.pc /\ Settled(x, a).id = x.id
         /\ Settled(x, a).flag = x.flag
BY DEF Settled, CallOf

(* One call becomes another that is in the same place. *)
LEMMA OneCallHolds ==
  ASSUME CInv, NEW c \in Callers, NEW x \in CallOf, call' = [call EXCEPT ![c] = x],
         x.pc = call[c].pc, x.id = call[c].id, x.flag = call[c].flag,
         registry' = registry, asked' = asked
  PROVE  CInv'
<1>1. CallsOK'
  BY DEF CInv, CallsOK
<1>2. \A d \in Callers : /\ call'[d].pc = call[d].pc /\ call'[d].id = call[d].id
                         /\ call'[d].flag = call[d].flag
  BY DEF CInv, CallsOK
<1> QED BY <1>1, <1>2, FrameHolds

LEMMA JobHolds == ASSUME CInv, NEW c \in Callers, JobStep(c) PROVE CInv'
<1>0. call[c] \in CallOf
  BY DEF CInv, CallsOK
<1>1. CASE call' = call /\ registry' = registry /\ asked' = asked
  BY <1>1, FrameHolds DEF CInv, CallsOK
<1>2. ASSUME StartJob(c), ~MayRun(call[c]) PROVE CInv'
  <2> DEFINE a == IF call[c].late THEN "exhausted" ELSE "cancelled"
  <2>1. call' = [call EXCEPT ![c] = Settled(call[c], a)] /\ registry' = registry /\ asked' = asked
    BY <1>2 DEF StartJob
  <2>2. a \in Answers
    BY DEF Answers
  <2> HIDE DEF a
  <2> QED BY <1>0, <2>1, <2>2, SettledOK, OneCallHolds
<1>3. CASE EndJob(c)
  <2>1. call' = [call EXCEPT ![c] = Settled(call[c], "value")] /\ registry' = registry /\ asked' = asked
    BY <1>3 DEF EndJob
  <2> QED BY <1>0, <2>1, SettledOK, OneCallHolds DEF Answers
<1>4. CASE Expire(c)
  <2> DEFINE x == [call[c] EXCEPT !.late = TRUE]
  <2>1. call' = [call EXCEPT ![c] = x] /\ registry' = registry /\ asked' = asked
    BY <1>4 DEF Expire
  <2>2. x \in CallOf /\ x.pc = call[c].pc /\ x.id = call[c].id /\ x.flag = call[c].flag
    BY <1>0 DEF CallOf
  <2> HIDE DEF x
  <2> QED BY <2>1, <2>2, OneCallHolds
<1>5. CASE Retire(c)
  <2> DEFINE x == [call[c] EXCEPT !.future = "timeout", !.kill = TRUE]
  <2>1. call' = [call EXCEPT ![c] = x] /\ registry' = registry /\ asked' = asked
    BY <1>5 DEF Retire, CInv, CallsOK
  <2>2. x \in CallOf /\ x.pc = call[c].pc /\ x.id = call[c].id /\ x.flag = call[c].flag
    BY <1>0 DEF CallOf, Answers
  <2> HIDE DEF x
  <2> QED BY <2>1, <2>2, OneCallHolds
<1>6. CASE StartJob(c) /\ MayRun(call[c])
  BY <1>1, <1>6 DEF StartJob
<1>7. CASE Commit(c)
  BY <1>1, <1>7 DEF Commit
<1> QED BY <1>2, <1>3, <1>4, <1>5, <1>6, <1>7 DEF JobStep

LEMMA StopHolds ==
  ASSUME CInv, StopScheduler, registry' = registry, asked' = asked
  PROVE  CInv'
<1> DEFINE x(c) == [call[c] EXCEPT !.kill = @ \/ job[c] \in {"queued", "running"}]
           y(c) == IF job[c] = "queued" THEN Settled(x(c), "shutdown") ELSE x(c)
<1>1. call' = [c \in Callers |-> y(c)]
  BY DEF StopScheduler
<1>2. ASSUME NEW c \in Callers
      PROVE  /\ y(c) \in CallOf /\ y(c).pc = call[c].pc /\ y(c).id = call[c].id
             /\ y(c).flag = call[c].flag
  <2>1. call[c] \in CallOf
    BY DEF CInv, CallsOK
  <2>2. /\ x(c) \in CallOf /\ x(c).pc = call[c].pc /\ x(c).id = call[c].id
        /\ x(c).flag = call[c].flag
    BY <2>1 DEF CallOf
  <2> HIDE DEF x
  <2> QED BY <2>2, SettledOK DEF Answers
<1> HIDE DEF y
<1>3. CallsOK'
  BY <1>1, <1>2 DEF CallsOK
<1> QED BY <1>1, <1>2, <1>3, FrameHolds

LEMMA LifeHolds ==
  ASSUME CInv, LifeStep \/ InitializeBegin \/ ShutdownBegin
  PROVE  CInv'
<1>1. registry' = registry /\ asked' = asked
  BY DEF LifeStep, Restart, InitializeEnd, InitializeFail, Drained, TearDown,
         InitializeBegin, ShutdownBegin
<1>2. StopScheduler \/ call' = call
  BY DEF LifeStep, Restart, InitializeEnd, InitializeFail, Drained, TearDown,
         InitializeBegin, ShutdownBegin
<1>3. CASE call' = call
  BY <1>1, <1>3, FrameHolds DEF CInv, CallsOK
<1> QED BY <1>1, <1>2, <1>3, StopHolds
-----------------------------------------------------------------------------
(* Database numbers come from the count of initialisations. *)
Fields    == {"shutdown", "db", "up", "abandoned", "lock", "inits"}
BackendOK == DOMAIN backend = Fields /\ backend.db \in Nat /\ backend.inits \in Nat
Inv       == CInv /\ BackendOK

LEMMA BackendHolds == ASSUME BackendOK, [BackendNext]_vars PROVE BackendOK'
<1>1. CASE backend' = backend
  BY <1>1 DEF BackendOK
<1>2. CASE InitializeBegin
  BY <1>2 DEF InitializeBegin, BackendOK, Fields
<1>3. CASE ShutdownBegin
  BY <1>3 DEF ShutdownBegin, BackendOK, Fields
<1>4. CASE Restart
  BY <1>4 DEF Restart, BackendOK, Fields
<1>5. CASE InitializeEnd
  BY <1>5 DEF InitializeEnd, BackendOK, Fields
<1>6. CASE InitializeFail
  BY <1>6 DEF InitializeFail, BackendOK, Fields
<1>7. CASE Drained
  BY <1>7 DEF Drained, BackendOK, Fields
<1>8. CASE TearDown
  BY <1>8 DEF TearDown, BackendOK, Fields
<1>9. ASSUME NEW c \in Callers, CallStep(c) \/ JobStep(c) \/ StatsBegin(c) PROVE backend' = backend
  BY <1>9 DEF CallStep, JobStep, Acquire, Register, BindStop, Submit, Return, StatsEnd, StatsBegin,
              StartJob, EndJob, Commit, Expire, Retire
<1>10. ASSUME NEW id \in Ids, EchoCancelRequest(id) PROVE backend' = backend
  BY <1>10 DEF EchoCancelRequest
<1> QED BY <1>1, <1>2, <1>3, <1>4, <1>5, <1>6, <1>7, <1>8, <1>9, <1>10
        DEF BackendNext, Serve, Use, LifeStep, vars

LEMMA StepHolds == ASSUME Inv, [BackendNext]_vars PROVE CInv'
<1> USE DEF Inv
<1>1. ASSUME NEW c \in Callers, CallStep(c) PROVE CInv'
  BY <1>1, AcquireHolds, RegisterHolds, BindStopHolds, SubmitHolds, ReturnHolds, StatsHolds
     DEF CallStep, BackendOK
<1>2. ASSUME NEW c \in Callers, JobStep(c) PROVE CInv'
  BY <1>2, JobHolds
<1>3. CASE LifeStep \/ InitializeBegin \/ ShutdownBegin
  BY <1>3, LifeHolds
<1>4. ASSUME NEW c \in Callers, StatsBegin(c) PROVE CInv'
  BY <1>4, StatsHolds DEF BackendOK
<1>5. ASSUME NEW c \in Callers, NEW id \in Ids, Enter(c, id),
             UNCHANGED <<registry, job, backend, life, asked, committed>> PROVE CInv'
  BY <1>5, EnterHolds
<1>6. ASSUME NEW id \in Ids, EchoCancelRequest(id) PROVE CInv'
  BY <1>6, CancelHolds
<1>7. CASE UNCHANGED vars
  BY <1>7, FrameHolds DEF vars, CInv, CallsOK
<1> QED BY <1>1, <1>2, <1>3, <1>4, <1>5, <1>6, <1>7 DEF BackendNext, Serve, Use

(* For any number of callers, workers and registry entries: the invariant. *)
THEOREM InvCorrect == BackendSpec => []Inv
<1>1. BackendInit => Inv
  BY InitHolds DEF Inv, BackendOK, BackendInit, Fields
<1>2. Inv /\ [BackendNext]_vars => Inv'
  BY StepHolds, BackendHolds DEF Inv
<1> QED BY <1>1, <1>2, PTL DEF BackendSpec

(* Whatever is registered, refused, evicted, restarted or torn down meanwhile: a
   request whose cancel EchoCancelRequest has accepted commits nothing more. *)
THEOREM CancelCorrect == BackendSpec => CancelStopsCommit
<1>1. Inv /\ [BackendNext]_vars => [(committed' \ committed) \cap asked = {}]_vars
  <2> SUFFICES ASSUME Inv, [BackendNext]_vars
               PROVE  (committed' \ committed) \cap asked = {} \/ UNCHANGED vars
    OBVIOUS
  <2>1. CASE committed' = committed
    BY <2>1
  <2>2. ASSUME NEW c \in Callers, Commit(c) PROVE (committed' \ committed) \cap asked = {}
    BY <2>2 DEF Commit, Admit, Inv, CInv, CancelKept
  <2>3. ASSUME NEW c \in Callers, CallStep(c) \/ StatsBegin(c) PROVE committed' = committed
    BY <2>3 DEF CallStep, Acquire, Register, BindStop, Submit, Return, StatsEnd, StatsBegin
  <2>4. ASSUME NEW c \in Callers, JobStep(c), ~Commit(c) PROVE committed' = committed
    BY <2>4 DEF JobStep, StartJob, EndJob, Expire, Retire
  <2>5. CASE LifeStep \/ InitializeBegin \/ ShutdownBegin
    BY <2>5 DEF LifeStep, Restart, InitializeEnd, InitializeFail, Drained, TearDown,
                InitializeBegin, ShutdownBegin
  <2>6. ASSUME NEW id \in Ids, EchoCancelRequest(id) PROVE committed' = committed
    BY <2>6 DEF EchoCancelRequest
  <2> QED BY <2>1, <2>2, <2>3, <2>4, <2>5, <2>6 DEF BackendNext, Serve, Use
<1> QED BY <1>1, InvCorrect, PTL DEF BackendSpec, CancelStopsCommit
-----------------------------------------------------------------------------
(* The registry keeps an id at most once, ahead of its request or under way,
   within its capacity. *)
Distinct(s) == \A i, j \in 1..Len(s) : s[i] = s[j] => i = j
RegOK(r) ==
  /\ r.orphans \in Seq(Ids) /\ Distinct(r.orphans)
  /\ IsFiniteSet(DOMAIN r.owner)
  /\ Range(r.orphans) \cap DOMAIN r.owner = {}
Size(r)  == Len(r.orphans) + Cardinality(DOMAIN r.owner)
RInv     == RegOK(registry) /\ Size(registry) <= MaxEntries

LEMMA SuffixOK ==
  ASSUME NEW S, NEW s \in Seq(S), Distinct(s), NEW n \in 0..Len(s)
  PROVE  LET t == SubSeq(s, n + 1, Len(s)) IN
         t \in Seq(S) /\ Distinct(t) /\ Range(t) \subseteq Range(s) /\ Len(t) = Len(s) - n
<1> DEFINE t == SubSeq(s, n + 1, Len(s))
<1>1. t \in Seq(S) /\ Len(t) = Len(s) - n /\ \A i \in 1..Len(t) : t[i] = s[n + i]
  OBVIOUS
<1> HIDE DEF t
<1>2. Distinct(t)
  BY <1>1 DEF Distinct
<1>3. \A i \in 1..Len(t) : n + i \in 1..Len(s)
  BY <1>1
<1>4. Range(t) \subseteq Range(s)
  <2>1. DOMAIN t = 1..Len(t) /\ DOMAIN s = 1..Len(s)
    BY <1>1
  <2>2. ASSUME NEW i \in DOMAIN t PROVE t[i] \in Range(s)
    BY <1>1, <1>3, <2>1 DEF Range
  <2> QED BY <2>2 DEF Range
<1> QED BY <1>1, <1>2, <1>4 DEF t

LEMMA TailOK ==
  ASSUME NEW S, NEW s \in Seq(S), Distinct(s), s # <<>>
  PROVE  Tail(s) \in Seq(S) /\ Distinct(Tail(s)) /\ Range(Tail(s)) \subseteq Range(s)
         /\ Len(Tail(s)) = Len(s) - 1
<1>1. Tail(s) \in Seq(S) /\ Len(Tail(s)) = Len(s) - 1
      /\ \A i \in 1..Len(Tail(s)) : Tail(s)[i] = s[i + 1]
  OBVIOUS
<1>2. Distinct(Tail(s))
  BY <1>1 DEF Distinct
<1>3. Range(Tail(s)) \subseteq Range(s)
  BY <1>1 DEF Range
<1> QED BY <1>1, <1>2, <1>3

LEMMA AppendOK ==
  ASSUME NEW S, NEW s \in Seq(S), Distinct(s), NEW e \in S, e \notin Range(s)
  PROVE  Append(s, e) \in Seq(S) /\ Distinct(Append(s, e)) /\ Range(Append(s, e)) = Range(s) \cup {e}
         /\ Len(Append(s, e)) = Len(s) + 1
<1> DEFINE t == Append(s, e)
<1>1. /\ t \in Seq(S) /\ Len(t) = Len(s) + 1 /\ t[Len(s) + 1] = e
      /\ \A i \in 1..Len(s) : t[i] = s[i]
  OBVIOUS
<1>2. \A i \in 1..Len(s) : s[i] # e
  BY DEF Range
<1> HIDE DEF t
<1>3. Distinct(t)
  BY <1>1, <1>2 DEF Distinct
<1>4. Range(t) = Range(s) \cup {e}
  BY <1>1 DEF Range
<1> QED BY <1>1, <1>3, <1>4 DEF t

LEMMA ConcatOK ==
  ASSUME NEW S, NEW u \in Seq(S), NEW v \in Seq(S)
  PROVE  /\ u \o v \in Seq(S) /\ Len(u \o v) = Len(u) + Len(v)
         /\ \A i \in 1..Len(u \o v) : (u \o v)[i] = IF i <= Len(u) THEN u[i] ELSE v[i - Len(u)]
BY ConcatProperties

LEMMA DroppedOK ==
  ASSUME NEW S, NEW s \in Seq(S), Distinct(s), NEW e, e \in Range(s)
  PROVE  Dropped(s, e) \in Seq(S) /\ Distinct(Dropped(s, e)) /\ Range(Dropped(s, e)) \subseteq Range(s) \ {e}
         /\ Len(Dropped(s, e)) = Len(s) - 1
<1> DEFINE k == CHOOSE i \in DOMAIN s : s[i] = e
           t == SubSeq(s, 1, k - 1) \o SubSeq(s, k + 1, Len(s))
<1>1. Dropped(s, e) = t
  BY DEF Dropped, RemoveAt
<1>2. k \in 1..Len(s) /\ s[k] = e
  BY DEF Range
<1> HIDE DEF k
<1>3. /\ t \in Seq(S) /\ Len(t) = Len(s) - 1
      /\ \A i \in 1..Len(t) : t[i] = IF i < k THEN s[i] ELSE s[i + 1]
  <2> DEFINE u == SubSeq(s, 1, k - 1)
             v == SubSeq(s, k + 1, Len(s))
  <2>1. u \in Seq(S) /\ Len(u) = k - 1 /\ \A i \in 1..(k - 1) : u[i] = s[i]
    BY <1>2
  <2>2. v \in Seq(S) /\ Len(v) = Len(s) - k /\ \A i \in 1..(Len(s) - k) : v[i] = s[k + i]
    BY <1>2
  <2>3. t = u \o v
    BY DEF t
  <2> HIDE DEF t, u, v
  <2>4. t \in Seq(S) /\ Len(t) = Len(s) - 1 /\ Len(t) = Len(u) + Len(v)
    <3>1. t \in Seq(S) /\ Len(t) = Len(u) + Len(v)
      BY <2>1, <2>2, <2>3, ConcatOK
    <3>2. (k - 1) + (Len(s) - k) = Len(s) - 1
      BY <1>2
    <3>3. Len(u) + Len(v) = (k - 1) + (Len(s) - k)
      BY <2>1, <2>2
    <3> QED BY <3>1, <3>2, <3>3
  <2>5. ASSUME NEW i \in 1..Len(t) PROVE t[i] = IF i < k THEN s[i] ELSE s[i + 1]
    <3>0. k \in Nat /\ Len(s) \in Nat /\ i \in Nat
      BY <1>2
    <3>1. t[i] = IF i <= Len(u) THEN u[i] ELSE v[i - Len(u)]
      BY <2>1, <2>2, <2>3, ConcatOK
    <3>2. i >= k => i - (k - 1) \in 1..(Len(s) - k) /\ k + (i - (k - 1)) = i + 1
      BY <2>4, <3>0
    <3>3. CASE i < k
      BY <2>1, <3>0, <3>1, <3>3
    <3>4. CASE i >= k
      BY <2>1, <2>2, <3>0, <3>1, <3>2, <3>4
    <3> QED BY <3>0, <3>3, <3>4
  <2> QED BY <2>4, <2>5
<1> HIDE DEF t
<1>4. Distinct(t)
  BY <1>2, <1>3 DEF Distinct
<1>5. \A i \in 1..Len(t) : t[i] # e
  BY <1>2, <1>3 DEF Distinct
<1>6. Range(t) \subseteq Range(s) \ {e}
  BY <1>2, <1>3, <1>5 DEF Range
<1> QED BY <1>1, <1>3, <1>4, <1>6

LEMMA SizeNat == ASSUME NEW r, RegOK(r) PROVE Len(r.orphans) \in Nat /\ Cardinality(DOMAIN r.owner) \in Nat
BY FS_CardinalityType DEF RegOK

LEMMA PrunedOK ==
  ASSUME RegistryShape, RInv, MaxEntries \in Nat, NEW n \in 0..Len(registry.orphans)
  PROVE  RegOK(Pruned(n)) /\ Size(Pruned(n)) <= MaxEntries
<1> DEFINE t == SubSeq(registry.orphans, n + 1, Len(registry.orphans))
<1>1. /\ t \in Seq(Ids) /\ Distinct(t) /\ Range(t) \subseteq Range(registry.orphans)
      /\ Len(t) = Len(registry.orphans) - n
  BY SuffixOK DEF RInv, RegOK
<1>2. Pruned(n).orphans = t
  <2>1. Pruned(n) = [registry EXCEPT !.orphans = t]
    BY DEF Pruned
  <2> HIDE DEF t
  <2> QED BY <2>1 DEF RegistryShape, Shape
<1> HIDE DEF t
<1>3. Pruned(n).owner = registry.owner
  BY PrunedShape
<1>4. RegOK(Pruned(n))
  BY <1>1, <1>2, <1>3 DEF RInv, RegOK
<1>5. Size(Pruned(n)) <= MaxEntries
  <2>1. Size(Pruned(n)) = (Len(registry.orphans) - n) + Cardinality(DOMAIN registry.owner)
    BY <1>1, <1>2, <1>3 DEF Size
  <2> QED BY <2>1, SizeNat DEF RInv, Size
<1> QED BY <1>4, <1>5

LEMMA CapacityOK ==
  ASSUME MaxEntries \in Nat, NEW r, Shape(r), RegOK(r), Size(r) <= MaxEntries,
         NEW q \in EnsureCapacity(r)
  PROVE  RegOK(q) /\ Size(q) < MaxEntries /\ Range(q.orphans) \subseteq Range(r.orphans)
<1>0. Size(r) = Entries(r) /\ Entries(r) \in Nat /\ Len(r.orphans) \in Nat
      /\ Cardinality(DOMAIN r.owner) \in Nat
  BY SizeNat DEF Size, Entries
<1>1. CASE Entries(r) < MaxEntries
  <2>1. q = r
    BY <1>1 DEF EnsureCapacity
  <2> QED BY <1>0, <1>1, <2>1
<1>2. CASE ~(Entries(r) < MaxEntries)
  <2>1. r.orphans # <<>> /\ q = [r EXCEPT !.orphans = Tail(r.orphans)]
    BY <1>2 DEF EnsureCapacity
  <2> DEFINE t == Tail(r.orphans)
  <2>2. /\ t \in Seq(Ids) /\ Distinct(t) /\ Range(t) \subseteq Range(r.orphans)
        /\ Len(t) = Len(r.orphans) - 1
    BY <2>1, TailOK DEF RegOK
  <2> HIDE DEF t
  <2>3. q.orphans = t /\ q.owner = r.owner
    BY <2>1 DEF Shape, t
  <2>4. RegOK(q)
    BY <2>2, <2>3 DEF RegOK
  <2>5. Size(q) = (Len(r.orphans) - 1) + Cardinality(DOMAIN r.owner)
    BY <2>2, <2>3 DEF Size
  <2> QED BY <1>0, <2>2, <2>3, <2>4, <2>5 DEF Size
<1> QED BY <1>1, <1>2

(* An id that was cancelled ahead takes the place of its orphan; another takes the
   place that was made for it. *)
LEMMA RegisteredOK ==
  ASSUME MaxEntries \in Nat, NEW q, RegOK(q), NEW id, NEW c, id \notin DOMAIN q.owner,
         IF id \in Range(q.orphans) THEN Size(q) <= MaxEntries ELSE Size(q) < MaxEntries
  PROVE  RegOK(Registered(q, id, c)) /\ Size(Registered(q, id, c)) <= MaxEntries
<1> DEFINE n == Registered(q, id, c)
           t == Dropped(q.orphans, id)
           w == With(q.owner, id, c)
<1>1. n.orphans = t /\ n.owner = w
  BY DEF Registered
<1>2. DOMAIN w = DOMAIN q.owner \cup {id}
  BY DEF With
<1> HIDE DEF n, w
<1>3. /\ IsFiniteSet(DOMAIN w) /\ Cardinality(DOMAIN w) = Cardinality(DOMAIN q.owner) + 1
  BY <1>2, FS_AddElement DEF RegOK
<1>4. /\ t \in Seq(Ids) /\ Distinct(t) /\ Range(t) \subseteq Range(q.orphans) \ {id}
      /\ Len(t) = IF id \in Range(q.orphans) THEN Len(q.orphans) - 1 ELSE Len(q.orphans)
  <2>1. CASE id \in Range(q.orphans)
    BY <2>1, DroppedOK DEF RegOK
  <2>2. CASE id \notin Range(q.orphans)
    <3>1. t = q.orphans
      BY <2>2 DEF Dropped
    <3> HIDE DEF t
    <3> QED BY <2>2, <3>1 DEF RegOK
  <2> QED BY <2>1, <2>2
<1> HIDE DEF t
<1>5. RegOK(n)
  BY <1>1, <1>2, <1>3, <1>4 DEF RegOK
<1>6. Size(n) <= MaxEntries
  <2>1. Size(n) = Len(t) + (Cardinality(DOMAIN q.owner) + 1)
    BY <1>1, <1>3 DEF Size
  <2>2. Len(q.orphans) \in Nat /\ Cardinality(DOMAIN q.owner) \in Nat
    BY SizeNat
  <2> QED BY <1>4, <2>1, <2>2 DEF Size
<1> QED BY <1>5, <1>6 DEF n

LEMMA OrphanOK ==
  ASSUME MaxEntries \in Nat, NEW q, Shape(q), RegOK(q), Size(q) < MaxEntries, NEW id \in Ids,
         id \notin DOMAIN q.owner, id \notin Range(q.orphans)
  PROVE  LET n == [q EXCEPT !.orphans = Append(@, id)] IN RegOK(n) /\ Size(n) <= MaxEntries
<1> DEFINE t == Append(q.orphans, id)
           n == [q EXCEPT !.orphans = t]
<1>1. /\ t \in Seq(Ids) /\ Distinct(t) /\ Range(t) = Range(q.orphans) \cup {id}
      /\ Len(t) = Len(q.orphans) + 1
  BY AppendOK DEF RegOK
<1> HIDE DEF t
<1>2. n.orphans = t /\ n.owner = q.owner
  BY DEF Shape
<1>2a. n = [q EXCEPT !.orphans = Append(@, id)]
  BY DEF t
<1> HIDE DEF n
<1>3. RegOK(n)
  BY <1>1, <1>2 DEF RegOK
<1>4. Size(n) = (Len(q.orphans) + 1) + Cardinality(DOMAIN q.owner)
  BY <1>1, <1>2 DEF Size
<1>5. Size(n) <= MaxEntries
  BY <1>4, SizeNat DEF Size
<1> QED BY <1>2a, <1>3, <1>5

LEMMA KeepsRegistry ==
  ASSUME RegistryShape, RInv, MaxEntries \in Nat, NEW c \in Callers, Finish(c)
  PROVE  RInv'
<1>1. registry'.orphans = registry.orphans /\ registry'.owner = Without(registry.owner, call[c].id)
  BY DEF Finish, RegistryShape, Shape
<1>2. DOMAIN registry'.owner = DOMAIN registry.owner \ {call[c].id}
  BY <1>1 DEF Without
<1>3. /\ IsFiniteSet(DOMAIN registry'.owner)
      /\ Cardinality(DOMAIN registry'.owner) <= Cardinality(DOMAIN registry.owner)
      /\ Cardinality(DOMAIN registry'.owner) \in Nat
  <2>1. DOMAIN registry'.owner \in SUBSET DOMAIN registry.owner
    BY <1>2
  <2> QED BY <2>1, FS_Subset, FS_CardinalityType DEF RInv, RegOK
<1>4. RegOK(registry')
  BY <1>1, <1>2, <1>3 DEF RInv, RegOK
<1>5. Size(registry') <= MaxEntries
  <2>1. Len(registry.orphans) \in Nat /\ Cardinality(DOMAIN registry.owner) \in Nat
    BY SizeNat DEF RInv
  <2> QED BY <1>1, <1>3, <2>1 DEF RInv, Size
<1> QED BY <1>4, <1>5 DEF RInv

LEMMA RegistryStep ==
  ASSUME RegistryShape, RInv, MaxEntries \in Nat, [BackendNext]_vars
  PROVE  RInv'
<1>1. CASE registry' = registry
  BY <1>1 DEF RInv
<1>2. ASSUME NEW c \in Callers, Register(c) PROVE RInv'
  <2>1. PICK n \in 0..Len(registry.orphans) :
          LET r == Pruned(n)  id == call[c].id IN
          \/ registry' = r
          \/ /\ id \notin DOMAIN r.owner
             /\ \E q \in IF id \in Range(r.orphans) THEN {r} ELSE EnsureCapacity(r) :
                  registry' = Registered(q, id, c)
    BY <1>2 DEF Register
  <2> DEFINE r == Pruned(n)
             id == call[c].id
  <2>2. Shape(r) /\ RegOK(r) /\ Size(r) <= MaxEntries
    BY PrunedShape, PrunedOK
  <2>3. CASE registry' = r
    BY <2>2, <2>3 DEF RInv
  <2>4. ASSUME id \notin DOMAIN r.owner,
               NEW q \in IF id \in Range(r.orphans) THEN {r} ELSE EnsureCapacity(r),
               registry' = Registered(q, id, c)
        PROVE  RInv'
    <3> HIDE DEF r
    <3>1. /\ RegOK(q) /\ q.owner = r.owner
          /\ IF id \in Range(q.orphans) THEN Size(q) <= MaxEntries ELSE Size(q) < MaxEntries
      <4>1. CASE id \in Range(r.orphans)
        BY <2>2, <2>4, <4>1
      <4>2. CASE id \notin Range(r.orphans)
        BY <2>2, <2>4, <4>2, CapacityOK, CapacityShape
      <4> QED BY <4>1, <4>2
    <3>2. id \notin DOMAIN q.owner
      BY <2>4, <3>1
    <3> HIDE DEF id
    <3> QED BY <2>4, <3>1, <3>2, RegisteredOK DEF RInv
  <2> QED BY <2>1, <2>3, <2>4
<1>3. ASSUME NEW id \in Ids, EchoCancelRequest(id) PROVE RInv'
  <2>1. PICK n \in 0..Len(registry.orphans) :
          LET r == Pruned(n) IN
          \/ registry' = r
          \/ /\ id \notin DOMAIN r.owner /\ id \notin Range(r.orphans)
             /\ EnsureCapacity(r) # {}
             /\ registry' = LET q == CHOOSE q \in EnsureCapacity(r) : TRUE
                            IN [q EXCEPT !.orphans = Append(@, id)]
    BY <1>3 DEF EchoCancelRequest, Cancel
  <2> DEFINE r == Pruned(n)
             q == CHOOSE q \in EnsureCapacity(r) : TRUE
  <2>2. Shape(r) /\ RegOK(r) /\ Size(r) <= MaxEntries
    BY PrunedShape, PrunedOK
  <2>3. CASE registry' = r
    BY <2>2, <2>3 DEF RInv
  <2>4. ASSUME id \notin DOMAIN r.owner, id \notin Range(r.orphans), EnsureCapacity(r) # {},
               registry' = [q EXCEPT !.orphans = Append(@, id)]
        PROVE  RInv'
    <3> HIDE DEF r
    <3>1. q \in EnsureCapacity(r)
      BY <2>4
    <3> HIDE DEF q
    <3>2. /\ Shape(q) /\ q.owner = r.owner /\ RegOK(q) /\ Size(q) < MaxEntries
          /\ Range(q.orphans) \subseteq Range(r.orphans)
      BY <2>2, <3>1, CapacityOK, CapacityShape
    <3>3. id \notin DOMAIN q.owner /\ id \notin Range(q.orphans)
      BY <2>4, <3>2
    <3> QED BY <2>4, <3>2, <3>3, OrphanOK DEF RInv
  <2> QED BY <2>1, <2>3, <2>4
<1>4. ASSUME NEW c \in Callers, Submit(c) \/ Return(c) PROVE RInv'
  BY <1>1, <1>4, KeepsRegistry DEF Submit, Return
<1>5. ASSUME NEW c \in Callers,
             Acquire(c) \/ BindStop(c) \/ StatsEnd(c) \/ StatsBegin(c) \/ JobStep(c)
      PROVE  registry' = registry
  BY <1>5 DEF Acquire, BindStop, StatsEnd, StatsBegin, JobStep, StartJob, EndJob, Commit, Expire, Retire
<1>6. LifeStep \/ InitializeBegin \/ ShutdownBegin => registry' = registry
  BY DEF LifeStep, Restart, InitializeEnd, InitializeFail, Drained, TearDown,
         InitializeBegin, ShutdownBegin
<1> QED BY <1>1, <1>2, <1>3, <1>4, <1>5, <1>6 DEF BackendNext, Serve, Use, CallStep, vars

(* A request under way is found by a cancel, and the registry stays within its
   capacity, for any capacity and any number of callers. *)
THEOREM ReachableCorrect ==
  ASSUME MaxEntries \in Nat
  PROVE  BackendSpec => []RequestsStayReachable
<1>1. BackendInit => RInv
  <2> SUFFICES ASSUME BackendInit PROVE RInv
    OBVIOUS
  <2>1. registry.orphans = <<>> /\ DOMAIN registry.owner = {}
    BY DEF BackendInit
  <2>2. IsFiniteSet(DOMAIN registry.owner) /\ Cardinality(DOMAIN registry.owner) = 0
    BY <2>1, FS_EmptySet
  <2>3. Distinct(registry.orphans) /\ registry.orphans \in Seq(Ids) /\ Len(registry.orphans) = 0
        /\ Range(registry.orphans) = {}
    BY <2>1 DEF Distinct, Range
  <2> QED BY <2>1, <2>2, <2>3 DEF RInv, RegOK, Size
<1>2. Inv /\ RInv /\ [BackendNext]_vars => RInv'
  BY RegistryStep DEF Inv, CInv
<1>3. Inv /\ RInv => RequestsStayReachable
  BY DEF Inv, CInv, RInv, RegOK, Size, Entries, Ownership, Reg, RequestsStayReachable
<1> QED BY <1>1, <1>2, <1>3, InvCorrect, PTL DEF BackendSpec
-----------------------------------------------------------------------------
(* One initialisation.  Until it ends there is no database and no caller got past
   Acquire; a scheduler that is down has nothing queued, and a shutdown that
   releases the database has seen every worker come back. *)
Fresh == backend.inits = 0 \/ life \in {"initialising", "opening"}
Idle  == life = "closing" \/ (~backend.up /\ life # "draining" /\ backend.abandoned = 0)
Jobs  == {"none", "queued", "running", "done"}
Works(c) == job[c] \in {"queued", "running"} \/ call[c].pc = "reading"

CallDB(c) ==
  /\ Works(c) => call[c].api = backend.db
  /\ (backend.up /\ call[c].pc \in {"held", "registered", "bound"}) => call[c].api = backend.db
  /\ ~backend.up => job[c] # "queued"
  /\ Fresh => call[c].pc \in {"out", "entering", "answered"} /\ job[c] = "none"
  /\ Idle => job[c] # "running"
LifeDB ==
  /\ DOMAIN backend = Fields /\ backend.inits \in Nat /\ backend.abandoned \in Nat
  /\ backend.up \in BOOLEAN
  /\ Fresh => backend.db = 0
  /\ life \in {"initialising", "opening"} => backend.inits # 0
  /\ life \in {"closing", "draining"} => ~backend.up
DInv == LifeDB /\ job \in [Callers -> Jobs] /\ \A c \in Callers : CallDB(c)

(* Steps that only lead a caller on, out, or its job to its end. *)
Calm(c) ==
  /\ call'[c].api = call[c].api
  /\ \/ call'[c].pc = call[c].pc \/ call'[c].pc \in {"entering", "answered"}
     \/ call[c].pc \in {"held", "registered"} /\ call'[c].pc \in {"registered", "bound"}
  /\ \/ job'[c] = job[c]
     \/ job[c] \in {"queued", "running"} /\ job'[c] = "done"

LEMMA CalmHolds ==
  ASSUME DInv, NEW c \in Callers, Calm(c), backend' = backend, life' = life
  PROVE  CallDB(c)'
BY DEF DInv, CallDB, Calm, Works, Fresh, Idle

LEMMA CalmStep ==
  ASSUME Inv, DInv, NEW c \in Callers, NEW d \in Callers,
         \/ Register(c) \/ BindStop(c) \/ Return(c) \/ StatsEnd(c) \/ EndJob(c) \/ Commit(c)
         \/ Expire(c) \/ Retire(c)
         \/ \E id \in Ids : Enter(c, id) /\ UNCHANGED <<registry, job, backend, life, asked, committed>>
         \/ \E a \in Answers : Answer(c, a) /\ job' = job
         \/ \E id \in Ids : EchoCancelRequest(id)
  PROVE  Calm(d)
<1>0. \A e \in Callers : call[e] \in CallOf
  BY DEF Inv, CInv, CallsOK
<1>a. call \in [Callers -> CallOf] /\ job \in [Callers -> Jobs]
  BY DEF Inv, CInv, CallsOK, DInv
<1>1. ASSUME NEW a, Answer(c, a), job' = job PROVE Calm(d)
  BY <1>0, <1>a, <1>1 DEF Answer, Calm, CallOf
<1>2. CASE Register(c)
  <2>1. job' = job
    BY <1>2 DEF Register
  <2>2. \/ \E a : Answer(c, a)
        \/ \E f : call' = [call EXCEPT ![c].pc = "registered", ![c].flag = f]
    BY <1>2 DEF Register
  <2>3. ASSUME NEW f, call' = [call EXCEPT ![c].pc = "registered", ![c].flag = f] PROVE Calm(d)
    BY <1>0, <1>a, <1>2, <2>1, <2>3 DEF Calm, CallOf, Register
  <2> QED BY <1>1, <2>1, <2>2, <2>3
<1>3. CASE BindStop(c)
  BY <1>0, <1>a, <1>3 DEF BindStop, Calm, CallOf
<1>4. CASE Return(c)
  BY <1>1, <1>4 DEF Return
<1>5. CASE StatsEnd(c)
  BY <1>1, <1>5 DEF StatsEnd
<1>6. CASE EndJob(c)
  BY <1>0, <1>a, <1>6 DEF EndJob, Settled, Calm, CallOf
<1>7. CASE Commit(c)
  BY <1>7 DEF Commit, Calm
<1>8. CASE Expire(c)
  BY <1>0, <1>a, <1>8 DEF Expire, Calm, CallOf
<1>9. CASE Retire(c)
  BY <1>0, <1>a, <1>9 DEF Retire, Calm, CallOf
<1>10. ASSUME NEW id \in Ids, Enter(c, id), job' = job PROVE Calm(d)
  BY <1>0, <1>a, <1>10 DEF Enter, Calm, CallOf
<1>11. ASSUME NEW id \in Ids, EchoCancelRequest(id) PROVE Calm(d)
  <2>1. job' = job
    BY <1>11 DEF EchoCancelRequest
  <2>2. \/ call' = call
        \/ \E e, f, g : call' = [call EXCEPT ![e].flag = f, ![e].stop = g]
    BY <1>11 DEF EchoCancelRequest, Cancel
  <2>3. ASSUME NEW e, NEW f, NEW g, call' = [call EXCEPT ![e].flag = f, ![e].stop = g] PROVE Calm(d)
    BY <1>0, <1>a, <2>1, <2>3 DEF Calm, CallOf
  <2> QED BY <2>1, <2>2, <2>3 DEF Calm
<1> QED BY <1>1, <1>2, <1>3, <1>4, <1>5, <1>6, <1>7, <1>8, <1>9, <1>10, <1>11

(* The steps that take the database's number, queue a job or start it. *)
LEMMA BusyStep ==
  ASSUME Inv, DInv, NEW c \in Callers, NEW d \in Callers,
         Acquire(c) \/ StatsBegin(c) \/ Submit(c) \/ StartJob(c)
  PROVE  CallDB(d)'
<1>0. \A e \in Callers : call[e] \in CallOf /\ CallDB(e)
  BY DEF Inv, CInv, CallsOK, DInv
<1>a. /\ call \in [Callers -> CallOf] /\ job \in [Callers -> Jobs]
      /\ backend' = backend /\ life' = life
  BY DEF Inv, CInv, CallsOK, DInv, Acquire, StatsBegin, Submit, StartJob
<1>1. ASSUME NEW a \in Answers, Answer(c, a), job' = job PROVE CallDB(d)'
  BY <1>1, <1>a, CalmStep, CalmHolds
<1>2. ASSUME NEW p \in {"held", "reading"}, job' = job, backend.db # 0,
             call' = [call EXCEPT ![c].pc = p, ![c].api = backend.db]
      PROVE  CallDB(d)'
  BY <1>0, <1>a, <1>2 DEF CallDB, CallOf, Works, Fresh, Idle, DInv, LifeDB
<1>3. CASE Acquire(c)
  BY <1>1, <1>2, <1>3 DEF Acquire, Answers
<1>4. CASE StatsBegin(c)
  BY <1>1, <1>2, <1>4 DEF StatsBegin, Answers
<1>5. CASE Submit(c)
  <2>1. CASE Answer(c, IF backend.up THEN "overload" ELSE "shutdown") /\ job' = job
    BY <1>1, <2>1 DEF Answers
  <2>2. CASE /\ backend.up /\ job' = [job EXCEPT ![c] = "queued"]
             /\ call' = [call EXCEPT ![c].pc = "waiting"]
    BY <1>0, <1>5, <1>a, <2>2 DEF Submit, CallDB, CallOf, Works, Fresh, Idle, DInv, LifeDB
  <2> QED BY <1>5, <2>1, <2>2 DEF Submit
<1>6. CASE StartJob(c)
  <2>1. CASE MayRun(call[c])
    <3>1. call' = call /\ job' = [job EXCEPT ![c] = "running"] /\ job[c] = "queued"
      BY <1>6, <2>1 DEF StartJob
    <3> QED BY <1>0, <1>a, <3>1 DEF CallDB, Works, Fresh, Idle, DInv, LifeDB
  <2>2. CASE ~MayRun(call[c])
    <3>1. PICK a : call' = [call EXCEPT ![c] = Settled(call[c], a)]
      BY <1>6, <2>2 DEF StartJob
    <3>2. job' = [job EXCEPT ![c] = "done"] /\ job[c] = "queued"
      BY <1>6, <2>2 DEF StartJob
    <3>3. Calm(d)
      BY <1>0, <1>a, <3>1, <3>2 DEF Calm, Settled, CallOf
    <3> QED BY <1>a, <3>3, CalmHolds
  <2> QED BY <2>1, <2>2
<1> QED BY <1>3, <1>4, <1>5, <1>6

LEMMA StopCalm ==
  ASSUME Inv, DInv, StopScheduler, NEW d \in Callers
  PROVE  Calm(d) /\ job'[d] # "queued" /\ call'[d].pc = call[d].pc
<1>1. call[d] \in CallOf
  BY DEF Inv, CInv, CallsOK
<1> DEFINE x == [call[d] EXCEPT !.kill = @ \/ job[d] \in {"queued", "running"}]
<1>2. call'[d] = IF job[d] = "queued" THEN Settled(x, "shutdown") ELSE x
  BY DEF StopScheduler
<1>3. x.pc = call[d].pc /\ x.api = call[d].api /\ Settled(x, "shutdown").pc = x.pc
      /\ Settled(x, "shutdown").api = x.api
  BY <1>1 DEF CallOf, Settled
<1> HIDE DEF x
<1>4. job'[d] = IF job[d] = "queued" THEN "done" ELSE job[d]
  BY DEF StopScheduler
<1> QED BY <1>2, <1>3, <1>4 DEF Calm

LEMMA LifeDBStep ==
  ASSUME MaxInit = 1, IsFiniteSet(Callers), DInv, [BackendNext]_vars
  PROVE  LifeDB'
<1>0. IsFiniteSet(Running) /\ Cardinality(Running) \in Nat
  BY FS_Subset, FS_CardinalityType DEF Running
<1>1. CASE backend' = backend /\ life' = life
  BY <1>1 DEF DInv, LifeDB, Fresh
<1> USE DEF DInv, LifeDB, Fresh, Fields
<1>2. CASE InitializeBegin
  BY <1>2 DEF InitializeBegin
<1>3. CASE ShutdownBegin
  BY <1>3 DEF ShutdownBegin
<1>4. CASE Restart
  BY <1>4 DEF Restart
<1>5. CASE InitializeEnd
  BY <1>5 DEF InitializeEnd
<1>6. CASE InitializeFail
  BY <1>0, <1>6 DEF InitializeFail
<1>7. CASE Drained
  BY <1>0, <1>7 DEF Drained
<1>8. CASE TearDown
  BY <1>8 DEF TearDown
<1>9. ASSUME NEW c \in Callers, CallStep(c) \/ JobStep(c) \/ StatsBegin(c)
      PROVE  backend' = backend /\ life' = life
  BY <1>9 DEF CallStep, JobStep, Acquire, Register, BindStop, Submit, Return, StatsEnd, StatsBegin,
              StartJob, EndJob, Commit, Expire, Retire
<1>10. ASSUME NEW id \in Ids, EchoCancelRequest(id) PROVE backend' = backend /\ life' = life
  BY <1>10 DEF EchoCancelRequest
<1> QED BY <1>1, <1>2, <1>3, <1>4, <1>5, <1>6, <1>7, <1>8, <1>9, <1>10
        DEF BackendNext, Serve, Use, LifeStep, vars

LEMMA CallDBStep ==
  ASSUME MaxInit = 1, IsFiniteSet(Callers), Inv, DInv, NEW d \in Callers,
         LifeStep \/ InitializeBegin \/ ShutdownBegin
  PROVE  CallDB(d)'
<1>0. CallDB(d) /\ LifeDB
  BY DEF DInv
<1>1. /\ IsFiniteSet(Running)
      /\ Cardinality(Running) = 0 => job[d] # "running"
      /\ Running = {} => job[d] # "running"
  <2>1. IsFiniteSet(Running)
    BY FS_Subset DEF Running
  <2> QED BY <2>1, FS_EmptySet DEF Running
<1>2. Readers = {} => call[d].pc # "reading"
  BY DEF Readers
<1>3. CASE InitializeBegin
  BY <1>0, <1>3 DEF InitializeBegin, CallDB, Works, Fresh, Idle, LifeDB, Fields
<1>4. CASE ShutdownBegin
  <2>1. CASE StopScheduler
    BY <1>0, <1>4, <2>1, StopCalm DEF ShutdownBegin, Calm, CallDB, Works, Fresh, Idle, LifeDB, Fields
  <2>2. CASE call' = call /\ job' = job /\ ~backend.up
    BY <1>0, <1>4, <2>2 DEF ShutdownBegin, CallDB, Works, Fresh, Idle, LifeDB, Fields
  <2> QED BY <1>4, <2>1, <2>2 DEF ShutdownBegin
<1>5. CASE Restart
  BY <1>0, <1>5 DEF Restart, CallDB, Works, Fresh, Idle, LifeDB, Fields
<1>6. CASE InitializeEnd
  BY <1>0, <1>6 DEF InitializeEnd, CallDB, Works, Fresh, Idle, LifeDB, Fields
<1>7. CASE InitializeFail
  <2>1. CASE StopScheduler
    BY <1>0, <1>1, <1>7, <2>1, StopCalm DEF InitializeFail, Calm, CallDB, Works, Fresh, Idle, LifeDB, Fields
  <2>2. CASE call' = call /\ job' = job
    BY <1>0, <1>7, <2>2 DEF InitializeFail, CallDB, Works, Fresh, Idle, LifeDB, Fields
  <2> QED BY <1>7, <2>1, <2>2 DEF InitializeFail
<1>8. CASE Drained
  BY <1>0, <1>1, <1>8 DEF Drained, CallDB, Works, Fresh, Idle, LifeDB, Fields
<1>9. CASE TearDown
  BY <1>0, <1>2, <1>9 DEF TearDown, CallDB, Works, Fresh, Idle, LifeDB, Fields
<1> QED BY <1>3, <1>4, <1>5, <1>6, <1>7, <1>8, <1>9 DEF LifeStep

LEMMA DatabaseStep ==
  ASSUME MaxInit = 1, IsFiniteSet(Callers), Inv, DInv, [BackendNext]_vars
  PROVE  DInv'
<1>1. LifeDB'
  BY LifeDBStep
<1>2. job' \in [Callers -> Jobs]
  <2>1. ASSUME NEW c \in Callers, CallStep(c) \/ JobStep(c) \/ StatsBegin(c)
        PROVE  job' = job \/ \E a \in Jobs : job' = [job EXCEPT ![c] = a]
    <3>1. job[c] \in Jobs
      BY DEF DInv
    <3>2. CASE Acquire(c) \/ Register(c) \/ BindStop(c) \/ Return(c) \/ StatsEnd(c) \/ StatsBegin(c)
               \/ Commit(c) \/ Expire(c)
      BY <3>2 DEF Acquire, Register, BindStop, Return, StatsEnd, StatsBegin, Commit, Expire
    <3>3. CASE Submit(c) \/ StartJob(c) \/ EndJob(c)
      BY <3>3 DEF Submit, StartJob, EndJob, Jobs
    <3>4. CASE Retire(c)
      BY <3>1, <3>4 DEF Retire, Jobs
    <3> QED BY <2>1, <3>2, <3>3, <3>4 DEF CallStep, JobStep
  <2>2. CASE LifeStep \/ InitializeBegin \/ ShutdownBegin
    <3>1. job' = job \/ StopScheduler
      BY <2>2 DEF LifeStep, Restart, InitializeEnd, InitializeFail, Drained, TearDown,
                  InitializeBegin, ShutdownBegin
    <3>2. CASE StopScheduler
      <4>1. \A c \in Callers : job[c] \in Jobs
        BY DEF DInv
      <4> QED BY <3>2, <4>1 DEF StopScheduler, Jobs
    <3> QED BY <3>1, <3>2 DEF DInv
  <2>3. ASSUME NEW id \in Ids, EchoCancelRequest(id) PROVE job' = job
    BY <2>3 DEF EchoCancelRequest
  <2> QED BY <2>1, <2>2, <2>3 DEF BackendNext, Serve, Use, vars, DInv
<1>3. ASSUME NEW d \in Callers PROVE CallDB(d)'
  <2>1. CASE LifeStep \/ InitializeBegin \/ ShutdownBegin
    BY <2>1, CallDBStep
  <2>2. ASSUME NEW c \in Callers, Acquire(c) \/ StatsBegin(c) \/ Submit(c) \/ StartJob(c)
        PROVE  CallDB(d)'
    BY <2>2, BusyStep
  <2>3. ASSUME NEW c \in Callers,
               \/ Register(c) \/ BindStop(c) \/ Return(c) \/ StatsEnd(c) \/ EndJob(c)
               \/ Commit(c) \/ Expire(c) \/ Retire(c)
        PROVE  CallDB(d)'
    <3>1. backend' = backend /\ life' = life
      BY <2>3 DEF Register, BindStop, Return, StatsEnd, EndJob, Commit, Expire, Retire
    <3> QED BY <2>3, <3>1, CalmStep, CalmHolds
  <2>4. ASSUME NEW c \in Callers, NEW id \in Ids, Enter(c, id),
               UNCHANGED <<registry, job, backend, life, asked, committed>>
        PROVE  CallDB(d)'
    BY <2>4, CalmStep, CalmHolds
  <2>5. ASSUME NEW id \in Ids, EchoCancelRequest(id) PROVE CallDB(d)'
    <3>1. backend' = backend /\ life' = life
      BY <2>5 DEF EchoCancelRequest
    <3>2. Calm(d)
      BY <2>5, CalmStep
    <3> QED BY <3>1, <3>2, CalmHolds
  <2>6. CASE UNCHANGED vars
    BY <2>6 DEF vars, DInv, CallDB, Works, Fresh, Idle
  <2> QED BY <2>1, <2>2, <2>3, <2>4, <2>5, <2>6 DEF BackendNext, Serve, Use, CallStep, JobStep
<1> QED BY <1>1, <1>2, <1>3 DEF DInv

(* While the library is initialised at most once, no job works and no statistics
   call reads under a database that is gone; a second initialisation breaks it. *)
THEOREM DatabaseCorrect ==
  ASSUME MaxInit = 1, IsFiniteSet(Callers)
  PROVE  BackendSpec => []DatabaseOutlivesWork
<1>1. BackendInit => DInv
  <2> SUFFICES ASSUME BackendInit PROVE DInv
    OBVIOUS
  <2>1. LifeDB
    <3>1. /\ DOMAIN backend = Fields /\ backend.inits = 0 /\ backend.abandoned = 0
          /\ backend.up \in BOOLEAN /\ backend.db = 0 /\ life = "idle"
      BY DEF BackendInit, Fields
    <3> QED BY <3>1 DEF LifeDB, Fresh
  <2>2. backend.up /\ life = "idle"
    BY DEF BackendInit
  <2>3. job \in [Callers -> Jobs]
    BY DEF BackendInit, Jobs
  <2>4. \A c \in Callers : call[c].pc = "out" /\ job[c] = "none"
    BY DEF BackendInit, NoCall
  <2>5. \A c \in Callers : CallDB(c)
    BY <2>2, <2>4 DEF CallDB, Works, Fresh, Idle
  <2> QED BY <2>1, <2>3, <2>5 DEF DInv
<1>2. Inv /\ DInv /\ [BackendNext]_vars => DInv'
  BY DatabaseStep
<1>3. DInv => DatabaseOutlivesWork
  BY DEF DInv, CallDB, Works, DatabaseOutlivesWork, Running, Readers
<1> QED BY <1>1, <1>2, <1>3, InvCorrect, PTL DEF BackendSpec

-----------------------------------------------------------------------------
(* The media session, for any songs, qualities and bound of the generations.
   MInv is inductive: whatever the player holds, waits for or keeps belongs to the
   selected song (Selected), requests and deferred calls say what the load is at
   (Loads), the quality that may be committed is known (Tells, Falls), and nothing
   goes on after a close (AtClose).  The parts are stated with the calls of the
   deferred list from the k-th on, so that they can be followed through the one
   turn of the event loop that runs them all.  PlaceKept then says where a switch
   that keeps its source goes on, in each of the phases it passes. *)

MusicFields == {"song", "generation", "loading", "desired", "quality", "committed", "actual", "pendingActual",
           "pending", "observed", "recovering", "switching", "reload", "backups", "saved", "resume",
           "resumePos", "stopped", "loadTimer", "resumeTimer", "requests", "deferred", "player"}
Typed(x) ==
  /\ DOMAIN x = MusicFields
  /\ x.song \in Songs \cup {Nothing} /\ x.generation \in Nat
  /\ x.loading \in BOOLEAN /\ x.desired \in BOOLEAN /\ x.resume \in BOOLEAN /\ x.observed \in BOOLEAN
  /\ x.recovering \in BOOLEAN /\ x.switching \in BOOLEAN /\ x.reload \in BOOLEAN /\ x.stopped \in BOOLEAN
  /\ x.loadTimer \in BOOLEAN /\ x.resumeTimer \in BOOLEAN
  /\ x.quality \in Qualities /\ x.committed \in Qualities
  /\ x.actual \in Delivered /\ x.pendingActual \in Delivered
  /\ x.pending \in Sources \cup {Nothing} /\ x.backups \in Seq(Sources)
  /\ x.saved \in Kept \cup {Nothing} /\ x.resumePos \in Places
  /\ x.requests \subseteq Requests /\ x.deferred \in Seq(Calls) /\ x.player \in Players

\* The fields that neither a source nor its arrival changes.
SameUser(x, y) ==
  /\ y.song = x.song /\ y.generation = x.generation /\ y.quality = x.quality
  /\ y.backups = x.backups /\ y.resumePos = x.resumePos /\ y.stopped = x.stopped
  /\ y.requests = x.requests /\ y.deferred = x.deferred
\* The fields that say what is being loaded.
SameLoad(x, y) ==
  /\ y.loading = x.loading /\ y.loadTimer = x.loadTimer /\ y.resume = x.resume
  /\ y.actual = x.actual /\ y.pending = x.pending /\ y.pendingActual = x.pendingActual
  /\ y.recovering = x.recovering /\ y.saved = x.saved /\ y.reload = x.reload
  /\ y.switching = x.switching /\ y.committed = x.committed

\* The load is settled.
Settles(x, y) ==
  /\ SameUser(x, y) /\ y.observed = x.observed
  /\ ~y.resume /\ ~y.loading /\ ~y.loadTimer /\ ~y.recovering /\ ~y.reload /\ ~y.switching
  /\ y.actual = x.pendingActual /\ y.pending = Nothing /\ y.pendingActual = "unknown"
  /\ y.saved = Nothing /\ y.committed = x.quality
  /\ y.player.source = x.player.source /\ y.player.status = "loaded" /\ y.player.pos = x.resumePos

\* applyResume() leaves a load alone that is not its own, or settles it.
LEMMA Resumes ==
  ASSUME NEW x, Typed(x)
  PROVE  /\ Typed(applyResume(x))
         /\ \/ applyResume(x) = x /\ ~(OwnsLoad(x) /\ Loaded(x))
            \/ OwnsLoad(x) /\ Loaded(x) /\ Settles(x, applyResume(x))
<1>1. CASE ~(OwnsLoad(x) /\ Loaded(x))
  BY <1>1 DEF applyResume
<1>2. CASE OwnsLoad(x) /\ Loaded(x)
  <2>1. PICK p : p = [x.player EXCEPT !.pos = x.resumePos]
    OBVIOUS
  <2>2. p \in Players /\ p.source = x.player.source /\ p.status = "loaded" /\ p.pos = x.resumePos
    BY <1>2, <2>1 DEF Typed, Players, Places, Loaded
  <2>3. PICK q : q = IF x.desired THEN Playing(p) ELSE Paused(p)
    OBVIOUS
  <2>4. q \in Players /\ q.source = p.source /\ q.status = "loaded" /\ q.pos = p.pos
    BY <2>2, <2>3 DEF Playing, Paused, Players, Places
  <2>5. applyResume(x) =
          [x EXCEPT !.resume = FALSE, !.resumeTimer = FALSE, !.loading = FALSE,
                    !.loadTimer = FALSE, !.actual = x.pendingActual,
                    !.pending = Nothing, !.pendingActual = "unknown",
                    !.recovering = FALSE, !.saved = Nothing, !.reload = FALSE,
                    !.switching = FALSE, !.committed = x.quality, !.player = q]
    BY <1>2, <2>1, <2>3 DEF applyResume
  <2>6. PICK y : y = applyResume(x)
    OBVIOUS
  <2>7. Typed(y) /\ Settles(x, y)
    <3>1. y = [x EXCEPT !.resume = FALSE, !.resumeTimer = FALSE, !.loading = FALSE,
                    !.loadTimer = FALSE, !.actual = x.pendingActual,
                    !.pending = Nothing, !.pendingActual = "unknown",
                    !.recovering = FALSE, !.saved = Nothing, !.reload = FALSE,
                    !.switching = FALSE, !.committed = x.quality, !.player = q]
      BY <2>5, <2>6
    <3>2. q \in Players /\ q.source = x.player.source /\ q.status = "loaded" /\ q.pos = x.resumePos
      BY <2>2, <2>4
    <3>3. "unknown" \in Delivered
      BY DEF Delivered
    <3>4. Settles(x, y)
      BY ONLY Typed(x), <3>1, <3>2 DEF Typed, MusicFields, Settles, SameUser
    <3>5. Typed(y)
      BY ONLY Typed(x), <3>1, <3>2, <3>3 DEF Typed, MusicFields
    <3> QED
      BY <3>4, <3>5
  <2> QED
    BY <1>2, <2>6, <2>7 DEF Loaded
<1> QED
  BY <1>1, <1>2

\* A late LoadedMedia of the old stream cannot be taken for the new source.
NotStale(x, url) ==
  /\ x.player.status \in {"loaded", "ended"}
  /\ x.resume /\ x.observed /\ x.pending # Nothing /\ url = x.pending
  => url = x.player.source

\* The player has the source, and the load is where it was.
Opened(x, y, url) ==
  /\ SameUser(x, y) /\ SameLoad(x, y) /\ y.player.source = url /\ y.player.pos = 0 /\ ~y.player.playing
  /\ IF url = x.player.source
     THEN /\ y.observed = x.observed /\ y.player.decoded = x.player.decoded
          /\ y.player.status = IF x.player.status = "ended" THEN "loaded" ELSE x.player.status
     ELSE /\ y.observed <=> \/ x.observed
                            \/ ~x.stopped /\ x.pending # Nothing /\ url = x.pending
          /\ y.player.status = IF url = Nothing THEN "none" ELSE "loading"
          /\ ~y.player.decoded

\* QMediaPlayer::stop(): the source stays, at its beginning.
LEMMA StoppedPlayer ==
  ASSUME NEW p, p \in Players
  PROVE  /\ Stopped(p) \in Players /\ Stopped(p).source = p.source /\ Stopped(p).decoded = p.decoded
         /\ Stopped(p).pos = 0 /\ ~Stopped(p).playing
         /\ Stopped(p).status = IF p.status = "ended" THEN "loaded" ELSE p.status
BY DEF Players, Stopped, Places

\* A source that is being opened has neither a duration nor sound yet.
LEMMA OpeningPlayer ==
  ASSUME NEW p, p \in Players
  PROVE  /\ Opening(p) \in Players /\ Opening(p).source = p.source /\ ~Opening(p).decoded
         /\ Opening(p).pos = p.pos /\ Opening(p).playing = p.playing
         /\ Opening(p).status = IF p.source = Nothing THEN "none" ELSE "loading"
BY DEF Players, Opening, Places

\* setSource() opens the address it is given, and only that.
LEMMA Opens ==
  ASSUME NEW x, Typed(x), NEW url, url \in Sources \cup {Nothing}, NotStale(x, url)
  PROVE  Typed(setSource(x, url)) /\ Opened(x, setSource(x, url), url)
<1>1. PICK p : p = Stopped(x.player)
  OBVIOUS
<1>2. /\ p \in Players /\ p.source = x.player.source /\ p.decoded = x.player.decoded /\ p.pos = 0 /\ ~p.playing
      /\ p.status = IF x.player.status = "ended" THEN "loaded" ELSE x.player.status
  BY <1>1, StoppedPlayer DEF Typed
<1>3. PICK y : y = [x EXCEPT !.player = p]
  OBVIOUS
<1>4. Typed(y) /\ SameUser(x, y) /\ SameLoad(x, y) /\ y.observed = x.observed /\ y.player = p
  BY ONLY Typed(x), <1>2, <1>3 DEF Typed, MusicFields, SameUser, SameLoad
<1>5. CASE url = x.player.source
  <2>1. setSource(x, url) = y
    BY <1>1, <1>3, <1>5 DEF setSource
  <2> QED
    BY <1>2, <1>4, <1>5, <2>1 DEF Opened
<1>6. CASE url # x.player.source
  <2>1. PICK q : q = [p EXCEPT !.source = url]
    OBVIOUS
  <2>2. /\ q \in Players /\ q.source = url /\ q.pos = 0 /\ q.status = p.status /\ ~q.playing
    BY ONLY <1>2, <2>1, url \in Sources \cup {Nothing} DEF Players
  <2>3. PICK z : z = [y EXCEPT !.player = q]
    OBVIOUS
  <2>4. Typed(z) /\ SameUser(y, z) /\ SameLoad(y, z) /\ z.observed = y.observed /\ z.player = q
    BY ONLY <1>4, <2>2, <2>3 DEF Typed, MusicFields, SameUser, SameLoad
  <2>5. z.player.status = "loaded" => applyResume(z) = z
    BY <1>2, <1>4, <1>6, <2>2, <2>4 DEF NotStale, applyResume, OwnsLoad, SameLoad
  <2>6. PICK o : o = Opening(q)
    OBVIOUS
  <2>7. /\ o \in Players /\ o.source = url /\ ~o.decoded /\ o.pos = 0 /\ ~o.playing
        /\ o.status = IF url = Nothing THEN "none" ELSE "loading"
    BY <2>2, <2>6, OpeningPlayer
  <2>8. PICK v : v = [z EXCEPT !.player = o]
    OBVIOUS
  <2>9. Typed(v) /\ SameUser(z, v) /\ SameLoad(z, v) /\ v.observed = z.observed /\ v.player = o
    BY ONLY <2>4, <2>7, <2>8 DEF Typed, MusicFields, SameUser, SameLoad
  <2>10. /\ SameUser(x, v) /\ SameLoad(x, v) /\ v.observed = x.observed
    BY <1>4, <2>4, <2>9 DEF SameUser, SameLoad
  <2>11. setSource(x, url) = IF url = Nothing THEN v ELSE SeenLoading(v)
    <3> DEFINE stopped == [x EXCEPT !.player = Stopped(@)]
               named   == [stopped EXCEPT !.player = [@ EXCEPT !.source = url]]
               stale   == IF named.player.status = "loaded" THEN SeenLoaded(named) ELSE named
               opened  == [stale EXCEPT !.player = Opening(@)]
    <3>1. setSource(x, url) = IF url = x.player.source THEN stopped
                              ELSE IF url = Nothing THEN opened ELSE SeenLoading(opened)
      BY DEF setSource
    <3>2. stopped = y
      BY <1>1, <1>3
    <3> HIDE DEF stopped
    <3>3. named = z
      BY <1>4, <2>1, <2>3, <3>2
    <3> HIDE DEF named
    <3>4. stale = z
      BY <2>5, <3>3 DEF SeenLoaded
    <3> HIDE DEF stale
    <3>5. opened = v
      BY <2>4, <2>6, <2>8, <3>4
    <3> HIDE DEF opened
    <3> QED
      BY <1>6, <3>1, <3>5
  <2>12. CASE url = Nothing
    BY <1>6, <2>7, <2>9, <2>10, <2>11, <2>12 DEF Opened
  <2>13. CASE url # Nothing
    <3>1. PICK w : w = SeenLoading(v)
      OBVIOUS
    <3> DEFINE seen == \/ x.observed
                       \/ ~x.stopped /\ x.pending # Nothing /\ url = x.pending
    <3>2. /\ v.player.source = url /\ v.observed = x.observed /\ v.stopped = x.stopped /\ v.pending = x.pending
          /\ v.observed \in BOOLEAN
      BY <2>7, <2>9, <2>10 DEF SameUser, SameLoad, Typed
    <3>3. PICK b : b \in BOOLEAN /\ (b <=> seen) /\ w = [v EXCEPT !.observed = b]
      <4>1. CASE seen
        <5>1. w = [v EXCEPT !.observed = TRUE]
          BY <3>1, <3>2, <4>1 DEF SeenLoading
        <5> QED
          BY <4>1, <5>1
      <4>2. CASE ~seen
        <5>1. w = [v EXCEPT !.observed = FALSE]
          BY <3>1, <3>2, <4>2 DEF SeenLoading
        <5> QED
          BY <4>2, <5>1
      <4> QED
        BY <4>1, <4>2
    <3> HIDE DEF seen
    <3>5. Typed(w) /\ SameUser(v, w) /\ SameLoad(v, w) /\ w.observed = b /\ w.player = o
      BY ONLY <2>9, <3>3 DEF Typed, MusicFields, SameUser, SameLoad
    <3>6. w.observed <=> seen
      BY ONLY <3>3, <3>5
    <3>7. SameUser(x, w) /\ SameLoad(x, w)
      BY <2>10, <3>5 DEF SameUser, SameLoad
    <3> QED
      BY <1>6, <2>7, <2>11, <2>13, <3>1, <3>5, <3>6, <3>7 DEF Opened, seen
  <2> QED
    BY <2>12, <2>13
<1> QED
  BY <1>5, <1>6

\* The source the player had was the awaited one all the time.
Arrives(x, y, url) ==
  /\ url = x.player.source /\ x.resume /\ x.observed /\ x.pending = url /\ url # Nothing
  /\ x.player.status \in {"loaded", "ended"} /\ Settles(x, y)

\* A source that is started is opened, or was there all the time and settles the load.
LEMMA Starts ==
  ASSUME NEW x, Typed(x), NEW url, url \in Sources \cup {Nothing}, NotStale(x, url)
  PROVE  /\ Typed(Start(x, url))
         /\ \/ Arrives(x, Start(x, url), url)
            \/ Opened(x, Start(x, url), url) /\ ~(OwnsLoad(Start(x, url)) /\ Loaded(Start(x, url)))
<1>1. PICK y : y = setSource(x, url)
  OBVIOUS
<1>2. Typed(y) /\ Opened(x, y, url)
  BY <1>1, Opens
<1>3. PICK z : z = applyResume(y)
  OBVIOUS
<1>4. Typed(z)
  BY <1>2, <1>3, Resumes
<1>5. PICK b : b = (z.resumeTimer \/ z.resume)
  OBVIOUS
<1>6. PICK w : w = Start(x, url)
  OBVIOUS
<1>7. w = [z EXCEPT !.resumeTimer = b]
  BY <1>1, <1>3, <1>5, <1>6 DEF Start
<1>8. /\ Typed(w) /\ SameUser(z, w) /\ SameLoad(z, w) /\ w.observed = z.observed /\ w.player = z.player
  <2>1. b \in BOOLEAN
    BY <1>5
  <2> QED
    BY ONLY <1>4, <1>7, <2>1 DEF Typed, MusicFields, SameUser, SameLoad
<1>9. CASE z = y /\ ~(OwnsLoad(y) /\ Loaded(y))
  <2>1. Opened(x, w, url)
    BY <1>2, <1>8, <1>9 DEF Opened, SameUser, SameLoad
  <2>2. ~(OwnsLoad(w) /\ Loaded(w))
    BY <1>8, <1>9 DEF OwnsLoad, Loaded, SameUser, SameLoad
  <2> QED
    BY <1>6, <1>8, <2>1, <2>2
<1>10. CASE OwnsLoad(y) /\ Loaded(y) /\ Settles(y, z)
  <2>1. url = x.player.source /\ x.player.status \in {"loaded", "ended"}
    BY <1>2, <1>10 DEF Opened, Loaded
  <2>2. x.resume /\ x.observed /\ x.pending = url /\ url # Nothing
    BY <1>2, <1>10, <2>1 DEF Opened, OwnsLoad, SameLoad
  <2>3. Settles(x, w)
    BY <1>2, <1>8, <1>10, <2>1 DEF Opened, Settles, SameUser, SameLoad
  <2> QED
    BY <1>6, <1>8, <2>1, <2>2, <2>3 DEF Arrives
<1> QED
  BY <1>2, <1>3, <1>9, <1>10, Resumes

-----------------------------------------------------------------------------
Asks(x, y, preserve) ==
  y.requests = x.requests \cup {[generation |-> y.generation, song |-> y.song,
                                 quality |-> y.quality, preserve |-> preserve]}

\* Another song, or the same one from its place: whatever was there is forgotten.
Anew(x, y) ==
  /\ y.song = x.song /\ y.generation = x.generation + 1 /\ y.quality = x.quality
  /\ y.committed = x.committed /\ y.stopped = x.stopped /\ y.deferred = x.deferred
  /\ y.saved = Nothing /\ ~y.switching /\ ~y.recovering /\ ~y.reload
  /\ y.backups = <<>> /\ y.actual = "unknown"
  /\ \/ /\ Asks(x, y, FALSE) /\ y.loading /\ y.loadTimer /\ y.pending = Nothing
        /\ y.pendingActual = "unknown" /\ y.player.source = Nothing /\ y.player.status = "none"
     \/ /\ y.requests = x.requests /\ y.loading /\ y.loadTimer /\ y.pending = Main(x.song, "local")
        /\ y.pendingActual = "local" /\ y.player.source = y.pending /\ y.player.status = "loading"
     \/ /\ y.requests = x.requests /\ ~y.loading /\ y.pending = Nothing
        /\ y.pendingActual = "unknown" /\ y.player.source = Nothing /\ y.player.status = "none"

\* resolveCurrent() without a place to keep forgets the load there was.
LEMMA Anews ==
  ASSUME NEW x, Typed(x), x.song \in Songs, NEW pos \in Places, NEW autoplay \in BOOLEAN, NEW exists \in BOOLEAN,
         x.player.source = Nothing => x.player.status = "none"
  PROVE  /\ Typed(resolveCurrent(x, pos, autoplay, FALSE, exists))
         /\ Anew(x, resolveCurrent(x, pos, autoplay, FALSE, exists))
<1> DEFINE kept    == IF ~FALSE THEN Nothing
                     ELSE IF x.saved = Nothing /\ CanKeep(x) THEN Keep(x) ELSE x.saved
           begun   == [x EXCEPT !.saved = kept, !.pending = Nothing, !.pendingActual = "unknown",
                           !.observed = FALSE, !.recovering = FALSE, !.generation = @ + 1,
                           !.loading = TRUE, !.desired = autoplay, !.reload = FALSE,
                           !.switching = FALSE, !.loadTimer = TRUE, !.resumeTimer = FALSE,
                           !.resume = ~FALSE, !.resumePos = pos]
           cleared == IF FALSE THEN begun
                      ELSE setSource([begun EXCEPT !.backups = <<>>, !.actual = "unknown"], Nothing)
           url     == Main(x.song, "local")
           result  == IF x.song \notin LocalSongs
             THEN [cleared EXCEPT !.requests = @ \cup
                {[generation |-> cleared.generation, song |-> x.song,
                  quality |-> x.quality, preserve |-> FALSE]}]
             ELSE IF exists
             THEN Start([cleared EXCEPT !.pendingActual = "local", !.pending = url], url)
             ELSE [cleared EXCEPT !.loading = FALSE, !.resume = FALSE]
<1>1. resolveCurrent(x, pos, autoplay, FALSE, exists) = result
  BY DEF resolveCurrent
<1>2. PICK b : b = begun
  OBVIOUS
<1>3. /\ Typed(b) /\ b.song = x.song /\ b.generation = x.generation + 1 /\ b.quality = x.quality
      /\ b.committed = x.committed /\ b.stopped = x.stopped /\ b.deferred = x.deferred
      /\ b.saved = Nothing /\ ~b.switching /\ ~b.recovering /\ ~b.reload /\ b.requests = x.requests
      /\ b.loading /\ b.loadTimer /\ b.pending = Nothing /\ b.pendingActual = "unknown"
      /\ ~b.observed /\ b.resume /\ b.player = x.player
  <2>1. PICK g : g = x.generation + 1 /\ g \in Nat
    BY DEF Typed
  <2>2. PICK a : a = [x EXCEPT !.saved = Nothing, !.pending = Nothing, !.pendingActual = "unknown",
                           !.observed = FALSE, !.recovering = FALSE, !.generation = g, !.loading = TRUE]
    OBVIOUS
  <2>3. "unknown" \in Delivered
    BY DEF Delivered
  <2>4. b = [a EXCEPT !.desired = autoplay, !.reload = FALSE, !.switching = FALSE, !.loadTimer = TRUE,
                      !.resumeTimer = FALSE, !.resume = TRUE, !.resumePos = pos]
    BY <1>2, <2>1, <2>2
  <2>5. /\ Typed(a) /\ a.song = x.song /\ a.generation = x.generation + 1 /\ a.quality = x.quality
        /\ a.committed = x.committed /\ a.stopped = x.stopped /\ a.deferred = x.deferred
        /\ a.saved = Nothing /\ ~a.recovering /\ a.requests = x.requests /\ a.player = x.player
        /\ a.loading /\ a.pending = Nothing /\ a.pendingActual = "unknown" /\ ~a.observed
    BY ONLY Typed(x), <2>1, <2>2, <2>3 DEF Typed, MusicFields
  <2> QED
    BY ONLY autoplay \in BOOLEAN, pos \in Places, <2>4, <2>5 DEF Typed, MusicFields
<1> HIDE DEF kept, begun
<1>4. PICK c : c = [b EXCEPT !.backups = <<>>, !.actual = "unknown"]
  OBVIOUS
<1>5. /\ Typed(c) /\ c.song = x.song /\ c.generation = x.generation + 1 /\ c.quality = x.quality
      /\ c.committed = x.committed /\ c.stopped = x.stopped /\ c.deferred = x.deferred
      /\ c.saved = Nothing /\ ~c.switching /\ ~c.recovering /\ ~c.reload /\ c.requests = x.requests
      /\ c.loading /\ c.loadTimer /\ c.pending = Nothing /\ c.pendingActual = "unknown"
      /\ ~c.observed /\ c.resume /\ c.backups = <<>> /\ c.actual = "unknown" /\ c.player = x.player
  <2>1. "unknown" \in Delivered /\ <<>> \in Seq(Sources)
    BY DEF Delivered
  <2> QED
    BY ONLY <1>3, <1>4, <2>1 DEF Typed, MusicFields
<1>6. PICK d : d = setSource(c, Nothing)
  OBVIOUS
<1>7. Typed(d) /\ Opened(c, d, Nothing)
  BY <1>5, <1>6, Opens DEF NotStale
<1>8. /\ d.song = x.song /\ d.generation = x.generation + 1 /\ d.quality = x.quality
      /\ d.committed = x.committed /\ d.stopped = x.stopped /\ d.deferred = x.deferred
      /\ d.saved = Nothing /\ ~d.switching /\ ~d.recovering /\ ~d.reload /\ d.requests = x.requests
      /\ d.loading /\ d.loadTimer /\ d.pending = Nothing /\ d.pendingActual = "unknown"
      /\ ~d.observed /\ d.resume /\ d.backups = <<>> /\ d.actual = "unknown"
      /\ d.player.source = Nothing /\ d.player.status = "none"
  BY <1>5, <1>7 DEF Opened, SameUser, SameLoad
<1>9. cleared = d
  BY <1>2, <1>4, <1>6
<1> HIDE DEF cleared
<1>10. PICK y : y = resolveCurrent(x, pos, autoplay, FALSE, exists)
  OBVIOUS
<1>11. CASE x.song \notin LocalSongs
  <2>1. PICK r : r = [generation |-> d.generation, song |-> x.song, quality |-> x.quality, preserve |-> FALSE]
    OBVIOUS
  <2>2. r \in Requests
    BY ONLY Typed(x), x.song \in Songs, <1>8, <2>1 DEF Typed, Requests
  <2>3. PICK q : q = d.requests \cup {r}
    OBVIOUS
  <2>4. q \subseteq Requests
    BY <1>7, <2>2, <2>3 DEF Typed
  <2>5. y = [d EXCEPT !.requests = q]
    BY <1>1, <1>9, <1>10, <1>11, <2>1, <2>3
  <2>6. Typed(y) /\ SameLoad(d, y) /\ y.player = d.player /\ y.requests = q /\ y.backups = d.backups
        /\ y.song = d.song /\ y.generation = d.generation /\ y.quality = d.quality
        /\ y.stopped = d.stopped /\ y.deferred = d.deferred
    BY ONLY <1>7, <2>4, <2>5 DEF Typed, MusicFields, SameLoad
  <2>7. Asks(x, y, FALSE)
    BY ONLY <1>8, <2>1, <2>3, <2>6 DEF Asks
  <2> QED
    BY ONLY <1>8, <1>10, <2>6, <2>7 DEF Anew, SameLoad
<1>12. CASE x.song \in LocalSongs /\ exists
  <2>1. url \in Sources /\ "local" \in Delivered
    BY DEF Main, Sources, Delivered
  <2> HIDE DEF url
  <2>2. PICK e : e = [d EXCEPT !.pendingActual = "local", !.pending = url]
    OBVIOUS
  <2>3. /\ Typed(e) /\ SameUser(d, e) /\ e.pendingActual = "local" /\ e.pending = url /\ e.saved = d.saved
        /\ e.switching = d.switching /\ e.recovering = d.recovering /\ e.reload = d.reload
        /\ e.committed = d.committed /\ e.loading = d.loading /\ e.loadTimer = d.loadTimer
        /\ e.observed = d.observed /\ e.player = d.player /\ e.actual = d.actual
    BY ONLY <1>7, <2>1, <2>2 DEF Typed, MusicFields, SameUser
  <2>4. y = Start(e, url)
    BY <1>1, <1>9, <1>10, <1>12, <2>2 DEF url
  <2>5. url # e.player.source /\ NotStale(e, url)
    BY <1>8, <2>1, <2>3, SongAssumption DEF NotStale
  <2>6. Typed(y) /\ Opened(e, y, url)
    BY <2>1, <2>3, <2>4, <2>5, Starts DEF Arrives
  <2>7. y.player.source = url /\ y.player.status = "loading"
    BY <2>1, <2>5, <2>6, SongAssumption DEF Opened
  <2>8. SameUser(e, y) /\ SameLoad(e, y)
    BY <2>6 DEF Opened
  <2>9. Anew(x, y)
    BY ONLY <1>8, <2>3, <2>7, <2>8 DEF Anew, SameUser, SameLoad, url
  <2> QED
    BY ONLY <1>10, <2>6, <2>9
<1>13. CASE x.song \in LocalSongs /\ ~exists
  <2>1. y = [d EXCEPT !.loading = FALSE, !.resume = FALSE]
    BY <1>1, <1>9, <1>10, <1>13
  <2>2. Typed(y)
    BY ONLY <1>7, <2>1 DEF Typed, MusicFields
  <2>3. Anew(x, y)
    BY ONLY <1>7, <1>8, <2>1 DEF Typed, MusicFields, Anew
  <2> QED
    BY ONLY <1>10, <2>2, <2>3
<1> QED
  BY <1>11, <1>12, <1>13

\* Another quality of the song: what plays goes on until the answer is there.
Switched(x, y, pos) ==
  /\ y.song = x.song /\ y.generation = x.generation + 1 /\ y.quality = x.quality
  /\ y.committed = x.committed /\ y.stopped = x.stopped /\ y.deferred = x.deferred
  /\ y.actual = x.actual /\ y.backups = x.backups /\ y.player = x.player
  /\ y.saved = IF x.saved = Nothing /\ CanKeep(x) THEN Keep(x) ELSE x.saved
  /\ y.switching /\ ~y.recovering /\ ~y.reload /\ y.loading /\ y.loadTimer /\ ~y.resume
  /\ y.resumePos = pos /\ y.pending = Nothing /\ y.pendingActual = "unknown" /\ ~y.observed
  /\ Asks(x, y, TRUE)

\* What a switch keeps is a source with its place and its backup addresses.
LEMMA KeepTyped == ASSUME NEW x, Typed(x), CanKeep(x) PROVE Keep(x) \in Kept
<1>1. x.player.source \in Sources /\ x.backups \in Seq(Sources) /\ x.player.pos \in Places
  BY DEF Typed, Players, CanKeep, hasLoadedSource
<1> QED
  BY <1>1 DEF Keep, Kept

\* resolveCurrent() with a place to keep leaves the player alone and keeps its source.
LEMMA Switches ==
  ASSUME NEW x, Typed(x), x.song \in Songs \ LocalSongs, NEW pos \in Places, NEW autoplay \in BOOLEAN
  PROVE  /\ Typed(resolveCurrent(x, pos, autoplay, TRUE, TRUE))
         /\ Switched(x, resolveCurrent(x, pos, autoplay, TRUE, TRUE), pos)
<1> DEFINE kept    == IF x.saved = Nothing /\ CanKeep(x) THEN Keep(x) ELSE x.saved
           begun   == [x EXCEPT !.saved = kept, !.pending = Nothing, !.pendingActual = "unknown",
                           !.observed = FALSE, !.recovering = FALSE, !.generation = @ + 1,
                           !.loading = TRUE, !.desired = autoplay, !.reload = FALSE,
                           !.switching = TRUE, !.loadTimer = TRUE, !.resumeTimer = FALSE,
                           !.resume = ~TRUE, !.resumePos = pos]
           result  == [begun EXCEPT !.requests = @ \cup
                {[generation |-> begun.generation, song |-> x.song,
                  quality |-> x.quality, preserve |-> TRUE]}]
<1>1. resolveCurrent(x, pos, autoplay, TRUE, TRUE) = result
  BY DEF resolveCurrent
<1>2. PICK d : d = begun
  OBVIOUS
<1>3. PICK k : k = kept
  OBVIOUS
<1>4. k \in Kept \cup {Nothing}
  BY <1>3, KeepTyped DEF Typed
<1>5. /\ Typed(d) /\ d.song = x.song /\ d.generation = x.generation + 1 /\ d.quality = x.quality
      /\ d.committed = x.committed /\ d.stopped = x.stopped /\ d.deferred = x.deferred
      /\ d.actual = x.actual /\ d.backups = x.backups /\ d.player = x.player /\ d.requests = x.requests
      /\ d.saved = k /\ d.switching /\ ~d.recovering /\ ~d.reload /\ d.loading /\ d.loadTimer /\ ~d.resume
      /\ d.resumePos = pos /\ d.pending = Nothing /\ d.pendingActual = "unknown" /\ ~d.observed
  <2>1. PICK g : g = x.generation + 1 /\ g \in Nat
    BY DEF Typed
  <2>2. PICK a : a = [x EXCEPT !.saved = k, !.pending = Nothing, !.pendingActual = "unknown",
                           !.observed = FALSE, !.recovering = FALSE, !.generation = g, !.loading = TRUE]
    OBVIOUS
  <2>3. "unknown" \in Delivered
    BY DEF Delivered
  <2>4. d = [a EXCEPT !.desired = autoplay, !.reload = FALSE, !.switching = TRUE, !.loadTimer = TRUE,
                      !.resumeTimer = FALSE, !.resume = FALSE, !.resumePos = pos]
    <3> HIDE DEF kept
    <3> QED
      BY <1>2, <1>3, <2>1, <2>2
  <2>5. /\ Typed(a) /\ a.song = x.song /\ a.generation = x.generation + 1 /\ a.quality = x.quality
        /\ a.committed = x.committed /\ a.stopped = x.stopped /\ a.deferred = x.deferred
        /\ a.actual = x.actual /\ a.backups = x.backups
        /\ a.saved = k /\ ~a.recovering /\ a.requests = x.requests /\ a.player = x.player
        /\ a.loading /\ a.pending = Nothing /\ a.pendingActual = "unknown" /\ ~a.observed
    BY ONLY Typed(x), <1>4, <2>1, <2>2, <2>3 DEF Typed, MusicFields
  <2> QED
    BY ONLY autoplay \in BOOLEAN, pos \in Places, <2>4, <2>5 DEF Typed, MusicFields
<1>6. begun = d
  BY <1>2
<1> HIDE DEF begun
<1>7. PICK r : r = [generation |-> d.generation, song |-> x.song, quality |-> x.quality, preserve |-> TRUE]
  OBVIOUS
<1>8. r \in Requests
  BY ONLY Typed(x), x.song \in Songs \ LocalSongs, <1>5, <1>7 DEF Typed, Requests
<1>9. PICK q : q = d.requests \cup {r}
  OBVIOUS
<1>10. q \subseteq Requests
  BY <1>5, <1>8, <1>9 DEF Typed
<1>11. PICK y : y = resolveCurrent(x, pos, autoplay, TRUE, TRUE)
  OBVIOUS
<1>12. y = [d EXCEPT !.requests = q]
  BY <1>1, <1>6, <1>7, <1>9, <1>11
<1>13. Typed(y)
  BY ONLY <1>5, <1>10, <1>12 DEF Typed, MusicFields
<1>14. /\ SameLoad(d, y) /\ y.player = d.player /\ y.requests = q /\ y.backups = d.backups
       /\ y.song = d.song /\ y.generation = d.generation /\ y.quality = d.quality
       /\ y.stopped = d.stopped /\ y.deferred = d.deferred /\ y.observed = d.observed /\ y.resumePos = d.resumePos
  BY ONLY <1>5, <1>12 DEF Typed, MusicFields, SameLoad
<1>15. Asks(x, y, TRUE)
  BY ONLY <1>5, <1>7, <1>9, <1>14 DEF Asks
<1>16. Switched(x, y, pos)
  BY <1>3, <1>5, <1>14, <1>15 DEF Switched, SameLoad
<1> QED
  BY <1>11, <1>13, <1>16

-----------------------------------------------------------------------------
\* Back to the source that was kept, which still plays or has to be loaded again.
Recovered(x, y) ==
  /\ y.song = x.song /\ y.generation = x.generation + 1 /\ y.quality = x.committed
  /\ y.committed = x.committed /\ y.stopped = x.stopped /\ y.requests = x.requests
  /\ y.actual = x.actual /\ y.player = x.player /\ ~y.switching /\ ~y.reload
  /\ \/ /\ x.player.source = x.saved.url /\ hasLoadedSource(x.player)
        /\ y.saved = Nothing /\ y.pending = Nothing /\ ~y.loading /\ ~y.loadTimer /\ ~y.resume
        /\ y.backups = x.backups /\ y.pendingActual = x.pendingActual /\ y.deferred = x.deferred
        /\ y.recovering = x.recovering
     \/ /\ ~(x.player.source = x.saved.url /\ hasLoadedSource(x.player))
        /\ y.saved = x.saved /\ y.pending = x.saved.url /\ y.loading /\ y.loadTimer /\ y.resume
        /\ y.backups = x.saved.backups /\ y.pendingActual = x.actual /\ ~y.observed
        /\ y.recovering /\ y.resumePos = x.saved.pos
        /\ y.deferred = Append(x.deferred, [call |-> "recover", owner |-> y.generation,
                                failed |-> Nothing, url |-> x.saved.url, offset |-> 0])

\* recoverQualitySwitch() goes back to the kept source, at its place.
LEMMA Recovers ==
  ASSUME NEW x, Typed(x), x.saved # Nothing
  PROVE  /\ Typed(recoverQualitySwitch(x))
         /\ Recovered(x, recoverQualitySwitch(x))
<1> DEFINE ended == [x EXCEPT !.generation = @ + 1, !.quality = x.committed, !.switching = FALSE,
                         !.resume = FALSE, !.resumeTimer = FALSE, !.loadTimer = FALSE,
                         !.pending = Nothing, !.reload = FALSE]
<1>1. recoverQualitySwitch(x) =
        IF x.player.source = x.saved.url /\ hasLoadedSource(x.player)
        THEN [ended EXCEPT !.saved = Nothing, !.loading = FALSE]
        ELSE [ended EXCEPT !.recovering = TRUE, !.pending = x.saved.url,
                        !.pendingActual = x.actual, !.observed = FALSE,
                        !.backups = x.saved.backups, !.resumePos = x.saved.pos,
                        !.resume = TRUE, !.loading = TRUE, !.loadTimer = TRUE,
                        !.deferred = Append(@,
                          [call |-> "recover", owner |-> ended.generation,
                           failed |-> Nothing, url |-> x.saved.url, offset |-> 0])]
  BY DEF recoverQualitySwitch, Rearmed
<1>2. PICK e : e = ended
  OBVIOUS
<1>3. /\ Typed(e) /\ e.song = x.song /\ e.generation = x.generation + 1 /\ e.quality = x.committed
      /\ e.committed = x.committed /\ e.stopped = x.stopped /\ e.requests = x.requests /\ e.saved = x.saved
      /\ e.actual = x.actual /\ e.player = x.player /\ ~e.switching /\ ~e.reload /\ e.deferred = x.deferred
      /\ ~e.resume /\ ~e.loadTimer /\ e.pending = Nothing /\ e.backups = x.backups /\ e.recovering = x.recovering
      /\ e.pendingActual = x.pendingActual
  <2>1. PICK g : g = x.generation + 1 /\ g \in Nat
    BY DEF Typed
  <2>2. e = [x EXCEPT !.generation = g, !.quality = x.committed, !.switching = FALSE,
                         !.resume = FALSE, !.resumeTimer = FALSE, !.loadTimer = FALSE,
                         !.pending = Nothing, !.reload = FALSE]
    BY <1>2, <2>1
  <2> QED
    BY ONLY Typed(x), <2>1, <2>2 DEF Typed, MusicFields
<1>4. ended = e
  BY <1>2
<1> HIDE DEF ended
<1>5. PICK y : y = recoverQualitySwitch(x)
  OBVIOUS
<1>6. CASE x.player.source = x.saved.url /\ hasLoadedSource(x.player)
  <2>1. y = [e EXCEPT !.saved = Nothing, !.loading = FALSE]
    BY <1>1, <1>4, <1>5, <1>6
  <2>2. Typed(y)
    BY ONLY <1>3, <2>1 DEF Typed, MusicFields
  <2>3. Recovered(x, y)
    BY ONLY <1>3, <1>6, <2>1 DEF Typed, MusicFields, Recovered
  <2> QED
    BY <1>5, <2>2, <2>3
<1>7. CASE ~(x.player.source = x.saved.url /\ hasLoadedSource(x.player))
  <2>1. PICK d : d = [call |-> "recover", owner |-> e.generation,
                      failed |-> Nothing, url |-> x.saved.url, offset |-> 0]
    OBVIOUS
  <2>2. PICK u, bs, p : u = x.saved.url /\ bs = x.saved.backups /\ p = x.saved.pos
    OBVIOUS
  <2>3. u \in Sources /\ bs \in Seq(Sources) /\ p \in Places
    BY <2>2 DEF Typed, Kept
  <2>4. d \in Calls
    BY ONLY <1>3, <2>1, <2>2, <2>3 DEF Typed, Calls, Places
  <2>5. PICK ds : ds = Append(x.deferred, d)
    OBVIOUS
  <2>6. ds \in Seq(Calls)
    BY <2>4, <2>5 DEF Typed
  <2>7. y = [e EXCEPT !.recovering = TRUE, !.pending = u, !.pendingActual = x.actual, !.observed = FALSE,
                      !.backups = bs, !.resumePos = p, !.resume = TRUE, !.loading = TRUE,
                      !.loadTimer = TRUE, !.deferred = ds]
    BY <1>1, <1>3, <1>4, <1>5, <1>7, <2>1, <2>2, <2>5
  <2>8. Typed(y) /\ y.recovering /\ y.pending = u /\ y.pendingActual = x.actual /\ ~y.observed
        /\ y.backups = bs /\ y.resumePos = p /\ y.resume /\ y.loading /\ y.loadTimer /\ y.deferred = ds
        /\ y.song = e.song /\ y.generation = e.generation /\ y.quality = e.quality
        /\ y.committed = e.committed /\ y.stopped = e.stopped /\ y.requests = e.requests /\ y.saved = e.saved
        /\ y.actual = e.actual /\ y.player = e.player /\ y.switching = e.switching /\ y.reload = e.reload
    BY ONLY Typed(x), <1>3, <2>3, <2>6, <2>7 DEF Typed, MusicFields
  <2>9. y.deferred = Append(x.deferred, [call |-> "recover", owner |-> y.generation,
                                failed |-> Nothing, url |-> x.saved.url, offset |-> 0])
    BY <2>1, <2>5, <2>8
  <2>10. Recovered(x, y)
    BY <1>3, <1>7, <2>2, <2>8, <2>9 DEF Recovered
  <2> QED
    BY <1>5, <2>8, <2>10
<1> QED
  BY <1>6, <1>7

-----------------------------------------------------------------------------
\* The load is given up, or refused: what was kept is forgotten.
Abandoned(x, y) ==
  /\ y.song = x.song /\ y.generation = x.generation /\ y.committed = x.committed
  /\ y.stopped = x.stopped /\ y.requests = x.requests /\ y.deferred = x.deferred
  /\ y.actual = x.actual /\ y.pendingActual = x.pendingActual /\ y.backups = x.backups
  /\ y.player = x.player /\ y.observed = x.observed
  /\ ~y.resume /\ ~y.loadTimer /\ ~y.loading /\ ~y.switching /\ y.saved = Nothing

\* A load that is given up waits for nothing.
LEMMA GivesUp ==
  ASSUME NEW x, Typed(x)
  PROVE  Typed(GivenUp(x)) /\ Abandoned(x, GivenUp(x)) /\ GivenUp(x).pending = Nothing /\ GivenUp(x).reload
<1>1. PICK q : q = IF x.switching THEN x.committed ELSE x.quality
  OBVIOUS
<1>2. q \in Qualities
  BY <1>1 DEF Typed
<1>3. PICK y : y = GivenUp(x)
  OBVIOUS
<1>4. y = [x EXCEPT !.resume = FALSE, !.resumeTimer = FALSE, !.loadTimer = FALSE, !.reload = TRUE,
            !.quality = q, !.switching = FALSE,
            !.saved = Nothing, !.pending = Nothing, !.recovering = FALSE, !.loading = FALSE]
  BY <1>1, <1>3 DEF GivenUp
<1>5. Typed(y)
  BY ONLY Typed(x), <1>2, <1>4 DEF Typed, MusicFields
<1>6. Abandoned(x, y) /\ y.pending = Nothing /\ y.reload
  BY ONLY Typed(x), <1>2, <1>4 DEF Typed, MusicFields, Abandoned
<1> QED
  BY <1>3, <1>5, <1>6

\* A refused answer with nothing to fall back to ends the load.
LEMMA Refuses ==
  ASSUME NEW x, Typed(x), NEW r, ~CanRecover(x)
  PROVE  Typed(Refused(x, r)) /\ Abandoned(x, Refused(x, r)) /\ Refused(x, r).pending = x.pending
         /\ Refused(x, r).recovering = x.recovering /\ Refused(x, r).reload = x.reload
<1>1. PICK q : q = IF r.preserve THEN x.committed ELSE x.quality
  OBVIOUS
<1>2. q \in Qualities
  BY <1>1 DEF Typed
<1>3. PICK y : y = Refused(x, r)
  OBVIOUS
<1>4. y = [x EXCEPT !.loading = FALSE, !.resume = FALSE, !.switching = FALSE, !.saved = Nothing,
                 !.loadTimer = FALSE, !.resumeTimer = FALSE, !.quality = q]
  BY <1>1, <1>3 DEF Refused
<1>5. Typed(y)
  BY ONLY Typed(x), <1>2, <1>4 DEF Typed, MusicFields
<1>6. Abandoned(x, y) /\ y.pending = x.pending /\ y.recovering = x.recovering /\ y.reload = x.reload
  BY ONLY Typed(x), <1>2, <1>4 DEF Typed, MusicFields, Abandoned
<1> QED
  BY <1>3, <1>5, <1>6

\* The next address of the song is tried in the next turn of the event loop.
TurnedTo(x, y) ==
  /\ SameLoad(x, y) /\ y.player = x.player /\ y.observed = x.observed /\ y.resumePos = x.resumePos
  /\ y.song = x.song /\ y.generation = x.generation /\ y.quality = x.quality
  /\ y.stopped = x.stopped /\ y.requests = x.requests
  /\ y.backups = Tail(x.backups)
  /\ y.deferred = Append(x.deferred, [call |-> "backup", owner |-> x.generation,
                                      failed |-> x.player.source, url |-> Head(x.backups),
                                      offset |-> position(x)])

\* The four outcomes of a failed source.
LEMMA Fails ==
  ASSUME NEW x, Typed(x)
  PROVE  /\ Typed(MediaFailed(x))
         /\ \/ MediaFailed(x) = x /\ (x.stopped \/ NotOfThisLoad(x))
            \/ ~x.stopped /\ ~NotOfThisLoad(x) /\ x.backups # <<>> /\ TurnedTo(x, MediaFailed(x))
            \/ ~x.stopped /\ ~NotOfThisLoad(x) /\ CanRecover(x) /\ MediaFailed(x) = recoverQualitySwitch(x)
            \/ ~x.stopped /\ ~NotOfThisLoad(x) /\ ~CanRecover(x) /\ MediaFailed(x) = GivenUp(x)
<1>1. CASE x.stopped \/ NotOfThisLoad(x)
  BY <1>1 DEF MediaFailed
<1>2. CASE ~x.stopped /\ ~NotOfThisLoad(x) /\ x.backups # <<>>
  <2>1. PICK d : d = [call |-> "backup", owner |-> x.generation, failed |-> x.player.source,
                      url |-> Head(x.backups), offset |-> position(x)]
    OBVIOUS
  <2>2. PICK h, t, p : h = Head(x.backups) /\ t = Tail(x.backups) /\ p = position(x)
    OBVIOUS
  <2>3. h \in Sources /\ t \in Seq(Sources) /\ p \in Places
    BY <1>2, <2>2 DEF Typed, Players, position
  <2>4. d \in Calls
    <3>1. x.player.source \in Sources \cup {Nothing} /\ x.generation \in Nat
      BY DEF Typed, Players
    <3> QED
      BY ONLY <2>1, <2>2, <2>3, <3>1 DEF Calls
  <2>5. PICK ds : ds = Append(x.deferred, d)
    OBVIOUS
  <2>6. ds \in Seq(Calls)
    BY <2>4, <2>5 DEF Typed
  <2>7. PICK y : y = MediaFailed(x)
    OBVIOUS
  <2>8. y = [x EXCEPT !.backups = t, !.deferred = ds]
    BY <1>2, <2>1, <2>2, <2>5, <2>7 DEF MediaFailed
  <2>9. Typed(y)
    BY ONLY Typed(x), <2>3, <2>6, <2>8 DEF Typed, MusicFields
  <2>10. /\ SameLoad(x, y) /\ y.player = x.player /\ y.observed = x.observed /\ y.resumePos = x.resumePos
         /\ y.song = x.song /\ y.generation = x.generation /\ y.quality = x.quality
         /\ y.stopped = x.stopped /\ y.requests = x.requests /\ y.backups = t /\ y.deferred = ds
    BY ONLY Typed(x), <2>3, <2>6, <2>8 DEF Typed, MusicFields, SameLoad
  <2>11. TurnedTo(x, y)
    BY <2>1, <2>2, <2>5, <2>10 DEF TurnedTo
  <2> QED
    BY <1>2, <2>7, <2>9, <2>11
<1>3. CASE ~x.stopped /\ ~NotOfThisLoad(x) /\ x.backups = <<>> /\ CanRecover(x)
  BY <1>3, Recovers DEF MediaFailed, CanRecover
<1>4. CASE ~x.stopped /\ ~NotOfThisLoad(x) /\ x.backups = <<>> /\ ~CanRecover(x)
  BY <1>4, GivesUp DEF MediaFailed
<1> QED
  BY <1>1, <1>2, <1>3, <1>4

-----------------------------------------------------------------------------
\* The backup address is put into the player, at the place where the other one failed.
Retried(x, y, d) ==
  /\ y.song = x.song /\ y.generation = x.generation /\ y.quality = x.quality
  /\ y.backups = x.backups /\ y.stopped = x.stopped /\ y.requests = x.requests /\ y.deferred = x.deferred
  /\ y.loadTimer = x.loadTimer /\ y.actual = x.actual /\ y.recovering = x.recovering
  /\ y.saved = x.saved /\ y.reload = x.reload /\ y.switching = x.switching /\ y.committed = x.committed
  /\ y.loading /\ y.resume /\ y.resumePos = d.offset /\ y.pending = d.url
  /\ y.pendingActual = IF x.pendingActual = "unknown" THEN x.actual ELSE x.pendingActual
  /\ y.player.source = d.url
  /\ y.player.status = IF d.url # x.player.source THEN "loading"
                       ELSE IF x.player.status = "ended" THEN "loaded" ELSE x.player.status
  /\ ~(OwnsLoad(y) /\ Loaded(y)) /\ ~y.player.playing
  /\ ~x.stopped /\ d.url # x.player.source => y.observed

\* The retry of a backup address starts a load of it.
LEMMA Retries ==
  ASSUME NEW x, Typed(x), NEW d, d \in Calls
  PROVE  Typed(BackupRetry(x, d)) /\ Retried(x, BackupRetry(x, d), d)
<1>1. PICK a : a = IF x.pendingActual = "unknown" THEN x.actual ELSE x.pendingActual
  OBVIOUS
<1>2. PICK u, p : u = d.url /\ p = d.offset
  OBVIOUS
<1>3. u \in Sources /\ p \in Places
  BY <1>2 DEF Calls
<1>4. a \in Delivered
  BY <1>1 DEF Typed
<1>5. PICK n : n = [x EXCEPT !.resumePos = p, !.resume = TRUE, !.loading = TRUE,
                             !.pending = u, !.observed = FALSE, !.pendingActual = a]
  OBVIOUS
<1>6. PICK y : y = BackupRetry(x, d)
  OBVIOUS
<1>7. y = Start(n, u)
  BY <1>1, <1>2, <1>5, <1>6 DEF BackupRetry
<1>8. Typed(n)
  BY ONLY Typed(x), <1>3, <1>4, <1>5 DEF Typed, MusicFields
<1>9. /\ n.song = x.song /\ n.generation = x.generation /\ n.quality = x.quality
      /\ n.backups = x.backups /\ n.stopped = x.stopped /\ n.requests = x.requests /\ n.deferred = x.deferred
      /\ n.loadTimer = x.loadTimer /\ n.actual = x.actual /\ n.recovering = x.recovering
      /\ n.saved = x.saved /\ n.reload = x.reload /\ n.switching = x.switching /\ n.committed = x.committed
      /\ n.loading /\ n.resume /\ n.resumePos = p /\ n.pending = u /\ n.pendingActual = a
      /\ ~n.observed /\ n.player = x.player
  BY ONLY Typed(x), <1>3, <1>4, <1>5 DEF Typed, MusicFields
<1>10. Typed(y) /\ Opened(n, y, u) /\ ~(OwnsLoad(y) /\ Loaded(y))
  BY <1>3, <1>7, <1>8, <1>9, Starts DEF NotStale, Arrives
<1>11. u # Nothing
  BY <1>3, SongAssumption
<1>12. Retried(x, y, d)
  BY <1>1, <1>2, <1>9, <1>10, <1>11 DEF Retried, Opened, SameUser, SameLoad
<1> QED
  BY <1>6, <1>10, <1>12

\* The kept source is put into the player again.
LEMMA Reloads ==
  ASSUME NEW x, Typed(x), NEW d, d \in Calls, NotStale(x, d.url),
         x.player.source = Nothing => x.player.status = "none"
  PROVE  /\ Typed(Reloaded(x, d)) /\ SameUser(x, Reloaded(x, d)) /\ SameLoad(x, Reloaded(x, d))
         /\ Reloaded(x, d).player.source = d.url /\ Reloaded(x, d).player.status = "loading"
<1>1. PICK y : y = Reloaded(x, d)
  OBVIOUS
<1>2. d.url \in Sources /\ d.url # Nothing
  BY SongAssumption DEF Calls
<1>3. CASE x.player.source = d.url
  <2>1. PICK n : n = setSource(x, Nothing)
    OBVIOUS
  <2>2. Typed(n) /\ Opened(x, n, Nothing)
    BY <2>1, Opens DEF NotStale
  <2>3. SameUser(x, n) /\ SameLoad(x, n) /\ n.player.source = Nothing /\ n.player.status = "none"
    BY <1>2, <1>3, <2>2 DEF Opened
  <2>4. y = Start(n, d.url)
    BY <1>1, <1>3, <2>1 DEF Reloaded
  <2>5. Typed(y) /\ Opened(n, y, d.url)
    BY <1>2, <2>2, <2>3, <2>4, Starts DEF NotStale, Arrives
  <2> QED
    BY <1>1, <1>2, <2>3, <2>5 DEF Opened, SameUser, SameLoad
<1>4. CASE x.player.source # d.url
  <2>1. y = Start(x, d.url)
    BY <1>1, <1>4 DEF Reloaded
  <2>2. Typed(y) /\ Opened(x, y, d.url)
    BY <1>2, <1>4, <2>1, Starts DEF Arrives
  <2> QED
    BY <1>1, <1>2, <1>4, <2>2 DEF Opened
<1> QED
  BY <1>3, <1>4

-----------------------------------------------------------------------------
\* An address has arrived: what is to be loaded, and where it goes on.
Aimed(x, n, r, reply) ==
  /\ n.song = x.song /\ n.generation = x.generation /\ n.quality = x.quality /\ n.stopped = x.stopped
  /\ n.requests = x.requests /\ n.deferred = x.deferred /\ n.loading = x.loading
  /\ n.loadTimer = x.loadTimer /\ n.actual = x.actual /\ n.recovering = x.recovering
  /\ n.reload = x.reload /\ n.switching = x.switching /\ n.committed = x.committed
  /\ n.player.source = x.player.source /\ n.player.status = x.player.status
  /\ n.player.decoded = x.player.decoded
  /\ n.pendingActual = reply.quality /\ n.resume /\ n.pending = Main(r.song, reply.quality)
  /\ n.backups = IF reply.backup THEN <<Backup(r.song, reply.quality)>> ELSE <<>>
  /\ n.observed => n.player.source = n.pending
  /\ n.saved = Nothing <=> x.saved = Nothing
  /\ x.saved # Nothing => /\ n.saved.url = x.saved.url /\ n.saved.backups = x.saved.backups
                          /\ r.preserve => n.saved.pos = IF x.player.source = x.saved.url
                                                         THEN x.player.pos ELSE x.saved.pos
  /\ r.preserve => n.resumePos = IF x.saved # Nothing THEN n.saved.pos ELSE x.player.pos

Accepts(n, y) ==
  /\ y.player.source = n.pending
  /\ \/ Settles(n, y) /\ n.player.source = n.pending /\ n.player.status \in {"loaded", "ended"}
     \/ /\ SameUser(n, y) /\ SameLoad(n, y) /\ ~(OwnsLoad(y) /\ Loaded(y))
        /\ ~y.player.playing /\ (~n.stopped => y.observed)

\* An accepted answer aims at its source, and then starts it.
LEMMA Aims ==
  ASSUME NEW x, Typed(x), NEW r, r \in Requests, NEW reply, reply \in Replies
  PROVE  \E n : Typed(n) /\ Aimed(x, n, r, reply) /\ Typed(Accepted(x, r, reply)) /\ Accepts(n, Accepted(x, r, reply))
<1> DEFINE url  == Main(r.song, reply.quality)
           same == x.player.source = url
           seen == same /\ (\/ x.saved # Nothing /\ x.saved.url = url
                            \/ x.player.status = "loading")
           next == [Resumed(x, r) EXCEPT
                 !.pendingActual = reply.quality, !.resume = TRUE, !.pending = url,
                 !.backups = IF reply.backup THEN <<Backup(r.song, reply.quality)>> ELSE <<>>,
                 !.observed = seen]
<1>1. Accepted(x, r, reply) = Start(IF same /\ ~seen THEN setSource(next, Nothing) ELSE next, url)
  BY DEF Accepted
<1>2. PICK u, a : u = url /\ a = reply.quality
  OBVIOUS
<1>3. u \in Sources /\ u # Nothing /\ a \in Delivered
  BY <1>2, SongAssumption DEF Main, Sources, Delivered, Requests, Replies
<1>4. PICK bs : bs = IF reply.backup THEN <<Backup(r.song, reply.quality)>> ELSE <<>>
  OBVIOUS
<1>5. bs \in Seq(Sources)
  <2>1. Backup(r.song, reply.quality) \in Sources
    BY DEF Backup, Sources, Requests, Replies
  <2> QED
    BY <1>4, <2>1
<1>6. PICK m : m = Resumed(x, r)
  OBVIOUS
<1>7. /\ Typed(m) /\ m.song = x.song /\ m.generation = x.generation /\ m.quality = x.quality /\ m.stopped = x.stopped
      /\ m.requests = x.requests /\ m.deferred = x.deferred /\ m.loading = x.loading
      /\ m.loadTimer = x.loadTimer /\ m.actual = x.actual /\ m.recovering = x.recovering
      /\ m.reload = x.reload /\ m.switching = x.switching /\ m.committed = x.committed
      /\ m.player.source = x.player.source /\ m.player.status = x.player.status
      /\ m.player.decoded = x.player.decoded
      /\ m.saved = Nothing <=> x.saved = Nothing
      /\ x.saved # Nothing => /\ m.saved.url = x.saved.url /\ m.saved.backups = x.saved.backups
                              /\ r.preserve => m.saved.pos = IF x.player.source = x.saved.url
                                                             THEN x.player.pos ELSE x.saved.pos
      /\ r.preserve => m.resumePos = IF x.saved # Nothing THEN m.saved.pos ELSE x.player.pos
  <2>1. CASE ~r.preserve
    <3>1. m = x
      BY <1>6, <2>1 DEF Resumed
    <3> QED
      BY <2>1, <3>1
  <2>2. CASE r.preserve
    <3> DEFINE moved == x.saved # Nothing /\ x.player.source = x.saved.url
               now   == IF moved THEN [x EXCEPT !.saved = [@ EXCEPT !.pos = x.player.pos]] ELSE x
    <3>1. PICK k : k = IF moved THEN [x.saved EXCEPT !.pos = x.player.pos] ELSE x.saved
      OBVIOUS
    <3>2. /\ k \in Kept \cup {Nothing} /\ (k = Nothing <=> x.saved = Nothing)
          /\ x.saved # Nothing => /\ k \in Kept /\ k.url = x.saved.url /\ k.backups = x.saved.backups
                                  /\ k.pos = IF x.player.source = x.saved.url THEN x.player.pos ELSE x.saved.pos
      <4>1. x.player.pos \in Places
        BY DEF Typed, Players
      <4>2. CASE moved
        <5>1. x.saved \in Kept /\ k = [x.saved EXCEPT !.pos = x.player.pos]
          BY <3>1, <4>2 DEF Typed
        <5>2. k \in Kept /\ k.url = x.saved.url /\ k.backups = x.saved.backups /\ k.pos = x.player.pos
          BY ONLY <4>1, <5>1 DEF Kept
        <5>3. k # Nothing /\ x.saved # Nothing /\ x.player.source = x.saved.url
          BY <4>2, <5>2, SongAssumption
        <5> QED
          BY <5>2, <5>3
      <4>3. CASE ~moved
        BY <3>1, <4>3 DEF Typed
      <4> QED
        BY <4>2, <4>3
    <3>3. PICK v : v = now
      OBVIOUS
    <3>4. Typed(v) /\ v.saved = k /\ SameUser(x, v) /\ v.loading = x.loading /\ v.loadTimer = x.loadTimer
          /\ v.actual = x.actual /\ v.recovering = x.recovering /\ v.reload = x.reload
          /\ v.switching = x.switching /\ v.committed = x.committed /\ v.player = x.player
      <4>1. CASE moved
        <5>1. v = [x EXCEPT !.saved = k]
          BY <3>1, <3>3, <4>1
        <5> QED
          BY ONLY Typed(x), <3>2, <5>1 DEF Typed, MusicFields, SameUser
      <4>2. CASE ~moved
        <5>1. v = x /\ k = x.saved
          BY <3>1, <3>3, <4>2
        <5> QED
          BY <5>1 DEF SameUser
      <4> QED
        BY <4>1, <4>2
    <3>5. now = v
      BY <3>3
    <3> HIDE DEF now, moved
    <3>6. PICK p : p = IF v.saved # Nothing THEN v.saved.pos ELSE x.player.pos
      OBVIOUS
    <3>7. p \in Places
      BY <3>2, <3>4, <3>6 DEF Typed, Players, Kept
    <3>8. PICK q : q = Paused(v.player)
      OBVIOUS
    <3>9. q \in Players /\ q.source = x.player.source /\ q.status = x.player.status /\ q.decoded = x.player.decoded
      BY <3>4, <3>8 DEF Typed, Players, Paused
    <3>10. m = [v EXCEPT !.player = q, !.resumePos = p]
      <4>1. m = [now EXCEPT !.player = Paused(@), !.resumePos = IF now.saved # Nothing THEN now.saved.pos ELSE x.player.pos]
        BY <1>6, <2>2 DEF Resumed, now, moved
      <4> QED
        BY <3>5, <3>6, <3>8, <4>1
    <3>11. /\ Typed(m) /\ m.player = q /\ m.resumePos = p /\ m.saved = v.saved
           /\ m.song = v.song /\ m.generation = v.generation /\ m.quality = v.quality /\ m.stopped = v.stopped
           /\ m.requests = v.requests /\ m.deferred = v.deferred /\ m.loading = v.loading
           /\ m.loadTimer = v.loadTimer /\ m.actual = v.actual /\ m.recovering = v.recovering
           /\ m.reload = v.reload /\ m.switching = v.switching /\ m.committed = v.committed
      BY ONLY <3>4, <3>7, <3>9, <3>10 DEF Typed, MusicFields
    <3> QED
      BY ONLY <3>2, <3>4, <3>6, <3>9, <3>11 DEF SameUser
  <2> QED
    BY <2>1, <2>2
<1>8. PICK b : b \in BOOLEAN /\ (b <=> seen) /\ next = [m EXCEPT !.pendingActual = a, !.resume = TRUE,
                 !.pending = u, !.backups = bs, !.observed = b]
  <2>1. CASE seen
    <3>1. next = [m EXCEPT !.pendingActual = a, !.resume = TRUE, !.pending = u, !.backups = bs, !.observed = TRUE]
      BY <1>2, <1>4, <1>6, <2>1
    <3> QED
      BY <2>1, <3>1
  <2>2. CASE ~seen
    <3>1. next = [m EXCEPT !.pendingActual = a, !.resume = TRUE, !.pending = u, !.backups = bs, !.observed = FALSE]
      BY <1>2, <1>4, <1>6, <2>2
    <3> QED
      BY <2>2, <3>1
  <2> QED
    BY <2>1, <2>2
<1>9. PICK n : n = next
  OBVIOUS
<1>10. /\ Typed(n) /\ n.song = m.song /\ n.generation = m.generation /\ n.quality = m.quality
       /\ n.stopped = m.stopped /\ n.requests = m.requests /\ n.deferred = m.deferred /\ n.loading = m.loading
       /\ n.loadTimer = m.loadTimer /\ n.actual = m.actual /\ n.recovering = m.recovering
       /\ n.reload = m.reload /\ n.switching = m.switching /\ n.committed = m.committed
       /\ n.player = m.player /\ n.saved = m.saved /\ n.resumePos = m.resumePos
       /\ n.pendingActual = a /\ n.resume /\ n.pending = u /\ n.backups = bs /\ n.observed = b
  <2>1. n = [m EXCEPT !.pendingActual = a, !.resume = TRUE, !.pending = u, !.backups = bs, !.observed = b]
    BY <1>8, <1>9
  <2>2. Typed(m) /\ a \in Delivered /\ u \in Sources /\ bs \in Seq(Sources) /\ b \in BOOLEAN
    BY <1>3, <1>5, <1>7, <1>8
  <2> QED
    BY ONLY <2>1, <2>2 DEF Typed, MusicFields
<1>11. n.observed => n.player.source = u
  BY <1>2, <1>7, <1>8, <1>10
<1>12. Aimed(x, n, r, reply)
  BY ONLY <1>2, <1>4, <1>7, <1>10, <1>11 DEF Aimed
<1>13. PICK y : y = Accepted(x, r, reply)
  OBVIOUS
<1>14. y = Start(IF same /\ ~seen THEN setSource(n, Nothing) ELSE n, u)
  <2> HIDE DEF next, seen, same
  <2> QED
    BY <1>1, <1>2, <1>9, <1>13
<1>15. CASE same /\ ~seen
  <2>1. PICK o : o = setSource(n, Nothing)
    OBVIOUS
  <2>2. Typed(o) /\ Opened(n, o, Nothing)
    BY <1>3, <1>10, <2>1, Opens DEF NotStale
  <2>3. o.player.source = Nothing /\ SameUser(n, o) /\ SameLoad(n, o) /\ ~o.observed
    <3>1. ~n.observed /\ n.player.source = u
      BY <1>2, <1>7, <1>8, <1>10, <1>15
    <3>2. o.observed <=> (n.observed \/ (~n.stopped /\ n.pending # Nothing /\ Nothing = n.pending))
      BY ONLY <1>3, <2>2, <3>1 DEF Opened
    <3>3. ~o.observed
      BY ONLY <1>3, <1>10, <3>1, <3>2
    <3> QED
      BY ONLY <2>2, <3>3 DEF Opened
  <2>4. y = Start(o, u)
    BY <1>14, <1>15, <2>1
  <2>5. Typed(y) /\ Opened(o, y, u) /\ ~(OwnsLoad(y) /\ Loaded(y))
    BY <1>3, <2>2, <2>3, <2>4, Starts DEF NotStale, Arrives
  <2>6. Accepts(n, y)
    BY <1>3, <1>10, <2>3, <2>5 DEF Accepts, Opened, SameUser, SameLoad
  <2> QED
    BY <1>10, <1>12, <1>13, <2>5, <2>6
<1>16. CASE ~(same /\ ~seen)
  <2>1. y = Start(n, u)
    BY <1>14, <1>16
  <2>2. NotStale(n, u)
    BY <1>8, <1>10, <1>11 DEF NotStale
  <2>3. /\ Typed(y)
        /\ \/ Arrives(n, y, u)
           \/ Opened(n, y, u) /\ ~(OwnsLoad(y) /\ Loaded(y))
    BY <1>3, <1>10, <2>1, <2>2, Starts
  <2>4. n.player.source = u => n.observed
    BY <1>2, <1>7, <1>8, <1>10, <1>16
  <2>5. Accepts(n, y)
    BY <1>3, <1>10, <2>3, <2>4 DEF Accepts, Arrives, Opened, Settles
  <2> QED
    BY <1>10, <1>12, <1>13, <2>3, <2>5
<1> QED
  BY <1>15, <1>16

\* The calls after the k-th of a list that this generation still wants.
Due(x, ds, k, i) == i \in DOMAIN ds /\ i > k /\ ds[i].owner = x.generation
DueTo(x, ds, k, i, what) == Due(x, ds, k, i) /\ ds[i].call = what
Awaited(x, r) == r \in x.requests /\ r.generation = x.generation

\* Whatever is there, on its way or kept belongs to the selected song.
Bounds(x, ds) ==
  /\ x.player.source = Nothing => x.player.status = "none"
  /\ \A r \in x.requests : r.generation <= x.generation
  /\ \A i \in DOMAIN ds : ds[i].owner <= x.generation
Selected(x, ds, k) ==
  /\ x.song = Nothing => x.player.source = Nothing /\ x.pending = Nothing /\ x.saved = Nothing
  /\ x.player.source # Nothing => x.player.source.song = x.song
  /\ x.pending # Nothing => x.pending.song = x.song
  /\ x.saved # Nothing => /\ x.saved.url.song = x.song
                          /\ \A i \in DOMAIN x.saved.backups : x.saved.backups[i].song = x.song
  /\ x.song # Nothing => \A i \in DOMAIN x.backups : x.backups[i].song = x.song
  /\ \A r : Awaited(x, r) => r.song = x.song
  /\ \A i : Due(x, ds, k, i) => ds[i].url.song = x.song

\* What a request, a pending source and a deferred call say about the load.
Loads(x, ds, k) ==
  /\ \A r : Awaited(x, r) => x.loading /\ x.pending = Nothing /\ ~x.recovering
  /\ \A r, s : Awaited(x, r) /\ Awaited(x, s) => r = s
  /\ x.observed /\ x.pending # Nothing => x.player.source = x.pending
  /\ \A i : DueTo(x, ds, k, i, "backup") => \A r : ~Awaited(x, r)
  /\ \A i : DueTo(x, ds, k, i, "recover") /\ x.recovering => x.pending = ds[i].url
  /\ \A i, j : DueTo(x, ds, k, i, "recover") /\ DueTo(x, ds, k, j, "backup") => i < j

\* What may be committed, and how a switch ends.
Fits(x, url) == url.quality = x.quality \/ x.quality = x.committed
Describes(x, url) == x.pendingActual \in {"unknown", x.actual, url.quality}
Tells(x, ds, k) ==
  /\ x.pending # Nothing => Describes(x, x.pending)
  /\ x.song # Nothing => \A i \in DOMAIN x.backups : Describes(x, x.backups[i])
  /\ \A i : DueTo(x, ds, k, i, "backup") => Describes(x, ds[i].url)
Falls(x, ds, k) ==
  /\ x.saved # Nothing => (x.loading \/ x.stopped) /\ (x.switching \/ x.recovering)
  /\ x.saved # Nothing => \A r : Awaited(x, r) => r.preserve
  /\ x.saved # Nothing /\ x.pending # Nothing => Fits(x, x.pending)
  /\ x.saved # Nothing /\ ~x.stopped /\ (\A r : ~Awaited(x, r)) =>
       \A i \in DOMAIN x.backups : Fits(x, x.backups[i])
  /\ x.saved # Nothing /\ ~x.stopped =>
       \A i : DueTo(x, ds, k, i, "backup") => Fits(x, ds[i].url)

Rest(x, ds, k) ==
  Typed(x) /\ Bounds(x, ds) /\ Selected(x, ds, k) /\ Loads(x, ds, k) /\ Tells(x, ds, k) /\ Falls(x, ds, k)
Holds(x) == Rest(x, x.deferred, 0)

\* Nothing goes on after a close, until the user asks for it.
AtClose(x, c) ==
  /\ c \subseteq Nat /\ \A g \in c : g <= x.generation
  /\ x.generation \in c => /\ x.stopped /\ ~x.loading /\ ~x.loadTimer /\ ~x.resume
                           /\ \A r : ~Awaited(x, r)

\* What a step may not do.
Times(x, y) == x.loading /\ x.loadTimer /\ y.loading => y.loadTimer
Keeps(x, y, c) == x.generation \in c /\ y.generation = x.generation =>
                    y.player.source = x.player.source /\ y.song = x.song
Commits(x, y) ==
  /\ y.actual \notin {x.actual, "unknown"} =>
       /\ hasLoadedSource(y.player) /\ y.player.source.song = y.song
       /\ y.actual = y.player.source.quality
  /\ y.committed # x.committed /\ x.song \notin LocalSongs \cup {Nothing} =>
       /\ hasLoadedSource(y.player) /\ y.player.source.song = y.song
       /\ x.saved # Nothing => y.committed = y.player.source.quality
Ends(x, y) ==
  x.saved # Nothing /\ ~y.loading /\ ~y.stopped /\ y.player.source # Nothing
    => \/ hasLoadedSource(y.player)
       \/ y.reload /\ (x.recovering \/ x.reload)
Step(x, y, c) == Times(x, y) /\ Keeps(x, y, c) /\ Commits(x, y) /\ Ends(x, y)

-----------------------------------------------------------------------------
\* Only the player moves, or where it is to go on.
Turned(x, y) ==
  /\ y.song = x.song /\ y.generation = x.generation /\ y.quality = x.quality
  /\ y.backups = x.backups /\ y.stopped = x.stopped
  /\ y.requests = x.requests /\ y.deferred = x.deferred
  /\ SameLoad(x, y) /\ y.observed = x.observed /\ y.player.source = x.player.source
  /\ y.player.status = "none" <=> x.player.status = "none"

\* A step of the player or of the user that leaves the load alone is harmless.
LEMMA TurnHolds ==
  ASSUME NEW x, NEW y, NEW c, Holds(x), AtClose(x, c), Turned(x, y), Typed(y)
  PROVE  Holds(y) /\ AtClose(y, c)
<1>1. Bounds(y, y.deferred)
  BY DEF Holds, Rest, Bounds, Turned, SameLoad
<1>2. Selected(y, y.deferred, 0)
  BY DEF Holds, Rest, Selected, Turned, SameLoad, Awaited, Due
<1>3. Loads(y, y.deferred, 0)
  BY DEF Holds, Rest, Loads, Turned, SameLoad, Awaited, Due, DueTo
<1>4. Falls(y, y.deferred, 0)
  BY DEF Holds, Rest, Falls, Turned, SameLoad, Awaited, Due, DueTo, Fits
<1>6. Tells(y, y.deferred, 0)
  BY DEF Holds, Rest, Tells, Turned, SameLoad, Due, DueTo, Describes
<1>5. AtClose(y, c)
  BY DEF AtClose, Turned, SameLoad, Awaited
<1> QED
  BY <1>1, <1>2, <1>3, <1>4, <1>5, <1>6 DEF Holds, Rest

\* Such a step does nothing a step may not do.
LEMMA TurnSteps ==
  ASSUME NEW x, NEW y, NEW c, Holds(x), Turned(x, y)
  PROVE  Times(x, y) /\ Keeps(x, y, c) /\ Commits(x, y) /\ Ends(x, y)
BY DEF Holds, Rest, Falls, Turned, SameLoad, Times, Keeps, Commits, Ends

\* What a step may not do is judged from before the player moved.
LEMMA StepFrom ==
  ASSUME NEW x, NEW z, NEW y, NEW c, Turned(x, z), Step(z, y, c)
  PROVE  Step(x, y, c)
BY DEF Step, Times, Keeps, Commits, Ends, Turned, SameLoad

-----------------------------------------------------------------------------
\* The load that settles is the one of the selection, at its quality.
LEMMA SettleHolds ==
  ASSUME NEW x, NEW y, NEW c, Holds(x), AtClose(x, c), Typed(y), OwnsLoad(x), Loaded(x), Settles(x, y)
  PROVE  Holds(y) /\ AtClose(y, c) /\ Step(x, y, c)
<1>1. Bounds(y, y.deferred)
  BY DEF Holds, Rest, Bounds, Settles, SameUser, OwnsLoad
<1>2. Selected(y, y.deferred, 0)
  BY DEF Holds, Rest, Selected, Settles, SameUser, Awaited, Due, OwnsLoad
<1>3. Loads(y, y.deferred, 0)
  BY DEF Holds, Rest, Loads, Settles, SameUser, Awaited, Due, DueTo, OwnsLoad
<1>4. Falls(y, y.deferred, 0)
  BY DEF Falls, Settles
<1>8. Tells(y, y.deferred, 0)
  BY DEF Tells, Settles, Describes
<1>5. AtClose(y, c)
  BY DEF AtClose, Settles, SameUser, Awaited
<1>6. Times(x, y) /\ Keeps(x, y, c) /\ Ends(x, y)
  BY DEF Times, Keeps, Settles, SameUser, AtClose, OwnsLoad, Ends, hasLoadedSource
<1>7. Commits(x, y)
  BY DEF Commits, Settles, SameUser, OwnsLoad, hasLoadedSource, Holds, Rest, Selected, Tells, Falls, Describes, Fits
<1> QED
  BY <1>1, <1>2, <1>3, <1>4, <1>5, <1>6, <1>7, <1>8 DEF Holds, Rest, Step

-----------------------------------------------------------------------------
\* Owners and generations are numbers.
LEMMA Numbered ==
  ASSUME NEW x, Typed(x)
  PROVE  /\ x.generation \in Nat
         /\ \A i \in DOMAIN x.deferred : x.deferred[i].owner \in Nat /\ x.deferred[i].url \in Sources
         /\ \A r \in x.requests : r.generation \in Nat /\ r.song \in Songs
<1>1. \A i \in DOMAIN x.deferred : x.deferred[i] \in Calls
  BY DEF Typed
<1>2. \A r \in x.requests : r \in Requests
  BY DEF Typed
<1> QED
  BY <1>1, <1>2 DEF Calls, Requests, Typed

\* A new generation waits for nothing older than itself.
LEMMA NewGeneration ==
  ASSUME NEW x, Typed(x), Bounds(x, x.deferred), NEW g, g = x.generation + 1
  PROVE  /\ \A i \in DOMAIN x.deferred : x.deferred[i].owner # g /\ x.deferred[i].owner <= g
         /\ \A r \in x.requests : r.generation # g /\ r.generation <= g
<1>1. PICK n : n = x.generation /\ n \in Nat /\ g = n + 1
  BY Numbered
<1>2. ASSUME NEW m, m \in Nat, m <= n
      PROVE  m # g /\ m <= g
  BY ONLY <1>1, <1>2
<1> QED
  BY <1>1, <1>2, Numbered DEF Bounds

\* A load that begins anew owns everything there is of its generation.
LEMMA AnewHolds ==
  ASSUME NEW x, NEW y, NEW c, Typed(x), Bounds(x, x.deferred), x.song \in Songs, Typed(y), Anew(x, y),
         c \subseteq Nat, \A g \in c : g <= x.generation
  PROVE  Holds(y) /\ AtClose(y, c) /\ y.generation \notin c
<1>1. x.generation \in Nat /\ y.generation = x.generation + 1 /\ x.song # Nothing /\ y.song = x.song
  BY SongAssumption DEF Typed, Anew
<1>9. /\ y.pending # Nothing => y.pending.song = y.song /\ y.pendingActual = "local" /\ y.pending.quality = "local"
                                /\ y.player.source = y.pending
      /\ y.player.source # Nothing => y.player.source.song = y.song
      /\ y.player.source = Nothing => y.player.status = "none"
      /\ y.saved = Nothing /\ y.backups = <<>> /\ ~y.recovering /\ y.stopped = x.stopped
  <2>1. PICK u : u = Main(x.song, "local")
    OBVIOUS
  <2>2. u.song = x.song /\ u.quality = "local" /\ u # Nothing
    BY <2>1, SongAssumption DEF Main, Sources
  <2>3. \/ y.pending = Nothing /\ y.player.source = Nothing /\ y.player.status = "none"
        \/ y.pending = u /\ y.pendingActual = "local" /\ y.player.source = u
    BY <2>1 DEF Anew
  <2> QED
    BY <1>1, <2>2, <2>3 DEF Anew
<1>2. \A i : ~Due(y, y.deferred, 0, i)
  BY <1>1, NewGeneration DEF Anew, Due
<1>3. \A r : Awaited(y, r) => /\ y.loading /\ y.pending = Nothing
                             /\ r = [generation |-> y.generation, song |-> y.song,
                                     quality |-> y.quality, preserve |-> FALSE]
  BY <1>1, NewGeneration DEF Anew, Awaited, Asks
<1>4. Bounds(y, y.deferred)
  <2>1. y.player.source = Nothing => y.player.status = "none"
    BY <1>9
  <2>2. \A i \in DOMAIN y.deferred : y.deferred[i].owner <= y.generation
    BY <1>1, NewGeneration DEF Anew
  <2>3. y.generation <= y.generation
    BY <1>1
  <2>4. \A r \in y.requests : r.generation <= y.generation
    BY <1>1, <2>3, NewGeneration DEF Anew, Asks
  <2> QED
    BY <2>1, <2>2, <2>4 DEF Bounds
<1>5. Selected(y, y.deferred, 0)
  BY <1>1, <1>2, <1>3, <1>9 DEF Selected
<1>6. Loads(y, y.deferred, 0)
  <2>1. \A i, what : ~DueTo(y, y.deferred, 0, i, what)
    BY <1>2 DEF DueTo
  <2>2. \A r, s : Awaited(y, r) /\ Awaited(y, s) => r = s
    <3>1. PICK q : q = [generation |-> y.generation, song |-> y.song,
                        quality |-> y.quality, preserve |-> FALSE]
      OBVIOUS
    <3>2. \A r : Awaited(y, r) => r = q
      BY <1>3, <3>1
    <3> QED
      BY ONLY <3>2
  <2>3. \A r : Awaited(y, r) => y.loading /\ y.pending = Nothing
    BY <1>3
  <2> QED
    BY <1>9, <2>1, <2>2, <2>3 DEF Loads
<1>7. Falls(y, y.deferred, 0) /\ Tells(y, y.deferred, 0)
  BY <1>2, <1>9 DEF Falls, Tells, DueTo, Describes
<1>8. y.generation \notin c /\ AtClose(y, c)
  <2>1. PICK n : n = x.generation /\ n \in Nat /\ y.generation = n + 1
    BY <1>1
  <2>2. ASSUME NEW g, g \in c
        PROVE  g <= y.generation /\ g # y.generation
    BY ONLY <2>1, <2>2, c \subseteq Nat, \A e \in c : e <= x.generation
  <2> QED
    BY <2>2 DEF AtClose
<1> QED
  BY <1>4, <1>5, <1>6, <1>7, <1>8 DEF Holds, Rest

\* A load that begins anew commits nothing.
LEMMA AnewSteps ==
  ASSUME NEW x, NEW z, NEW y, NEW c, Anew(z, y), Typed(z), z.generation = x.generation, z.committed = x.committed
  PROVE  Step(x, y, c)
<1>1. y.generation # x.generation /\ y.committed = x.committed /\ y.actual = "unknown"
  BY DEF Anew, Typed
<1>2. /\ y.loading => y.loadTimer
      /\ y.loading \/ y.player.source = Nothing
  BY DEF Anew
<1> QED
  BY <1>1, <1>2 DEF Step, Times, Keeps, Commits, Ends

-----------------------------------------------------------------------------
\* A later generation is not a closed one.
LEMMA Later ==
  ASSUME NEW x, NEW c, Typed(x), AtClose(x, c), NEW y, y.generation = x.generation + 1
  PROVE  AtClose(y, c) /\ y.generation \notin c /\ y.generation # x.generation
<1>1. PICK n : n = x.generation /\ n \in Nat /\ y.generation = n + 1
  BY Numbered
<1>2. ASSUME NEW g, g \in c
      PROVE  g <= y.generation /\ g # y.generation
  BY ONLY <1>1, <1>2, AtClose(x, c) DEF AtClose
<1>3. y.generation # x.generation
  BY ONLY <1>1
<1> QED
  BY <1>2, <1>3 DEF AtClose

\* A switch keeps a source of the selected song.
LEMMA SwitchHolds ==
  ASSUME NEW x, NEW y, NEW pos, Typed(x), Bounds(x, x.deferred), Selected(x, x.deferred, 0),
         x.song \in Songs, Typed(y), Switched(x, y, pos)
  PROVE  Holds(y)
<1>1. y.generation = x.generation + 1 /\ y.song = x.song /\ y.song # Nothing
  BY SongAssumption DEF Switched
<1>2. \A i, what : ~Due(y, y.deferred, 0, i) /\ ~DueTo(y, y.deferred, 0, i, what)
  BY <1>1, NewGeneration DEF Switched, Due, DueTo
<1>3. PICK q : q = [generation |-> y.generation, song |-> y.song, quality |-> y.quality, preserve |-> TRUE]
  OBVIOUS
<1>4. q.song = y.song /\ q.preserve
  BY <1>3
<1>5. \A r : Awaited(y, r) => r = q
  BY <1>1, <1>3, NewGeneration DEF Switched, Awaited, Asks
<1>6. Bounds(y, y.deferred)
  <2>1. y.player.source = Nothing => y.player.status = "none"
    BY DEF Bounds, Switched
  <2>2. \A i \in DOMAIN y.deferred : y.deferred[i].owner <= y.generation
    BY <1>1, NewGeneration DEF Switched
  <2>3. y.generation <= y.generation
    BY Numbered
  <2>4. \A r \in y.requests : r.generation <= y.generation
    BY <1>1, <2>3, NewGeneration DEF Switched, Asks
  <2> QED
    BY <2>1, <2>2, <2>4 DEF Bounds
<1>7. y.saved # Nothing => /\ y.saved.url.song = y.song
                          /\ \A i \in DOMAIN y.saved.backups : y.saved.backups[i].song = y.song
  <2>1. CASE x.saved = Nothing /\ CanKeep(x)
    BY <1>1, <2>1 DEF Switched, Selected, CanKeep, hasLoadedSource, Keep
  <2>2. CASE ~(x.saved = Nothing /\ CanKeep(x))
    BY <1>1, <2>2 DEF Switched, Selected
  <2> QED
    BY <2>1, <2>2
<1>8. Selected(y, y.deferred, 0)
  BY <1>1, <1>2, <1>4, <1>5, <1>7 DEF Switched, Selected
<1>9. Loads(y, y.deferred, 0)
  BY <1>2, <1>5 DEF Switched, Loads
<1>10. Tells(y, y.deferred, 0)
  BY <1>2 DEF Switched, Tells, Describes
<1>11. Falls(y, y.deferred, 0)
  <2>1. Awaited(y, q)
    BY <1>3 DEF Switched, Asks, Awaited
  <2> QED
    BY <1>2, <1>4, <1>5, <2>1 DEF Switched, Falls
<1> QED
  BY <1>6, <1>8, <1>9, <1>10, <1>11 DEF Holds, Rest

\* The recovery of a switch is a load of the selected song.
LEMMA RecoverHolds ==
  ASSUME NEW x, NEW y, Typed(x), Bounds(x, x.deferred), Selected(x, x.deferred, 0),
         Tells(x, x.deferred, 0), x.saved # Nothing, Typed(y), Recovered(x, y)
  PROVE  Holds(y)
<1>1. y.generation = x.generation + 1 /\ y.song = x.song /\ y.song # Nothing /\ y.player = x.player
      /\ y.quality = y.committed /\ y.actual = x.actual /\ y.requests = x.requests
  BY SongAssumption DEF Recovered, Selected
<1>2. \A r : ~Awaited(y, r)
  BY <1>1, NewGeneration DEF Awaited
<1>3. CASE y.deferred = x.deferred /\ y.saved = Nothing /\ y.pending = Nothing /\ ~y.loading
           /\ y.backups = x.backups /\ y.pendingActual = x.pendingActual
  <2>1. \A i, what : ~Due(y, y.deferred, 0, i) /\ ~DueTo(y, y.deferred, 0, i, what)
    BY <1>1, <1>3, NewGeneration DEF Due, DueTo
  <2>2. Bounds(y, y.deferred)
    BY <1>1, <1>3, NewGeneration DEF Bounds
  <2>3. Selected(y, y.deferred, 0)
    BY <1>1, <1>2, <1>3, <2>1 DEF Selected
  <2>4. Loads(y, y.deferred, 0) /\ Falls(y, y.deferred, 0)
    BY <1>2, <1>3, <2>1 DEF Loads, Falls
  <2>5. Tells(y, y.deferred, 0)
    BY <1>1, <1>3, <2>1 DEF Tells, Describes
  <2> QED
    BY <2>2, <2>3, <2>4, <2>5 DEF Holds, Rest
<1>4. CASE /\ y.saved = x.saved /\ y.pending = x.saved.url /\ y.loading /\ y.recovering /\ ~y.observed
           /\ y.backups = x.saved.backups /\ y.pendingActual = x.actual
           /\ y.deferred = Append(x.deferred, [call |-> "recover", owner |-> y.generation,
                                failed |-> Nothing, url |-> x.saved.url, offset |-> 0])
  <2>1. PICK d : d = [call |-> "recover", owner |-> y.generation,
                      failed |-> Nothing, url |-> x.saved.url, offset |-> 0]
    OBVIOUS
  <2>2. PICK n : n = Len(x.deferred) + 1
    OBVIOUS
  <2>3. /\ d.call = "recover" /\ d.owner = y.generation /\ d.url = x.saved.url
    BY <2>1
  <2>4. /\ n \in Nat /\ n > 0 /\ DOMAIN y.deferred = 1..n /\ y.deferred[n] = d
        /\ \A i \in 1..n : i # n => i \in DOMAIN x.deferred /\ y.deferred[i] = x.deferred[i]
    <3>1. x.deferred \in Seq(Calls) /\ y.deferred = Append(x.deferred, d)
      BY <1>4, <2>1 DEF Typed
    <3> QED
      BY ONLY <3>1, <2>2
  <2>5. \A i : Due(y, y.deferred, 0, i) => i = n
    BY <1>1, <2>4, NewGeneration DEF Due
  <2>6. \A i : ~DueTo(y, y.deferred, 0, i, "backup")
    BY <2>3, <2>4, <2>5 DEF DueTo
  <2>7. Bounds(y, y.deferred)
    <3>1. y.generation <= y.generation
      BY Numbered
    <3>2. \A i \in DOMAIN y.deferred : y.deferred[i].owner <= y.generation
      BY <1>1, <2>3, <2>4, <3>1, NewGeneration
    <3> QED
      BY <1>1, <3>2, NewGeneration DEF Bounds
  <2>8. Selected(y, y.deferred, 0)
    BY <1>1, <1>2, <1>4, <2>3, <2>4, <2>5 DEF Selected
  <2>9. Loads(y, y.deferred, 0)
    BY <1>2, <1>4, <2>3, <2>4, <2>5, <2>6 DEF Loads, DueTo
  <2>10. Falls(y, y.deferred, 0)
    BY <1>1, <1>2, <1>4, <2>6 DEF Falls, Fits
  <2>11. Tells(y, y.deferred, 0)
    BY <1>1, <1>4, <2>6 DEF Tells, Describes
  <2> QED
    BY <2>7, <2>8, <2>9, <2>10, <2>11 DEF Holds, Rest
<1> QED
  BY <1>3, <1>4 DEF Recovered

\* A recovery is how a switch may end.
LEMMA RecoverSteps ==
  ASSUME NEW m, NEW x, NEW y, NEW c, Typed(x), Recovered(x, y),
         x.generation = m.generation, x.committed = m.committed, x.actual = m.actual
  PROVE  Step(m, y, c)
<1>1. y.generation # m.generation /\ y.committed = m.committed /\ y.actual = m.actual
  BY DEF Recovered, Typed
<1>2. /\ y.loading => y.loadTimer
      /\ y.loading \/ hasLoadedSource(y.player)
  BY DEF Recovered
<1> QED
  BY <1>1, <1>2 DEF Step, Times, Keeps, Commits, Ends

-----------------------------------------------------------------------------
\* A load that is dropped leaves nothing on its way.
LEMMA DropHolds ==
  ASSUME NEW x, NEW y, Typed(x), Bounds(x, x.deferred), Selected(x, x.deferred, 0),
         Loads(x, x.deferred, 0), Tells(x, x.deferred, 0), \A r : ~Awaited(x, r),
         Typed(y), Abandoned(x, y), y.pending = Nothing, ~y.recovering
  PROVE  Holds(y)
<1>1. Bounds(y, y.deferred)
  BY DEF Bounds, Abandoned
<1>2. Selected(y, y.deferred, 0)
  BY DEF Selected, Abandoned, Awaited, Due
<1>3. Loads(y, y.deferred, 0)
  BY DEF Loads, Abandoned, Awaited, Due, DueTo
<1>4. Falls(y, y.deferred, 0)
  BY DEF Falls, Abandoned
<1>5. Tells(y, y.deferred, 0)
  BY DEF Tells, Abandoned, Due, DueTo, Describes
<1> QED
  BY <1>1, <1>2, <1>3, <1>4, <1>5 DEF Holds, Rest

\* What is dropped was given up, or never had a source to keep.
LEMMA DropSteps ==
  ASSUME NEW x, NEW y, NEW c, Abandoned(x, y),
         x.saved # Nothing => y.reload /\ x.recovering
  PROVE  Step(x, y, c)
BY DEF Abandoned, Step, Times, Keeps, Commits, Ends

-----------------------------------------------------------------------------
\* A failed source that has a backup address leaves one retry of it due.
LEMMA TurnToHolds ==
  ASSUME NEW x, NEW y, Holds(x), Typed(y), TurnedTo(x, y), ~x.stopped, ~NotOfThisLoad(x), x.backups # <<>>,
         x.song # Nothing
  PROVE  Holds(y)
<1>1. /\ y.generation = x.generation /\ y.song = x.song /\ y.player = x.player /\ y.pending = x.pending
      /\ y.quality = x.quality /\ y.actual = x.actual /\ y.requests = x.requests /\ y.saved = x.saved
      /\ y.pendingActual = x.pendingActual /\ y.committed = x.committed /\ y.loading = x.loading
      /\ y.recovering = x.recovering /\ y.stopped = x.stopped /\ y.switching = x.switching
      /\ y.observed = x.observed /\ y.backups = Tail(x.backups)
  BY DEF TurnedTo, SameLoad
<1>2. \A r : ~Awaited(x, r) /\ ~Awaited(y, r)
  <2>1. x.loading => x.pending # Nothing
    BY DEF NotOfThisLoad
  <2> QED
    BY <1>1, <2>1 DEF Holds, Rest, Loads, Awaited
<1>3. PICK d : d = [call |-> "backup", owner |-> x.generation, failed |-> x.player.source,
                    url |-> Head(x.backups), offset |-> position(x)]
  OBVIOUS
<1>4. PICK n : n = Len(x.deferred) + 1
  OBVIOUS
<1>5. /\ n \in Nat /\ n > 0 /\ DOMAIN y.deferred = 1..n /\ y.deferred[n] = d
      /\ \A i \in 1..n : i # n => i \in DOMAIN x.deferred /\ i < n /\ y.deferred[i] = x.deferred[i]
  <2>1. x.deferred \in Seq(Calls) /\ y.deferred = Append(x.deferred, d)
    BY <1>3 DEF Typed, TurnedTo, Holds, Rest
  <2> QED
    BY ONLY <1>4, <2>1
<1>6. d.call = "backup" /\ d.owner = x.generation /\ d.url = Head(x.backups)
  BY <1>3
<1>7. /\ 1 \in DOMAIN x.backups /\ d.url = x.backups[1]
      /\ \A i \in DOMAIN y.backups : i + 1 \in DOMAIN x.backups /\ y.backups[i] = x.backups[i + 1]
  <2>1. x.backups \in Seq(Sources)
    BY DEF Holds, Rest, Typed
  <2> QED
    BY ONLY <1>1, <1>6, <2>1, x.backups # <<>>
<1>8. \A i : Due(y, y.deferred, 0, i) => i = n \/ (Due(x, x.deferred, 0, i) /\ y.deferred[i] = x.deferred[i] /\ i < n)
  BY <1>1, <1>5 DEF Due
<1>9. Bounds(y, y.deferred)
  <2>1. d.owner <= x.generation
    BY <1>6, Numbered DEF Holds, Rest
  <2>2. \A i \in DOMAIN y.deferred : y.deferred[i].owner <= x.generation
    BY <1>5, <2>1 DEF Holds, Rest, Bounds
  <2> QED
    BY <1>1, <2>2 DEF Holds, Rest, Bounds
<1>10. Selected(y, y.deferred, 0)
  <2>1. \A i : Due(y, y.deferred, 0, i) => y.deferred[i].url.song = y.song
    BY <1>1, <1>5, <1>7, <1>8 DEF Holds, Rest, Selected
  <2>2. \A i \in DOMAIN y.backups : y.backups[i].song = y.song
    BY <1>1, <1>7 DEF Holds, Rest, Selected
  <2> QED
    BY <1>1, <1>2, <2>1, <2>2 DEF Holds, Rest, Selected
<1>11. Loads(y, y.deferred, 0)
  <2>1. \A i : DueTo(y, y.deferred, 0, i, "recover") => DueTo(x, x.deferred, 0, i, "recover") /\ i < n
                                                     /\ y.deferred[i] = x.deferred[i]
    BY <1>5, <1>6, <1>8 DEF DueTo
  <2>2. \A j : DueTo(y, y.deferred, 0, j, "backup") => j = n \/ DueTo(x, x.deferred, 0, j, "backup")
    BY <1>8 DEF DueTo
  <2> QED
    BY <1>1, <1>2, <2>1, <2>2 DEF Holds, Rest, Loads
<1>12. \A j : DueTo(y, y.deferred, 0, j, "backup") =>
          \/ y.deferred[j].url = x.backups[1]
          \/ DueTo(x, x.deferred, 0, j, "backup") /\ y.deferred[j] = x.deferred[j]
  BY <1>5, <1>7, <1>8 DEF DueTo
<1>13. Tells(y, y.deferred, 0)
  BY <1>1, <1>7, <1>12 DEF Holds, Rest, Tells, Describes
<1>14. Falls(y, y.deferred, 0)
  BY <1>1, <1>2, <1>7, <1>12 DEF Holds, Rest, Falls, Fits
<1> QED
  BY <1>9, <1>10, <1>11, <1>13, <1>14 DEF Holds, Rest

\* Turning to a backup address ends no switch.
LEMMA TurnToSteps ==
  ASSUME NEW x, NEW y, NEW c, Holds(x), TurnedTo(x, y)
  PROVE  Step(x, y, c)
BY DEF Holds, Rest, Falls, TurnedTo, SameLoad, Step, Times, Keeps, Commits, Ends

-----------------------------------------------------------------------------
\* The request of the generation has been answered.
Answered(m, x, r) ==
  /\ SameLoad(m, x) /\ x.player = m.player /\ x.observed = m.observed /\ x.resumePos = m.resumePos
  /\ x.song = m.song /\ x.generation = m.generation /\ x.quality = m.quality
  /\ x.backups = m.backups /\ x.stopped = m.stopped /\ x.deferred = m.deferred
  /\ x.requests = m.requests \ {r}

\* What the arrival of an answer, current or late, leaves of the parts.
LEMMA AnswerLeaves ==
  ASSUME NEW m, NEW x, NEW r, NEW c, Holds(m), AtClose(m, c), Typed(x), Answered(m, x, r)
  PROVE  /\ Bounds(x, x.deferred) /\ Selected(x, x.deferred, 0)
         /\ Loads(x, x.deferred, 0) /\ Tells(x, x.deferred, 0)
         /\ ~Awaited(m, r) => Holds(x) /\ AtClose(x, c) /\ Step(m, x, c)
         /\ Awaited(m, r) => /\ \A s : ~Awaited(x, s)
                             /\ \A i : ~DueTo(x, x.deferred, 0, i, "backup")
                             /\ m.loading /\ m.pending = Nothing /\ ~m.recovering /\ r.song = m.song
                             /\ m.saved # Nothing => r.preserve /\ m.switching
                             /\ m.generation \notin c
<1>1. \A s : Awaited(x, s) => Awaited(m, s) /\ s # r
  BY DEF Answered, Awaited
<1>2. \A i : Due(x, x.deferred, 0, i) <=> Due(m, m.deferred, 0, i)
  BY DEF Answered, Due
<1>3. \A i, what : DueTo(x, x.deferred, 0, i, what) <=> DueTo(m, m.deferred, 0, i, what)
  BY <1>2 DEF Answered, DueTo
<1>4. Bounds(x, x.deferred)
  BY DEF Holds, Rest, Bounds, Answered
<1>5. Selected(x, x.deferred, 0)
  BY <1>1, <1>2 DEF Holds, Rest, Selected, Answered, SameLoad
<1>6. Loads(x, x.deferred, 0)
  BY <1>1, <1>3 DEF Holds, Rest, Loads, Answered, SameLoad
<1>7. Tells(x, x.deferred, 0)
  BY <1>3 DEF Holds, Rest, Tells, Describes, Answered, SameLoad
<1>8. ASSUME ~Awaited(m, r)
      PROVE  Holds(x) /\ AtClose(x, c) /\ Step(m, x, c)
  <2>1. \A s : Awaited(m, s) => Awaited(x, s)
    BY <1>8 DEF Answered, Awaited
  <2>2. Falls(x, x.deferred, 0)
    BY <1>1, <1>3, <2>1 DEF Holds, Rest, Falls, Fits, Answered, SameLoad
  <2>3. AtClose(x, c)
    BY <1>1 DEF AtClose, Answered, SameLoad
  <2>4. Step(m, x, c)
    BY DEF Step, Times, Keeps, Commits, Ends, Holds, Rest, Falls, Answered, SameLoad
  <2> QED
    BY <1>4, <1>5, <1>6, <1>7, <2>2, <2>3, <2>4 DEF Holds, Rest
<1>9. ASSUME Awaited(m, r)
      PROVE  /\ \A s : ~Awaited(x, s)
             /\ \A i : ~DueTo(x, x.deferred, 0, i, "backup")
             /\ m.loading /\ m.pending = Nothing /\ ~m.recovering /\ r.song = m.song
             /\ m.saved # Nothing => r.preserve /\ m.switching
             /\ m.generation \notin c
  BY <1>1, <1>3, <1>9 DEF Holds, Rest, Loads, Selected, Falls, AtClose
<1> QED
  BY <1>4, <1>5, <1>6, <1>7, <1>8, <1>9

\* The source an answer names belongs to the load that asked for it.
LEMMA AcceptHolds ==
  ASSUME NEW m, NEW x, NEW n, NEW y, NEW r, NEW reply, NEW c, r \in Requests, reply \in Replies,
         Holds(m), AtClose(m, c), Typed(x), Typed(y), Awaited(m, r), Answered(m, x, r),
         ~NotWorthIt(x, r, reply), Aimed(x, n, r, reply), Accepts(n, y)
  PROVE  Holds(y) /\ AtClose(y, c) /\ Step(m, y, c)
<1>1. PICK url, a : url = Main(r.song, reply.quality) /\ a = reply.quality
  OBVIOUS
<1>2. url # Nothing /\ url.song = r.song /\ url.quality = a
  <2>1. url \in Sources
    BY <1>1 DEF Main, Sources, Requests, Replies
  <2> QED
    BY <1>1, <2>1, SongAssumption DEF Main
<1>3. \A i \in DOMAIN n.backups : n.backups[i].song = r.song /\ n.backups[i].quality = a
  <2>1. CASE reply.backup
    <3>1. n.backups = <<Backup(r.song, reply.quality)>>
      BY <2>1 DEF Aimed
    <3> QED
      BY <1>1, <3>1 DEF Backup
  <2>2. CASE ~reply.backup
    BY <2>2 DEF Aimed
  <2> QED
    BY <2>1, <2>2
<1>4. /\ \A s : ~Awaited(x, s)
      /\ \A i : ~DueTo(x, x.deferred, 0, i, "backup")
      /\ m.loading /\ m.pending = Nothing /\ ~m.recovering /\ r.song = m.song
      /\ m.saved # Nothing => r.preserve /\ m.switching
      /\ m.generation \notin c
      /\ Bounds(x, x.deferred) /\ Selected(x, x.deferred, 0) /\ Loads(x, x.deferred, 0)
  BY AnswerLeaves
<1>5. m.saved # Nothing => a = m.quality
  BY <1>1, <1>4 DEF NotWorthIt, Answered, SameLoad
<1>6. /\ n.song = m.song /\ n.generation = m.generation /\ n.quality = m.quality /\ n.stopped = m.stopped
      /\ n.requests = x.requests /\ n.deferred = x.deferred /\ n.loading
      /\ n.loadTimer = m.loadTimer /\ n.actual = m.actual /\ ~n.recovering
      /\ n.switching = m.switching /\ n.committed = m.committed
      /\ n.pendingActual = a /\ n.pending = url /\ (n.saved = Nothing <=> m.saved = Nothing)
      /\ x.generation = m.generation /\ x.song = m.song /\ x.saved = m.saved
  BY <1>1, <1>4 DEF Aimed, Answered, SameLoad
<1>7. m.saved # Nothing => n.saved.url.song = m.song /\ \A i \in DOMAIN n.saved.backups : n.saved.backups[i].song = m.song
  BY <1>4, <1>6 DEF Aimed, Selected
<1>8. /\ y.song = n.song /\ y.generation = n.generation /\ y.quality = n.quality /\ y.stopped = n.stopped
      /\ y.requests = n.requests /\ y.deferred = n.deferred /\ y.backups = n.backups /\ y.player.source = url
  BY <1>6 DEF Accepts, Settles, SameUser
<1>9. \A s : ~Awaited(y, s)
  BY <1>4, <1>6, <1>8 DEF Awaited
<1>10. \A i : Due(y, y.deferred, 0, i) => Due(x, x.deferred, 0, i)
  BY <1>6, <1>8 DEF Due
<1>11. \A i : ~DueTo(y, y.deferred, 0, i, "backup")
  BY <1>4, <1>6, <1>8, <1>10 DEF DueTo
<1>12. m.song # Nothing
  BY <1>4, SongAssumption DEF Requests
<1>13. Bounds(y, y.deferred)
  BY <1>2, <1>4, <1>6, <1>8 DEF Bounds
<1>14. AtClose(y, c)
  BY <1>4, <1>6, <1>8 DEF AtClose
<1>15. \A i : Due(y, y.deferred, 0, i) => y.deferred[i].url.song = m.song
  BY <1>4, <1>6, <1>8, <1>10 DEF Selected
<1>16. CASE Settles(n, y)
  <2>1. /\ ~y.loading /\ ~y.recovering /\ y.actual = a /\ y.pending = Nothing /\ y.pendingActual = "unknown"
        /\ y.saved = Nothing /\ y.committed = m.quality /\ hasLoadedSource(y.player)
    BY <1>2, <1>6, <1>8, <1>16 DEF Settles, hasLoadedSource
  <2>2. Selected(y, y.deferred, 0)
    BY <1>2, <1>3, <1>4, <1>6, <1>8, <1>9, <1>12, <1>15, <2>1 DEF Selected
  <2>3. Loads(y, y.deferred, 0) /\ Tells(y, y.deferred, 0) /\ Falls(y, y.deferred, 0)
    BY <1>9, <1>11, <2>1 DEF Loads, Tells, Falls, Describes
  <2>4. Step(m, y, c)
    BY <1>2, <1>4, <1>5, <1>6, <1>8, <2>1 DEF Step, Times, Keeps, Commits, Ends
  <2> QED
    BY <1>13, <1>14, <2>2, <2>3, <2>4 DEF Holds, Rest
<1>17. CASE SameUser(n, y) /\ SameLoad(n, y)
  <2>1. /\ y.loading /\ y.loadTimer = m.loadTimer /\ y.actual = m.actual /\ ~y.recovering
        /\ y.switching = m.switching /\ y.committed = m.committed /\ y.saved = n.saved
        /\ y.pendingActual = a /\ y.pending = url
    BY <1>6, <1>17 DEF SameLoad
  <2>2. Selected(y, y.deferred, 0)
    BY <1>2, <1>3, <1>4, <1>6, <1>7, <1>8, <1>9, <1>12, <1>15, <2>1 DEF Selected
  <2>3. Loads(y, y.deferred, 0)
    BY <1>8, <1>9, <1>11, <2>1 DEF Loads
  <2>4. Tells(y, y.deferred, 0)
    BY <1>2, <1>3, <1>8, <1>11, <2>1 DEF Tells, Describes
  <2>5. Falls(y, y.deferred, 0)
    BY <1>2, <1>3, <1>4, <1>5, <1>6, <1>8, <1>9, <1>11, <2>1 DEF Falls, Fits
  <2>6. Step(m, y, c)
    BY <1>4, <2>1 DEF Step, Times, Keeps, Commits, Ends
  <2> QED
    BY <1>13, <1>14, <2>2, <2>3, <2>4, <2>5, <2>6 DEF Holds, Rest
<1> QED
  BY <1>16, <1>17 DEF Accepts

-----------------------------------------------------------------------------
\* What the calls of one turn leave alone, one after the other.
Passed(x, z) ==
  /\ z.song = x.song /\ z.generation = x.generation /\ z.quality = x.quality /\ z.stopped = x.stopped
  /\ z.requests = x.requests /\ z.deferred = x.deferred /\ z.backups = x.backups
  /\ z.loadTimer = x.loadTimer /\ z.actual = x.actual /\ z.committed = x.committed
  /\ z.saved = x.saved /\ z.recovering = x.recovering /\ z.reload = x.reload /\ z.switching = x.switching
  /\ x.loading => z.loading
  /\ x.stopped => z = x

\* One deferred call: the parts hold for the calls that are still to run.
LEMMA CallRuns ==
  ASSUME NEW x, NEW ds, ds \in Seq(Calls), NEW k, NEW j, k \in Nat, j = k + 1, j \in DOMAIN ds, Rest(x, ds, k)
  PROVE  Rest(Ran(x, ds[j]), ds, j) /\ Passed(x, Ran(x, ds[j]))
<1>1. PICK d : d = ds[j]
  OBVIOUS
<1>2. PICK y : y = Ran(x, d)
  OBVIOUS
<1>3. d \in Calls /\ d.url \in Sources /\ d.url # Nothing
  <2>1. d \in Calls
    BY <1>1
  <2> QED
    BY <2>1, SongAssumption DEF Calls
<1>4. \A i : Due(x, ds, j, i) => Due(x, ds, k, i) /\ i > j
  <2>1. ASSUME NEW i, i \in DOMAIN ds, i > j
        PROVE  i > k
    BY <2>1
  <2> QED
    BY <2>1 DEF Due
<1>5. \A i, what : DueTo(x, ds, j, i, what) => DueTo(x, ds, k, i, what) /\ i > j
  BY <1>4 DEF DueTo
<1>6. CASE ~StillWanted(x, d)
  <2>1. y = x
    BY <1>2, <1>6 DEF Ran
  <2>2. Selected(x, ds, j)
    BY <1>4 DEF Rest, Selected
  <2>3. Loads(x, ds, j) /\ Tells(x, ds, j) /\ Falls(x, ds, j)
    BY <1>5 DEF Rest, Loads, Tells, Falls
  <2> QED
    BY <1>1, <1>2, <2>1, <2>2, <2>3 DEF Rest, Passed
<1>7. CASE StillWanted(x, d) /\ d.call = "backup"
  <2>1. y = BackupRetry(x, d)
    BY <1>2, <1>7 DEF Ran
  <2>2. Typed(y) /\ Retried(x, y, d)
    BY <1>3, <2>1, Retries DEF Rest
  <2>3. ~x.stopped /\ DueTo(x, ds, k, j, "backup") /\ Due(x, ds, k, j)
    <3>1. j > k
      OBVIOUS
    <3> QED
      BY <1>1, <1>7, <3>1 DEF StillWanted, DueTo, Due
  <2>4. /\ \A r : ~Awaited(x, r)
        /\ d.url.song = x.song /\ x.song # Nothing /\ Describes(x, d.url)
        /\ x.saved # Nothing => Fits(x, d.url)
    <3>1. d.url.song = x.song /\ x.song # Nothing
      BY <1>1, <1>3, <2>3, SongAssumption DEF Rest, Selected, Sources
    <3> QED
      BY <1>1, <2>3, <3>1 DEF Rest, Loads, Tells, Falls
  <2>5. \A i : ~DueTo(x, ds, j, i, "recover")
    <3>1. ASSUME NEW i, DueTo(x, ds, j, i, "recover")
          PROVE  FALSE
      <4>1. i < j /\ i > j /\ i \in Nat
        BY <1>5, <2>3, <3>1 DEF Rest, Loads, DueTo, Due
      <4> QED
        BY ONLY <4>1, j = k + 1, k \in Nat
    <3> QED
      BY <3>1
  <2>6. /\ \A r : Awaited(y, r) <=> Awaited(x, r)
        /\ \A i : Due(y, ds, j, i) <=> Due(x, ds, j, i)
        /\ \A i, what : DueTo(y, ds, j, i, what) <=> DueTo(x, ds, j, i, what)
    BY <2>2 DEF Retried, Awaited, Due, DueTo
  <2>7. Bounds(y, ds)
    BY <1>3, <2>2 DEF Rest, Bounds, Retried
  <2>8. Selected(y, ds, j)
    BY <1>4, <2>2, <2>4, <2>6 DEF Rest, Selected, Retried
  <2>9. Loads(y, ds, j)
    BY <2>2, <2>4, <2>5, <2>6 DEF Loads, Retried
  <2>10. Tells(y, ds, j)
    BY <1>5, <2>2, <2>4, <2>6 DEF Rest, Tells, Retried, Describes
  <2>11. Falls(y, ds, j)
    BY <1>5, <2>2, <2>4, <2>6 DEF Rest, Falls, Retried, Fits
  <2>12. Passed(x, y)
    BY <2>2, <2>3 DEF Passed, Retried
  <2> QED
    BY <1>1, <1>2, <2>2, <2>7, <2>8, <2>9, <2>10, <2>11, <2>12 DEF Rest
<1>8. CASE StillWanted(x, d) /\ d.call # "backup"
  <2>1. y = Reloaded(x, d)
    BY <1>2, <1>8 DEF Ran
  <2>2. d.call = "recover" /\ ~x.stopped /\ x.recovering /\ DueTo(x, ds, k, j, "recover") /\ Due(x, ds, k, j)
    <3>1. j > k /\ d.call = "recover"
      BY <1>3, <1>8 DEF Calls
    <3> QED
      BY <1>1, <1>8, <3>1 DEF StillWanted, DueTo, Due
  <2>3. x.pending = d.url /\ d.url.song = x.song
    BY <1>1, <2>2 DEF Rest, Loads, Selected
  <2>4. NotStale(x, d.url)
    BY <1>3, <2>3 DEF Rest, Loads, NotStale
  <2>5. /\ Typed(y) /\ SameUser(x, y) /\ SameLoad(x, y)
        /\ y.player.source = d.url /\ y.player.status = "loading"
    BY <1>3, <2>1, <2>4, Reloads DEF Rest, Bounds
  <2>6. /\ \A r : Awaited(y, r) <=> Awaited(x, r)
        /\ \A i : Due(y, ds, j, i) <=> Due(x, ds, j, i)
        /\ \A i, what : DueTo(y, ds, j, i, what) <=> DueTo(x, ds, j, i, what)
    BY <2>5 DEF SameUser, Awaited, Due, DueTo
  <2>7. Bounds(y, ds)
    BY <1>3, <2>5 DEF Rest, Bounds, SameUser
  <2>8. x.song # Nothing
    BY <1>3, <2>3, SongAssumption DEF Sources
  <2>9. Selected(y, ds, j)
    BY <1>4, <2>3, <2>5, <2>6, <2>8 DEF Rest, Selected, SameUser, SameLoad
  <2>10. Loads(y, ds, j)
    BY <1>5, <2>3, <2>5, <2>6 DEF Rest, Loads, SameUser, SameLoad
  <2>11. Tells(y, ds, j)
    BY <1>5, <2>5, <2>6 DEF Rest, Tells, Describes, SameUser, SameLoad
  <2>12. Falls(y, ds, j)
    BY <1>5, <2>5, <2>6 DEF Rest, Falls, Fits, SameUser, SameLoad
  <2>13. Passed(x, y)
    BY <2>2, <2>5 DEF Passed, SameUser, SameLoad
  <2> QED
    BY <1>1, <1>2, <2>5, <2>7, <2>9, <2>10, <2>11, <2>12, <2>13 DEF Rest
<1> QED
  BY <1>6, <1>7, <1>8

\* The maximum of a finite set of numbers is one of them.
LEMMA MaxIsMember ==
  ASSUME NEW n \in Nat, NEW S \in SUBSET (1..n), S # {}
  PROVE  Max(S) \in S /\ \A m \in S : m <= Max(S)
<1>1. \E k \in S : \A m \in S : m <= k
  <2>1. S \in SUBSET Nat /\ \A m \in S : m <= n
    OBVIOUS
  <2> QED
    BY <2>1, GreatestMember
<1>2. \E k \in S : \A m \in S : k >= m
  BY <1>1
<1> QED
  BY <1>2 DEF Max

\* The recursive function of the fold exists.
RunOf(it, A, base, ds) ==
  it = [s \in A |-> IF s = {} THEN base ELSE Ran(it[s \ {Max(s)}], ds[Max(s)])]

\* The fold over the deferred calls is a function on the sets of their places.
LEMMA RunExists ==
  ASSUME NEW ds, ds \in Seq(Calls), NEW base
  PROVE  \E it : RunOf(it, SUBSET DOMAIN ds, base, ds)
<1> DEFINE D == 1..Len(ds)
           Small(n) == {s \in SUBSET D : Cardinality(s) <= n}
           P == {n \in Nat : \E it : RunOf(it, Small(n), base, ds)}
<1>1. /\ DOMAIN ds = D /\ Len(ds) \in Nat /\ IsFiniteSet(D)
  BY FS_Interval
<1>2. \A s \in SUBSET D : IsFiniteSet(s) /\ Cardinality(s) \in Nat /\ (Cardinality(s) = 0 <=> s = {})
  BY <1>1, FS_Subset, FS_CardinalityType, FS_EmptySet
<1>3. 0 \in P
  <2> DEFINE it == [s \in Small(0) |-> base]
  <2>1. \A s \in Small(0) : s = {}
    BY <1>2
  <2>2. RunOf(it, Small(0), base, ds)
    BY <2>1 DEF RunOf
  <2> QED
    BY <2>2
<1>4. ASSUME NEW n \in Nat, n \in P PROVE n + 1 \in P
  <2>1. PICK it : RunOf(it, Small(n), base, ds)
    BY <1>4
  <2>2. ASSUME NEW s \in Small(n + 1), s # {}
        PROVE  s \ {Max(s)} \in Small(n)
    <3>1. Max(s) \in s /\ s \in SUBSET D /\ Cardinality(s) <= n + 1
      BY <1>1, <2>2, MaxIsMember
    <3>2. Cardinality(s \ {Max(s)}) = Cardinality(s) - 1
      BY <1>2, <3>1, FS_RemoveElement
    <3>3. PICK c : c = Cardinality(s) /\ c \in Nat
      BY <1>2, <3>1
    <3>4. c - 1 <= n
      BY ONLY <3>1, <3>3, n \in Nat
    <3> QED
      BY <3>1, <3>2, <3>3, <3>4
  <2>3. \A s \in Small(n) : s \in Small(n + 1)
    BY <1>2
  <2> DEFINE jt == [s \in Small(n + 1) |-> IF s = {} THEN base ELSE Ran(it[s \ {Max(s)}], ds[Max(s)])]
  <2>4. \A s \in Small(n) : jt[s] = it[s]
    <3>1. \A s \in Small(n) : it[s] = IF s = {} THEN base ELSE Ran(it[s \ {Max(s)}], ds[Max(s)])
      BY <2>1 DEF RunOf
    <3>2. \A s \in Small(n + 1) : jt[s] = IF s = {} THEN base ELSE Ran(it[s \ {Max(s)}], ds[Max(s)])
      OBVIOUS
    <3> HIDE DEF jt, Small
    <3> QED
      BY <2>3, <3>1, <3>2
  <2>5. RunOf(jt, Small(n + 1), base, ds)
    <3>1. \A s \in Small(n + 1) : s # {} => jt[s \ {Max(s)}] = it[s \ {Max(s)}]
      BY <2>2, <2>4
    <3>2. \A s \in Small(n + 1) : jt[s] = IF s = {} THEN base ELSE Ran(it[s \ {Max(s)}], ds[Max(s)])
      OBVIOUS
    <3>3. jt = [s \in Small(n + 1) |-> jt[s]]
      OBVIOUS
    <3> HIDE DEF jt, Small
    <3>4. \A s \in Small(n + 1) : jt[s] = IF s = {} THEN base ELSE Ran(jt[s \ {Max(s)}], ds[Max(s)])
      BY <3>1, <3>2
    <3> QED
      BY <3>3, <3>4 DEF RunOf
  <2> HIDE DEF jt
  <2>6. \E kt : RunOf(kt, Small(n + 1), base, ds)
    BY <2>5
  <2>7. n + 1 \in Nat
    OBVIOUS
  <2> QED
    BY <2>6, <2>7, Zenon
<1> HIDE DEF P
<1>5. Cardinality(D) \in P
  BY <1>2, <1>3, <1>4, NaturalInduction
<1>6. PICK it : RunOf(it, Small(Cardinality(D)), base, ds)
  BY <1>5 DEF P
<1>7. Small(Cardinality(D)) = SUBSET D
  BY <1>1, FS_Subset
<1> QED
  BY <1>1, <1>6, <1>7

RanAll(base, ds) == FoldLeft(Ran, base, ds)

\* The calls of a turn run one after the other.
LEMMA Runs ==
  ASSUME NEW ds, ds \in Seq(Calls), NEW base
  PROVE  \E it : /\ it[{}] = base /\ RanAll(base, ds) = it[1..Len(ds)]
                 /\ \A k \in 0..(Len(ds) - 1) : it[1..(k + 1)] = Ran(it[1..k], ds[k + 1])
<1> DEFINE it == CHOOSE it : RunOf(it, SUBSET DOMAIN ds, base, ds)
<1>1. RanAll(base, ds) = it[DOMAIN ds]
  BY Zenon DEF RanAll, FoldLeft, MapThenFoldSet, RunOf
<1>2. RunOf(it, SUBSET DOMAIN ds, base, ds)
  BY RunExists
<1> HIDE DEF it
<1>3. DOMAIN ds = 1..Len(ds) /\ Len(ds) \in Nat
  OBVIOUS
<1>4. \A s \in SUBSET (1..Len(ds)) : it[s] = IF s = {} THEN base ELSE Ran(it[s \ {Max(s)}], ds[Max(s)])
  BY <1>2, <1>3 DEF RunOf
<1>5. ASSUME NEW k \in 0..(Len(ds) - 1)
      PROVE  it[1..(k + 1)] = Ran(it[1..k], ds[k + 1])
  <2>1. PICK s : s = 1..(k + 1)
    OBVIOUS
  <2>2. s \in SUBSET (1..Len(ds)) /\ s # {} /\ k + 1 \in s
    BY <1>3, <2>1
  <2>3. Max(s) \in s /\ \A m \in s : m <= Max(s)
    BY <1>3, <2>2, MaxIsMember
  <2>4. Max(s) = k + 1
    BY <2>1, <2>2, <2>3
  <2>5. s \ {k + 1} = 1..k
    BY <2>1
  <2> QED
    BY <1>4, <2>1, <2>2, <2>4, <2>5
<1> QED
  BY <1>1, <1>3, <1>4, <1>5

-----------------------------------------------------------------------------
\* At the start of the turn the list is empty again, and its calls are due.
LEMMA DeferredRest ==
  ASSUME NEW x, Holds(x), NEW ds, ds = x.deferred, NEW b, b = [x EXCEPT !.deferred = <<>>]
  PROVE  Rest(b, ds, 0)
<1>1. Typed(x)
  BY DEF Holds, Rest
<1>2. /\ Typed(b) /\ SameLoad(x, b) /\ b.player = x.player /\ b.observed = x.observed
      /\ b.song = x.song /\ b.generation = x.generation /\ b.quality = x.quality
      /\ b.backups = x.backups /\ b.stopped = x.stopped /\ b.requests = x.requests /\ b.deferred = <<>>
  BY ONLY <1>1, b = [x EXCEPT !.deferred = <<>>] DEF Typed, MusicFields, SameLoad
<1>3. Rest(x, ds, 0)
  BY DEF Holds
<1>4. /\ \A r : Awaited(b, r) <=> Awaited(x, r)
      /\ \A i : Due(b, ds, 0, i) <=> Due(x, ds, 0, i)
      /\ \A i, what : DueTo(b, ds, 0, i, what) <=> DueTo(x, ds, 0, i, what)
  BY <1>2 DEF Awaited, Due, DueTo
<1>5. Bounds(b, ds)
  BY <1>2, <1>3 DEF Rest, Bounds
<1>6. Selected(b, ds, 0)
  BY <1>2, <1>3, <1>4 DEF Rest, Selected, SameLoad
<1>7. Loads(b, ds, 0)
  BY <1>2, <1>3, <1>4 DEF Rest, Loads, SameLoad
<1>8. Tells(b, ds, 0)
  BY <1>2, <1>3, <1>4 DEF Rest, Tells, Describes, SameLoad
<1>9. Falls(b, ds, 0)
  BY <1>2, <1>3, <1>4 DEF Rest, Falls, Fits, SameLoad
<1> QED
  BY <1>2, <1>5, <1>6, <1>7, <1>8, <1>9 DEF Rest

\* All the deferred calls, one after the other, in one turn of the event loop.
LEMMA DeferredHolds ==
  ASSUME NEW x, NEW y, NEW c, Holds(x), AtClose(x, c),
         y = RanAll([x EXCEPT !.deferred = <<>>], x.deferred)
  PROVE  Holds(y) /\ AtClose(y, c) /\ Step(x, y, c) /\ y.stopped = x.stopped
<1>1. PICK ds : ds = x.deferred
  OBVIOUS
<1>2. PICK b : b = [x EXCEPT !.deferred = <<>>]
  OBVIOUS
<1>3. Typed(x) /\ ds \in Seq(Calls)
  BY <1>1 DEF Holds, Rest, Typed
<1>4. /\ Typed(b) /\ SameLoad(x, b) /\ b.player = x.player /\ b.observed = x.observed
      /\ b.song = x.song /\ b.generation = x.generation /\ b.quality = x.quality
      /\ b.backups = x.backups /\ b.stopped = x.stopped /\ b.requests = x.requests /\ b.deferred = <<>>
  BY ONLY <1>2, <1>3 DEF Typed, MusicFields, SameLoad
<1>5. Rest(b, ds, 0)
  BY <1>1, <1>2, DeferredRest
<1>6. PICK it : /\ it[{}] = b /\ RanAll(b, ds) = it[1..Len(ds)]
                /\ \A k \in 0..(Len(ds) - 1) : it[1..(k + 1)] = Ran(it[1..k], ds[k + 1])
  BY <1>3, Runs
<1> DEFINE P(k) == k <= Len(ds) => Rest(it[1..k], ds, k) /\ Passed(b, it[1..k])
           Q == {k \in Nat : P(k)}
<1>7. 0 \in Q
  <2>1. 1..0 = {}
    OBVIOUS
  <2>2. it[1..0] = b
    BY <1>6, <2>1
  <2>3. Passed(b, b)
    BY DEF Passed
  <2>4. P(0)
    BY <1>5, <2>2, <2>3
  <2> HIDE DEF P
  <2> QED
    BY <2>4
<1>8. ASSUME NEW k \in Nat, k \in Q
      PROVE  k + 1 \in Q
  <2>1. CASE k + 1 <= Len(ds)
    <3>1. k \in 0..(Len(ds) - 1) /\ k <= Len(ds) /\ k + 1 \in DOMAIN ds
      BY <1>3, <2>1
    <3>2. PICK z, w, j : z = it[1..k] /\ w = it[1..j] /\ j = k + 1
      OBVIOUS
    <3>3. Rest(z, ds, k) /\ Passed(b, z)
      BY <1>8, <3>1, <3>2
    <3>4. w = Ran(z, ds[j])
      BY <1>6, <3>1, <3>2
    <3>5. Rest(w, ds, j) /\ Passed(z, w)
      BY <1>3, <3>1, <3>2, <3>3, <3>4, CallRuns
    <3>6. Passed(b, w)
      BY <3>3, <3>5 DEF Passed
    <3> QED
      BY <3>2, <3>5, <3>6
  <2>2. CASE ~(k + 1 <= Len(ds))
    BY <2>2
  <2> QED
    BY <2>1, <2>2
<1> HIDE DEF P, Q
<1>9. \A k \in Nat : P(k)
  <2>1. \A k \in Nat : k \in Q => k + 1 \in Q
    BY <1>8
  <2>2. \A k \in Nat : k \in Q
    BY <1>7, <2>1, NaturalInduction
  <2> QED
    BY <2>2 DEF Q
<1>10. PICK l : l = Len(ds) /\ l \in Nat
  BY <1>3
<1>11. Rest(y, ds, l) /\ Passed(b, y)
  <2>1. l <= Len(ds)
    BY <1>10
  <2> QED
    BY <1>1, <1>2, <1>6, <1>9, <1>10, <2>1 DEF P
<1>12. y.deferred = <<>> /\ \A i : i \notin DOMAIN y.deferred
  BY <1>4, <1>11 DEF Passed
<1>13. Holds(y)
  <2>1. \A i, what : ~Due(y, y.deferred, 0, i) /\ ~DueTo(y, y.deferred, 0, i, what)
    BY <1>12 DEF Due, DueTo
  <2>2. Bounds(y, y.deferred)
    BY <1>11, <1>12 DEF Rest, Bounds
  <2>3. Selected(y, y.deferred, 0)
    BY <1>11, <2>1 DEF Rest, Selected
  <2>4. Loads(y, y.deferred, 0)
    BY <1>11, <2>1 DEF Rest, Loads
  <2>5. Tells(y, y.deferred, 0)
    BY <1>11, <2>1 DEF Rest, Tells
  <2>6. Falls(y, y.deferred, 0)
    BY <1>11, <2>1 DEF Rest, Falls
  <2> QED
    BY <1>11, <2>2, <2>3, <2>4, <2>5, <2>6 DEF Holds, Rest
<1>14. AtClose(y, c)
  BY <1>4, <1>11 DEF AtClose, Passed, Awaited, SameLoad
<1>15. Step(x, y, c)
  BY <1>4, <1>11 DEF Holds, Rest, Falls, AtClose, Passed, SameLoad, Step, Times, Keeps, Commits, Ends
<1>16. y.stopped = x.stopped
  BY <1>4, <1>11 DEF Passed
<1> QED
  BY <1>13, <1>14, <1>15, <1>16

-----------------------------------------------------------------------------
\* The player moves and nothing else does.
LEMMA TurnedPlayer ==
  ASSUME NEW x, Typed(x), NEW p, p \in Players, p.source = x.player.source,
         p.status = "none" <=> x.player.status = "none", NEW y, y = [x EXCEPT !.player = p]
  PROVE  Typed(y) /\ Turned(x, y) /\ SameUser(x, y) /\ y.player = p
<1>1. Typed(y) /\ y.player = p
  BY ONLY Typed(x), p \in Players, y = [x EXCEPT !.player = p] DEF Typed, MusicFields
<1>2. SameUser(x, y) /\ SameLoad(x, y) /\ y.observed = x.observed
  BY ONLY Typed(x), p \in Players, y = [x EXCEPT !.player = p] DEF Typed, MusicFields, SameUser, SameLoad
<1> QED
  BY <1>1, <1>2 DEF Turned, SameUser

\* The user asks for sound or silence and nothing else changes.
LEMMA TurnedDesire ==
  ASSUME NEW x, Typed(x), NEW b, b \in BOOLEAN, NEW p, p \in Players, p.source = x.player.source,
         p.status = "none" <=> x.player.status = "none", NEW y, y = [x EXCEPT !.desired = b, !.player = p]
  PROVE  Typed(y) /\ Turned(x, y) /\ SameUser(x, y) /\ y.player = p
<1>1. Typed(y) /\ y.player = p
  BY ONLY Typed(x), b \in BOOLEAN, p \in Players, y = [x EXCEPT !.desired = b, !.player = p] DEF Typed, MusicFields
<1>2. SameUser(x, y) /\ SameLoad(x, y) /\ y.observed = x.observed
  BY ONLY Typed(x), b \in BOOLEAN, p \in Players, y = [x EXCEPT !.desired = b, !.player = p]
     DEF Typed, MusicFields, SameUser, SameLoad
<1> QED
  BY <1>1, <1>2 DEF Turned, SameUser

\* A step that leaves the load alone preserves the parts.
LEMMA TurnOK ==
  ASSUME NEW x, NEW y, NEW c, Holds(x), AtClose(x, c), Typed(y), Turned(x, y)
  PROVE  Holds(y) /\ AtClose(y, c) /\ Step(x, y, c)
BY TurnHolds, TurnSteps DEF Step

\* The load settles if it is ready, else nothing changes.
LEMMA ResumeOK ==
  ASSUME NEW m, NEW x, NEW y, NEW c, Holds(m), AtClose(m, c), Typed(x), Turned(m, x), y = applyResume(x)
  PROVE  Holds(y) /\ AtClose(y, c) /\ Step(m, y, c)
<1>1. Holds(x) /\ AtClose(x, c) /\ Step(m, x, c)
  BY TurnOK
<1>2. CASE applyResume(x) = x
  BY <1>1, <1>2
<1>3. CASE OwnsLoad(x) /\ Loaded(x) /\ Settles(x, y)
  <2>1. Typed(y)
    BY Resumes
  <2>2. Holds(y) /\ AtClose(y, c) /\ Step(x, y, c)
    BY <1>1, <1>3, <2>1, SettleHolds
  <2> QED
    BY <2>2, StepFrom
<1> QED
  BY <1>2, <1>3, Resumes

\* Another load of the song that is selected now.
LEMMA ResolveOK ==
  ASSUME NEW m, NEW x, NEW c, Holds(m), AtClose(m, c), Typed(x), x.song \in Songs,
         x.generation = m.generation, x.committed = m.committed, x.requests = m.requests,
         x.deferred = m.deferred, x.player.source = Nothing => x.player.status = "none",
         NEW pos, pos \in Places, NEW autoplay, autoplay \in BOOLEAN, NEW exists, exists \in BOOLEAN,
         NEW y, y = resolveCurrent(x, pos, autoplay, FALSE, exists)
  PROVE  Holds(y) /\ AtClose(y, c) /\ Step(m, y, c)
<1>1. Typed(y) /\ Anew(x, y)
  BY Anews
<1>2. Bounds(x, x.deferred)
  BY DEF Holds, Rest, Bounds
<1>3. c \subseteq Nat /\ \A g \in c : g <= x.generation
  BY DEF AtClose
<1>4. Holds(y) /\ AtClose(y, c)
  BY <1>1, <1>2, <1>3, AnewHolds
<1>5. Step(m, y, c)
  BY <1>1, AnewSteps
<1> QED
  BY <1>4, <1>5

-----------------------------------------------------------------------------
Safe(x, c) == Holds(x) /\ AtClose(x, c)
Proceeds == Safe(music', closedAt') /\ Step(music, music', closedAt)

\* The types of the session.
LEMMA NowTyped ==
  ASSUME Safe(music, closedAt)
  PROVE  /\ Typed(music) /\ music.player \in Players /\ music.player.pos \in Places
         /\ music.resumePos \in Places /\ position(music) \in Places /\ music.player.playing \in BOOLEAN
         /\ music.player.source = Nothing => music.player.status = "none"
         /\ music.song # Nothing => music.song \in Songs
         /\ \A s : \A exists \in Files(s) : exists \in BOOLEAN
<1>1. music.player.source = Nothing => music.player.status = "none"
  BY DEF Safe, Holds, Rest, Bounds
<1> QED
  BY <1>1 DEF Safe, Holds, Rest, Typed, Players, position, Files

\* Selecting another song.
LEMMA SelectHolds ==
  ASSUME Safe(music, closedAt), NEW s \in Songs, Select(s)
  PROVE  Proceeds
<1>1. PICK exists \in Files(s) : music' = resolveCurrent([music EXCEPT !.song = s], 0, TRUE, FALSE, exists)
  BY DEF Select
<1>2. PICK x : x = [music EXCEPT !.song = s]
  OBVIOUS
<1>3. Typed(music) /\ exists \in BOOLEAN /\ 0 \in Places
  BY NowTyped DEF Places
<1>4. /\ Typed(x) /\ x.song = s /\ x.generation = music.generation /\ x.committed = music.committed
      /\ x.requests = music.requests /\ x.deferred = music.deferred /\ x.player = music.player
  BY ONLY <1>2, <1>3, s \in Songs DEF Typed, MusicFields
<1>5. closedAt' = closedAt
  BY DEF Select, StaysOpen
<1>6. PICK b, p : b = TRUE /\ b \in BOOLEAN /\ p = 0 /\ p \in Places
  BY <1>3
<1>7. music' = resolveCurrent(x, p, b, FALSE, exists)
  BY <1>1, <1>2, <1>6
<1>8. Holds(music') /\ AtClose(music', closedAt) /\ Step(music, music', closedAt)
  BY <1>3, <1>4, <1>6, <1>7, NowTyped, ResolveOK DEF Safe
<1> QED
  BY <1>5, <1>8 DEF Safe, Proceeds

\* The same song again.
LEMMA AgainHolds ==
  ASSUME Safe(music, closedAt), music.song # Nothing, NEW pos, pos \in Places, NEW exists \in Files(music.song),
         music' = resolveCurrent(music, pos, TRUE, FALSE, exists), closedAt' = closedAt
  PROVE  Proceeds
<1>1. PICK b : b = TRUE /\ b \in BOOLEAN
  OBVIOUS
<1>2. music' = resolveCurrent(music, pos, b, FALSE, exists)
  BY <1>1
<1>3. Holds(music') /\ AtClose(music', closedAt) /\ Step(music, music', closedAt)
  BY <1>1, <1>2, NowTyped, ResolveOK DEF Safe
<1> QED
  BY <1>3 DEF Safe, Proceeds

\* QMediaPlayer::pause().
LEMMA PausedPlayer ==
  ASSUME NEW p, p \in Players
  PROVE  /\ Paused(p) \in Players /\ Paused(p).source = p.source /\ Paused(p).status = p.status
         /\ Paused(p).pos = p.pos /\ Paused(p).decoded = p.decoded /\ ~Paused(p).playing
BY DEF Players, Paused

\* QMediaPlayer::play(), from the beginning where it had ended.
LEMMA PlayingPlayer ==
  ASSUME NEW p, p \in Players
  PROVE  /\ Playing(p) \in Players /\ Playing(p).source = p.source /\ Playing(p).decoded = p.decoded
         /\ Playing(p).status = IF p.status = "ended" THEN "loaded" ELSE p.status
         /\ Playing(p).pos = IF p.status = "ended" THEN 0 ELSE p.pos
BY DEF Players, Playing, Places

\* toggle() and setPlaying().
LEMMA ToggleHolds ==
  ASSUME Safe(music, closedAt), toggle
  PROVE  Proceeds
<1>1. music.song # Nothing /\ closedAt' = closedAt
  BY DEF toggle, StaysOpen
<1>2. /\ Typed(music) /\ music.player \in Players /\ music.desired \in BOOLEAN /\ music.player.playing \in BOOLEAN
  BY NowTyped DEF Typed
<1>3. CASE music.loading
  <2>1. PICK b, p : b = ~music.desired /\ p = IF music.desired THEN Paused(music.player) ELSE music.player
    OBVIOUS
  <2>2. music' = [music EXCEPT !.desired = b, !.player = p]
    BY <1>3, <2>1 DEF toggle
  <2>3. b \in BOOLEAN /\ p \in Players /\ p.source = music.player.source /\ p.status = music.player.status
    BY <1>2, <2>1, PausedPlayer
  <2>4. Typed(music') /\ Turned(music, music')
    BY <1>2, <2>2, <2>3, TurnedDesire
  <2> QED
    BY <1>1, <2>4, TurnOK DEF Safe, Proceeds
<1>4. CASE ~music.loading /\ (music.reload \/ music.player.status = "failed")
  <2>1. PICK exists \in Files(music.song) :
               music' = resolveCurrent(music, position(music), TRUE, FALSE, exists)
    BY <1>4 DEF toggle
  <2> QED
    BY <1>1, <2>1, AgainHolds, NowTyped
<1>5. CASE ~music.loading /\ ~(music.reload \/ music.player.status = "failed") /\ music.player.source # Nothing
  <2>1. PICK b, p : b = ~music.player.playing
                    /\ p = IF music.player.playing THEN Paused(music.player) ELSE Playing(music.player)
    OBVIOUS
  <2>2. music' = [music EXCEPT !.desired = b, !.player = p]
    BY <1>5, <2>1 DEF toggle
  <2>3. /\ b \in BOOLEAN /\ p \in Players /\ p.source = music.player.source
        /\ p.status = "none" <=> music.player.status = "none"
    BY <1>2, <2>1, PausedPlayer, PlayingPlayer
  <2>4. Typed(music') /\ Turned(music, music')
    BY <1>2, <2>2, <2>3, TurnedDesire
  <2> QED
    BY <1>1, <2>4, TurnOK DEF Safe, Proceeds
<1>6. CASE ~music.loading /\ ~(music.reload \/ music.player.status = "failed") /\ music.player.source = Nothing
  <2>1. PICK exists \in Files(music.song) :
               music' = resolveCurrent(music, music.resumePos, TRUE, FALSE, exists)
    BY <1>6 DEF toggle
  <2> QED
    BY <1>1, <2>1, AgainHolds, NowTyped
<1> QED
  BY <1>3, <1>4, <1>5, <1>6

\* retry() begins the song again.
LEMMA RetryHolds ==
  ASSUME Safe(music, closedAt), retry
  PROVE  Proceeds
<1>1. PICK exists \in Files(music.song) :
               music' = resolveCurrent(music, position(music), TRUE, FALSE, exists)
  BY DEF retry
<1> QED
  BY <1>1, AgainHolds, NowTyped DEF retry, StaysOpen

\* setQuality(), with and without a song.
LEMMA SetQualityHolds ==
  ASSUME Safe(music, closedAt), NEW q \in Qualities, setQuality(q)
  PROVE  Proceeds
<1> DEFINE m == music
           x == [music EXCEPT !.quality = q]
<1>1. PICK y : y = x
  OBVIOUS
<1>2. /\ Typed(y) /\ SameLoad(m, y) /\ y.player = m.player /\ y.observed = m.observed /\ y.desired = m.desired
      /\ y.song = m.song /\ y.generation = m.generation /\ y.quality = q
      /\ y.backups = m.backups /\ y.stopped = m.stopped /\ y.requests = m.requests /\ y.deferred = m.deferred
      /\ y.resumePos = m.resumePos
  <2>1. Typed(m)
    BY NowTyped
  <2> QED
    BY ONLY <1>1, <2>1, q \in Qualities DEF Typed, MusicFields, SameLoad
<1>3. closedAt' = closedAt
  BY DEF setQuality, StaysOpen
<1>4. CASE m.song = Nothing \/ m.song \in LocalSongs
  <2>1. music' = [x EXCEPT !.committed = q]
    BY <1>4 DEF setQuality
  <2>2. PICK z : z = [y EXCEPT !.committed = q]
    OBVIOUS
  <2>3. /\ Typed(z) /\ z.player = y.player /\ z.observed = y.observed
        /\ z.song = y.song /\ z.generation = y.generation /\ z.quality = q /\ z.committed = q
        /\ z.backups = y.backups /\ z.stopped = y.stopped /\ z.requests = y.requests /\ z.deferred = y.deferred
        /\ z.loading = y.loading /\ z.loadTimer = y.loadTimer /\ z.resume = y.resume
        /\ z.actual = y.actual /\ z.pending = y.pending /\ z.pendingActual = y.pendingActual
        /\ z.recovering = y.recovering /\ z.saved = y.saved /\ z.reload = y.reload /\ z.switching = y.switching
    BY ONLY <1>2, <2>2, q \in Qualities DEF Typed, MusicFields
  <2>4. music' = z
    BY <1>1, <2>1, <2>2
  <2>5. /\ Typed(z) /\ z.player = m.player /\ z.observed = m.observed
        /\ z.song = m.song /\ z.generation = m.generation /\ z.quality = q /\ z.committed = q
        /\ z.backups = m.backups /\ z.stopped = m.stopped /\ z.requests = m.requests /\ z.deferred = m.deferred
        /\ z.loading = m.loading /\ z.loadTimer = m.loadTimer /\ z.resume = m.resume
        /\ z.actual = m.actual /\ z.pending = m.pending /\ z.pendingActual = m.pendingActual
        /\ z.recovering = m.recovering /\ z.saved = m.saved /\ z.reload = m.reload /\ z.switching = m.switching
    BY <1>2, <2>3 DEF SameLoad
  <2>6. /\ \A r : Awaited(z, r) <=> Awaited(m, r)
        /\ \A i : Due(z, z.deferred, 0, i) <=> Due(m, m.deferred, 0, i)
        /\ \A i, what : DueTo(z, z.deferred, 0, i, what) <=> DueTo(m, m.deferred, 0, i, what)
    BY <2>5 DEF Awaited, Due, DueTo
  <2>7. Bounds(z, z.deferred)
    BY <2>5 DEF Safe, Holds, Rest, Bounds
  <2>8. Selected(z, z.deferred, 0)
    BY <2>5, <2>6 DEF Safe, Holds, Rest, Selected
  <2>9. Loads(z, z.deferred, 0)
    BY <2>5, <2>6 DEF Safe, Holds, Rest, Loads
  <2>10. Tells(z, z.deferred, 0)
    BY <2>5, <2>6 DEF Safe, Holds, Rest, Tells, Describes
  <2>11. Falls(z, z.deferred, 0)
    BY <2>5, <2>6 DEF Safe, Holds, Rest, Falls, Fits
  <2>12. AtClose(z, closedAt)
    BY <2>5, <2>6 DEF Safe, AtClose
  <2>13. Step(m, z, closedAt)
    BY <1>4, <2>5 DEF Safe, Holds, Rest, Falls, Step, Times, Keeps, Commits, Ends
  <2> QED
    BY <1>3, <2>4, <2>5, <2>7, <2>8, <2>9, <2>10, <2>11, <2>12, <2>13 DEF Safe, Proceeds, Holds, Rest
<1>5. CASE ~(m.song = Nothing \/ m.song \in LocalSongs)
  <2>1. PICK b, p : b = (x.player.playing \/ (x.loading /\ x.desired)) /\ p = position(x)
    OBVIOUS
  <2>2. b \in BOOLEAN /\ p \in Places
    <3>1. x.resumePos \in Places /\ x.player.pos \in Places
      BY <1>1, <1>2, NowTyped DEF Typed
    <3> HIDE DEF x
    <3> QED
      BY <2>1, <3>1 DEF position
  <2>3. music' = resolveCurrent(y, p, b, TRUE, TRUE)
    BY <1>1, <1>5, <2>1 DEF setQuality
  <2>4. y.song \in Songs \ LocalSongs /\ y.song \in Songs
    BY <1>2, <1>5, NowTyped
  <2>5. Typed(music') /\ Switched(y, music', p)
    BY <1>2, <2>2, <2>3, <2>4, Switches
  <2>6. Bounds(y, y.deferred)
    BY <1>2 DEF Safe, Holds, Rest, Bounds
  <2>7. Selected(y, y.deferred, 0)
    BY <1>2 DEF Safe, Holds, Rest, Selected, SameLoad, Awaited, Due
  <2>8. Holds(music')
    BY <1>2, <2>4, <2>5, <2>6, <2>7, SwitchHolds
  <2>9. music'.generation = m.generation + 1
    BY <1>2, <2>5 DEF Switched
  <2>10. AtClose(music', closedAt) /\ music'.generation # m.generation
    BY <2>9, NowTyped, Later DEF Safe
  <2>11. Step(m, music', closedAt)
    BY <1>2, <2>5, <2>10 DEF SameLoad, Switched, Step, Times, Keeps, Commits, Ends
  <2> QED
    BY <1>3, <2>8, <2>10, <2>11 DEF Safe, Proceeds
<1> QED
  BY <1>4, <1>5

\* seek() moves the player only.
LEMMA SeekHolds ==
  ASSUME Safe(music, closedAt), NEW p \in Places, seek(p)
  PROVE  Proceeds
<1>1. PICK q : q = [music.player EXCEPT !.pos = p]
  OBVIOUS
<1>2. music' = [music EXCEPT !.player = q] /\ closedAt' = closedAt
  BY <1>1 DEF seek, StaysOpen
<1>3. music.player \in Players
  BY NowTyped
<1>4. q \in Players /\ q.source = music.player.source /\ q.status = music.player.status
  BY ONLY <1>1, <1>3, p \in Places DEF Players
<1> QED
  BY <1>2, <1>4, NowTyped, TurnedPlayer, TurnOK DEF Safe, Proceeds

-----------------------------------------------------------------------------
\* The work of a generation that is over concerns nobody.
LEMMA Overtaken ==
  ASSUME NEW x, NEW y, NEW c, Typed(x), Bounds(x, x.deferred), AtClose(x, c),
         y.generation = x.generation + 1, y.requests = x.requests, y.deferred = x.deferred,
         y.player.source = Nothing => y.player.status = "none"
  PROVE  /\ Bounds(y, y.deferred)
         /\ \A r : ~Awaited(y, r)
         /\ \A i, what : ~Due(y, y.deferred, 0, i) /\ ~DueTo(y, y.deferred, 0, i, what)
         /\ AtClose(y, c) /\ y.generation \notin c /\ y.generation # x.generation
<1>1. Bounds(y, y.deferred)
  BY NewGeneration DEF Bounds
<1>2. \A r : ~Awaited(y, r)
  BY NewGeneration DEF Awaited
<1>3. \A i, what : ~Due(y, y.deferred, 0, i) /\ ~DueTo(y, y.deferred, 0, i, what)
  BY NewGeneration DEF Due, DueTo
<1>4. AtClose(y, c) /\ y.generation \notin c /\ y.generation # x.generation
  BY Later
<1> QED
  BY <1>1, <1>2, <1>3, <1>4

\* clearQueue() leaves no song and nothing of it.
LEMMA ClearHolds ==
  ASSUME Safe(music, closedAt), clearQueue
  PROVE  Proceeds
<1>1. PICK a : a = [music EXCEPT !.generation = @ + 1, !.quality = music.committed,
                                    !.switching = FALSE, !.recovering = FALSE, !.saved = Nothing,
                                    !.pending = Nothing, !.loading = TRUE]
  OBVIOUS
<1>2. PICK g : g = music.generation + 1 /\ g \in Nat
  BY NowTyped DEF Typed
<1>3. a = [music EXCEPT !.generation = g, !.quality = music.committed, !.switching = FALSE, !.recovering = FALSE,
                        !.saved = Nothing, !.pending = Nothing, !.loading = TRUE]
  BY <1>1, <1>2
<1>4. /\ Typed(a) /\ a.generation = g /\ a.requests = music.requests /\ a.deferred = music.deferred
      /\ a.pending = Nothing /\ a.saved = Nothing /\ ~a.recovering /\ a.committed = music.committed
  <2>1. Typed(music)
    BY NowTyped
  <2> QED
    BY ONLY <1>2, <1>3, <2>1 DEF Typed, MusicFields
<1>5. PICK b : b = setSource(a, Nothing)
  OBVIOUS
<1>6. Typed(b) /\ Opened(a, b, Nothing)
  BY <1>4, <1>5, Opens DEF NotStale
<1>7. music' = [b EXCEPT !.resumeTimer = FALSE, !.loadTimer = FALSE, !.song = Nothing,
                           !.actual = "unknown", !.resume = FALSE, !.resumePos = 0, !.loading = FALSE]
  BY <1>1, <1>5 DEF clearQueue
<1>8. "unknown" \in Delivered /\ 0 \in Places
  BY DEF Delivered, Places
<1>9. PICK y : y = music'
  OBVIOUS
<1>10. Typed(y)
  BY ONLY <1>6, <1>7, <1>8, <1>9 DEF Typed, MusicFields
<1>11. /\ y.generation = b.generation /\ y.requests = b.requests /\ y.deferred = b.deferred /\ y.player = b.player
       /\ y.pending = b.pending /\ y.saved = b.saved /\ y.recovering = b.recovering /\ y.committed = b.committed
       /\ y.song = Nothing /\ ~y.loading /\ ~y.loadTimer /\ y.actual = "unknown"
  BY ONLY <1>6, <1>7, <1>9 DEF Typed, MusicFields
<1>12. b.player.source = Nothing /\ (a.player.source # Nothing => b.player.status = "none")
       /\ (a.player.source = Nothing => a.player.status = "none" /\ b.player.status = "none")
  <2>1. a.player = music.player
    <3>1. Typed(music)
      BY NowTyped
    <3> QED
      BY ONLY <1>3, <3>1 DEF Typed, MusicFields
  <2>2. a.player.source = Nothing => a.player.status = "none"
    BY <2>1, NowTyped
  <2> QED
    BY ONLY <1>6, <2>2 DEF Opened
<1>13. /\ y.generation = music.generation + 1 /\ y.requests = music.requests /\ y.deferred = music.deferred
       /\ y.player.source = Nothing /\ y.player.status = "none" /\ y.pending = Nothing /\ y.saved = Nothing
       /\ ~y.recovering /\ y.committed = music.committed
  BY <1>2, <1>4, <1>6, <1>11, <1>12 DEF Opened, SameUser, SameLoad
<1>14. /\ Bounds(y, y.deferred)
       /\ \A r : ~Awaited(y, r)
       /\ \A i, what : ~Due(y, y.deferred, 0, i) /\ ~DueTo(y, y.deferred, 0, i, what)
       /\ AtClose(y, closedAt) /\ y.generation \notin closedAt /\ y.generation # music.generation
  BY <1>13, NowTyped, Overtaken DEF Safe, Holds, Rest
<1>15. Selected(y, y.deferred, 0) /\ Loads(y, y.deferred, 0) /\ Tells(y, y.deferred, 0) /\ Falls(y, y.deferred, 0)
  BY <1>11, <1>13, <1>14 DEF Selected, Loads, Tells, Falls
<1>16. Step(music, y, closedAt)
  BY <1>11, <1>13, <1>14 DEF Step, Times, Keeps, Commits, Ends
<1>17. closedAt' = closedAt
  BY DEF clearQueue, StaysOpen
<1> QED
  BY <1>9, <1>10, <1>14, <1>15, <1>16, <1>17 DEF Safe, Proceeds, Holds, Rest

\* finishSession() and the hold of an import stop the session.
LEMMA CloseHolds ==
  ASSUME Safe(music, closedAt), Close
  PROVE  Proceeds
<1>1. PICK g : g = music.generation + 1 /\ g \in Nat
  BY NowTyped DEF Typed
<1>2. PICK p : p = Paused(music.player)
  OBVIOUS
<1>3. p \in Players /\ p.source = music.player.source /\ p.status = music.player.status
  BY <1>2, NowTyped, PausedPlayer
<1>4. PICK a : a = [music EXCEPT !.stopped = TRUE]
  OBVIOUS
<1>5. /\ Typed(a) /\ a.stopped /\ SameLoad(music, a) /\ a.player = music.player /\ a.observed = music.observed
      /\ a.song = music.song /\ a.generation = music.generation /\ a.quality = music.quality
      /\ a.backups = music.backups /\ a.requests = music.requests /\ a.deferred = music.deferred
  <2>1. Typed(music)
    BY NowTyped
  <2> QED
    BY ONLY <1>4, <2>1 DEF Typed, MusicFields, SameLoad
<1>6. PICK b : b = AtRest(a)
  OBVIOUS
<1>7. b = [a EXCEPT !.resumeTimer = FALSE, !.loadTimer = FALSE, !.desired = FALSE,
                       !.resume = FALSE, !.loading = FALSE, !.player = p]
  BY <1>2, <1>5, <1>6 DEF AtRest
<1>8. /\ Typed(b) /\ b.stopped /\ b.player = p /\ b.observed = a.observed
      /\ b.song = a.song /\ b.generation = a.generation /\ b.quality = a.quality
      /\ b.backups = a.backups /\ b.requests = a.requests /\ b.deferred = a.deferred
      /\ ~b.loading /\ ~b.loadTimer /\ ~b.resume /\ b.actual = a.actual /\ b.pending = a.pending
      /\ b.pendingActual = a.pendingActual /\ b.recovering = a.recovering /\ b.saved = a.saved
      /\ b.reload = a.reload /\ b.switching = a.switching /\ b.committed = a.committed
  BY ONLY <1>3, <1>5, <1>7 DEF Typed, MusicFields
<1> DEFINE y == music'
           c == closedAt'
<1>10. y = [b EXCEPT !.generation = g]
  <2>1. music' = [b EXCEPT !.generation = @ + 1]
    BY <1>4, <1>6 DEF Close, stopPlaybackWork
  <2> QED
    BY <1>1, <1>5, <1>8, <2>1
<1>11. /\ Typed(y) /\ y.stopped /\ y.player = p /\ y.observed = b.observed
       /\ y.song = b.song /\ y.generation = g /\ y.quality = b.quality
       /\ y.backups = b.backups /\ y.requests = b.requests /\ y.deferred = b.deferred
       /\ ~y.loading /\ ~y.loadTimer /\ ~y.resume /\ y.actual = b.actual /\ y.pending = b.pending
       /\ y.pendingActual = b.pendingActual /\ y.recovering = b.recovering /\ y.saved = b.saved
       /\ y.reload = b.reload /\ y.switching = b.switching /\ y.committed = b.committed
  BY ONLY <1>1, <1>8, <1>10 DEF Typed, MusicFields
<1>12. /\ y.player.source = music.player.source /\ y.player.status = music.player.status
       /\ y.observed = music.observed /\ y.song = music.song /\ y.quality = music.quality
       /\ y.generation = music.generation + 1
       /\ y.backups = music.backups /\ y.requests = music.requests /\ y.deferred = music.deferred
       /\ y.actual = music.actual /\ y.pending = music.pending
       /\ y.pendingActual = music.pendingActual /\ y.recovering = music.recovering /\ y.saved = music.saved
       /\ y.switching = music.switching /\ y.committed = music.committed
  BY <1>1, <1>3, <1>5, <1>8, <1>11 DEF SameLoad
<1>13. y.player.source = Nothing => y.player.status = "none"
  BY <1>12, NowTyped
<1>14. /\ Bounds(y, y.deferred)
       /\ \A r : ~Awaited(y, r)
       /\ \A i, what : ~Due(y, y.deferred, 0, i) /\ ~DueTo(y, y.deferred, 0, i, what)
       /\ y.generation # music.generation
  BY <1>12, <1>13, NowTyped, Overtaken DEF Safe, Holds, Rest
<1>15. Selected(y, y.deferred, 0)
  BY <1>12, <1>14 DEF Safe, Holds, Rest, Selected
<1>16. Loads(y, y.deferred, 0)
  BY <1>12, <1>14 DEF Safe, Holds, Rest, Loads
<1>17. Tells(y, y.deferred, 0)
  BY <1>12, <1>14 DEF Safe, Holds, Rest, Tells, Describes
<1>18. Falls(y, y.deferred, 0)
  BY <1>11, <1>12, <1>14 DEF Safe, Holds, Rest, Falls, Fits
<1>19. closedAt' = {g}
  BY <1>11 DEF Close
<1>20. AtClose(y, c)
  <2>1. g <= g
    BY <1>1
  <2> QED
    BY <1>1, <1>11, <1>14, <1>19, <2>1 DEF AtClose
<1>21. Step(music, y, closedAt)
  BY <1>11, <1>12, <1>14 DEF Step, Times, Keeps, Commits, Ends
<1>22. Holds(y)
  BY <1>11, <1>14, <1>15, <1>16, <1>17, <1>18 DEF Holds, Rest
<1>23. Safe(music', closedAt')
  BY <1>20, <1>22 DEF Safe
<1> QED
  BY <1>21, <1>23 DEF Proceeds

-----------------------------------------------------------------------------
\* The answer of /song/url: late, refused, not worth it or accepted.
LEMMA UrlAnswerHolds ==
  ASSUME Safe(music, closedAt), NEW r \in music.requests, UrlAnswer(r)
  PROVE  Proceeds
<1>1. PICK rest : rest = music.requests \ {r}
  OBVIOUS
<1>2. PICK x : x = [music EXCEPT !.requests = @ \ {r}]
  OBVIOUS
<1>3. Typed(music) /\ rest \subseteq Requests /\ r \in Requests
  BY <1>1, NowTyped DEF Typed
<1>4. x = [music EXCEPT !.requests = rest]
  BY <1>1, <1>2
<1>5. /\ Typed(x) /\ SameLoad(music, x) /\ x.player = music.player /\ x.observed = music.observed
      /\ x.resumePos = music.resumePos
      /\ x.song = music.song /\ x.generation = music.generation /\ x.quality = music.quality
      /\ x.backups = music.backups /\ x.stopped = music.stopped /\ x.deferred = music.deferred
      /\ x.requests = rest
  BY ONLY <1>3, <1>4 DEF Typed, MusicFields, SameLoad
<1>6. Answered(music, x, r)
  BY <1>1, <1>5 DEF Answered
<1>7. closedAt' = closedAt
  BY DEF UrlAnswer
<1>8. IF ~Current(x, r) THEN music' = x
      ELSE \/ music' = Refused(x, r)
           \/ \E reply \in Replies :
                music' = IF NotWorthIt(x, r, reply)
                         THEN IF CanRecover(x) THEN recoverQualitySwitch(x) ELSE x
                         ELSE Accepted(x, r, reply)
  BY <1>2 DEF UrlAnswer
<1>9. Holds(music) /\ AtClose(music, closedAt)
  BY DEF Safe
<1>10. CASE ~Current(x, r)
  <2>1. ~Awaited(music, r)
    BY <1>5, <1>10 DEF Current, Awaited
  <2> QED
    BY <1>5, <1>6, <1>7, <1>8, <1>9, <1>10, <2>1, AnswerLeaves DEF Safe, Proceeds
<1>11. CASE Current(x, r)
  <2>1. Awaited(music, r)
    BY <1>5, <1>11 DEF Current, Awaited
  <2>2. /\ \A s : ~Awaited(x, s)
        /\ music.loading /\ music.pending = Nothing /\ ~music.recovering /\ r.song = music.song
        /\ music.saved # Nothing => r.preserve /\ music.switching
        /\ music.generation \notin closedAt
        /\ Bounds(x, x.deferred) /\ Selected(x, x.deferred, 0)
        /\ Loads(x, x.deferred, 0) /\ Tells(x, x.deferred, 0)
    BY <1>5, <1>6, <1>9, <2>1, AnswerLeaves
  <2>3. music.saved # Nothing => CanRecover(x)
    BY <1>5, <2>2 DEF CanRecover, SameLoad
  <2>4. ASSUME CanRecover(x), music' = recoverQualitySwitch(x)
        PROVE  Proceeds
    <3>1. x.saved # Nothing
      BY <2>4 DEF CanRecover
    <3>2. Typed(music') /\ Recovered(x, music')
      BY <1>5, <2>4, <3>1, Recovers
    <3>3. Holds(music')
      BY <1>5, <2>2, <3>1, <3>2, RecoverHolds
    <3>4. music'.generation = music.generation + 1
      BY <1>5, <3>2 DEF Recovered
    <3>5. AtClose(music', closedAt)
      BY <1>3, <1>9, <3>4, Later
    <3>6. Step(music, music', closedAt)
      BY <1>5, <3>2, RecoverSteps DEF SameLoad
    <3> QED
      BY <1>7, <3>3, <3>5, <3>6 DEF Safe, Proceeds
  <2>5. CASE music' = Refused(x, r)
    <3>1. CASE CanRecover(x)
      BY <2>4, <2>5, <3>1 DEF Refused
    <3>2. CASE ~CanRecover(x)
      <4>1. music.saved = Nothing
        BY <2>3, <3>2
      <4>2. /\ Typed(music') /\ Abandoned(x, music') /\ music'.pending = x.pending
            /\ music'.recovering = x.recovering /\ music'.reload = x.reload
        BY <1>5, <2>5, <3>2, Refuses
      <4>3. music'.pending = Nothing /\ ~music'.recovering
        BY <1>5, <2>2, <4>2 DEF SameLoad
      <4>4. Holds(music')
        BY <1>5, <2>2, <4>2, <4>3, DropHolds
      <4>5. AtClose(music', closedAt)
        BY <1>5, <1>9, <2>2, <4>2 DEF AtClose, Abandoned
      <4>6. Step(music, music', closedAt)
        BY <1>5, <2>2, <4>1, <4>2 DEF Abandoned, SameLoad, Step, Times, Keeps, Commits, Ends
      <4> QED
        BY <1>7, <4>4, <4>5, <4>6 DEF Safe, Proceeds
    <3> QED
      BY <3>1, <3>2
  <2>6. CASE \E reply \in Replies :
                music' = IF NotWorthIt(x, r, reply)
                         THEN IF CanRecover(x) THEN recoverQualitySwitch(x) ELSE x
                         ELSE Accepted(x, r, reply)
    <3>1. PICK reply \in Replies :
                music' = IF NotWorthIt(x, r, reply)
                         THEN IF CanRecover(x) THEN recoverQualitySwitch(x) ELSE x
                         ELSE Accepted(x, r, reply)
      BY <2>6
    <3>2. CASE NotWorthIt(x, r, reply)
      <4>1. CanRecover(x)
        BY <1>5, <2>3, <3>2 DEF NotWorthIt, SameLoad
      <4> QED
        BY <2>4, <3>1, <3>2, <4>1
    <3>3. CASE ~NotWorthIt(x, r, reply)
      <4>1. music' = Accepted(x, r, reply)
        BY <3>1, <3>3
      <4>2. PICK n : Typed(n) /\ Aimed(x, n, r, reply) /\ Typed(music') /\ Accepts(n, music')
        BY <1>3, <1>5, <4>1, Aims
      <4> QED
        BY <1>3, <1>5, <1>6, <1>7, <1>9, <2>1, <3>3, <4>2, AcceptHolds DEF Safe, Proceeds
    <3> QED
      BY <3>2, <3>3
  <2> QED
    BY <1>8, <1>11, <2>5, <2>6
<1> QED
  BY <1>10, <1>11

-----------------------------------------------------------------------------
\* LoadedMedia.
LEMMA MediaLoadedHolds ==
  ASSUME Safe(music, closedAt), MediaLoaded
  PROVE  Proceeds
<1>1. PICK decoded \in BOOLEAN :
        music' = SeenLoaded([music EXCEPT !.player = [@ EXCEPT !.status = "loaded", !.decoded = decoded]])
  BY DEF MediaLoaded
<1>2. PICK p : p = [music.player EXCEPT !.status = "loaded", !.decoded = decoded]
  OBVIOUS
<1>3. PICK x : x = [music EXCEPT !.player = p]
  OBVIOUS
<1>4. p \in Players /\ p.source = music.player.source /\ p.status = "loaded"
  <2>1. music.player \in Players
    BY NowTyped
  <2> QED
    BY ONLY <1>2, <2>1, decoded \in BOOLEAN DEF Players
<1>5. p.status = "none" <=> music.player.status = "none"
  BY <1>4 DEF MediaLoaded
<1>6. Typed(x) /\ Turned(music, x)
  BY <1>3, <1>4, <1>5, NowTyped, TurnedPlayer
<1>7. music' = IF x.stopped THEN x ELSE applyResume(x)
  BY <1>1, <1>2, <1>3 DEF SeenLoaded
<1>8. closedAt' = closedAt
  BY DEF MediaLoaded
<1>9. CASE x.stopped
  BY <1>6, <1>7, <1>8, <1>9, TurnOK DEF Safe, Proceeds
<1>10. CASE ~x.stopped
  BY <1>6, <1>7, <1>8, <1>10, ResumeOK DEF Safe, Proceeds
<1> QED
  BY <1>9, <1>10

\* durationChanged.
LEMMA DurationHolds ==
  ASSUME Safe(music, closedAt), durationChanged
  PROVE  Proceeds
<1>1. PICK p : p = [music.player EXCEPT !.decoded = TRUE]
  OBVIOUS
<1>2. PICK x : x = [music EXCEPT !.player = p]
  OBVIOUS
<1>3. p \in Players /\ p.source = music.player.source /\ p.status = music.player.status
  <2>1. music.player \in Players
    BY NowTyped
  <2> QED
    BY ONLY <1>1, <2>1 DEF Players
<1>4. Typed(x) /\ Turned(music, x)
  BY <1>2, <1>3, NowTyped, TurnedPlayer
<1>5. music' = applyResume(x) /\ closedAt' = closedAt
  BY <1>1, <1>2 DEF durationChanged
<1> QED
  BY <1>4, <1>5, ResumeOK DEF Safe, Proceeds

\* positionChanged.
LEMMA PositionHolds ==
  ASSUME Safe(music, closedAt), positionChanged
  PROVE  Proceeds
<1>1. PICK p : p = [music.player EXCEPT !.pos = 1]
  OBVIOUS
<1>2. p \in Players /\ p.source = music.player.source /\ p.status = music.player.status
  <2>1. music.player \in Players
    BY NowTyped
  <2> QED
    BY ONLY <1>1, <2>1 DEF Players, Places
<1>3. music' = [music EXCEPT !.player = p] /\ closedAt' = closedAt
  BY <1>1 DEF positionChanged, StaysOpen
<1> QED
  BY <1>2, <1>3, NowTyped, TurnedPlayer, TurnOK DEF Safe, Proceeds

\* EndOfMedia: the next song, the same one again, or silence.
LEMMA EndHolds ==
  ASSUME Safe(music, closedAt), EndOfMedia
  PROVE  Proceeds
<1>1. PICK p : p = [music.player EXCEPT !.status = "ended", !.playing = FALSE]
  OBVIOUS
<1>2. PICK x : x = [music EXCEPT !.player = p]
  OBVIOUS
<1>3. p \in Players /\ p.source = music.player.source /\ p.status = "ended"
  <2>1. music.player \in Players
    BY NowTyped
  <2> QED
    BY ONLY <1>1, <2>1 DEF Players
<1>4. p.source # Nothing /\ music.player.status # "none" /\ closedAt' = closedAt
  BY <1>3 DEF EndOfMedia, hasLoadedSource, StaysOpen
<1>5. Typed(x) /\ Turned(music, x) /\ x.player = p
  BY <1>2, <1>3, <1>4, NowTyped, TurnedPlayer
<1>6. \/ music' = x
      \/ music' = [x EXCEPT !.player = Playing(@)]
      \/ \E s \in Songs : \E exists \in Files(s) :
            music' = resolveCurrent([x EXCEPT !.song = s], 0, TRUE, FALSE, exists)
  BY <1>1, <1>2 DEF EndOfMedia
<1>7. CASE music' = x
  BY <1>4, <1>5, <1>7, TurnOK DEF Safe, Proceeds
<1>8. CASE music' = [x EXCEPT !.player = Playing(@)]
  <2>1. PICK q : q = Playing(p)
    OBVIOUS
  <2>2. q \in Players /\ q.source = p.source /\ q.status = "loaded"
    BY <1>3, <2>1, PlayingPlayer
  <2>3. PICK y : y = [x EXCEPT !.player = q]
    OBVIOUS
  <2>4. music' = y
    BY <1>5, <1>8, <2>1, <2>3
  <2>5. Typed(y) /\ Turned(x, y)
    BY <1>3, <1>5, <2>2, <2>3, TurnedPlayer
  <2>6. Turned(music, y)
    BY <1>5, <2>5 DEF Turned, SameLoad
  <2> QED
    BY <1>4, <2>4, <2>5, <2>6, TurnOK DEF Safe, Proceeds
<1>9. CASE \E s \in Songs : \E exists \in Files(s) :
            music' = resolveCurrent([x EXCEPT !.song = s], 0, TRUE, FALSE, exists)
  <2>8. PICK s \in Songs : \E exists \in Files(s) :
            music' = resolveCurrent([x EXCEPT !.song = s], 0, TRUE, FALSE, exists)
    BY <1>9
  <2>1. PICK exists \in Files(s) :
            music' = resolveCurrent([x EXCEPT !.song = s], 0, TRUE, FALSE, exists)
    BY <2>8
  <2>2. PICK y : y = [x EXCEPT !.song = s]
    OBVIOUS
  <2>3. /\ Typed(y) /\ y.song = s /\ y.generation = x.generation /\ y.committed = x.committed
        /\ y.requests = x.requests /\ y.deferred = x.deferred /\ y.player = x.player
    BY ONLY <1>5, <2>2, s \in Songs DEF Typed, MusicFields
  <2>4. /\ y.generation = music.generation /\ y.committed = music.committed
        /\ y.requests = music.requests /\ y.deferred = music.deferred
        /\ y.player.source # Nothing /\ y.song \in Songs
    BY <1>3, <1>4, <1>5, <2>3 DEF Turned, SameLoad
  <2>5. PICK b, o : b = TRUE /\ b \in BOOLEAN /\ o = 0 /\ o \in Places
    BY DEF Places
  <2>6. music' = resolveCurrent(y, o, b, FALSE, exists) /\ exists \in BOOLEAN
    BY <2>1, <2>2, <2>5, NowTyped
  <2>7. Holds(music') /\ AtClose(music', closedAt) /\ Step(music, music', closedAt)
    BY <2>3, <2>4, <2>5, <2>6, ResolveOK DEF Safe
  <2> QED
    BY <1>4, <2>7 DEF Safe, Proceeds
<1> QED
  BY <1>6, <1>7, <1>8, <1>9

-----------------------------------------------------------------------------
\* An error: of another load, with a backup address, with a switch to undo, or for good.
LEMMA ErrorHolds ==
  ASSUME Safe(music, closedAt), errorOccurred
  PROVE  Proceeds
<1>1. PICK p : p = [music.player EXCEPT !.status = "failed", !.playing = FALSE]
  OBVIOUS
<1>2. PICK x : x = [music EXCEPT !.player = p]
  OBVIOUS
<1>3. p \in Players /\ p.source = music.player.source /\ p.status = "failed"
  <2>1. music.player \in Players
    BY NowTyped
  <2> QED
    BY ONLY <1>1, <2>1 DEF Players
<1>4. music.player.status # "none" /\ closedAt' = closedAt /\ music' = MediaFailed(x)
  BY <1>1, <1>2 DEF errorOccurred, StaysOpen
<1>5. Typed(x) /\ Turned(music, x)
  BY <1>2, <1>3, <1>4, NowTyped, TurnedPlayer
<1>6. Holds(x) /\ AtClose(x, closedAt) /\ Step(music, x, closedAt)
  BY <1>5, TurnOK DEF Safe
<1>7. /\ x.generation = music.generation /\ x.committed = music.committed /\ x.actual = music.actual
      /\ x.player.source # Nothing /\ x.song # Nothing
  <2>1. x.player.source # Nothing
    BY <1>4, <1>5, NowTyped DEF Turned
  <2> QED
    BY <1>5, <1>6, <2>1 DEF Turned, SameLoad, Holds, Rest, Selected
<1>8. CASE music' = x
  BY <1>4, <1>6, <1>8 DEF Safe, Proceeds
<1>9. CASE ~x.stopped /\ ~NotOfThisLoad(x) /\ x.backups # <<>> /\ TurnedTo(x, music')
  <2>1. Typed(music')
    BY <1>4, <1>5, Fails
  <2>2. Holds(music')
    BY <1>6, <1>7, <1>9, <2>1, TurnToHolds
  <2>3. AtClose(music', closedAt)
    BY <1>6, <1>9 DEF AtClose, TurnedTo
  <2>4. Step(x, music', closedAt)
    BY <1>6, <1>9, TurnToSteps
  <2>5. Step(music, music', closedAt)
    BY <1>5, <2>4, StepFrom
  <2> QED
    BY <1>4, <2>2, <2>3, <2>5 DEF Safe, Proceeds
<1>10. CASE CanRecover(x) /\ music' = recoverQualitySwitch(x)
  <2>1. x.saved # Nothing
    BY <1>10 DEF CanRecover
  <2>2. Typed(music') /\ Recovered(x, music')
    BY <1>5, <1>10, <2>1, Recovers
  <2>3. Holds(music')
    BY <1>6, <2>1, <2>2, RecoverHolds DEF Holds, Rest
  <2>4. music'.generation = x.generation + 1
    BY <2>2 DEF Recovered
  <2>5. AtClose(music', closedAt)
    BY <1>5, <1>6, <2>4, Later
  <2>6. Step(music, music', closedAt)
    BY <1>5, <1>7, <2>2, RecoverSteps
  <2> QED
    BY <1>4, <2>3, <2>5, <2>6 DEF Safe, Proceeds
<1>11. CASE ~x.stopped /\ ~NotOfThisLoad(x) /\ ~CanRecover(x) /\ music' = GivenUp(x)
  <2>1. /\ Typed(music') /\ Abandoned(x, music') /\ music'.pending = Nothing /\ music'.reload /\ ~music'.recovering
    <3>1. ~GivenUp(x).recovering
      BY ONLY <1>5 DEF GivenUp, Typed, MusicFields
    <3> QED
      BY <1>5, <1>11, <3>1, GivesUp
  <2>2. \A r : ~Awaited(x, r)
    BY <1>6, <1>11 DEF NotOfThisLoad, Holds, Rest, Loads
  <2>3. Holds(music')
    BY <1>6, <2>1, <2>2, DropHolds DEF Holds, Rest
  <2>4. AtClose(music', closedAt)
    BY <1>6, <1>11, <2>1 DEF AtClose, Abandoned
  <2>5. x.saved # Nothing => music'.reload /\ x.recovering
    BY <1>6, <1>11, <2>1 DEF Holds, Rest, Falls, CanRecover
  <2>6. Step(x, music', closedAt)
    BY <2>1, <2>5, DropSteps
  <2>7. Step(music, music', closedAt)
    BY <1>5, <2>6, StepFrom
  <2> QED
    BY <1>4, <2>3, <2>4, <2>7 DEF Safe, Proceeds
<1> QED
  BY <1>4, <1>5, <1>8, <1>9, <1>10, <1>11, Fails

-----------------------------------------------------------------------------
\* The zero timers run.
LEMMA DeferredCallsHold ==
  ASSUME Safe(music, closedAt), Deferred
  PROVE  Proceeds
<1>1. music' = RanAll([music EXCEPT !.deferred = <<>>], music.deferred)
  BY Zenon DEF Deferred, RanAll
<1>2. closedAt' = closedAt
  BY DEF Deferred
<1> QED
  BY <1>1, <1>2, DeferredHolds DEF Safe, Proceeds

\* The resume timer: the media goes on at its beginning.
LEMMA ResumeDeadlineHolds ==
  ASSUME Safe(music, closedAt), ResumeDeadline
  PROVE  Proceeds
<1>1. PICK x : x = [music EXCEPT !.resumeTimer = FALSE]
  OBVIOUS
<1>2. Typed(music) /\ 0 \in Places
  BY NowTyped DEF Places
<1>3. Typed(x) /\ SameUser(music, x) /\ SameLoad(music, x) /\ x.observed = music.observed /\ x.player = music.player
  BY ONLY <1>1, <1>2 DEF Typed, MusicFields, SameUser, SameLoad
<1>4. Turned(music, x)
  BY <1>3 DEF Turned, SameUser
<1>5. music' = (IF x.resume THEN applyResume([x EXCEPT !.resumePos = 0]) ELSE x) /\ closedAt' = closedAt
  BY <1>1 DEF ResumeDeadline, StaysOpen
<1>6. CASE ~x.resume
  BY <1>3, <1>4, <1>5, <1>6, TurnOK DEF Safe, Proceeds
<1>7. CASE x.resume
  <2>1. PICK y : y = [x EXCEPT !.resumePos = 0]
    OBVIOUS
  <2>2. /\ Typed(y) /\ SameLoad(x, y) /\ y.observed = x.observed /\ y.player = x.player
        /\ y.song = x.song /\ y.generation = x.generation /\ y.quality = x.quality
        /\ y.backups = x.backups /\ y.stopped = x.stopped
        /\ y.requests = x.requests /\ y.deferred = x.deferred
    BY ONLY <1>2, <1>3, <2>1 DEF Typed, MusicFields, SameLoad
  <2>3. Turned(music, y)
    BY <1>4, <2>2 DEF Turned, SameLoad
  <2> QED
    BY <1>5, <1>7, <2>1, <2>2, <2>3, ResumeOK DEF Safe, Proceeds
<1> QED
  BY <1>6, <1>7

\* The load timer: the switch is undone or the load given up.
LEMMA LoadDeadlineHolds ==
  ASSUME Safe(music, closedAt), LoadDeadline
  PROVE  Proceeds
<1>1. PICK x : x = [music EXCEPT !.loadTimer = FALSE]
  OBVIOUS
<1>2. Typed(music)
  BY NowTyped
<1>3. /\ Typed(x) /\ SameUser(music, x) /\ x.observed = music.observed /\ x.player = music.player
      /\ x.loading = music.loading /\ x.resume = music.resume /\ ~x.loadTimer
      /\ x.actual = music.actual /\ x.pending = music.pending /\ x.pendingActual = music.pendingActual
      /\ x.recovering = music.recovering /\ x.saved = music.saved /\ x.reload = music.reload
      /\ x.switching = music.switching /\ x.committed = music.committed
  BY ONLY <1>1, <1>2 DEF Typed, MusicFields, SameUser
<1>4. closedAt' = closedAt
  BY DEF LoadDeadline, StaysOpen
<1>5. music' = IF ~x.loading THEN x
               ELSE IF CanRecover(x) THEN recoverQualitySwitch(x)
               ELSE [GivenUp(x) EXCEPT !.generation = @ + 1, !.player = Stopped(@)]
  BY <1>1 DEF LoadDeadline
<1>6. /\ \A r : Awaited(x, r) <=> Awaited(music, r)
      /\ \A i : Due(x, x.deferred, 0, i) <=> Due(music, music.deferred, 0, i)
      /\ \A i, what : DueTo(x, x.deferred, 0, i, what) <=> DueTo(music, music.deferred, 0, i, what)
  BY <1>3 DEF SameUser, Awaited, Due, DueTo
<1>7. Bounds(x, x.deferred)
  BY <1>3 DEF SameUser, Safe, Holds, Rest, Bounds
<1>8. Selected(x, x.deferred, 0)
  BY <1>3, <1>6 DEF SameUser, Safe, Holds, Rest, Selected
<1>9. Loads(x, x.deferred, 0)
  BY <1>3, <1>6 DEF SameUser, Safe, Holds, Rest, Loads
<1>10. Tells(x, x.deferred, 0)
  BY <1>3, <1>6 DEF SameUser, Safe, Holds, Rest, Tells, Describes
<1>11. Falls(x, x.deferred, 0)
  BY <1>3, <1>6 DEF SameUser, Safe, Holds, Rest, Falls, Fits
<1>12. AtClose(x, closedAt)
  BY <1>3, <1>6 DEF SameUser, Safe, AtClose
<1>13. CASE ~x.loading
  <2>1. music' = x
    BY <1>5, <1>13
  <2>2. Holds(x)
    BY <1>3, <1>7, <1>8, <1>9, <1>10, <1>11 DEF Holds, Rest
  <2>3. Step(music, x, closedAt)
    BY <1>3, <1>11, <1>13 DEF SameUser, Falls, Step, Times, Keeps, Commits, Ends
  <2> QED
    BY <1>4, <1>12, <2>1, <2>2, <2>3 DEF Safe, Proceeds
<1>14. CASE x.loading /\ CanRecover(x)
  <2>1. x.saved # Nothing /\ music' = recoverQualitySwitch(x)
    BY <1>5, <1>14 DEF CanRecover
  <2>2. Typed(music') /\ Recovered(x, music')
    BY <1>3, <2>1, Recovers
  <2>3. Holds(music')
    BY <1>3, <1>7, <1>8, <1>10, <2>1, <2>2, RecoverHolds
  <2>4. music'.generation = x.generation + 1
    BY <2>2 DEF Recovered
  <2>5. AtClose(music', closedAt)
    BY <1>3, <1>12, <2>4, Later
  <2>6. Step(music, music', closedAt)
    BY <1>3, <2>2, RecoverSteps DEF SameUser
  <2> QED
    BY <1>4, <2>3, <2>5, <2>6 DEF Safe, Proceeds
<1>15. CASE x.loading /\ ~CanRecover(x)
  <2>1. PICK z : z = GivenUp(x)
    OBVIOUS
  <2>2. Typed(z) /\ Abandoned(x, z) /\ z.pending = Nothing /\ z.reload /\ ~z.recovering
    <3>1. ~GivenUp(x).recovering
      BY ONLY <1>3 DEF GivenUp, Typed, MusicFields
    <3> QED
      BY <1>3, <2>1, <3>1, GivesUp
  <2>3. PICK p : p = Stopped(z.player)
    OBVIOUS
  <2>4. /\ p \in Players /\ p.source = z.player.source
        /\ p.status = IF z.player.status = "ended" THEN "loaded" ELSE z.player.status
    BY <2>2, <2>3, StoppedPlayer DEF Typed
  <2>5. PICK g : g = z.generation + 1 /\ g \in Nat
    BY <2>2 DEF Typed
  <2>6. PICK y : y = [z EXCEPT !.generation = g, !.player = p]
    OBVIOUS
  <2>7. music' = y
    BY <1>5, <1>15, <2>1, <2>3, <2>5, <2>6
  <2>8. /\ Typed(y) /\ SameLoad(z, y) /\ y.player = p /\ y.observed = z.observed
        /\ y.song = z.song /\ y.generation = g /\ y.quality = z.quality /\ y.backups = z.backups
        /\ y.stopped = z.stopped /\ y.requests = z.requests /\ y.deferred = z.deferred
    BY ONLY <2>2, <2>4, <2>5, <2>6 DEF Typed, MusicFields, SameLoad
  <2>9. /\ y.generation = x.generation + 1 /\ y.requests = x.requests /\ y.deferred = x.deferred
        /\ y.player.source = x.player.source /\ y.song = x.song /\ y.backups = x.backups
        /\ y.player.source = Nothing => y.player.status = "none"
        /\ y.actual = x.actual /\ y.pendingActual = x.pendingActual /\ y.committed = x.committed
        /\ y.saved = Nothing /\ y.pending = Nothing /\ ~y.recovering /\ ~y.loading /\ y.reload
    BY <1>7, <2>2, <2>4, <2>5, <2>8 DEF Abandoned, SameLoad, Bounds
  <2>10. /\ Bounds(y, y.deferred)
         /\ \A r : ~Awaited(y, r)
         /\ \A i, what : ~Due(y, y.deferred, 0, i) /\ ~DueTo(y, y.deferred, 0, i, what)
         /\ AtClose(y, closedAt) /\ y.generation # x.generation
    BY <1>3, <1>7, <1>12, <2>9, Overtaken
  <2>11. Selected(y, y.deferred, 0)
    BY <1>8, <2>9, <2>10 DEF Selected
  <2>12. Loads(y, y.deferred, 0) /\ Falls(y, y.deferred, 0)
    BY <2>9, <2>10 DEF Loads, Falls
  <2>13. Tells(y, y.deferred, 0)
    BY <1>10, <2>9, <2>10 DEF Tells, Describes
  <2>14. music.saved # Nothing => music.recovering
    BY <1>3, <1>11, <1>15 DEF Falls, CanRecover
  <2>15. Step(music, y, closedAt)
    BY <1>3, <2>9, <2>10, <2>14 DEF SameUser, Step, Times, Keeps, Commits, Ends
  <2> QED
    BY <1>4, <2>7, <2>8, <2>10, <2>11, <2>12, <2>13, <2>15 DEF Safe, Proceeds, Holds, Rest
<1> QED
  BY <1>13, <1>14, <1>15

-----------------------------------------------------------------------------
PlaceOK == place \in [at : SUBSET Places, kept : BOOLEAN]
MInv == Safe(music, closedAt) /\ PlaceOK

\* The session starts empty or as it was saved.
LEMMA StartHolds == Init => MInv
<1> SUFFICES ASSUME Init PROVE MInv
  OBVIOUS
<1>1. PICK q \in Qualities : \/ music = Unstarted(q)
                            \/ \E s \in Songs, pos \in Places, due \in BOOLEAN : music = Restored(q, s, pos, due)
  BY DEF Init
<1>2. PICK u : u = Unstarted(q)
  OBVIOUS
<1>3. Empty \in Players /\ Empty.source = Nothing /\ Empty.status = "none"
  BY DEF Empty, Players, Places
<1>4. /\ Typed(u) /\ u.song = Nothing /\ u.player = Empty /\ u.pending = Nothing /\ u.saved = Nothing
      /\ u.requests = {} /\ u.deferred = <<>> /\ u.backups = <<>> /\ ~u.loading /\ ~u.recovering
  BY ONLY <1>2, <1>3, q \in Qualities DEF Unstarted, Typed, MusicFields, Delivered, Places
<1>5. /\ Typed(music) /\ music.player = Empty /\ music.pending = Nothing /\ music.saved = Nothing
      /\ music.requests = {} /\ music.deferred = <<>> /\ music.backups = <<>>
  <2>1. CASE music = u
    BY <1>4, <2>1
  <2>2. ASSUME NEW s \in Songs, NEW pos \in Places, NEW due \in BOOLEAN, music = Restored(q, s, pos, due)
        PROVE  /\ Typed(music) /\ music.player = Empty /\ music.pending = Nothing /\ music.saved = Nothing
               /\ music.requests = {} /\ music.deferred = <<>> /\ music.backups = <<>>
    <3>1. PICK b : b = (due \/ pos > 0)
      OBVIOUS
    <3>2. b \in BOOLEAN
      BY <3>1
    <3>3. PICK m : m = [u EXCEPT !.song = s, !.resume = b, !.resumePos = pos]
      OBVIOUS
    <3>4. /\ Typed(m) /\ m.player = u.player /\ m.pending = Nothing /\ m.saved = Nothing
          /\ m.requests = {} /\ m.deferred = <<>> /\ m.backups = <<>>
      BY ONLY <1>4, <3>2, <3>3, s \in Songs, pos \in Places DEF Typed, MusicFields
    <3>5. music = m
      BY <1>2, <2>2, <3>1, <3>3 DEF Restored
    <3> QED
      BY <1>4, <3>4, <3>5
  <2> QED
    BY <1>1, <1>2, <2>1, <2>2
<1>6. /\ \A r : ~Awaited(music, r)
      /\ \A i, what : ~Due(music, music.deferred, 0, i) /\ ~DueTo(music, music.deferred, 0, i, what)
  BY <1>5 DEF Awaited, Due, DueTo
<1>7. Bounds(music, music.deferred)
  BY <1>3, <1>5 DEF Bounds
<1>8. Selected(music, music.deferred, 0)
  BY <1>3, <1>5, <1>6 DEF Selected
<1>9. Loads(music, music.deferred, 0) /\ Tells(music, music.deferred, 0) /\ Falls(music, music.deferred, 0)
  BY <1>3, <1>5, <1>6 DEF Loads, Tells, Falls
<1>10. AtClose(music, closedAt)
  BY DEF Init, AtClose
<1>11. PlaceOK
  BY DEF Init, PlaceOK
<1> QED
  BY <1>5, <1>7, <1>8, <1>9, <1>10, <1>11 DEF MInv, Safe, Holds, Rest

\* The ghost that remembers the place keeps its type.
LEMMA PlaceHolds ==
  ASSUME MInv, Next
  PROVE  PlaceOK'
<1>1. /\ DOMAIN place = {"at", "kept"} /\ place.at \in SUBSET Places /\ place.kept \in BOOLEAN
      /\ place = [at |-> place.at, kept |-> place.kept]
  BY DEF MInv, PlaceOK
<1>2. CASE UNCHANGED place
  BY <1>2 DEF MInv, PlaceOK
<1>3. CASE Forget
  BY <1>1, <1>3 DEF Forget, PlaceOK
<1>4. CASE \E p \in Places : MoveTo(p)
  <2>1. PICK p \in Places : MoveTo(p)
    BY <1>4
  <2>2. PICK s : s = IF place.at = {} \/ GivenAway THEN {} ELSE {p}
    OBVIOUS
  <2>3. s \in SUBSET Places
    BY <2>2
  <2>4. place' = [place EXCEPT !.at = s]
    BY <1>1, <2>1, <2>2 DEF MoveTo
  <2> QED
    BY <1>1, <2>3, <2>4 DEF PlaceOK
<1>5. CASE \E q \in Qualities : setQuality(q)
  <2>1. PICK q \in Qualities : setQuality(q)
    BY <1>5
  <2>2. \/ UNCHANGED place
        \/ place' = [place EXCEPT !.kept = @ /\ ~Restoring(music)]
        \/ place' = [at |-> {position(music)},
                     kept |-> music'.saved # Nothing /\ music.player.decoded /\ ~music.resume]
    BY <2>1 DEF setQuality
  <2>3. CASE place' = [place EXCEPT !.kept = @ /\ ~Restoring(music)]
    <3>1. PICK b : b = (place.kept /\ ~Restoring(music)) /\ b \in BOOLEAN
      OBVIOUS
    <3>2. place' = [place EXCEPT !.kept = b]
      BY <1>1, <2>3, <3>1
    <3> QED
      BY <1>1, <3>1, <3>2 DEF PlaceOK
  <2>4. CASE place' = [at |-> {position(music)},
                     kept |-> music'.saved # Nothing /\ music.player.decoded /\ ~music.resume]
    <3>1. PICK b, s : b = (music'.saved # Nothing /\ music.player.decoded /\ ~music.resume) /\ b \in BOOLEAN
                      /\ s = {position(music)}
      OBVIOUS
    <3>2. place' = [at |-> s, kept |-> b]
      BY <2>4, <3>1
    <3>3. s \in SUBSET Places
      BY <3>1, NowTyped DEF MInv
    <3> QED
      BY <3>1, <3>2, <3>3 DEF PlaceOK
  <2> QED
    BY <1>2, <2>2, <2>3, <2>4
<1>6. 1 \in Places
  BY DEF Places
<1>7. \/ UNCHANGED place \/ Forget
      \/ (\E p \in Places : MoveTo(p))
      \/ (\E q \in Qualities : setQuality(q))
  BY <1>6 DEF Next, User, Media, Select, seek, toggle, retry, clearQueue, Close, MediaLoaded, durationChanged,
              positionChanged, EndOfMedia, errorOccurred, ResumeDeadline, LoadDeadline, UrlAnswer, Deferred
<1> QED
  BY <1>2, <1>3, <1>4, <1>5, <1>7

\* Every action preserves the parts and does nothing a step may not do.
LEMMA NextProceeds ==
  ASSUME MInv, Next
  PROVE  MInv' /\ Step(music, music', closedAt)
<1>1. Safe(music, closedAt)
  BY DEF MInv
<1>2. ASSUME NEW s \in Songs, Select(s) PROVE Proceeds
  BY <1>1, <1>2, SelectHolds
<1>3. ASSUME NEW q \in Qualities, setQuality(q) PROVE Proceeds
  BY <1>1, <1>3, SetQualityHolds
<1>4. ASSUME NEW p \in Places, seek(p) PROVE Proceeds
  BY <1>1, <1>4, SeekHolds
<1>11. ASSUME toggle PROVE Proceeds
  BY <1>1, <1>11, ToggleHolds
<1>12. ASSUME retry PROVE Proceeds
  BY <1>1, <1>12, RetryHolds
<1>13. ASSUME clearQueue PROVE Proceeds
  BY <1>1, <1>13, ClearHolds
<1>14. ASSUME Close PROVE Proceeds
  BY <1>1, <1>14, CloseHolds
<1>15. ASSUME MediaLoaded PROVE Proceeds
  BY <1>1, <1>15, MediaLoadedHolds
<1>16. ASSUME durationChanged PROVE Proceeds
  BY <1>1, <1>16, DurationHolds
<1>17. ASSUME positionChanged PROVE Proceeds
  BY <1>1, <1>17, PositionHolds
<1>18. ASSUME EndOfMedia PROVE Proceeds
  BY <1>1, <1>18, EndHolds
<1>19. ASSUME errorOccurred PROVE Proceeds
  BY <1>1, <1>19, ErrorHolds
<1>20. ASSUME ResumeDeadline PROVE Proceeds
  BY <1>1, <1>20, ResumeDeadlineHolds
<1>21. ASSUME LoadDeadline PROVE Proceeds
  BY <1>1, <1>21, LoadDeadlineHolds
<1>22. ASSUME Deferred PROVE Proceeds
  BY <1>1, <1>22, DeferredCallsHold
<1>7. ASSUME NEW r \in music.requests, UrlAnswer(r) PROVE Proceeds
  BY <1>1, <1>7, UrlAnswerHolds
<1>8. Proceeds
  BY <1>2, <1>3, <1>4, <1>7, <1>11, <1>12, <1>13, <1>14, <1>15, <1>16, <1>17, <1>18, <1>19, <1>20, <1>21, <1>22
     DEF Next, User, Media
<1>9. Safe(music, closedAt)'
  BY <1>8 DEF Proceeds
<1> QED
  BY <1>8, <1>9, PlaceHolds DEF MInv, Proceeds

\* The inductive invariant of the session.
LEMMA MInvStep == MInv /\ [Next]_playbackVars => MInv'
<1>1. ASSUME MInv, UNCHANGED playbackVars PROVE MInv'
  <2>1. music' = music /\ closedAt' = closedAt /\ place' = place
    BY <1>1 DEF playbackVars
  <2> QED
    BY <1>1, <2>1 DEF MInv, PlaceOK, Safe
<1> QED
  BY <1>1, NextProceeds

(* For any songs, qualities and number of generations: whatever answers late, loads
   late or fails late, the player of MusicController holds a source of the selected
   song or none, and after finishSession() nothing loads, nothing is timed and the
   source stays until the user asks for something again. *)
THEOREM SourceOfSelectionHolds == Spec => SourceOfSelection
<1>1. ASSUME MInv
      PROVE  /\ MusicTypeOK
             /\ music.player.source # Nothing => music.player.source.song = music.song
             /\ music.generation \in closedAt => ~music.loading /\ ~music.loadTimer
  <2>1. Holds(music) /\ AtClose(music, closedAt) /\ PlaceOK /\ Typed(music)
    BY <1>1 DEF MInv, Safe, Holds, Rest
  <2>2. MusicTypeOK
    BY <2>1 DEF MusicTypeOK, Typed, PlaceOK, AtClose
  <2> QED
    BY <2>1, <2>2 DEF Holds, Rest, Selected, AtClose
<1>2. ASSUME MInv, [Next]_playbackVars
      PROVE  [music.generation \in closedAt /\ music'.generation = music.generation
                => music'.player.source = music.player.source /\ music'.song = music.song]_playbackVars
  BY <1>2, NextProceeds DEF Step, Keeps
<1> QED
  BY <1>1, <1>2, StartHolds, MInvStep, PTL DEF Spec, SourceOfSelection

(* loadDeadline_ once started runs until the load settles: no fall-back, backup
   address, late answer or deferred call stops it while the load goes on. *)
THEOREM StaysTimedHolds == Spec => StaysTimed
<1>1. ASSUME MInv, [Next]_playbackVars
      PROVE  [music.loading /\ music.loadTimer /\ music'.loading => music'.loadTimer]_playbackVars
  BY <1>1, NextProceeds DEF Step, Times
<1> QED
  BY <1>1, StartHolds, MInvStep, PTL DEF Spec, StaysTimed

(* MusicController commits a quality only with loaded media of the selected song, and
   in a switch only with media of the quality that was chosen.  A switch that ends
   has a loaded source in the player, unless the kept one could not be put back
   either: then the song is left for a retry. *)
THEOREM SwitchFallsBackHolds == Spec => SwitchFallsBack
<1>1. ASSUME MInv, [Next]_playbackVars
      PROVE  [CommitNeedsMedia /\ FallsBack]_playbackVars
  BY <1>1, NextProceeds DEF Step, Commits, Ends, CommitNeedsMedia, FallsBack
<1> QED
  BY <1>1, StartHolds, MInvStep, PTL DEF Spec, SwitchFallsBack

-----------------------------------------------------------------------------
(* Where a switch that keeps its source goes on: it waits for the answer, with the listener
   in the kept source or its place remembered; it loads something that is to go on there; or
   it plays there.  A retry of a backup address that is due goes on there too. *)
Waits(x, at) ==
  /\ x.loading /\ ~x.resume /\ x.pending = Nothing /\ x.saved # Nothing
  /\ ~x.recovering /\ x.switching /\ ~x.reload
  /\ IF x.player.source = x.saved.url
     THEN hasLoadedSource(x.player) /\ x.player.decoded /\ x.player.pos \in at
     ELSE x.saved.pos \in at
GoesOn(x, at) ==
  /\ x.loading /\ x.resume /\ x.pending # Nothing /\ x.resumePos \in at /\ ~x.reload
  /\ x.saved # Nothing => x.saved.pos \in at
  /\ ~x.recovering => /\ ~x.player.playing /\ ~(OwnsLoad(x) /\ Loaded(x))
                      /\ x.player.status \in {"loading", "loaded"} => x.observed /\ x.player.source = x.pending
Plays(x, at) ==
  /\ ~x.loading /\ ~x.resume /\ ~x.recovering /\ ~x.reload /\ x.saved = Nothing
  /\ x.player.status \in {"loaded", "failed"} /\ x.player.pos \in at
TriesAt(x, at, ds, k) ==
  /\ \A i : DueTo(x, ds, k, i, "backup") =>
       /\ ds[i].offset \in at /\ (x.resume \/ ~x.loading)
       /\ ~x.recovering => x.player.status = "failed"
  /\ \A i, j : DueTo(x, ds, k, i, "backup") /\ DueTo(x, ds, k, j, "backup") => i = j
Goes(x, at, ds, k) == TriesAt(x, at, ds, k) /\ (Waits(x, at) \/ GoesOn(x, at) \/ Plays(x, at))
AtHand(x, at) == /\ Goes(x, at, x.deferred, 0)
                 /\ \A i : DueTo(x, x.deferred, 0, i, "backup") => x.player.status = "failed"
PlaceKept == place.kept /\ place.at # {} /\ ~music.stopped => AtHand(music, place.at)

-----------------------------------------------------------------------------
\* Nothing the place depends on changes.
Stays(x, y) ==
  /\ y.generation = x.generation /\ y.stopped = x.stopped /\ y.deferred = x.deferred
  /\ y.loading = x.loading /\ y.resume = x.resume /\ y.pending = x.pending /\ y.saved = x.saved
  /\ y.recovering = x.recovering /\ y.switching = x.switching /\ y.reload = x.reload
  /\ y.resumePos = x.resumePos /\ y.observed = x.observed
  /\ y.player.source = x.player.source /\ y.player.status = x.player.status
  /\ y.player.pos = x.player.pos /\ y.player.decoded = x.player.decoded
  /\ y.player.playing => x.player.playing \/ ~x.loading

\* AtHand depends on the source, the load and the place alone.
LEMMA StayKeeps ==
  ASSUME NEW x, NEW y, NEW at, Stays(x, y), AtHand(x, at)
  PROVE  AtHand(y, at)
<1>1. \A i, what : DueTo(y, y.deferred, 0, i, what) <=> DueTo(x, x.deferred, 0, i, what)
  BY DEF Stays, Due, DueTo
<1>2. TriesAt(y, at, y.deferred, 0)
  BY <1>1 DEF Stays, AtHand, Goes, TriesAt
<1>3. Waits(x, at) => Waits(y, at)
  BY DEF Stays, Waits, hasLoadedSource
<1>4. GoesOn(x, at) => GoesOn(y, at)
  BY DEF Stays, GoesOn, OwnsLoad, Loaded
<1>5. Plays(x, at) => Plays(y, at)
  BY DEF Stays, Plays
<1> QED
  BY <1>1, <1>2, <1>3, <1>4, <1>5 DEF Stays, AtHand, Goes

\* A step that leaves the place alone, and keeps what it was.
LEMMA SamePlace ==
  ASSUME PlaceKept, place' = place, NEW y, y = music', y.stopped = music.stopped,
         AtHand(music, place.at) => AtHand(y, place.at)
  PROVE  PlaceKept'
BY DEF PlaceKept

\* Nothing is claimed of a place that was given up.
LEMMA Forgotten ==
  ASSUME MInv, Forget
  PROVE  PlaceKept'
BY DEF Forget, PlaceKept, MInv, PlaceOK

\* No retry is due to a generation that has just begun.
LEMMA NoneDue ==
  ASSUME NEW y, NEW at, \A i : ~DueTo(y, y.deferred, 0, i, "backup"),
         Waits(y, at) \/ GoesOn(y, at) \/ Plays(y, at)
  PROVE  AtHand(y, at)
BY DEF AtHand, Goes, TriesAt

\* A call that is put at the end of the list.
LEMMA Appended ==
  ASSUME NEW x, Typed(x), NEW d, NEW ds, ds = Append(x.deferred, d)
  PROVE  \E n \in Nat : /\ n > 0 /\ DOMAIN ds = 1..n /\ ds[n] = d
                        /\ \A i \in 1..n : i # n => i \in DOMAIN x.deferred /\ ds[i] = x.deferred[i]
<1>1. PICK n : n = Len(x.deferred) + 1
  OBVIOUS
<1>2. x.deferred \in Seq(Calls)
  BY DEF Typed
<1>3. /\ n \in Nat /\ n > 0 /\ DOMAIN ds = 1..n /\ ds[n] = d
      /\ \A i \in 1..n : i # n => i \in DOMAIN x.deferred /\ ds[i] = x.deferred[i]
  BY ONLY <1>1, <1>2, ds = Append(x.deferred, d)
<1> QED
  BY <1>3

\* A recovery goes on at the kept place, in the player or after a reload.
LEMMA RecoverKeeps ==
  ASSUME NEW x, NEW y, NEW at, Typed(x), Bounds(x, x.deferred), Recovered(x, y), x.saved # Nothing,
         IF x.player.source = x.saved.url /\ hasLoadedSource(x.player)
         THEN x.player.pos \in at /\ ~x.recovering ELSE x.saved.pos \in at
  PROVE  AtHand(y, at)
<1>1. y.generation = x.generation + 1 /\ ~y.reload /\ y.player = x.player
  BY DEF Recovered
<1>2. CASE x.player.source = x.saved.url /\ hasLoadedSource(x.player)
  <2>1. Plays(y, at)
    BY <1>1, <1>2 DEF Recovered, Plays, hasLoadedSource
  <2>2. \A i : ~DueTo(y, y.deferred, 0, i, "backup")
    BY <1>1, <1>2, NewGeneration DEF Recovered, Due, DueTo
  <2> QED
    BY <2>1, <2>2, NoneDue
<1>3. CASE ~(x.player.source = x.saved.url /\ hasLoadedSource(x.player))
  <2>1. x.saved.url # Nothing
    BY SongAssumption DEF Typed, Kept
  <2>2. GoesOn(y, at)
    BY <1>1, <1>3, <2>1 DEF Recovered, GoesOn
  <2>3. PICK d : d = [call |-> "recover", owner |-> y.generation,
                      failed |-> Nothing, url |-> x.saved.url, offset |-> 0]
    OBVIOUS
  <2>4. d.call = "recover" /\ y.deferred = Append(x.deferred, d)
    BY <1>3, <2>3 DEF Recovered
  <2>5. PICK n \in Nat : /\ n > 0 /\ DOMAIN y.deferred = 1..n /\ y.deferred[n] = d
                         /\ \A i \in 1..n : i # n => i \in DOMAIN x.deferred /\ y.deferred[i] = x.deferred[i]
    BY <2>4, Appended
  <2>6. \A i : ~DueTo(y, y.deferred, 0, i, "backup")
    BY <1>1, <2>4, <2>5, NewGeneration DEF Due, DueTo
  <2> QED
    BY <2>2, <2>6, NoneDue
<1> QED
  BY <1>2, <1>3

-----------------------------------------------------------------------------
\* toggle() leaves the place, or forgets it with the load.
LEMMA ToggleKeeps ==
  ASSUME MInv, PlaceKept, toggle
  PROVE  PlaceKept'
<1>1. Safe(music, closedAt) /\ Typed(music) /\ music.player \in Players /\ music.song # Nothing
  BY NowTyped DEF MInv, toggle
<1>2. CASE Forget
  BY <1>2, Forgotten
<1>3. CASE music.loading
  <2>1. PICK b, p : b = ~music.desired /\ p = IF music.desired THEN Paused(music.player) ELSE music.player
    OBVIOUS
  <2>2. music' = [music EXCEPT !.desired = b, !.player = p] /\ place' = place
    BY <1>3, <2>1 DEF toggle
  <2>3. /\ b \in BOOLEAN /\ p \in Players /\ p.source = music.player.source /\ p.status = music.player.status
        /\ p.pos = music.player.pos /\ p.decoded = music.player.decoded
        /\ p.playing => music.player.playing
    BY <1>1, <2>1, PausedPlayer
  <2>4. PICK y : y = music'
    OBVIOUS
  <2>5. y = [music EXCEPT !.desired = b, !.player = p]
    BY <2>2, <2>4
  <2>6. Turned(music, y) /\ SameUser(music, y) /\ y.player = p
    <3>1. Typed(music)
      BY <1>1
    <3>2. y.player = p
      BY ONLY <2>5, <3>1 DEF Typed, MusicFields
    <3>3. /\ b \in BOOLEAN /\ p \in Players /\ p.source = music.player.source
          /\ p.status = "none" <=> music.player.status = "none"
      BY <2>3
    <3>4. Turned(music, y) /\ SameUser(music, y)
      BY ONLY <2>5, <3>1, <3>3, TurnedDesire
    <3> QED
      BY <3>2, <3>4
  <2>7. Stays(music, y)
    BY <2>3, <2>6 DEF Turned, SameUser, SameLoad, Stays
  <2>8. y.stopped = music.stopped
    BY <2>7 DEF Stays
  <2> QED
    BY <2>2, <2>4, <2>7, <2>8, StayKeeps, SamePlace
<1>4. CASE ~music.loading /\ ~Forget
  <2>1. /\ ~(music.reload \/ music.player.status = "failed") /\ music.player.source # Nothing
        /\ music' = [music EXCEPT !.desired = ~music.player.playing,
                         !.player = IF @.playing THEN Paused(@) ELSE Playing(@)]
        /\ place' = place
    BY <1>4 DEF toggle
  <2>2. PICK b, p : b = ~music.player.playing
                    /\ p = IF music.player.playing THEN Paused(music.player) ELSE Playing(music.player)
    OBVIOUS
  <2>3. PICK y : y = music'
    OBVIOUS
  <2>4. y = [music EXCEPT !.desired = b, !.player = p]
    BY <1>1, <2>1, <2>2, <2>3
  <2>5. /\ b \in BOOLEAN /\ p \in Players /\ p.source = music.player.source
        /\ p.status = "none" <=> music.player.status = "none"
        /\ p.decoded = music.player.decoded
        /\ music.player.status # "ended" => p.status = music.player.status /\ p.pos = music.player.pos
    BY <1>1, <2>2, PausedPlayer, PlayingPlayer
  <2>6. Turned(music, y) /\ SameUser(music, y) /\ y.player = p
    <3>1. Typed(music)
      BY <1>1
    <3>2. y.player = p
      BY ONLY <2>4, <3>1 DEF Typed, MusicFields
    <3> QED
      BY <1>1, <2>4, <2>5, <3>2, TurnedDesire
  <2>7. ASSUME AtHand(music, place.at)
        PROVE  AtHand(y, place.at)
    <3>1. Plays(music, place.at)
      BY <1>4, <2>7 DEF AtHand, Goes, Waits, GoesOn
    <3>2. music.player.status # "ended"
      BY <3>1 DEF Plays
    <3>3. Stays(music, y)
      BY <1>4, <2>5, <2>6, <3>2 DEF Turned, SameUser, SameLoad, Stays
    <3> QED
      BY <2>7, <3>3, StayKeeps
  <2>8. y.stopped = music.stopped
    BY <2>6 DEF SameUser
  <2> QED
    BY <2>1, <2>3, <2>7, <2>8, SamePlace
<1> QED
  BY <1>2, <1>3, <1>4

\* A switch starts from the place where the player is or is about to be.
LEMMA QualityKeeps ==
  ASSUME MInv, PlaceKept, NEW q \in Qualities, setQuality(q)
  PROVE  PlaceKept'
<1> DEFINE m == music
           x == [music EXCEPT !.quality = q]
<1>1. PICK y : y = x
  OBVIOUS
<1>2. /\ Typed(y) /\ SameLoad(m, y) /\ y.player = m.player /\ y.observed = m.observed /\ y.desired = m.desired
      /\ y.song = m.song /\ y.generation = m.generation /\ y.quality = q
      /\ y.backups = m.backups /\ y.stopped = m.stopped /\ y.requests = m.requests /\ y.deferred = m.deferred
      /\ y.resumePos = m.resumePos
  <2>1. Typed(m)
    BY NowTyped DEF MInv
  <2> QED
    BY ONLY <1>1, <2>1, q \in Qualities DEF Typed, MusicFields, SameLoad
<1>3. Safe(m, closedAt) /\ Typed(m)
  BY NowTyped DEF MInv
<1>4. CASE m.song = Nothing \/ m.song \in LocalSongs
  <2>1. music' = [x EXCEPT !.committed = q] /\ place' = place
    BY <1>4 DEF setQuality
  <2>2. PICK z : z = [y EXCEPT !.committed = q]
    OBVIOUS
  <2>3. /\ z.player = y.player /\ z.observed = y.observed /\ z.generation = y.generation
        /\ z.stopped = y.stopped /\ z.deferred = y.deferred
        /\ z.loading = y.loading /\ z.resume = y.resume /\ z.pending = y.pending /\ z.resumePos = y.resumePos
        /\ z.recovering = y.recovering /\ z.saved = y.saved /\ z.reload = y.reload /\ z.switching = y.switching
    BY ONLY <1>2, <2>2, q \in Qualities DEF Typed, MusicFields
  <2>4. music' = z
    BY <1>1, <2>1, <2>2
  <2>5. Stays(m, z)
    BY <1>2, <2>3 DEF SameLoad, Stays
  <2> QED
    BY <2>1, <2>4, <2>5, StayKeeps DEF PlaceKept, Stays
<1>5. CASE ~(m.song = Nothing \/ m.song \in LocalSongs)
  <2>1. PICK b, p : b = (x.player.playing \/ (x.loading /\ x.desired)) /\ p = position(x)
    OBVIOUS
  <2>2. b \in BOOLEAN /\ p \in Places
    <3>1. x.resumePos \in Places /\ x.player.pos \in Places
      BY <1>1, <1>2, <1>3, NowTyped DEF Typed
    <3> HIDE DEF x
    <3> QED
      BY <2>1, <3>1 DEF position
  <2>3. PICK n : n = music'
    OBVIOUS
  <2>4. n = resolveCurrent(y, p, b, TRUE, TRUE)
    BY <1>1, <1>5, <2>1, <2>3 DEF setQuality
  <2>5. y.song \in Songs \ LocalSongs
    BY <1>2, <1>3, <1>5, NowTyped
  <2>6. Typed(n) /\ Switched(y, n, p)
    BY <1>2, <2>2, <2>4, <2>5, Switches
  <2>7. Bounds(y, y.deferred)
    BY <1>2, <1>3 DEF Safe, Holds, Rest, Bounds
  <2>8. \A i : ~DueTo(n, n.deferred, 0, i, "backup")
    BY <1>2, <2>6, <2>7, NewGeneration DEF Switched, Due, DueTo
  <2>9. /\ n.loading /\ ~n.resume /\ n.pending = Nothing /\ ~n.recovering /\ n.switching /\ ~n.reload
        /\ n.player = m.player /\ n.stopped = m.stopped
        /\ n.saved = IF m.saved = Nothing /\ CanKeep(m) THEN Keep(m) ELSE m.saved
    <3>1. y.saved = m.saved /\ (CanKeep(y) <=> CanKeep(m)) /\ Keep(y) = Keep(m)
      BY <1>2 DEF SameLoad, CanKeep, Keep
    <3> QED
      BY <1>2, <2>6, <3>1 DEF Switched
  <2>10. CASE m.saved # Nothing
    <3>1. place' = [place EXCEPT !.kept = @ /\ ~Restoring(m)]
      BY <1>5, <2>10 DEF setQuality
    <3>2. DOMAIN place = {"at", "kept"}
      BY DEF MInv, PlaceOK
    <3>3. place'.at = place.at /\ (place'.kept <=> place.kept /\ ~Restoring(m))
      BY <3>1, <3>2
    <3>4. ASSUME AtHand(m, place.at), ~Restoring(m)
          PROVE  Waits(n, place.at)
      <4>1. CASE Waits(m, place.at)
        BY <2>9, <2>10, <4>1 DEF Waits
      <4>2. CASE GoesOn(m, place.at)
        BY <2>9, <2>10, <3>4, <4>2 DEF Waits, GoesOn, Restoring
      <4> QED
        BY <2>10, <3>4, <4>1, <4>2 DEF AtHand, Goes, Plays
    <3> QED
      BY <2>3, <2>8, <2>9, <3>3, <3>4, NoneDue DEF PlaceKept
  <2>11. CASE m.saved = Nothing
    <3>1. place' = [at |-> {position(m)},
                    kept |-> music'.saved # Nothing /\ m.player.decoded /\ ~m.resume]
      BY <1>5, <2>11 DEF setQuality
    <3>2. place'.at = {position(m)} /\ (place'.kept => n.saved # Nothing /\ m.player.decoded /\ ~m.resume)
      BY <2>3, <3>1
    <3>3. ASSUME n.saved # Nothing, m.player.decoded, ~m.resume
          PROVE  Waits(n, {position(m)})
      BY <2>9, <2>11, <3>3 DEF Waits, CanKeep, Keep, position
    <3> QED
      BY <2>3, <2>8, <3>2, <3>3, NoneDue DEF PlaceKept
  <2> QED
    BY <2>10, <2>11
<1> QED
  BY <1>4, <1>5

-----------------------------------------------------------------------------
\* The listener moves in what plays: there it is to go on from now on.
Moves(x, y, p) ==
  /\ SameLoad(x, y) /\ y.generation = x.generation /\ y.stopped = x.stopped /\ y.deferred = x.deferred
  /\ y.player.source = x.player.source /\ y.player.status = x.player.status
  /\ y.player.decoded = x.player.decoded /\ y.player.pos = p

\* The place moves with the player.
LEMMA MoveKeeps ==
  ASSUME MInv, PlaceKept, NEW p \in Places, MoveTo(p), NEW y, y = music', Moves(music, y, p),
         hasLoadedSource(music.player), music.player.decoded \/ music.player.playing
  PROVE  PlaceKept'
<1>1. CASE Forget
  BY <1>1, Forgotten
<1>2. CASE ~Forget
  <2>1. DOMAIN place = {"at", "kept"}
    BY DEF MInv, PlaceOK
  <2>2. place.at # {} /\ ~GivenAway /\ place' = [place EXCEPT !.at = {p}]
    BY <1>2 DEF MoveTo, Forget
  <2>3. place'.at = {p} /\ place'.kept = place.kept
    BY <2>1, <2>2
  <2>4. ASSUME AtHand(music, place.at)
        PROVE  AtHand(y, {p})
    <3>1. \A i : ~DueTo(music, music.deferred, 0, i, "backup")
      BY <2>4 DEF AtHand, hasLoadedSource
    <3>2. \A i : ~DueTo(y, y.deferred, 0, i, "backup")
      BY <3>1 DEF Moves, Due, DueTo
    <3>3. ~GoesOn(music, place.at)
      BY <2>2 DEF GoesOn, GivenAway, OwnsLoad, Loaded, hasLoadedSource
    <3>4. CASE Waits(music, place.at)
      <4>1. Waits(y, {p})
        BY <2>2, <3>4 DEF Waits, GivenAway, Moves, SameLoad, hasLoadedSource
      <4> QED
        BY <3>2, <4>1, NoneDue
    <3>5. CASE Plays(music, place.at)
      <4>1. Plays(y, {p})
        BY <3>5 DEF Plays, Moves, SameLoad
      <4> QED
        BY <3>2, <4>1, NoneDue
    <3> QED
      BY <2>4, <3>3, <3>4, <3>5 DEF AtHand, Goes
  <2>5. y.stopped = music.stopped
    BY DEF Moves
  <2> QED
    BY <2>2, <2>3, <2>4, <2>5 DEF PlaceKept
<1> QED
  BY <1>1, <1>2

\* seek() moves the place.
LEMMA SeekKeeps ==
  ASSUME MInv, PlaceKept, NEW p \in Places, seek(p)
  PROVE  PlaceKept'
<1>1. PICK q : q = [music.player EXCEPT !.pos = p]
  OBVIOUS
<1>2. PICK y : y = music'
  OBVIOUS
<1>3. y = [music EXCEPT !.player = q]
  BY <1>1, <1>2 DEF seek
<1>4. Safe(music, closedAt)
  BY DEF MInv
<1>5. music.player \in Players /\ Typed(music)
  BY <1>4, NowTyped
<1>6. q \in Players /\ q.source = music.player.source /\ q.status = music.player.status
      /\ q.decoded = music.player.decoded /\ q.pos = p
  BY ONLY <1>1, <1>5, p \in Places DEF Players
<1>7. Turned(music, y) /\ SameUser(music, y) /\ y.player = q
  BY <1>3, <1>5, <1>6, TurnedPlayer
<1>8. Moves(music, y, p)
  BY <1>6, <1>7 DEF Moves, Turned
<1> QED
  BY <1>2, <1>8, MoveKeeps DEF seek

\* Playing on moves the place.
LEMMA PositionKeeps ==
  ASSUME MInv, PlaceKept, positionChanged
  PROVE  PlaceKept'
<1>1. PICK p : p = 1 /\ p \in Places
  BY DEF Places
<1>2. PICK q : q = [music.player EXCEPT !.pos = p]
  OBVIOUS
<1>3. PICK y : y = music'
  OBVIOUS
<1>4. y = [music EXCEPT !.player = q]
  BY <1>1, <1>2, <1>3 DEF positionChanged
<1>5. Safe(music, closedAt)
  BY DEF MInv
<1>6. music.player \in Players /\ Typed(music)
  BY <1>5, NowTyped
<1>7. q \in Players /\ q.source = music.player.source /\ q.status = music.player.status
      /\ q.decoded = music.player.decoded /\ q.pos = p
  BY ONLY <1>1, <1>2, <1>6 DEF Players
<1>8. Turned(music, y) /\ SameUser(music, y) /\ y.player = q
  BY <1>4, <1>6, <1>7, TurnedPlayer
<1>9. Moves(music, y, p)
  BY <1>7, <1>8 DEF Moves, Turned
<1>10. MoveTo(p)
  BY <1>1 DEF positionChanged
<1> QED
  BY <1>1, <1>3, <1>9, <1>10, MoveKeeps DEF positionChanged

-----------------------------------------------------------------------------
\* The media is there, or its length: what is to go on in it does so at its place.
LEMMA ArriveKeeps ==
  ASSUME NEW m, NEW x, NEW y, NEW at, Typed(x), Turned(m, x), AtHand(m, at), y = applyResume(x),
         m.player.status \in {"loading", "loaded"}, ~(m.player.status = "loaded" /\ m.player.decoded),
         x.resumePos = m.resumePos, x.player.status = "loaded",
         x.player.playing = m.player.playing, x.player.pos = m.player.pos
  PROVE  AtHand(y, at) /\ y.stopped = m.stopped
<1>1. \A i : ~DueTo(m, m.deferred, 0, i, "backup")
  BY DEF AtHand
<1>2. SameLoad(m, x) /\ x.generation = m.generation /\ x.deferred = m.deferred /\ x.stopped = m.stopped
      /\ x.observed = m.observed /\ x.player.source = m.player.source
  BY DEF Turned
<1>3. CASE OwnsLoad(x) /\ Loaded(x) /\ Settles(x, y)
  <2>1. x.resumePos \in at
    <3>1. m.resume /\ m.pending # Nothing
      BY <1>2, <1>3 DEF OwnsLoad, SameLoad
    <3> QED
      BY <3>1 DEF AtHand, Goes, Waits, GoesOn, Plays
  <2>2. Plays(y, at)
    BY <1>3, <2>1 DEF Plays, Settles
  <2>3. \A i : ~DueTo(y, y.deferred, 0, i, "backup")
    BY <1>1, <1>2, <1>3 DEF Settles, SameUser, Due, DueTo
  <2>4. y.stopped = m.stopped
    BY <1>2, <1>3 DEF Settles, SameUser
  <2> QED
    BY <2>2, <2>3, <2>4, NoneDue
<1>4. CASE y = x /\ ~(OwnsLoad(x) /\ Loaded(x))
  <2>1. \A i : ~DueTo(y, y.deferred, 0, i, "backup")
    BY <1>1, <1>2, <1>4 DEF Due, DueTo
  <2>2. CASE Waits(m, at)
    <3>1. Waits(y, at)
      BY <1>2, <1>4, <2>2 DEF Waits, SameLoad, hasLoadedSource
    <3> QED
      BY <1>2, <1>4, <2>1, <3>1, NoneDue
  <2>3. CASE GoesOn(m, at)
    <3>1. ~m.recovering => m.observed /\ m.player.source = m.pending
      BY <2>3 DEF GoesOn
    <3>2. GoesOn(y, at)
      BY <1>2, <1>4, <2>3, <3>1 DEF GoesOn, SameLoad
    <3> QED
      BY <1>2, <1>4, <2>1, <3>2, NoneDue
  <2>4. CASE Plays(m, at)
    <3>1. Plays(y, at)
      BY <1>2, <1>4, <2>4 DEF Plays, SameLoad
    <3> QED
      BY <1>2, <1>4, <2>1, <3>1, NoneDue
  <2> QED
    BY <2>2, <2>3, <2>4 DEF AtHand, Goes
<1> QED
  BY <1>3, <1>4, Resumes

\* LoadedMedia of the awaited source arrives at the place.
LEMMA LoadedKeeps ==
  ASSUME MInv, PlaceKept, MediaLoaded
  PROVE  PlaceKept'
<1>1. PICK decoded \in BOOLEAN :
        music' = SeenLoaded([music EXCEPT !.player = [@ EXCEPT !.status = "loaded", !.decoded = decoded]])
  BY DEF MediaLoaded
<1>2. PICK p : p = [music.player EXCEPT !.status = "loaded", !.decoded = decoded]
  OBVIOUS
<1>3. PICK x : x = [music EXCEPT !.player = p]
  OBVIOUS
<1>4. PICK y : y = music'
  OBVIOUS
<1>5. Safe(music, closedAt) /\ Typed(music) /\ music.player \in Players
  BY NowTyped DEF MInv
<1>6. p \in Players /\ p.source = music.player.source /\ p.status = "loaded"
      /\ p.playing = music.player.playing /\ p.pos = music.player.pos
  <2>1. music.player \in Players
    BY <1>5
  <2> QED
    BY ONLY <1>2, <2>1, decoded \in BOOLEAN DEF Players
<1>7. music.player.status = "loading" /\ place' = place
  BY DEF MediaLoaded
<1>8. p.status = "none" <=> music.player.status = "none"
  BY <1>6, <1>7
<1>9. Typed(x) /\ Turned(music, x) /\ SameUser(music, x) /\ x.player = p
  BY <1>3, <1>5, <1>6, <1>8, TurnedPlayer
<1>10. y = IF x.stopped THEN x ELSE applyResume(x)
  BY <1>1, <1>2, <1>3, <1>4 DEF SeenLoaded
<1>11. x.stopped = music.stopped /\ x.resumePos = music.resumePos
  BY <1>9 DEF SameUser
<1>12. CASE music.stopped
  BY <1>4, <1>10, <1>11, <1>12 DEF PlaceKept
<1>13. CASE ~music.stopped
  <2>1. y = applyResume(x)
    BY <1>10, <1>11, <1>13
  <2>2. PICK at : at = place.at
    OBVIOUS
  <2>3. AtHand(music, at) => AtHand(y, at) /\ y.stopped = music.stopped
    BY <1>6, <1>7, <1>9, <1>11, <2>1, ArriveKeeps
  <2> QED
    BY <1>4, <1>7, <1>13, <2>2, <2>3 DEF PlaceKept
<1> QED
  BY <1>12, <1>13

\* So does its duration.
LEMMA DurationKeeps ==
  ASSUME MInv, PlaceKept, durationChanged
  PROVE  PlaceKept'
<1>1. PICK p : p = [music.player EXCEPT !.decoded = TRUE]
  OBVIOUS
<1>2. PICK x : x = [music EXCEPT !.player = p]
  OBVIOUS
<1>3. PICK y : y = music'
  OBVIOUS
<1>4. Safe(music, closedAt) /\ Typed(music) /\ music.player \in Players
  BY NowTyped DEF MInv
<1>5. p \in Players /\ p.source = music.player.source /\ p.status = music.player.status
      /\ p.playing = music.player.playing /\ p.pos = music.player.pos
  <2>1. music.player \in Players
    BY <1>4
  <2> QED
    BY ONLY <1>1, <2>1 DEF Players
<1>6. music.player.status = "loaded" /\ ~music.player.decoded /\ place' = place
  BY DEF durationChanged, hasLoadedSource
<1>7. Typed(x) /\ Turned(music, x) /\ SameUser(music, x) /\ x.player = p
  BY <1>2, <1>4, <1>5, TurnedPlayer
<1>8. x.resumePos = music.resumePos
  BY <1>7 DEF SameUser
<1>9. y = applyResume(x)
  BY <1>1, <1>2, <1>3 DEF durationChanged
<1>10. PICK at : at = place.at
  OBVIOUS
<1>11. AtHand(music, at) => AtHand(y, at) /\ y.stopped = music.stopped
  BY <1>5, <1>6, <1>7, <1>8, <1>9, ArriveKeeps
<1>12. y.stopped = music.stopped
  BY <1>7, <1>9, Resumes DEF Settles, SameUser
<1> QED
  BY <1>3, <1>6, <1>10, <1>11, <1>12 DEF PlaceKept

-----------------------------------------------------------------------------
\* A failed source leaves its place to the backup address or to the kept source.
LEMMA ErrorKeeps ==
  ASSUME MInv, PlaceKept, errorOccurred
  PROVE  PlaceKept'
<1>1. PICK p : p = [music.player EXCEPT !.status = "failed", !.playing = FALSE]
  OBVIOUS
<1>2. PICK x : x = [music EXCEPT !.player = p]
  OBVIOUS
<1>3. PICK y : y = music'
  OBVIOUS
<1>4. Safe(music, closedAt) /\ Typed(music) /\ music.player \in Players
  BY NowTyped DEF MInv
<1>5. p \in Players /\ p.source = music.player.source /\ p.status = "failed" /\ ~p.playing
      /\ p.pos = music.player.pos
  <2>1. music.player \in Players
    BY <1>4
  <2> QED
    BY ONLY <1>1, <2>1 DEF Players
<1>6. music.player.status \in {"loading", "loaded"} /\ y = MediaFailed(x)
  BY <1>1, <1>2, <1>3 DEF errorOccurred
<1>7. p.status = "none" <=> music.player.status = "none"
  BY <1>5, <1>6
<1>8. Typed(x) /\ Turned(music, x) /\ SameUser(music, x) /\ x.player = p
  BY <1>2, <1>4, <1>5, <1>7, TurnedPlayer
<1>9. /\ SameLoad(music, x) /\ x.generation = music.generation /\ x.deferred = music.deferred
      /\ x.stopped = music.stopped /\ x.observed = music.observed /\ x.resumePos = music.resumePos
      /\ x.player.source = music.player.source /\ x.player.status = "failed" /\ ~x.player.playing
      /\ x.player.pos = music.player.pos
  BY <1>5, <1>8 DEF Turned, SameUser
<1>10. Typed(y)
  BY <1>6, <1>8, Fails
<1>11. CASE Forget
  BY <1>11, Forgotten
<1>12. CASE ~Forget
  <2>1. place' = place /\ ~NotOfThisLoad(music) /\ ~y.reload
    BY <1>3, <1>12 DEF errorOccurred
  <2>2. ~NotOfThisLoad(x)
    BY <1>9, <2>1 DEF NotOfThisLoad, SameLoad
  <2>3. PICK at : at = place.at
    OBVIOUS
  <2>4. ASSUME AtHand(music, at), ~music.stopped
        PROVE  AtHand(y, at)
    <3>1. \A i : ~DueTo(music, music.deferred, 0, i, "backup")
      BY <1>6, <2>4 DEF AtHand
    <3>2. \A i : ~DueTo(x, x.deferred, 0, i, "backup")
      BY <1>9, <3>1 DEF Due, DueTo
    <3>3. GoesOn(music, at) \/ Plays(music, at)
      BY <2>1, <2>4 DEF AtHand, Goes, Waits, NotOfThisLoad
    <3>4. GoesOn(x, at) \/ Plays(x, at)
      BY <1>9, <3>3 DEF GoesOn, Plays, SameLoad, Loaded
    <3>5. CASE x.backups # <<>> /\ TurnedTo(x, y)
      <4>1. PICK d : d = [call |-> "backup", owner |-> x.generation, failed |-> x.player.source,
                          url |-> Head(x.backups), offset |-> position(x)]
        OBVIOUS
      <4>2. /\ d.offset = position(x) /\ y.deferred = Append(x.deferred, d)
            /\ SameLoad(x, y) /\ y.player = x.player /\ y.observed = x.observed /\ y.resumePos = x.resumePos
            /\ y.generation = x.generation
        BY <3>5, <4>1 DEF TurnedTo
      <4>3. PICK n \in Nat : /\ n > 0 /\ DOMAIN y.deferred = 1..n /\ y.deferred[n] = d
                             /\ \A i \in 1..n : i # n => i \in DOMAIN x.deferred /\ y.deferred[i] = x.deferred[i]
        BY <1>8, <4>2, Appended
      <4>4. \A i : DueTo(y, y.deferred, 0, i, "backup") => i = n
        BY <3>2, <4>2, <4>3 DEF Due, DueTo
      <4>5. position(x) \in at /\ (x.resume \/ ~x.loading)
        BY <3>4 DEF GoesOn, Plays, position
      <4>6. TriesAt(y, at, y.deferred, 0)
        BY <1>9, <4>2, <4>3, <4>4, <4>5 DEF TriesAt, SameLoad
      <4>7. GoesOn(y, at) \/ Plays(y, at)
        BY <3>4, <4>2 DEF GoesOn, Plays, SameLoad, OwnsLoad, Loaded
      <4>8. y.player.status = "failed"
        BY <1>9, <4>2
      <4> QED
        BY <4>6, <4>7, <4>8 DEF AtHand, Goes
    <3>6. CASE CanRecover(x) /\ y = recoverQualitySwitch(x)
      <4>1. x.saved # Nothing /\ x.saved.pos \in at
        BY <3>4, <3>6 DEF CanRecover, GoesOn, Plays
      <4>2. Recovered(x, y)
        BY <1>8, <3>6, <4>1, Recovers
      <4>3. Bounds(x, x.deferred)
        BY <1>4, <1>8 DEF Safe, Holds, Rest, Bounds, Turned
      <4>4. ~hasLoadedSource(x.player)
        BY <1>9 DEF hasLoadedSource
      <4> QED
        BY <1>8, <4>1, <4>2, <4>3, <4>4, RecoverKeeps
    <3>7. y # GivenUp(x)
      BY <1>8, <2>1, GivesUp
    <3> QED
      BY <1>6, <1>8, <1>9, <2>2, <2>4, <3>5, <3>6, <3>7, Fails
  <2>5. music.stopped => y.stopped
    <3>1. y.stopped \in BOOLEAN
      BY <1>10 DEF Typed
    <3>2. CASE CanRecover(x) /\ y = recoverQualitySwitch(x)
      BY <1>8, <1>9, <3>2, Recovers DEF CanRecover, Recovered
    <3>3. y # GivenUp(x)
      BY <1>8, <2>1, GivesUp
    <3> QED
      BY <1>6, <1>8, <1>9, <3>2, <3>3, Fails DEF TurnedTo
  <2> QED
    BY <1>3, <2>1, <2>3, <2>4, <2>5 DEF PlaceKept
<1> QED
  BY <1>11, <1>12

-----------------------------------------------------------------------------
\* The resume timer gives the place up, or finds nothing to resume.
LEMMA ResumeDeadlineKeeps ==
  ASSUME MInv, PlaceKept, ResumeDeadline
  PROVE  PlaceKept'
<1>1. CASE music.resume
  BY <1>1, Forgotten DEF ResumeDeadline
<1>2. CASE ~music.resume
  <2>1. PICK x : x = [music EXCEPT !.resumeTimer = FALSE]
    OBVIOUS
  <2>2. Typed(music)
    BY NowTyped DEF MInv
  <2>3. Typed(x) /\ SameUser(music, x) /\ SameLoad(music, x) /\ x.observed = music.observed /\ x.player = music.player
    BY ONLY <2>1, <2>2 DEF Typed, MusicFields, SameUser, SameLoad
  <2>4. x = music' /\ place' = place
    BY <1>2, <2>1, <2>3 DEF ResumeDeadline, SameLoad
  <2>5. Stays(music, x)
    BY <2>3 DEF SameUser, SameLoad, Stays
  <2>6. x.stopped = music.stopped
    BY <2>3 DEF SameUser
  <2> QED
    BY <2>4, <2>5, <2>6, StayKeeps, SamePlace
<1> QED
  BY <1>1, <1>2

\* The load timer falls back to the kept place.
LEMMA LoadDeadlineKeeps ==
  ASSUME MInv, PlaceKept, LoadDeadline
  PROVE  PlaceKept'
<1>1. PICK x : x = [music EXCEPT !.loadTimer = FALSE]
  OBVIOUS
<1>2. Typed(music)
  BY NowTyped DEF MInv
<1>3. /\ Typed(x) /\ SameUser(music, x) /\ x.observed = music.observed /\ x.player = music.player
      /\ x.loading = music.loading /\ x.resume = music.resume /\ x.pending = music.pending
      /\ x.recovering = music.recovering /\ x.saved = music.saved /\ x.reload = music.reload
      /\ x.switching = music.switching
  BY ONLY <1>1, <1>2 DEF Typed, MusicFields, SameUser
<1>4. PICK y : y = music'
  OBVIOUS
<1>5. y = IF ~x.loading THEN x
          ELSE IF CanRecover(x) THEN recoverQualitySwitch(x)
          ELSE [GivenUp(x) EXCEPT !.generation = @ + 1, !.player = Stopped(@)]
  BY <1>1, <1>4 DEF LoadDeadline
<1>6. IF y.reload \/ (music.resume /\ hasLoadedSource(music.player)) THEN Forget ELSE UNCHANGED place
  BY <1>4 DEF LoadDeadline
<1>7. Stays(music, x)
  BY <1>3 DEF SameUser, Stays
<1>8. CASE Forget
  BY <1>8, Forgotten
<1>9. CASE ~Forget /\ ~x.loading
  <2>1. x.stopped = music.stopped
    BY <1>3 DEF SameUser
  <2> QED
    BY <1>4, <1>5, <1>6, <1>7, <1>9, <2>1, StayKeeps, SamePlace
<1>10. CASE ~Forget /\ x.loading /\ CanRecover(x)
  <2>1. x.saved # Nothing /\ y = recoverQualitySwitch(x)
    BY <1>5, <1>10 DEF CanRecover
  <2>2. Recovered(x, y)
    BY <1>3, <2>1, Recovers
  <2>3. Bounds(x, x.deferred)
    BY <1>3 DEF SameUser, MInv, Safe, Holds, Rest, Bounds
  <2>4. PICK at : at = place.at
    OBVIOUS
  <2>5. AtHand(music, at) => AtHand(y, at)
    <3>1. SUFFICES ASSUME AtHand(music, at) PROVE AtHand(y, at)
      OBVIOUS
    <3>2. Waits(x, at) \/ GoesOn(x, at)
      BY <1>7, <1>10, <3>1, StayKeeps DEF AtHand, Goes, Plays
    <3>3. CASE Waits(x, at)
      BY <1>3, <2>1, <2>2, <2>3, <3>3, RecoverKeeps DEF Waits
    <3>4. CASE GoesOn(x, at)
      <4>1. ~hasLoadedSource(x.player) /\ x.saved.pos \in at
        BY <1>3, <1>6, <1>10, <2>1, <3>4 DEF GoesOn
      <4> QED
        BY <1>3, <2>1, <2>2, <2>3, <4>1, RecoverKeeps
    <3> QED
      BY <3>2, <3>3, <3>4
  <2>6. y.stopped = music.stopped
    BY <1>3, <2>2 DEF Recovered, SameUser
  <2> QED
    BY <1>4, <1>6, <1>10, <2>4, <2>5, <2>6, SamePlace
<1>11. CASE ~Forget /\ x.loading /\ ~CanRecover(x)
  <2>1. PICK z : z = GivenUp(x)
    OBVIOUS
  <2>2. Typed(z) /\ z.reload
    BY <1>3, <2>1, GivesUp
  <2>3. y = [z EXCEPT !.generation = @ + 1, !.player = Stopped(@)]
    BY <1>5, <1>11, <2>1
  <2>4. y.reload
    BY ONLY <2>2, <2>3 DEF Typed, MusicFields
  <2> QED
    BY <1>6, <1>11, <2>4
<1> QED
  BY <1>8, <1>9, <1>10, <1>11

-----------------------------------------------------------------------------
\* The accepted source is to go on at the place that was kept.
LEMMA AcceptKeeps ==
  ASSUME NEW x, NEW n, NEW y, NEW r, NEW reply, NEW at, r \in Requests, reply \in Replies, Typed(x),
         Waits(x, at), r.preserve, ~x.stopped, \A i : ~DueTo(x, x.deferred, 0, i, "backup"),
         Aimed(x, n, r, reply), Accepts(n, y)
  PROVE  AtHand(y, at)
<1>1. n.pending # Nothing
  <2>1. Main(r.song, reply.quality) \in Sources
    BY DEF Main, Sources, Requests, Replies
  <2> QED
    BY <2>1, SongAssumption DEF Aimed
<1>2. /\ n.loading /\ ~n.recovering /\ ~n.reload /\ n.resume /\ ~n.stopped
      /\ n.saved # Nothing /\ n.saved.pos \in at /\ n.resumePos = n.saved.pos
      /\ n.generation = x.generation /\ n.deferred = x.deferred
  BY DEF Aimed, Waits
<1>3. y.generation = x.generation /\ y.deferred = x.deferred
  BY <1>2 DEF Accepts, Settles, SameUser
<1>4. \A i : ~DueTo(y, y.deferred, 0, i, "backup")
  BY <1>3 DEF Due, DueTo
<1>5. CASE Settles(n, y)
  <2>1. Plays(y, at)
    BY <1>2, <1>5 DEF Plays, Settles
  <2> QED
    BY <1>4, <2>1, NoneDue
<1>6. CASE /\ SameUser(n, y) /\ SameLoad(n, y) /\ ~(OwnsLoad(y) /\ Loaded(y))
           /\ ~y.player.playing /\ (~n.stopped => y.observed)
  <2>1. GoesOn(y, at)
    BY <1>1, <1>2, <1>6 DEF GoesOn, Accepts, SameUser, SameLoad
  <2> QED
    BY <1>4, <2>1, NoneDue
<1> QED
  BY <1>5, <1>6 DEF Accepts

\* A late answer changes nothing, a refused one falls back, an accepted one goes on.
LEMMA AnswerKeeps ==
  ASSUME MInv, PlaceKept, NEW r \in music.requests, UrlAnswer(r)
  PROVE  PlaceKept'
<1>1. PICK rest : rest = music.requests \ {r}
  OBVIOUS
<1>2. PICK x : x = [music EXCEPT !.requests = @ \ {r}]
  OBVIOUS
<1>3. Safe(music, closedAt) /\ Typed(music) /\ rest \subseteq Requests /\ r \in Requests
  BY <1>1, NowTyped DEF MInv, Typed
<1>4. x = [music EXCEPT !.requests = rest]
  BY <1>1, <1>2
<1>5. /\ Typed(x) /\ SameLoad(music, x) /\ x.player = music.player /\ x.observed = music.observed
      /\ x.resumePos = music.resumePos
      /\ x.song = music.song /\ x.generation = music.generation /\ x.quality = music.quality
      /\ x.backups = music.backups /\ x.stopped = music.stopped /\ x.deferred = music.deferred
      /\ x.requests = rest
  <2>1. Typed(music)
    BY <1>3
  <2> QED
    BY ONLY <1>3, <1>4, <2>1 DEF Typed, MusicFields, SameLoad
<1>6. Answered(music, x, r)
  BY <1>1, <1>5 DEF Answered
<1>7. PICK y : y = music'
  OBVIOUS
<1>8. place' = place
  BY DEF UrlAnswer
<1>9. IF ~Current(x, r) THEN y = x
      ELSE \/ y = Refused(x, r)
           \/ \E reply \in Replies :
                y = IF NotWorthIt(x, r, reply)
                    THEN IF CanRecover(x) THEN recoverQualitySwitch(x) ELSE x
                    ELSE Accepted(x, r, reply)
  BY <1>2, <1>7 DEF UrlAnswer
<1>10. Holds(music) /\ AtClose(music, closedAt)
  BY <1>3 DEF Safe
<1>11. Stays(music, x)
  BY <1>5 DEF Stays, SameLoad
<1>12. PICK at : at = place.at
  OBVIOUS
<1>13. CASE ~Current(x, r)
  <2>1. y = x /\ y.stopped = music.stopped
    BY <1>5, <1>9, <1>13
  <2> QED
    BY <1>7, <1>8, <1>11, <2>1, StayKeeps, SamePlace
<1>14. CASE Current(x, r)
  <2>1. Awaited(music, r)
    BY <1>5, <1>14 DEF Current, Awaited
  <2>2. /\ music.loading /\ music.pending = Nothing
        /\ music.saved # Nothing => r.preserve
        /\ \A i : ~DueTo(x, x.deferred, 0, i, "backup")
        /\ Bounds(x, x.deferred)
    BY <1>5, <1>6, <1>10, <2>1, AnswerLeaves
  <2>3. ASSUME AtHand(music, at), ~music.stopped
        PROVE  AtHand(y, at)
    <3>1. Waits(x, at)
      <4>1. AtHand(x, at)
        BY <1>11, <2>3, StayKeeps
      <4> QED
        BY <1>5, <2>2, <4>1 DEF AtHand, Goes, GoesOn, Plays, SameLoad
    <3>2. CanRecover(x) /\ x.saved # Nothing /\ r.preserve
      BY <1>5, <2>2, <3>1 DEF Waits, CanRecover, SameLoad
    <3>3. ASSUME y = recoverQualitySwitch(x)
          PROVE  AtHand(y, at)
      <4>1. Recovered(x, y)
        BY <1>5, <3>2, <3>3, Recovers
      <4> QED
        BY <1>5, <2>2, <3>1, <3>2, <4>1, RecoverKeeps DEF Waits
    <3>4. ASSUME NEW reply \in Replies, y = Accepted(x, r, reply)
          PROVE  AtHand(y, at)
      <4>1. PICK n : Typed(n) /\ Aimed(x, n, r, reply) /\ Accepts(n, y)
        BY <1>3, <1>5, <3>4, Aims
      <4> QED
        BY <1>3, <1>5, <2>2, <2>3, <3>1, <3>2, <4>1, AcceptKeeps
    <3> QED
      BY <1>9, <1>14, <3>2, <3>3, <3>4 DEF Refused
  <2>4. music.stopped => y.stopped
    <3>1. ASSUME CanRecover(x)
          PROVE  recoverQualitySwitch(x).stopped = x.stopped
      BY <1>5, <3>1, Recovers DEF Recovered, CanRecover
    <3>2. ASSUME NEW reply \in Replies
          PROVE  Accepted(x, r, reply).stopped = x.stopped
      <4>1. PICK n : Aimed(x, n, r, reply) /\ Accepts(n, Accepted(x, r, reply))
        BY <1>3, <1>5, Aims
      <4> QED
        BY <4>1 DEF Aimed, Accepts, Settles, SameUser
    <3>3. Refused(x, r).stopped = x.stopped
      <4>1. CASE CanRecover(x)
        BY <3>1, <4>1 DEF Refused
      <4>2. CASE ~CanRecover(x)
        BY <1>5, <4>2, Refuses DEF Abandoned
      <4> QED
        BY <4>1, <4>2
    <3> QED
      BY <1>5, <1>9, <1>14, <3>1, <3>2, <3>3
  <2> QED
    BY <1>7, <1>8, <1>12, <2>3, <2>4 DEF PlaceKept
<1> QED
  BY <1>13, <1>14

-----------------------------------------------------------------------------
\* One deferred call: a retry starts at the place where its source failed.
LEMMA CallKeeps ==
  ASSUME NEW x, NEW ds, ds \in Seq(Calls), NEW k, NEW j, k \in Nat, j = k + 1, j \in DOMAIN ds, Rest(x, ds, k),
         ~x.stopped, NEW at, Goes(x, at, ds, k)
  PROVE  Goes(Ran(x, ds[j]), at, ds, j)
<1>1. PICK d : d = ds[j]
  OBVIOUS
<1>2. PICK y : y = Ran(x, d)
  OBVIOUS
<1>3. d \in Calls /\ d.url \in Sources /\ d.url # Nothing
  <2>1. d \in Calls
    BY <1>1
  <2> QED
    BY <2>1, SongAssumption DEF Calls
<1>4. \A i, what : DueTo(x, ds, j, i, what) => DueTo(x, ds, k, i, what) /\ i > j
  <2>1. ASSUME NEW i, i \in DOMAIN ds, i > j
        PROVE  i > k
    BY <2>1
  <2> QED
    BY <2>1 DEF Due, DueTo
<1>5. CASE ~StillWanted(x, d)
  <2>1. y = x
    BY <1>2, <1>5 DEF Ran
  <2>2. TriesAt(x, at, ds, j)
    BY <1>4 DEF Goes, TriesAt
  <2> QED
    BY <1>1, <1>2, <2>1, <2>2 DEF Goes
<1>6. CASE StillWanted(x, d) /\ d.call = "backup"
  <2>1. y = BackupRetry(x, d)
    BY <1>2, <1>6 DEF Ran
  <2>2. Retried(x, y, d)
    BY <1>3, <2>1, Retries DEF Rest
  <2>3. DueTo(x, ds, k, j, "backup")
    <3>1. j > k
      OBVIOUS
    <3> QED
      BY <1>1, <1>6, <3>1 DEF StillWanted, DueTo, Due
  <2>4. d.offset \in at /\ (x.resume \/ ~x.loading) /\ (~x.recovering => x.player.status = "failed")
    BY <1>1, <2>3 DEF Goes, TriesAt
  <2>5. \A i : ~DueTo(y, ds, j, i, "backup")
    <3>1. ASSUME NEW i, DueTo(x, ds, j, i, "backup")
          PROVE  FALSE
      <4>1. i = j /\ i > j /\ i \in Nat
        BY <1>4, <2>3, <3>1 DEF Goes, TriesAt, DueTo, Due
      <4> QED
        BY ONLY <4>1
    <3> QED
      BY <2>2, <3>1 DEF Retried, Due, DueTo
  <2>6. ~x.reload /\ (x.saved # Nothing => x.saved.pos \in at)
    BY <2>4 DEF Goes, Waits, GoesOn, Plays
  <2>7. GoesOn(y, at)
    BY <1>3, <2>2, <2>4, <2>6 DEF Retried, GoesOn
  <2> QED
    BY <1>1, <1>2, <2>5, <2>7 DEF Goes, TriesAt
<1>7. CASE StillWanted(x, d) /\ d.call # "backup"
  <2>1. y = Reloaded(x, d)
    BY <1>2, <1>7 DEF Ran
  <2>2. x.recovering /\ DueTo(x, ds, k, j, "recover")
    <3>1. j > k /\ d.call = "recover"
      BY <1>3, <1>7 DEF Calls
    <3> QED
      BY <1>1, <1>7, <3>1 DEF StillWanted, DueTo, Due
  <2>3. x.pending = d.url
    BY <1>1, <2>2 DEF Rest, Loads
  <2>4. NotStale(x, d.url)
    BY <1>3, <2>3 DEF Rest, Loads, NotStale
  <2>5. SameUser(x, y) /\ SameLoad(x, y)
    BY <1>3, <2>1, <2>4, Reloads DEF Rest, Bounds
  <2>6. \A i, what : DueTo(y, ds, j, i, what) <=> DueTo(x, ds, j, i, what)
    BY <2>5 DEF SameUser, Due, DueTo
  <2>7. GoesOn(x, at)
    BY <2>2 DEF Goes, Waits, Plays
  <2>8. GoesOn(y, at)
    BY <2>2, <2>5, <2>7 DEF GoesOn, SameUser, SameLoad
  <2>9. TriesAt(y, at, ds, j)
    BY <1>4, <2>2, <2>5, <2>6 DEF Goes, TriesAt, SameLoad
  <2> QED
    BY <1>1, <1>2, <2>8, <2>9 DEF Goes
<1> QED
  BY <1>5, <1>6, <1>7

\* All the deferred calls.
LEMMA CallsKeep ==
  ASSUME NEW x, NEW y, Holds(x), ~x.stopped, NEW at, AtHand(x, at),
         y = RanAll([x EXCEPT !.deferred = <<>>], x.deferred)
  PROVE  AtHand(y, at)
<1>1. PICK ds : ds = x.deferred
  OBVIOUS
<1>2. PICK b : b = [x EXCEPT !.deferred = <<>>]
  OBVIOUS
<1>3. Typed(x) /\ ds \in Seq(Calls)
  BY <1>1 DEF Holds, Rest, Typed
<1>4. /\ Typed(b) /\ SameLoad(x, b) /\ b.player = x.player /\ b.observed = x.observed
      /\ b.song = x.song /\ b.generation = x.generation /\ b.quality = x.quality /\ b.resumePos = x.resumePos
      /\ b.backups = x.backups /\ b.stopped = x.stopped /\ b.requests = x.requests /\ b.deferred = <<>>
  BY ONLY <1>2, <1>3 DEF Typed, MusicFields, SameLoad
<1>5. Rest(b, ds, 0)
  BY <1>1, <1>2, DeferredRest
<1>6. Goes(b, at, ds, 0)
  <2>1. \A i, what : DueTo(b, ds, 0, i, what) <=> DueTo(x, ds, 0, i, what)
    BY <1>4 DEF Due, DueTo
  <2>2. Goes(x, at, ds, 0)
    BY <1>1 DEF AtHand
  <2>3. TriesAt(b, at, ds, 0)
    BY <1>4, <2>1, <2>2 DEF Goes, TriesAt, SameLoad
  <2>4. Waits(x, at) => Waits(b, at)
    BY <1>4 DEF SameLoad, Waits, hasLoadedSource
  <2>5. GoesOn(x, at) => GoesOn(b, at)
    BY <1>4 DEF SameLoad, GoesOn, OwnsLoad, Loaded
  <2>6. Plays(x, at) => Plays(b, at)
    BY <1>4 DEF SameLoad, Plays
  <2> QED
    BY <2>2, <2>3, <2>4, <2>5, <2>6 DEF Goes
<1>7. PICK it : /\ it[{}] = b /\ RanAll(b, ds) = it[1..Len(ds)]
                /\ \A k \in 0..(Len(ds) - 1) : it[1..(k + 1)] = Ran(it[1..k], ds[k + 1])
  BY <1>3, Runs
<1> DEFINE P(k) == k <= Len(ds) => Rest(it[1..k], ds, k) /\ Passed(b, it[1..k]) /\ Goes(it[1..k], at, ds, k)
           Q == {k \in Nat : P(k)}
<1>8. 0 \in Q
  <2>1. 1..0 = {}
    OBVIOUS
  <2>2. it[1..0] = b
    BY <1>7, <2>1
  <2>3. Passed(b, b)
    BY DEF Passed
  <2>4. P(0)
    BY <1>5, <1>6, <2>2, <2>3
  <2> HIDE DEF P
  <2> QED
    BY <2>4
<1>9. ASSUME NEW k \in Nat, k \in Q
      PROVE  k + 1 \in Q
  <2>1. CASE k + 1 <= Len(ds)
    <3>1. k \in 0..(Len(ds) - 1) /\ k <= Len(ds) /\ k + 1 \in DOMAIN ds
      BY <1>3, <2>1
    <3>2. PICK z, w, j : z = it[1..k] /\ w = it[1..j] /\ j = k + 1
      OBVIOUS
    <3>3. Rest(z, ds, k) /\ Passed(b, z) /\ Goes(z, at, ds, k)
      BY <1>9, <3>1, <3>2
    <3>4. w = Ran(z, ds[j])
      BY <1>7, <3>1, <3>2
    <3>5. Rest(w, ds, j) /\ Passed(z, w)
      BY <1>3, <3>1, <3>2, <3>3, <3>4, CallRuns
    <3>6. Passed(b, w)
      BY <3>3, <3>5 DEF Passed
    <3>7. Goes(w, at, ds, j)
      <4>1. ~z.stopped
        BY <1>4, <3>3 DEF Passed
      <4> QED
        BY <1>3, <3>1, <3>2, <3>3, <3>4, <4>1, CallKeeps
    <3> QED
      BY <3>2, <3>5, <3>6, <3>7
  <2>2. CASE ~(k + 1 <= Len(ds))
    BY <2>2
  <2> QED
    BY <2>1, <2>2
<1> HIDE DEF P, Q
<1>10. \A k \in Nat : P(k)
  <2>1. \A k \in Nat : k \in Q => k + 1 \in Q
    BY <1>9
  <2>2. \A k \in Nat : k \in Q
    BY <1>8, <2>1, NaturalInduction
  <2> QED
    BY <2>2 DEF Q
<1>11. PICK l : l = Len(ds) /\ l \in Nat
  BY <1>3
<1>12. Goes(y, at, ds, l) /\ Passed(b, y)
  <2>1. l <= Len(ds)
    BY <1>11
  <2> QED
    BY <1>1, <1>2, <1>7, <1>10, <1>11, <2>1 DEF P
<1>13. \A i : ~DueTo(y, y.deferred, 0, i, "backup")
  BY <1>4, <1>12 DEF Passed, Due, DueTo
<1> QED
  BY <1>12, <1>13, NoneDue DEF Goes

-----------------------------------------------------------------------------
\* The zero timers run, at the place.
LEMMA DeferredKeeps ==
  ASSUME MInv, PlaceKept, Deferred
  PROVE  PlaceKept'
<1>1. PICK y : y = music'
  OBVIOUS
<1>2. y = RanAll([music EXCEPT !.deferred = <<>>], music.deferred)
  BY <1>1, Zenon DEF Deferred, RanAll
<1>3. place' = place
  BY DEF Deferred
<1>4. Holds(music) /\ AtClose(music, closedAt)
  BY DEF MInv, Safe
<1>5. y.stopped = music.stopped
  BY <1>2, <1>4, DeferredHolds
<1>6. CASE music.stopped
  BY <1>1, <1>5, <1>6 DEF PlaceKept
<1>7. CASE ~music.stopped
  <2>1. AtHand(music, place.at) => AtHand(y, place.at)
    BY <1>2, <1>4, <1>7, CallsKeep
  <2> QED
    BY <1>1, <1>3, <1>5, <2>1, SamePlace
<1> QED
  BY <1>6, <1>7

\* The place is kept by every action.
LEMMA PlaceStep == MInv /\ PlaceKept /\ [Next]_playbackVars => PlaceKept'
<1> SUFFICES ASSUME MInv, PlaceKept, [Next]_playbackVars
             PROVE  PlaceKept'
  OBVIOUS
<1>1. CASE UNCHANGED playbackVars
  <2>1. music' = music /\ place' = place
    BY <1>1 DEF playbackVars
  <2> QED
    BY <2>1, SamePlace
<1>2. CASE Forget
  BY <1>2, Forgotten
<1>3. ASSUME NEW q \in Qualities, setQuality(q) PROVE PlaceKept'
  BY <1>3, QualityKeeps
<1>4. ASSUME NEW p \in Places, seek(p) PROVE PlaceKept'
  BY <1>4, SeekKeeps
<1>5. CASE toggle
  BY <1>5, ToggleKeeps
<1>6. CASE MediaLoaded
  BY <1>6, LoadedKeeps
<1>7. CASE durationChanged
  BY <1>7, DurationKeeps
<1>8. CASE positionChanged
  BY <1>8, PositionKeeps
<1>9. CASE errorOccurred
  BY <1>9, ErrorKeeps
<1>10. CASE ResumeDeadline
  BY <1>10, ResumeDeadlineKeeps
<1>11. CASE LoadDeadline
  BY <1>11, LoadDeadlineKeeps
<1>12. ASSUME NEW r \in music.requests, UrlAnswer(r) PROVE PlaceKept'
  BY <1>12, AnswerKeeps
<1>13. CASE Deferred
  BY <1>13, DeferredKeeps
<1>14. ASSUME Next
       PROVE  \/ Forget \/ toggle \/ MediaLoaded \/ durationChanged \/ positionChanged \/ errorOccurred
              \/ ResumeDeadline \/ LoadDeadline \/ Deferred
              \/ \E q \in Qualities : setQuality(q)
              \/ \E p \in Places : seek(p)
              \/ \E r \in music.requests : UrlAnswer(r)
  BY <1>14 DEF Next, User, Media, Select, retry, clearQueue, Close, EndOfMedia
<1> QED
  BY <1>1, <1>2, <1>3, <1>4, <1>5, <1>6, <1>7, <1>8, <1>9, <1>10, <1>11, <1>12, <1>13, <1>14

(* A quality switch away from a source that had a duration ends where the listener
   was, or had moved to since: through the answer, its backup addresses, a failure,
   the recovery of the old source and its deferred reload. *)
THEOREM SwitchKeepsPlaceHolds == Spec => []SwitchKeepsPlace
<1>1. Init => PlaceKept
  BY DEF Init, PlaceKept
<1>2. PlaceKept => SwitchKeepsPlace
  BY DEF PlaceKept, AtHand, Goes, Waits, GoesOn, Plays, SwitchKeepsPlace, AtPlace
<1> QED
  BY <1>1, <1>2, StartHolds, MInvStep, PlaceStep, PTL DEF Spec
=============================================================================
