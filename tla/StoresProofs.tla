------------------------------ MODULE StoresProofs ------------------------------
(* What is kept in a file is kept: the theorems about the stores of MCStores. *)
EXTENDS MCStores, DataLemmas

-----------------------------------------------------------------------------
(* Merging settings, and what stays newest when an update is accepted. *)

LEMMA OverType ==
  ASSUME NEW S, NEW a \in [Keys -> S], NEW b \in [Keys -> S]
  PROVE  Over(a, b) \in [Keys -> S]
BY DEF Over

LEMMA OverEmpty ==
  ASSUME NEW b \in [Keys -> Nat]
  PROVE  Over(Empty, b) = b
BY DEF Over, Empty

LEMMA OverAssociative ==
  ASSUME NEW a, NEW b, NEW c
  PROVE  Over(Over(a, b), c) = Over(a, Over(b, c))
BY DEF Over

LEMMA OverTwice ==
  ASSUME NEW a, NEW b
  PROVE  Over(a, Over(a, b)) = Over(a, b)
BY DEF Over

(* An accepted update makes the map with the new value newest. *)
LEMMA NewestAppended ==
  ASSUME NEW l \in Seq(Keys), NEW map, map \in [Keys -> 0..Len(l)],
         NEW k \in Keys, Newest(map, l, Len(l))
  PROVE  Newest([map EXCEPT ![k] = Len(l) + 1], Append(l, k), Len(l) + 1)
<1> DEFINE l2 == Append(l, k)
           m2 == [map EXCEPT ![k] = Len(l) + 1]
<1>1. /\ Len(l) \in Nat
      /\ \A i \in 1..Len(l) : l2[i] = l[i]
      /\ l2[Len(l) + 1] = k
  BY AppendProperties, LenProperties
<1>2. ASSUME NEW j \in Keys
      PROVE  /\ m2[j] <= Len(l) + 1
             /\ m2[j] # 0 => l2[m2[j]] = j
             /\ \A i \in (m2[j] + 1)..(Len(l) + 1) : l2[i] # j
  <2>1. CASE j = k
    BY <1>1, <2>1
  <2>2. CASE j # k
    <3>1. m2[j] = map[j] /\ map[j] \in 0..Len(l)
      BY <2>2
    <3>2. /\ map[j] # 0 => l[map[j]] = j
          /\ \A i \in (map[j] + 1)..Len(l) : l[i] # j
      BY DEF Newest
    <3> QED BY <1>1, <2>2, <3>1, <3>2
  <2> QED BY <2>1, <2>2
<1> QED BY <1>2 DEF Newest

(* What the file holds is not changed by an update accepted later. *)
LEMMA NewestStable ==
  ASSUME NEW l \in Seq(Keys), NEW map, map \in [Keys -> 0..Len(l)],
         NEW k \in Keys, NEW n, n \in 0..Len(l), Newest(map, l, n)
  PROVE  Newest(map, Append(l, k), n)
<1> DEFINE l2 == Append(l, k)
<1>1. Len(l) \in Nat /\ \A i \in 1..Len(l) : l2[i] = l[i]
  BY AppendProperties, LenProperties
<1>2. ASSUME NEW j \in Keys
      PROVE  /\ map[j] <= n
             /\ map[j] # 0 => l2[map[j]] = j
             /\ \A i \in (map[j] + 1)..n : l2[i] # j
  <2>1. map[j] \in 0..Len(l)
    OBVIOUS
  <2>2. /\ map[j] <= n
        /\ map[j] # 0 => l[map[j]] = j
        /\ \A i \in (map[j] + 1)..n : l[i] # j
    BY DEF Newest
  <2>3. n <= Len(l) /\ n \in Nat /\ Len(l) \in Nat
    BY <1>1
  <2>4. map[j] \in Nat /\ n \in Nat
    BY <1>1, <2>1, <2>3
  <2>5. (map[j] # 0 => map[j] \in 1..Len(l)) /\ \A i \in (map[j] + 1)..n : i \in 1..Len(l)
    BY <2>1, <2>3, <2>4
  <2> HIDE DEF l2
  <2> QED BY <1>1, <2>2, <2>5
<1> QED BY <1>2 DEF Newest

-----------------------------------------------------------------------------
(* The write-behind store is correct for every set of keys and callers, with
   any number of updates, failing writes and flushes. *)

(* Where a caller waits in flush(), on its own or inside stop(). *)
Waiting == {"check", "asleep", "stopCheck", "stopAsleep"}
(* The owner is inside stop(). *)
Stopping == {"stop", "stopCheck", "stopAsleep", "setStop", "wakeWorker", "join"}
Writing == worker \in {"write", "settle"}

(* What the file, the batch and the pending updates hold. *)
DataInv ==
  /\ Newest(disk, log, durable)
  /\ Newest(Over(pending, Over(batch, disk)), log, Len(log))
  /\ worker = "write" => Newest(Over(batch, disk), log, taken)
  /\ worker = "settle" => Over(batch, disk) = disk
  /\ ~Writing => batch = Empty

(* How revisions and prefixes of the log correspond. *)
RevisionInv ==
  /\ durable <= taken
  /\ attempted <= submitted
  /\ Writing => attempted < revision /\ revision <= submitted
  /\ worker = "settle" => durable = taken
  /\ ~Writing /\ succeeded => durable = taken
  /\ attempted = submitted /\ succeeded => durable = Len(log)
  /\ Writing /\ revision = submitted => taken = Len(log)

(* What a caller waits for: a batch taken at its target or later holds
   everything accepted before the call. *)
WaitInv ==
  \A c \in Callers : pc[c] \in Waiting =>
    /\ target[c] <= submitted
    /\ attempted >= target[c] /\ succeeded => barrier[c] <= durable
    /\ Writing /\ revision >= target[c] => barrier[c] <= taken

(* Once stop() has passed its flush, nothing accepted is outside the last batch. *)
PastFlush == stopping \/ pc[Owner] \in {"setStop", "wakeWorker", "join"} \/ worker = "none"
StopInv ==
  /\ \A c \in Callers : c # Owner => pc[c] \in {"idle", "check", "asleep"}
  /\ stopping \/ pc[Owner] \in Stopping \/ worker = "none" => ~accepting
  /\ pc[Owner] \in {"stopCheck", "stopAsleep"} => barrier[Owner] = Len(log)
  /\ PastFlush /\ succeeded => durable = Len(log)
  /\ PastFlush /\ Writing => taken = Len(log)
  /\ stopping => \/ pc[Owner] \in {"wakeWorker", "join"}
                 \/ pc[Owner] = "idle" /\ worker = "none"

IInv == TypeOK /\ DataInv /\ RevisionInv /\ WaitInv /\ StopInv /\ acked <= durable

-----------------------------------------------------------------------------
LEMMA EmptyType == Empty \in Values
BY DEF Empty, Values

-----------------------------------------------------------------------------
(* The initial states. *)

LEMMA InitInv == Init => IInv
<1> SUFFICES ASSUME Init PROVE IInv
  OBVIOUS
<1>1. Len(<<>>) = 0 /\ <<>> \in Seq(Keys)
  BY EmptySeq
<1>2. Over(Empty, Over(Empty, Empty)) = Empty /\ Over(Empty, Empty) = Empty
  BY DEF Over, Empty
<1>3. TypeOK
  <2>1. Empty \in [Keys -> 0..0]
    BY DEF Empty
  <2>2. Len(log) = 0 /\ log \in Seq(Keys)
    BY <1>1 DEF Init
  <2>3. /\ pending \in [Keys -> 0..Len(log)] /\ batch \in [Keys -> 0..Len(log)]
        /\ disk \in [Keys -> 0..Len(log)]
        /\ durable \in 0..Len(log) /\ taken \in 0..Len(log) /\ acked \in 0..Len(log)
    BY <2>1, <2>2 DEF Init
  <2>4. barrier \in [Callers -> 0..Len(log)] /\ target \in [Callers -> Nat]
    BY <2>2 DEF Init
  <2> QED BY <2>2, <2>3, <2>4 DEF Init, TypeOK, Values, WorkerStates, CallerStates
<1>4. Newest(Empty, <<>>, 0)
  BY DEF Newest, Empty
<1>5. DataInv
  BY <1>1, <1>2, <1>4 DEF Init, DataInv, Writing
<1>6. RevisionInv /\ WaitInv /\ acked <= durable
  BY <1>1 DEF Init, RevisionInv, WaitInv, Writing, Waiting
<1>7. StopInv
  BY <1>1, OwnerAssumption DEF Init, StopInv, PastFlush, Stopping, Writing
<1> QED BY <1>3, <1>5, <1>6, <1>7 DEF IInv

-----------------------------------------------------------------------------
(* Every step keeps the types. *)

LEMMA StepType == TypeOK /\ [Next]_vars => TypeOK'
<1> SUFFICES ASSUME TypeOK, [Next]_vars PROVE TypeOK'
  OBVIOUS
<1> USE DEF TypeOK, flags, history, WorkerStates, CallerStates
<1>0. Len(log) \in Nat
  BY LenProperties
<1>1. ASSUME NEW c \in Callers, NEW k \in Keys, Submit(c, k) PROVE TypeOK'
  <2>1. log' \in Seq(Keys) /\ Len(log') = Len(log) + 1
    BY <1>1, AppendProperties DEF Submit
  <2>2. pending' \in [Keys -> 0..(Len(log) + 1)]
    BY <1>0, <1>1 DEF Submit, Values
  <2> QED BY <1>0, <1>1, <2>1, <2>2 DEF Submit, WakeWorker, Values
<1>2. ASSUME NEW c \in Callers, Flush(c) \/ StopFlush(c) PROVE TypeOK'
  <2>1. PICK w \in CallerStates, r \in CallerStates : EnterFlush(c, w, r)
    BY <1>2 DEF Flush, StopFlush
  <2>2. log' = log /\ UNCHANGED <<pending, batch, attempted, revision, flags, disk, durable, taken>>
    BY <1>2 DEF Flush, StopFlush
  <2>3. CASE worker = "none" \/ stopping
    <3>1. UNCHANGED <<submitted, target, barrier, worker>> /\ pc' \in [Callers -> CallerStates]
      BY <2>1, <2>3 DEF EnterFlush
    <3>2. acked' \in 0..Len(log)
      BY <1>0, <2>1, <2>3 DEF EnterFlush, ReportSaved
    <3> QED BY <2>2, <3>1, <3>2 DEF Values
  <2>4. CASE ~(worker = "none" \/ stopping)
    <3>1. submitted' \in Nat /\ worker' \in WorkerStates
      BY <2>1, <2>4 DEF EnterFlush, WakeWorker
    <3>2. /\ target' = [target EXCEPT ![c] = submitted']
          /\ barrier' = [barrier EXCEPT ![c] = Len(log)]
          /\ pc' = [pc EXCEPT ![c] = w]
          /\ acked' = acked
      BY <2>1, <2>4 DEF EnterFlush
    <3>3. target' \in [Callers -> Nat] /\ pc' \in [Callers -> CallerStates]
      BY <2>1, <3>1, <3>2
    <3>4. barrier' \in [Callers -> 0..Len(log)]
      BY <1>0, <3>2
    <3>5. Len(log') = Len(log) /\ Values' = Values
      BY <2>2 DEF Values
    <3> QED BY <1>0, <2>2, <3>1, <3>2, <3>3, <3>4, <3>5 DEF Values
  <2> QED BY <2>3, <2>4
<1>3. ASSUME NEW c \in Callers, FlushStep(c) PROVE TypeOK'
  <2>1. CASE FlushDone(c)
    <3>1. pc' \in [Callers -> CallerStates]
      BY <2>1 DEF FlushDone
    <3>2. acked' \in 0..Len(log)
      BY <1>0, <2>1 DEF FlushDone, ReportSaved
    <3> QED BY <2>1, <3>1, <3>2 DEF FlushDone, Values
  <2>2. CASE FlushSleep(c)
    BY <1>0, <2>2 DEF FlushSleep, Values
  <2> QED BY <1>3, <2>1, <2>2 DEF FlushStep
<1>4. ASSUME NEW c \in Callers, Stop(c) \/ StopRaise(c) \/ StopWake(c) \/ StopJoin(c)
      PROVE TypeOK'
  BY <1>0, <1>4 DEF Stop, StopRaise, StopWake, StopJoin, WakeWorker, Values
<1>5. CASE WorkerSleep \/ WorkerExit \/ WorkerSaved
  BY <1>0, <1>5, EmptyType DEF WorkerSleep, WorkerExit, WorkerSaved, Covers, Values
<1>6. CASE WorkerTake
  BY <1>0, <1>6, EmptyType DEF WorkerTake, Values
<1>7. CASE WorkerWritten
  <2>1. Over(batch, disk) \in Values
    BY OverType DEF Values
  <2> QED BY <1>7, <2>1 DEF WorkerWritten, Land, Values
<1>8. CASE WorkerFailed
  <2>1. Over(pending, batch) \in Values
    BY OverType DEF Values
  <2> QED BY <1>8, <2>1, EmptyType DEF WorkerFailed, Restore, Covers, Values
<1>9. CASE WorkerNotify
  <2>1. pc' \in [Callers -> CallerStates]
    BY <1>9 DEF WorkerNotify, Woken
  <2> QED BY <1>9, <2>1 DEF WorkerNotify, Values
<1>10. CASE UNCHANGED vars
  BY <1>10 DEF vars, Values
<1> QED BY <1>1, <1>2, <1>3, <1>4, <1>5, <1>6, <1>7, <1>8, <1>9, <1>10
        DEF Next, StopStep, WorkerStep

-----------------------------------------------------------------------------
(* Every step keeps the invariant. *)

(* A step that touches neither the maps nor the log, and neither starts nor
   ends a write. *)
DataKept == /\ UNCHANGED <<pending, batch, disk, log, durable, taken>>
            /\ worker' = "write" <=> worker = "write"
            /\ worker' = "settle" <=> worker = "settle"

LEMMA KeptData == DataInv /\ DataKept => DataInv'
<1> SUFFICES ASSUME DataInv, DataKept PROVE DataInv'
  OBVIOUS
<1>1. /\ Over(pending, Over(batch, disk))' = Over(pending, Over(batch, disk))
      /\ Over(batch, disk)' = Over(batch, disk)
      /\ \A n : Newest(disk, log, n)' <=> Newest(disk, log, n')
  BY DEF DataKept, Over, Newest
<1> QED BY <1>1 DEF DataInv, DataKept, Over, Newest, Writing, Empty

LEMMA StepData == IInv /\ [Next]_vars => DataInv'
<1> SUFFICES ASSUME IInv, [Next]_vars PROVE DataInv'
  OBVIOUS
<1> USE DEF flags, history
<1>0. /\ TypeOK /\ DataInv /\ Len(log) \in Nat /\ log \in Seq(Keys)
      /\ pending \in [Keys -> 0..Len(log)] /\ batch \in [Keys -> 0..Len(log)]
      /\ disk \in [Keys -> 0..Len(log)] /\ Over(batch, disk) \in [Keys -> 0..Len(log)]
      /\ durable \in 0..Len(log) /\ taken \in 0..Len(log)
      /\ pending \in [Keys -> Nat] /\ batch \in [Keys -> Nat] /\ disk \in [Keys -> Nat]
  <2>1. /\ TypeOK /\ DataInv /\ Len(log) \in Nat /\ log \in Seq(Keys)
        /\ pending \in [Keys -> 0..Len(log)] /\ batch \in [Keys -> 0..Len(log)]
        /\ disk \in [Keys -> 0..Len(log)]
        /\ durable \in 0..Len(log) /\ taken \in 0..Len(log)
    BY LenProperties DEF IInv, TypeOK, Values
  <2>2. Over(batch, disk) \in [Keys -> 0..Len(log)]
    BY <2>1, OverType
  <2> QED BY <2>1, <2>2
<1>1. ASSUME NEW c \in Callers, NEW k \in Keys, Submit(c, k) PROVE DataInv'
  <2>1. /\ log' = Append(log, k) /\ Len(log') = Len(log) + 1
        /\ pending' = [pending EXCEPT ![k] = Len(log) + 1]
        /\ UNCHANGED <<batch, disk, durable, taken>>
        /\ worker' = "write" <=> worker = "write"
        /\ worker' = "settle" <=> worker = "settle"
    BY <1>0, <1>1, AppendProperties DEF Submit, WakeWorker
  <2> DEFINE behind == Over(batch, disk)
             newest == Over(pending, behind)
  <2>2. Over(pending', behind) = [newest EXCEPT ![k] = Len(log) + 1]
    <3>1. Len(log) + 1 \in Nat \ {0}
      BY <1>0
    <3>2. \A b : Over([pending EXCEPT ![k] = Len(log) + 1], b)
                  = [Over(pending, b) EXCEPT ![k] = Len(log) + 1]
      BY <1>0, <3>1 DEF Over
    <3> QED BY <2>1, <3>2
  <2>3. newest \in [Keys -> 0..Len(log)] /\ Newest(newest, log, Len(log))
    BY <1>0, OverType DEF DataInv
  <2>4. Newest(Over(pending', behind), log', Len(log'))
    <3>1. Newest([newest EXCEPT ![k] = Len(log) + 1], Append(log, k), Len(log) + 1)
      <4> HIDE DEF newest
      <4> QED BY <1>0, <2>3, NewestAppended
    <3> QED BY <2>1, <2>2, <3>1
  <2>5. /\ Newest(disk, log', durable)
        /\ worker = "write" => Newest(behind, log', taken)
        /\ worker = "settle" => behind = disk
    BY <1>0, <2>1, NewestStable DEF DataInv
  <2>6. batch' = Empty <=> batch = Empty
    BY <2>1
  <2> QED BY <1>0, <2>1, <2>4, <2>5, <2>6 DEF DataInv, Writing
<1>2. ASSUME NEW c \in Callers, Flush(c) \/ FlushStep(c) \/ Stop(c) \/ StopStep(c)
      PROVE DataInv'
  <2>1. UNCHANGED <<pending, batch, disk, log, durable, taken>>
    BY <1>2 DEF Flush, FlushStep, FlushDone, FlushSleep, Stop, StopStep, StopFlush,
                StopRaise, StopWake, StopJoin
  <2>2. \/ worker' = worker \/ WakeWorker
        \/ worker \in {"exited", "none"} /\ worker' = "none"
    BY <1>2 DEF Flush, FlushStep, FlushDone, FlushSleep, Stop, StopStep, StopFlush,
                StopRaise, StopWake, StopJoin, EnterFlush
  <2>3. DataKept
    BY <2>1, <2>2 DEF DataKept, WakeWorker
  <2> QED BY <1>0, <2>3, KeptData
<1>3. CASE WorkerSleep \/ WorkerExit \/ WorkerNotify
  <2>1. DataKept
    BY <1>3 DEF DataKept, WorkerSleep, WorkerExit, WorkerNotify
  <2> QED BY <1>0, <2>1, KeptData
<1>4. CASE WorkerTake
  <2>1. /\ batch' = pending /\ pending' = Empty /\ batch = Empty
        /\ taken' = Len(log) /\ worker' = "write" /\ UNCHANGED <<log, disk, durable>>
    BY <1>0, <1>4 DEF WorkerTake, DataInv, Writing
  <2>2. Over(batch, disk) = disk /\ Over(pending', Over(batch', disk)) = Over(pending, disk)
    BY <1>0, <2>1, OverEmpty, OverType
  <2>3. Newest(Over(pending, disk), log, Len(log))
    BY <1>0, <2>2 DEF DataInv
  <2> QED BY <1>0, <2>1, <2>2, <2>3 DEF DataInv, Writing
<1>5. CASE WorkerWritten
  <2>1. /\ disk' = Over(batch, disk) /\ durable' = taken /\ worker' = "settle"
        /\ worker = "write" /\ UNCHANGED <<log, pending, batch>>
    BY <1>5 DEF WorkerWritten, Land
  <2>2. Over(batch, disk') = disk'
    BY <2>1, OverTwice
  <2> QED BY <1>0, <2>1, <2>2 DEF DataInv, Writing
<1>6. CASE WorkerSaved
  <2>1. worker = "settle" /\ worker' = "notify" /\ batch' = Empty
        /\ UNCHANGED <<log, pending, disk, durable>>
    BY <1>6 DEF WorkerSaved
  <2>2. Over(batch', disk) = disk /\ Over(batch, disk) = disk
    BY <1>0, <2>1, OverEmpty DEF DataInv
  <2> QED BY <1>0, <2>1, <2>2 DEF DataInv, Writing
<1>7. CASE WorkerFailed
  <2>1. worker' = "notify" /\ batch' = Empty /\ pending' = Over(pending, batch)
        /\ UNCHANGED <<log, disk, durable>>
    BY <1>7 DEF WorkerFailed, Restore
  <2>2. Over(pending', Over(Empty, disk)) = Over(pending, Over(batch, disk))
    <3>1. Over(Empty, disk) = disk
      BY <1>0, OverEmpty
    <3> QED BY <2>1, <3>1, OverAssociative
  <2> QED BY <1>0, <2>1, <2>2 DEF DataInv, Writing
<1>8. CASE UNCHANGED vars
  <2>1. DataKept
    BY <1>8 DEF DataKept, vars
  <2> QED BY <1>0, <2>1, KeptData
<1> QED BY <1>1, <1>2, <1>3, <1>4, <1>5, <1>6, <1>7, <1>8 DEF Next, WorkerStep

(* What EnterFlush does, by its two branches. *)
LEMMA EnterFlushCases ==
  ASSUME NEW c \in Callers, NEW w, NEW r, EnterFlush(c, w, r), TypeOK
  PROVE  \/ /\ worker = "none" \/ stopping
            /\ UNCHANGED <<submitted, target, barrier, worker>>
            /\ pc' = [pc EXCEPT ![c] = r]
            /\ acked' = acked \/ (r = "idle" /\ succeeded /\ acked' = Len(log))
         \/ /\ worker # "none" /\ ~stopping
            /\ submitted' = submitted \/ (attempted = submitted /\ submitted' = submitted + 1)
            /\ attempted = submitted /\ submitted' = submitted => pending = Empty
            /\ target' = [target EXCEPT ![c] = submitted']
            /\ barrier' = [barrier EXCEPT ![c] = Len(log)]
            /\ worker' = worker \/ (worker = "asleep" /\ worker' = "check")
            /\ pc' = [pc EXCEPT ![c] = w]
            /\ acked' = acked
<1>1. CASE worker = "none" \/ stopping
  BY <1>1 DEF EnterFlush, ReportSaved
<1>2. CASE ~(worker = "none" \/ stopping)
  <2>1. submitted \in Nat /\ submitted + 1 # submitted
    BY DEF TypeOK
  <2>2. CASE Idle /\ pending # Empty
    BY <1>2, <2>1, <2>2 DEF EnterFlush, WakeWorker, Idle
  <2>3. CASE ~(Idle /\ pending # Empty)
    BY <1>2, <2>3 DEF EnterFlush, Idle
  <2> QED BY <2>2, <2>3
<1> QED BY <1>1, <1>2

LEMMA StepRevision == IInv /\ [Next]_vars => RevisionInv'
<1> SUFFICES ASSUME IInv, [Next]_vars PROVE RevisionInv'
  OBVIOUS
<1> USE DEF flags, history, RevisionInv, Writing
<1>0. /\ TypeOK /\ RevisionInv /\ Len(log) \in Nat /\ durable \in Nat /\ taken \in Nat
      /\ submitted \in Nat /\ attempted \in Nat /\ revision \in Nat
      /\ taken <= Len(log) /\ durable <= Len(log)
  BY LenProperties DEF IInv, TypeOK
<1>1. ASSUME NEW c \in Callers, NEW k \in Keys, Submit(c, k) PROVE RevisionInv'
  <2>1. Len(log') = Len(log) + 1
    BY <1>1, AppendProperties DEF Submit, IInv, TypeOK
  <2> QED BY <1>0, <1>1, <2>1 DEF Submit, WakeWorker
<1>2. ASSUME NEW c \in Callers, Flush(c) \/ StopFlush(c) PROVE RevisionInv'
  <2>1. PICK w, r : EnterFlush(c, w, r)
    BY <1>2 DEF Flush, StopFlush
  <2>2. UNCHANGED <<log, durable, taken, attempted, revision, succeeded>>
    BY <1>2 DEF Flush, StopFlush
  <2> QED BY <1>0, <2>1, <2>2, EnterFlushCases
<1>3. ASSUME NEW c \in Callers,
             FlushStep(c) \/ Stop(c) \/ StopRaise(c) \/ StopWake(c) \/ StopJoin(c)
      PROVE RevisionInv'
  BY <1>0, <1>3 DEF FlushStep, FlushDone, FlushSleep, Stop, StopRaise, StopWake,
                    StopJoin, WakeWorker
<1>4. CASE WorkerSleep \/ WorkerExit \/ WorkerNotify
  BY <1>0, <1>4 DEF WorkerSleep, WorkerExit, WorkerNotify
<1>5. CASE WorkerTake
  BY <1>0, <1>5 DEF WorkerTake
<1>6. CASE WorkerWritten
  BY <1>0, <1>6 DEF WorkerWritten, Land
<1>7. CASE WorkerSaved \/ WorkerFailed
  BY <1>0, <1>7 DEF WorkerSaved, WorkerFailed, Covers
<1>8. CASE UNCHANGED vars
  BY <1>0, <1>8 DEF vars
<1> QED BY <1>1, <1>2, <1>3, <1>4, <1>5, <1>6, <1>7, <1>8 DEF Next, StopStep, WorkerStep

LEMMA StepWait == IInv /\ [Next]_vars => WaitInv'
<1> SUFFICES ASSUME IInv, [Next]_vars PROVE WaitInv'
  OBVIOUS
<1> USE DEF flags, history, Writing, Waiting
<1>0. /\ TypeOK /\ RevisionInv /\ WaitInv /\ Len(log) \in Nat
      /\ durable \in Nat /\ taken \in Nat
      /\ submitted \in Nat /\ attempted \in Nat /\ revision \in Nat
      /\ \A d \in Callers : target[d] \in Nat /\ barrier[d] \in Nat /\ barrier[d] <= Len(log)
      /\ pc \in [Callers -> CallerStates]
      /\ target \in [Callers -> Nat] /\ DOMAIN barrier = Callers
  BY LenProperties DEF IInv, TypeOK
<1>1. ASSUME NEW c \in Callers, NEW k \in Keys, Submit(c, k) PROVE WaitInv'
  BY <1>0, <1>1 DEF Submit, WakeWorker, WaitInv
<1>2. ASSUME NEW c \in Callers, Flush(c) \/ StopFlush(c) PROVE WaitInv'
  <2>1. PICK w, r : EnterFlush(c, w, r) /\ r \notin Waiting
    BY <1>2 DEF Flush, StopFlush
  <2>2. UNCHANGED <<log, durable, taken, attempted, revision, succeeded>>
    BY <1>2 DEF Flush, StopFlush
  <2>3. worker' \in {"write", "settle"} => worker \in {"write", "settle"}
    BY <1>0, <2>1, EnterFlushCases
  <2>4. ASSUME NEW e \in Callers, pc'[e] \in Waiting, e # c
        PROVE  /\ target'[e] <= submitted'
               /\ attempted' >= target'[e] /\ succeeded' => barrier'[e] <= durable'
               /\ Writing' /\ revision' >= target'[e] => barrier'[e] <= taken'
    <3>1. pc'[e] = pc[e] /\ target'[e] = target[e] /\ barrier'[e] = barrier[e]
          /\ submitted' >= submitted /\ target[e] \in Nat /\ submitted' \in Nat
      BY <1>0, <2>1, <2>4, EnterFlushCases
    <3> QED BY <1>0, <2>2, <2>3, <2>4, <3>1 DEF WaitInv
  <2>5. ASSUME pc'[c] \in Waiting
        PROVE  /\ target'[c] <= submitted'
               /\ attempted' >= target'[c] /\ succeeded' => barrier'[c] <= durable'
               /\ Writing' /\ revision' >= target'[c] => barrier'[c] <= taken'
    <3>1. pc' = [pc EXCEPT ![c] = r] => FALSE
      BY <1>0, <2>1, <2>5
    <3>2. target'[c] = submitted' /\ barrier'[c] = Len(log)
          /\ (submitted' = submitted \/ (attempted = submitted /\ submitted' = submitted + 1))
      BY <1>0, <2>1, <3>1, EnterFlushCases
    <3> QED BY <1>0, <2>2, <2>3, <3>2 DEF RevisionInv
  <2> QED BY <2>4, <2>5 DEF WaitInv
<1>3. ASSUME NEW c \in Callers,
             FlushStep(c) \/ Stop(c) \/ StopRaise(c) \/ StopWake(c) \/ StopJoin(c)
      PROVE WaitInv'
  <2>1. UNCHANGED <<submitted, attempted, revision, succeeded, target, barrier, durable, taken>>
    BY <1>3 DEF FlushStep, FlushDone, FlushSleep, Stop, StopRaise, StopWake, StopJoin
  <2>2. worker' \in {"write", "settle"} => worker \in {"write", "settle"}
    BY <1>3 DEF FlushStep, FlushDone, FlushSleep, Stop, StopRaise, StopWake, StopJoin,
                WakeWorker
  <2>3. \A e \in Callers : pc'[e] \in Waiting => pc[e] \in Waiting
    BY <1>0, <1>3 DEF FlushStep, FlushDone, FlushSleep, Stop, StopRaise, StopWake, StopJoin
  <2> QED BY <1>0, <2>1, <2>2, <2>3 DEF WaitInv
<1>4. CASE WorkerSleep \/ WorkerExit
  BY <1>0, <1>4 DEF WorkerSleep, WorkerExit, WaitInv
<1>5. CASE WorkerTake
  BY <1>0, <1>5 DEF WorkerTake, WaitInv, TypeOK
<1>6. CASE WorkerWritten
  BY <1>0, <1>6 DEF WorkerWritten, Land, WaitInv, RevisionInv, TypeOK
<1>7. CASE WorkerSaved \/ WorkerFailed
  BY <1>0, <1>7 DEF WorkerSaved, WorkerFailed, Covers, WaitInv, RevisionInv
<1>8. CASE WorkerNotify
  <2>1. \A e \in Callers : pc'[e] \in Waiting => pc[e] \in Waiting
    BY <1>8 DEF WorkerNotify, Woken
  <2> QED BY <1>0, <1>8, <2>1 DEF WorkerNotify, WaitInv
<1>9. CASE UNCHANGED vars
  BY <1>0, <1>9 DEF vars, WaitInv
<1> QED
  BY <1>1, <1>2, <1>3, <1>4, <1>5, <1>6, <1>7, <1>8, <1>9 DEF Next, StopStep, WorkerStep

LEMMA StepStop == IInv /\ [Next]_vars => StopInv'
<1> SUFFICES ASSUME IInv, [Next]_vars PROVE StopInv'
  OBVIOUS
<1> USE OwnerAssumption DEF flags, history, Writing, Stopping, PastFlush
<1>0. /\ TypeOK /\ RevisionInv /\ WaitInv /\ StopInv /\ DataInv /\ Len(log) \in Nat
      /\ durable \in Nat /\ taken \in Nat /\ durable <= Len(log) /\ taken <= Len(log)
      /\ submitted \in Nat /\ attempted \in Nat /\ revision \in Nat
      /\ \A d \in Callers : target[d] \in Nat /\ barrier[d] \in Nat /\ barrier[d] <= Len(log)
      /\ pc \in [Callers -> CallerStates]
      /\ target \in [Callers -> Nat] /\ DOMAIN barrier = Callers
  BY LenProperties DEF IInv, TypeOK
<1>1. ASSUME NEW c \in Callers, NEW k \in Keys, Submit(c, k) PROVE StopInv'
  BY <1>0, <1>1 DEF Submit, WakeWorker, StopInv
<1>2. ASSUME NEW c \in Callers, Flush(c) PROVE StopInv'
  <2>1. EnterFlush(c, "check", "idle") /\ pc[c] = "idle"
        /\ UNCHANGED <<log, durable, taken, attempted, revision, succeeded, accepting, stopping>>
    BY <1>2 DEF Flush
  <2>2. pc' = [pc EXCEPT ![c] = "check"] \/ pc' = [pc EXCEPT ![c] = "idle"]
    BY <1>0, <2>1, EnterFlushCases
  <2>3. /\ worker' = "none" <=> worker = "none"
        /\ worker' \in {"write", "settle"} => worker \in {"write", "settle"}
    BY <1>0, <2>1, EnterFlushCases
  <2>4. stopping => pc' = [pc EXCEPT ![c] = "idle"]
    BY <1>0, <2>1, EnterFlushCases
  <2>5. c = Owner \/ barrier'[Owner] = barrier[Owner]
    BY <1>0, <2>1, EnterFlushCases
  <2> QED BY <1>0, <2>1, <2>2, <2>3, <2>4, <2>5 DEF StopInv
<1>3. ASSUME NEW c \in Callers, StopFlush(c) PROVE StopInv'
  <2>1. EnterFlush(c, "stopCheck", "setStop") /\ pc[c] = "stop" /\ c = Owner
        /\ UNCHANGED <<log, durable, taken, attempted, revision, succeeded, accepting, stopping>>
    BY <1>0, <1>3 DEF StopFlush, StopInv
  <2>2. /\ worker' = "none" <=> worker = "none"
        /\ worker' \in {"write", "settle"} => worker \in {"write", "settle"}
    BY <1>0, <2>1, EnterFlushCases
  <2>3. \/ pc' = [pc EXCEPT ![c] = "stopCheck"] /\ barrier'[c] = Len(log)
        \/ pc' = [pc EXCEPT ![c] = "setStop"] /\ (worker = "none" \/ stopping)
    BY <1>0, <2>1, EnterFlushCases
  <2> QED BY <1>0, <2>1, <2>2, <2>3 DEF StopInv
<1>4. ASSUME NEW c \in Callers, FlushDone(c) PROVE StopInv'
  <2>1. CASE pc[c] = "check"
    BY <1>0, <1>4, <2>1 DEF FlushDone, StopInv
  <2>2. CASE pc[c] # "check"
    <3>1. pc[c] = "stopCheck" /\ pc' = [pc EXCEPT ![c] = "setStop"] /\ c = Owner
          /\ attempted >= target[Owner] /\ barrier[Owner] = Len(log)
      BY <1>0, <1>4, <2>2 DEF FlushDone, StopInv
    <3>2. succeeded => durable = Len(log)
      BY <1>0, <3>1 DEF WaitInv, Waiting
    <3>3. Writing => taken = Len(log)
      BY <1>0, <3>1 DEF WaitInv, Waiting, RevisionInv
    <3>4. UNCHANGED <<log, durable, taken, worker, accepting, stopping, succeeded, barrier>>
      BY <1>4 DEF FlushDone
    <3> QED BY <1>0, <3>1, <3>2, <3>3, <3>4 DEF StopInv
  <2> QED BY <2>1, <2>2
<1>5. ASSUME NEW c \in Callers, FlushSleep(c) PROVE StopInv'
  BY <1>0, <1>5 DEF FlushSleep, StopInv
<1>6. ASSUME NEW c \in Callers, Stop(c) \/ StopRaise(c) \/ StopWake(c) \/ StopJoin(c)
      PROVE StopInv'
  <2>1. CASE Stop(c)
    BY <1>0, <2>1 DEF Stop, StopInv
  <2>2. CASE StopRaise(c)
    BY <1>0, <2>2 DEF StopRaise, StopInv
  <2>3. CASE StopWake(c)
    BY <1>0, <2>3 DEF StopWake, WakeWorker, StopInv
  <2>4. CASE StopJoin(c)
    BY <1>0, <2>4 DEF StopJoin, StopInv
  <2> QED BY <1>6, <2>1, <2>2, <2>3, <2>4
<1>7. CASE WorkerSleep \/ WorkerExit
  BY <1>0, <1>7 DEF WorkerSleep, WorkerExit, StopInv
<1>8. CASE WorkerTake
  BY <1>0, <1>8 DEF WorkerTake, StopInv
<1>9. CASE WorkerWritten
  BY <1>0, <1>9 DEF WorkerWritten, Land, StopInv, RevisionInv
<1>10. CASE WorkerSaved
  BY <1>0, <1>10 DEF WorkerSaved, StopInv, RevisionInv
<1>11. CASE WorkerFailed
  BY <1>0, <1>11 DEF WorkerFailed, StopInv
<1>12. CASE WorkerNotify
  <2>1. ASSUME NEW d \in Callers
        PROVE  \/ pc'[d] = pc[d]
               \/ pc[d] = "asleep" /\ pc'[d] = "check"
               \/ pc[d] = "stopAsleep" /\ pc'[d] = "stopCheck"
    <3>1. /\ DOMAIN Woken = {"asleep", "stopAsleep"}
          /\ Woken["asleep"] = "check" /\ Woken["stopAsleep"] = "stopCheck"
      BY DEF Woken
    <3>2. pc'[d] = IF pc[d] \in DOMAIN Woken THEN Woken[pc[d]] ELSE pc[d]
      BY <1>12 DEF WorkerNotify
    <3> HIDE DEF Woken
    <3> QED BY <3>1, <3>2
  <2>2. UNCHANGED <<log, durable, taken, barrier, accepting, stopping, succeeded>>
        /\ worker = "notify" /\ worker' = "check"
    BY <1>12 DEF WorkerNotify
  <2> QED BY <1>0, <2>1, <2>2 DEF StopInv
<1>13. CASE UNCHANGED vars
  BY <1>0, <1>13 DEF vars, StopInv
<1> QED
  BY <1>1, <1>2, <1>3, <1>4, <1>5, <1>6, <1>7, <1>8, <1>9, <1>10, <1>11, <1>12, <1>13
     DEF Next, FlushStep, StopStep, WorkerStep

(* What a call reports is durable. *)
LEMMA StepReport == IInv /\ [Next]_vars => (acked <= durable)' /\ durable <= durable' /\ acked <= acked'
<1> SUFFICES ASSUME IInv, [Next]_vars
             PROVE  acked' <= durable' /\ durable <= durable' /\ acked <= acked'
  OBVIOUS
<1> USE DEF flags, history
<1>0. /\ TypeOK /\ RevisionInv /\ WaitInv /\ StopInv /\ acked <= durable
      /\ durable \in Nat /\ taken \in Nat /\ acked \in Nat /\ acked <= Len(log)
      /\ durable <= taken /\ Len(log) \in Nat
      /\ \A d \in Callers : barrier[d] \in Nat
  BY LenProperties DEF IInv, TypeOK, RevisionInv
<1>1. ASSUME NEW c \in Callers, Flush(c) \/ StopFlush(c)
      PROVE  acked' <= durable' /\ durable <= durable' /\ acked <= acked'
  <2>1. PICK w, r : EnterFlush(c, w, r)
    BY <1>1 DEF Flush, StopFlush
  <2>2. UNCHANGED durable /\ (stopping \/ worker = "none" => (succeeded => durable = Len(log)))
    BY <1>0, <1>1 DEF Flush, StopFlush, StopInv, PastFlush
  <2>3. acked' = acked \/ (succeeded /\ acked' = Len(log) /\ (worker = "none" \/ stopping))
    BY <1>0, <2>1, EnterFlushCases
  <2> QED BY <1>0, <2>2, <2>3
<1>2. ASSUME NEW c \in Callers, FlushDone(c)
      PROVE  acked' <= durable' /\ durable <= durable' /\ acked <= acked'
  <2>1. succeeded => barrier[c] <= durable
    BY <1>0, <1>2 DEF FlushDone, WaitInv, Waiting
  <2> QED BY <1>0, <1>2, <2>1 DEF FlushDone, ReportSaved
<1>3. CASE WorkerWritten
  BY <1>0, <1>3 DEF WorkerWritten, Land
<1>4. ASSUME UNCHANGED <<acked, durable>>
      PROVE  acked' <= durable' /\ durable <= durable' /\ acked <= acked'
  BY <1>0, <1>4
<1>5. ASSUME NEW c \in Callers, NEW k \in Keys, Submit(c, k)
      PROVE  UNCHANGED <<acked, durable>>
  BY <1>5 DEF Submit
<1>6. ASSUME NEW c \in Callers,
             FlushSleep(c) \/ Stop(c) \/ StopRaise(c) \/ StopWake(c) \/ StopJoin(c)
      PROVE  UNCHANGED <<acked, durable>>
  BY <1>6 DEF FlushSleep, Stop, StopRaise, StopWake, StopJoin
<1>7. CASE WorkerSleep \/ WorkerExit \/ WorkerTake \/ WorkerSaved \/ WorkerFailed
           \/ WorkerNotify \/ UNCHANGED vars
  <2>1. UNCHANGED <<acked, durable>>
    BY <1>7 DEF WorkerSleep, WorkerExit, WorkerTake, WorkerSaved, WorkerFailed,
                WorkerNotify, vars
  <2> QED BY <1>4, <2>1
<1> QED BY <1>1, <1>2, <1>3, <1>4, <1>5, <1>6, <1>7
        DEF Next, FlushStep, StopStep, WorkerStep

-----------------------------------------------------------------------------
(* The invariant, and what it gives a reader. *)

LEMMA Inductive == IInv /\ [Next]_vars => IInv'
BY StepType, StepData, StepRevision, StepWait, StepStop, StepReport DEF IInv

LEMMA Invariant == Spec => []IInv
<1>1. Init => IInv
  BY InitInv
<1>2. IInv /\ [Next]_vars => IInv'
  BY Inductive
<1> QED BY <1>1, <1>2, PTL DEF Spec

(* Every variable of the store keeps its type. *)
THEOREM TypeCorrect == Spec => []TypeOK
BY Invariant, PTL DEF IInv

(* preferences.ini is always the settings after a prefix of the updates, and no
   accepted update is ever lost, whatever fails and however batches merge. *)
THEOREM NothingLostCorrect == Spec => []NothingLost
<1>1. IInv => NothingLost
  BY DEF IInv, DataInv, NothingLost
<1> QED BY <1>1, Invariant, PTL

(* flush() and stop() report success only for what is in the file. *)
THEOREM ReportCorrect == Spec => []ReportedIsDurable
<1>1. IInv => ReportedIsDurable
  BY DEF IInv, ReportedIsDurable
<1> QED BY <1>1, Invariant, PTL

(* After stop() nothing is written any more. *)
THEOREM QuietCorrect == Spec => []QuietAfterStop
<1>1. IInv => QuietAfterStop
  BY DEF IInv, StopInv, DataInv, Writing, QuietAfterStop, StopReturned
<1> QED BY <1>1, Invariant, PTL

-----------------------------------------------------------------------------
(* Refinement. *)

LEMMA RefinementInit == Init => Service!Init
BY DEF Init, Service!Init

LEMMA RefinementStep == IInv /\ [Next]_vars => [Service!Next]_(Service!vars)
<1> SUFFICES ASSUME IInv, [Next]_vars PROVE [Service!Next]_(Service!vars)
  OBVIOUS
<1> USE DEF flags, history
<1>1. ASSUME NEW c \in Callers, NEW k \in Keys, Submit(c, k) PROVE Service!Submit
  BY <1>1 DEF Submit, Service!Submit
<1>2. ASSUME UNCHANGED log, accepting' \in BOOLEAN, accepting' => accepting
      PROVE  Service!Settle
  <2>1. /\ acked' <= durable' /\ durable <= durable' /\ acked <= acked'
        /\ durable' \in 0..Len(log') /\ acked' \in 0..Len(log')
        /\ durable \in Nat /\ acked \in Nat
    BY Inductive, StepReport, LenProperties DEF IInv, TypeOK
  <2> QED BY <1>2, <2>1, LenProperties DEF Service!Settle, IInv, TypeOK
<1>3. ASSUME NEW c \in Callers, Flush(c) \/ FlushStep(c) \/ Stop(c) \/ StopStep(c)
      PROVE  UNCHANGED log /\ accepting' \in BOOLEAN /\ (accepting' => accepting)
  <2>1. accepting \in BOOLEAN
    BY DEF IInv, TypeOK
  <2>2. CASE Stop(c)
    BY <2>2 DEF Stop
  <2>3. CASE ~Stop(c)
    <3>1. UNCHANGED <<log, accepting>>
      BY <1>3, <2>3 DEF Flush, FlushStep, FlushDone, FlushSleep, StopStep, StopFlush,
                        StopRaise, StopWake, StopJoin
    <3> QED BY <2>1, <3>1
  <2> QED BY <2>2, <2>3
<1>4. CASE WorkerStep
  <2>1. UNCHANGED log /\ accepting' \in BOOLEAN /\ (accepting' => accepting)
    BY <1>4 DEF WorkerStep, WorkerSleep, WorkerExit, WorkerTake, WorkerWritten,
                WorkerSaved, WorkerFailed, WorkerNotify, IInv, TypeOK
  <2> QED BY <1>2, <2>1 DEF Service!Next
<1>5. CASE UNCHANGED vars
  BY <1>5 DEF vars, Service!vars
<1> QED BY <1>1, <1>2, <1>3, <1>4, <1>5 DEF Next, Service!Next

(* The worker thread, its retries and its barriers implement the abstract
   write-behind store. *)
THEOREM StoreCorrect == Spec => ImplementsStore
BY RefinementInit, RefinementStep, Invariant, PTL DEF Spec, ImplementsStore, Service!Spec

-----------------------------------------------------------------------------
(* The pair of records is whole for any number of processes.  It is not
   inductive alone: a process commits what it computed from the pair as it read
   it, so the invariant says that nobody else can have changed it since. *)

Pair   == [Records -> Nat]
Stages == {"none", "begun", "written", "commit", "rollback"}
RecordsTypeOK ==
  /\ stored \in Pair /\ commits \in Nat
  /\ writeLock \in Connections \cup {Nobody}
  /\ update \in [Connections -> [tx : [at : Stages, seen : Pair, next : Pair], begun : Nat]]

(* Who is inside a transaction has the lock, and reads what is stored. *)
LockInv == \A c \in Connections : ~At(c, "none") => writeLock = c /\ update[c].tx.seen = stored

(* What a transaction is about to store is what it saw, or one update more, of
   both records once it may commit. *)
OneMore(tx) == \A r \in Records : tx.next[r] = tx.seen[r] + 1
NextInv ==
  \A c \in Connections :
    LET tx == update[c].tx IN
    /\ tx.at = "begun" => tx.next = tx.seen
    /\ tx.at = "written" => tx.next = [tx.seen EXCEPT !["second"] = @ + 1]
    /\ tx.at = "commit" => tx.next = tx.seen \/ OneMore(tx)

RecordsInv == RecordsTypeOK /\ LockInv /\ NextInv /\ PairsStayWhole

LEMMA RecordsBegin == JsonStoreInit => RecordsInv
  BY DEF JsonStoreInit, RecordsInv, RecordsTypeOK, LockInv, NextInv, PairsStayWhole, At, NoUpdate, Pair,
         Stages, Records

(* Leaving a transaction, committed or not, keeps types and the lock. *)
LEMMA RecordsLeave ==
  ASSUME Nobody \notin Connections, RecordsTypeOK, LockInv, NextInv, NEW c \in Connections,
         ~At(c, "none"), Leave(c), stored' \in Pair, commits' \in Nat
  PROVE  RecordsTypeOK' /\ LockInv' /\ NextInv'
<1>1. /\ update'[c].tx = NoUpdate
      /\ \A d \in Connections \ {c} : update'[d] = update[d] /\ At(d, "none")
  BY DEF RecordsTypeOK, LockInv, Leave, At
<1>2. RecordsTypeOK'
  BY DEF RecordsTypeOK, Leave, NoUpdate, Stages, Pair, Records
<1>3. \A d \in Connections : At(d, "none")'
  BY <1>1 DEF At, NoUpdate
<1>4. LockInv' /\ NextInv'
  BY <1>3 DEF LockInv, NextInv, At
<1> QED BY <1>2, <1>4

(* Within a transaction only its own stage and values change. *)
LEMMA RecordsTx ==
  ASSUME RecordsTypeOK, LockInv, NextInv, NEW c \in Connections, ~At(c, "none"),
         NEW tx \in [at : Stages, seen : Pair, next : Pair], Tx(c, tx),
         tx.seen = update[c].tx.seen,
         tx.at = "begun" => tx.next = tx.seen,
         tx.at = "written" => tx.next = [tx.seen EXCEPT !["second"] = @ + 1],
         tx.at = "commit" => tx.next = tx.seen \/ OneMore(tx),
         UNCHANGED <<stored, writeLock, commits>>
  PROVE  RecordsTypeOK' /\ LockInv' /\ NextInv'
<1>1. /\ update'[c].tx = tx
      /\ \A d \in Connections \ {c} : update'[d] = update[d]
  BY DEF RecordsTypeOK, Tx
<1>2. RecordsTypeOK'
  BY DEF RecordsTypeOK, Tx
<1>3. LockInv'
  BY <1>1 DEF LockInv, At, RecordsTypeOK
<1>4. NextInv'
  BY <1>1 DEF NextInv, OneMore
<1> QED BY <1>2, <1>3, <1>4

LEMMA RecordsStep ==
  ASSUME Nobody \notin Connections, RecordsInv, [JsonStoreNext]_jsonVars
  PROVE  RecordsInv'
<1> USE DEF RecordsInv
<1>1. CASE UNCHANGED jsonVars
  BY <1>1 DEF jsonVars, RecordsTypeOK, LockInv, NextInv, OneMore, PairsStayWhole, At
<1>2. ASSUME NEW c \in Connections, Begin(c) PROVE RecordsInv'
  <2>1. CASE writeLock = Nobody
    <3>1. \A d \in Connections : At(d, "none")
      BY <2>1 DEF LockInv, RecordsTypeOK
    <3>2. /\ update'[c].tx = [at |-> "begun", seen |-> stored, next |-> stored]
          /\ \A d \in Connections \ {c} : update'[d] = update[d]
          /\ writeLock' = c /\ stored' = stored /\ commits' = commits
      BY <1>2, <2>1 DEF Begin, RecordsTypeOK
    <3>3. RecordsTypeOK'
      BY <1>2, <2>1 DEF Begin, RecordsTypeOK, Stages
    <3>4. LockInv' /\ PairsStayWhole'
      <4>1. LockInv'
        BY <3>1, <3>2 DEF LockInv, At
      <4>2. PairsStayWhole'
        BY <3>2 DEF PairsStayWhole
      <4> QED BY <4>1, <4>2
    <3>5. NextInv'
      <4> SUFFICES ASSUME NEW d \in Connections, update'[d].tx.at # "none"
                   PROVE  /\ update'[d].tx.at = "begun"
                          /\ update'[d].tx.next = update'[d].tx.seen
        BY <3>1, <3>2 DEF NextInv, At
      <4>1. d = c
        BY <3>1, <3>2 DEF At
      <4> QED BY <4>1, <3>2
    <3> QED BY <3>3, <3>4, <3>5
  <2>2. CASE writeLock # Nobody
    <3>1. /\ \A d \in Connections : update'[d].tx = update[d].tx
          /\ writeLock' = writeLock /\ stored' = stored /\ commits' = commits
      BY <1>2, <2>2 DEF Begin, RecordsTypeOK
    <3>2. RecordsTypeOK'
      BY <1>2, <2>2 DEF Begin, RecordsTypeOK
    <3>3. LockInv' /\ NextInv'
      BY <3>1 DEF LockInv, NextInv, OneMore, At
    <3>4. PairsStayWhole'
      BY <3>1 DEF PairsStayWhole
    <3> QED BY <3>2, <3>3, <3>4
  <2> QED BY <2>1, <2>2
<1>3. ASSUME NEW c \in Connections, Mutate(c) \/ SetFirst(c) PROVE RecordsInv'
  <2> DEFINE old == update[c].tx
             Moved(stage) == [old EXCEPT !.at = stage]
  <2>1. /\ ~At(c, "none") /\ UNCHANGED <<stored, writeLock, commits>>
        /\ old \in [at : Stages, seen : Pair, next : Pair]
    BY <1>3 DEF Mutate, SetFirst, At, RecordsTypeOK
  <2>2. CASE Tx(c, Moved("rollback"))
    BY <2>1, <2>2, RecordsTx DEF Stages, PairsStayWhole
  <2>3. CASE At(c, "begun") /\ Tx(c, Moved("commit"))
    <3>1. old.next = old.seen
      BY <2>3 DEF NextInv, At
    <3> QED BY <2>1, <2>3, <3>1, RecordsTx DEF Stages, PairsStayWhole
  <2>4. CASE /\ At(c, "begun")
             /\ Tx(c, [old EXCEPT !.at = "written", !.next = Bump(old, "second")])
    <3> DEFINE tx == [old EXCEPT !.at = "written", !.next = Bump(old, "second")]
    <3>1. old.next = old.seen
      BY <2>4 DEF NextInv, At
    <3>2. /\ tx \in [at : Stages, seen : Pair, next : Pair] /\ tx.seen = old.seen
          /\ tx.at = "written" /\ tx.next = [tx.seen EXCEPT !["second"] = @ + 1]
      <4>1. Bump(old, "second") = [old.seen EXCEPT !["second"] = @ + 1] /\ Bump(old, "second") \in Pair
        BY <2>1, <3>1 DEF Bump, Pair, Records
      <4>2. tx \in [at : Stages, seen : Pair, next : Pair]
        BY <2>1, <4>1 DEF Stages
      <4>3. tx.at = "written" /\ tx.seen = old.seen /\ tx.next = Bump(old, "second")
        BY <2>1
      <4> QED BY <4>1, <4>2, <4>3
    <3> HIDE DEF tx
    <3> QED BY <2>1, <2>4, <3>2, RecordsTx DEF PairsStayWhole, tx
  <2>5. CASE /\ At(c, "written")
             /\ Tx(c, [old EXCEPT !.at = "commit", !.next = Bump(old, "first")])
    <3> DEFINE tx == [old EXCEPT !.at = "commit", !.next = Bump(old, "first")]
    <3>1. old.next = [old.seen EXCEPT !["second"] = @ + 1]
      BY <2>5 DEF NextInv, At
    <3>2. /\ tx \in [at : Stages, seen : Pair, next : Pair] /\ tx.seen = old.seen
          /\ tx.at = "commit" /\ OneMore(tx)
      <4>1. /\ Bump(old, "first") \in Pair
            /\ \A r \in Records : Bump(old, "first")[r] = old.seen[r] + 1
        BY <2>1, <3>1 DEF Bump, Pair, Records
      <4>2. tx \in [at : Stages, seen : Pair, next : Pair]
        BY <2>1, <4>1 DEF Stages
      <4>3. tx.at = "commit" /\ tx.seen = old.seen /\ tx.next = Bump(old, "first")
        BY <2>1
      <4> QED BY <4>1, <4>2, <4>3 DEF OneMore
    <3> HIDE DEF tx
    <3> QED BY <2>1, <2>5, <3>2, RecordsTx DEF PairsStayWhole, tx
  <2> QED BY <1>3, <2>2, <2>3, <2>4, <2>5 DEF Mutate, SetFirst
<1>4. ASSUME NEW c \in Connections, Commit(c) PROVE RecordsInv'
  <2>1. ~At(c, "none") /\ At(c, "commit")
    BY <1>4 DEF Commit, At
  <2>2. CASE Tx(c, [update[c].tx EXCEPT !.at = "rollback"]) /\ UNCHANGED <<stored, writeLock, commits>>
    BY <2>1, <2>2, RecordsTx DEF RecordsTypeOK, Stages, PairsStayWhole
  <2>3. CASE /\ stored' = update[c].tx.next /\ Leave(c)
             /\ commits' = commits + (IF update[c].tx.next = update[c].tx.seen THEN 0 ELSE 1)
    <3>1. /\ update[c].tx.seen = stored /\ update[c].tx.next \in Pair
          /\ update[c].tx.next = update[c].tx.seen \/ OneMore(update[c].tx)
      BY <2>1 DEF LockInv, NextInv, RecordsTypeOK, At
    <3>2. PairsStayWhole'
      <4>1. CASE update[c].tx.next = update[c].tx.seen
        <5>1. stored' = stored /\ commits' = commits
          BY <2>3, <3>1, <4>1 DEF RecordsTypeOK
        <5> QED BY <5>1 DEF PairsStayWhole
      <4>2. CASE update[c].tx.next # update[c].tx.seen
        <5>1. \A r \in Records : stored'[r] = stored[r] + 1
          BY <2>3, <3>1, <4>2 DEF OneMore
        <5>2. commits' = commits + 1
          BY <2>3, <4>2 DEF RecordsTypeOK
        <5> QED BY <5>1, <5>2 DEF PairsStayWhole, Records
      <4> QED BY <4>1, <4>2
    <3> QED BY <2>1, <2>3, <3>1, <3>2, RecordsLeave DEF RecordsTypeOK
  <2> QED BY <1>4, <2>2, <2>3 DEF Commit
<1>5. ASSUME NEW c \in Connections, Rollback(c) \/ Die(c) PROVE RecordsInv'
  <2>1. ~At(c, "none") /\ Leave(c) /\ UNCHANGED <<stored, commits>>
    BY <1>5 DEF Rollback, Die, At
  <2> QED BY <2>1, RecordsLeave DEF RecordsTypeOK, PairsStayWhole
<1> QED BY <1>1, <1>2, <1>3, <1>4, <1>5 DEF JsonStoreNext

(* Whatever fails and whoever dies, the session and the account generation are
   of one commit, and each commit is there: UpdateJsonPair loses no update of
   another process. *)
THEOREM PairsCorrect ==
  ASSUME Nobody \notin Connections
  PROVE  JsonStoreSpec => []PairsStayWhole
<1>1. RecordsInv => PairsStayWhole
  BY DEF RecordsInv
<1> QED BY <1>1, RecordsBegin, RecordsStep, PTL DEF JsonStoreSpec

-----------------------------------------------------------------------------
(* The appearance settings: nothing may be pending only when the file has every
   change, because a flush that finds nothing to do reports success. *)

CaughtUp == look = Look!Empty => lookDurable = Len(lookLog)
LookInv == Look!TypeOK /\ Look!NothingForgotten /\ CaughtUp /\ lookAcked <= lookDurable

(* The two parts of the type. *)
LookFlags == healthy \in BOOLEAN /\ timer \in BOOLEAN /\ alive \in BOOLEAN
LookMaps == /\ lookLog \in Seq(Keys)
        /\ look \in [Keys -> 0..Len(lookLog)] /\ lookDisk \in [Keys -> 0..Len(lookLog)]
        /\ lookDurable \in 0..Len(lookLog) /\ lookAcked \in 0..Len(lookLog)

LEMMA LookMerges ==
  /\ \A a, b : Look!Over(a, b) = Over(a, b)
  /\ \A map, l, n : Look!Newest(map, l, n) <=> Newest(map, l, n)
BY DEF Look!Over, Over, Look!Newest, Newest

LEMMA LookTypeParts == (Look!TypeOK <=> LookFlags /\ LookMaps) /\ (Look!TypeOK' <=> LookFlags' /\ LookMaps')
BY DEF Look!TypeOK, LookFlags, LookMaps

LEMMA LookEmptyType == ASSUME NEW n \in Nat PROVE Look!Empty \in [Keys -> 0..n]
BY DEF Look!Empty

LEMMA LookBegins == Look!Init => LookInv
<1> SUFFICES ASSUME Look!Init PROVE LookInv
  OBVIOUS
<1>1. lookLog = <<>> /\ Len(lookLog) = 0 /\ lookLog \in Seq(Keys)
  BY DEF Look!Init
<1>2. Look!TypeOK
  <2>1. LookFlags
    BY DEF Look!Init, LookFlags
  <2>2. LookMaps
    BY <1>1, LookEmptyType DEF Look!Init, LookMaps
  <2> QED BY <2>1, <2>2, LookTypeParts
<1>3. Look!Over(look, lookDisk) = Look!Empty
  BY DEF Look!Init, Look!Over, Look!Empty
<1>4. Look!Newest(Look!Empty, lookLog, 0)
  BY DEF Look!Newest, Look!Empty
<1>5. Look!NothingForgotten
  BY <1>1, <1>3, <1>4 DEF Look!Init, Look!NothingForgotten
<1> QED BY <1>1, <1>2, <1>5 DEF Look!Init, LookInv, CaughtUp

LEMMA LookChange ==
  ASSUME LookInv, NEW k \in Keys, Look!Change(k)
  PROVE  LookInv'
<1> USE DEF LookInv
<1>1. /\ Len(lookLog) \in Nat /\ lookLog' = Append(lookLog, k) /\ lookLog' \in Seq(Keys)
      /\ Len(lookLog') = Len(lookLog) + 1
      /\ look \in [Keys -> 0..Len(lookLog)] /\ lookDisk \in [Keys -> 0..Len(lookLog)]
      /\ lookDurable \in 0..Len(lookLog) /\ lookAcked \in 0..Len(lookLog)
  BY AppendProperties, LenProperties DEF Look!Change, Look!TypeOK
<1>2. look' = [look EXCEPT ![k] = Len(lookLog) + 1]
      /\ lookDisk' = lookDisk /\ lookDurable' = lookDurable /\ lookAcked' = lookAcked /\ timer' = TRUE
  BY DEF Look!Change
<1>3. Look!TypeOK'
  <2>1. look' \in [Keys -> 0..Len(lookLog')] /\ lookDisk' \in [Keys -> 0..Len(lookLog')]
    BY <1>1, <1>2
  <2> QED BY <1>1, <1>2, <2>1 DEF Look!TypeOK, Look!Change
<1>4. Look!Newest(lookDisk', lookLog', lookDurable')
  <2>1. Look!Newest(lookDisk, lookLog, lookDurable) /\ lookLog \in Seq(Keys)
    BY DEF Look!NothingForgotten, Look!TypeOK
  <2>2. Look!Newest(lookDisk, Append(lookLog, k), lookDurable)
    BY <1>1, <2>1, NewestStable, LookMerges
  <2> QED BY <1>1, <1>2, <2>2
<1>5. Look!Newest(Look!Over(look', lookDisk'), lookLog', Len(lookLog'))
  <2> DEFINE shown == Look!Over(look, lookDisk)
  <2>1. shown \in [Keys -> 0..Len(lookLog)] /\ Look!Newest(shown, lookLog, Len(lookLog))
    BY <1>1, OverType, LookMerges DEF Look!NothingForgotten
  <2>2. Look!Over(look', lookDisk') = [shown EXCEPT ![k] = Len(lookLog) + 1]
    <3>1. \A b : Look!Over([look EXCEPT ![k] = Len(lookLog) + 1], b)
                   = [Look!Over(look, b) EXCEPT ![k] = Len(lookLog) + 1]
      <4>1. \A n \in Nat : n + 1 # 0
        OBVIOUS
      <4>2. Len(lookLog) + 1 # 0 /\ DOMAIN look = Keys
        BY <1>1, <4>1
      <4> QED BY <4>2 DEF Look!Over
    <3> QED BY <1>2, <3>1
  <2> HIDE DEF shown
  <2>3. Look!Newest([shown EXCEPT ![k] = Len(lookLog) + 1], Append(lookLog, k), Len(lookLog) + 1)
    BY <1>1, <2>1, NewestAppended, LookMerges DEF Look!TypeOK
  <2> QED BY <1>1, <2>2, <2>3
<1>6. look'[k] # 0
  BY <1>1, <1>2
<1> QED BY <1>1, <1>2, <1>3, <1>4, <1>5, <1>6 DEF Look!NothingForgotten, CaughtUp, Look!Empty

(* One call of flushStorage(), whoever makes it. *)
LEMMA LookFlush ==
  ASSUME LookInv, Look!FlushStorage, alive' \in BOOLEAN
  PROVE  /\ LookInv' /\ lookLog' = lookLog
         /\ lookDurable <= lookDurable' /\ lookAcked <= lookAcked'
<1> USE DEF LookInv
<1>1. /\ Len(lookLog) \in Nat /\ lookLog' = lookLog
      /\ look \in [Keys -> 0..Len(lookLog)] /\ lookDisk \in [Keys -> 0..Len(lookLog)]
      /\ lookDurable \in 0..Len(lookLog) /\ lookAcked \in 0..Len(lookLog)
  BY LenProperties DEF Look!FlushStorage, Look!TypeOK
<1>2. CASE look = Look!Empty /\ healthy
  <2>1. /\ lookAcked' = Len(lookLog) /\ lookDurable = Len(lookLog)
        /\ look' = look /\ healthy' = healthy /\ lookDisk' = lookDisk /\ lookDurable' = lookDurable
        /\ timer' = FALSE
    BY <1>2 DEF Look!FlushStorage, CaughtUp
  <2>2. Look!TypeOK'
    BY <1>1, <2>1 DEF Look!TypeOK
  <2>3. Look!NothingForgotten' /\ CaughtUp'
    BY <1>1, <1>2, <2>1 DEF Look!NothingForgotten, CaughtUp
  <2> QED BY <1>1, <2>1, <2>2, <2>3
<1>3. CASE ~(look = Look!Empty /\ healthy)
  <2>1. PICK ok, landed \in BOOLEAN :
          /\ ok => landed
          /\ IF landed THEN lookDisk' = Look!Over(look, lookDisk) /\ lookDurable' = Len(lookLog)
                       ELSE UNCHANGED <<lookDisk, lookDurable>>
          /\ look' = Look!Kept(ok) /\ healthy' = ok /\ lookAcked' = Look!Told(ok) /\ timer' = FALSE
    BY <1>3 DEF Look!FlushStorage
  <2>2. CASE ok
    <3>1. /\ lookDisk' = Look!Over(look, lookDisk) /\ lookDurable' = Len(lookLog) /\ look' = Look!Empty
          /\ lookAcked' = Len(lookLog) /\ healthy' = TRUE
      BY <2>1, <2>2 DEF Look!Kept, Look!Told
    <3>2. lookDisk' \in [Keys -> 0..Len(lookLog)] /\ look' \in [Keys -> 0..Len(lookLog)]
      BY <1>1, <3>1, OverType, LookMerges, LookEmptyType
    <3>3. Look!Over(look', lookDisk') = lookDisk'
      BY <3>1, <3>2 DEF Look!Over, Look!Empty
    <3>4. Look!TypeOK'
      <4>1. LookFlags'
        BY <2>1 DEF LookFlags
      <4>2. LookMaps'
        BY <1>1, <3>1, <3>2 DEF LookMaps, Look!TypeOK
      <4> QED BY <4>1, <4>2, LookTypeParts
    <3>5. Look!NothingForgotten'
      BY <1>1, <3>1, <3>3 DEF Look!NothingForgotten
    <3> QED BY <1>1, <3>1, <3>4, <3>5 DEF CaughtUp
  <2>3. CASE ~ok
    <3>1. look' = look /\ lookAcked' = lookAcked /\ healthy' = FALSE
      BY <2>1, <2>3 DEF Look!Kept, Look!Told
    <3>2. CASE landed
      <4>1. lookDisk' = Look!Over(look, lookDisk) /\ lookDurable' = Len(lookLog)
        BY <2>1, <3>2
      <4>2. lookDisk' \in [Keys -> 0..Len(lookLog)]
        BY <1>1, <4>1, OverType, LookMerges
      <4>3. Look!Over(look', lookDisk') = lookDisk'
        BY <3>1, <4>1, OverTwice, LookMerges
      <4>4. Look!TypeOK'
        <5>1. LookFlags'
          BY <2>1 DEF LookFlags
        <5>2. LookMaps'
          BY <1>1, <3>1, <4>1, <4>2 DEF LookMaps, Look!TypeOK
        <5> QED BY <5>1, <5>2, LookTypeParts
      <4>5. Look!NothingForgotten'
        BY <1>1, <3>1, <4>1, <4>3 DEF Look!NothingForgotten
      <4> QED BY <1>1, <3>1, <4>1, <4>4, <4>5 DEF CaughtUp
    <3>3. CASE ~landed
      <4>1. lookDisk' = lookDisk /\ lookDurable' = lookDurable
        BY <2>1, <3>3
      <4>2. Look!TypeOK'
        BY <1>1, <2>1, <3>1, <4>1 DEF Look!TypeOK
      <4>3. Look!NothingForgotten' /\ CaughtUp'
        BY <1>1, <3>1, <4>1 DEF Look!NothingForgotten, CaughtUp
      <4> QED BY <1>1, <3>1, <4>1, <4>2, <4>3
    <3> QED BY <3>2, <3>3
  <2> QED BY <2>2, <2>3
<1> QED BY <1>2, <1>3

LEMMA LookStep == LookInv /\ [Look!Next]_(Look!vars) => LookInv'
<1> SUFFICES ASSUME LookInv, [Look!Next]_(Look!vars) PROVE LookInv'
  OBVIOUS
<1>1. CASE UNCHANGED Look!vars
  BY <1>1 DEF Look!vars, LookInv, Look!TypeOK, Look!NothingForgotten, CaughtUp
<1>2. ASSUME NEW k \in Keys, Look!Change(k) PROVE LookInv'
  BY <1>2, LookChange
<1>3. CASE Look!Timeout \/ Look!Flush \/ Look!Destroy
  <2>1. Look!FlushStorage /\ alive' \in BOOLEAN
    BY <1>3 DEF Look!Timeout, Look!Flush, Look!Destroy, LookInv, Look!TypeOK
  <2> QED BY <2>1, LookFlush
<1> QED BY <1>1, <1>2, <1>3 DEF Look!Next

(* The saved settings: whatever fails, the file is the state after some prefix of
   the changes and the rest is look under the timer or a shown error. *)
THEOREM NothingForgottenCorrect == Look!Spec => []Look!NothingForgotten
<1>1. LookInv => Look!NothingForgotten
  BY DEF LookInv
<1> QED BY <1>1, LookBegins, LookStep, PTL DEF Look!Spec

-----------------------------------------------------------------------------
LEMMA LookRefinementInit == Look!Init => Look!Service!Init
BY DEF Look!Init, Look!Service!Init

LEMMA LookRefinementStep == LookInv /\ LookInv' /\ [Look!Next]_(Look!vars) => [Look!Service!Next]_(Look!Service!vars)
<1> SUFFICES ASSUME LookInv, LookInv', [Look!Next]_(Look!vars) PROVE [Look!Service!Next]_(Look!Service!vars)
  OBVIOUS
<1>1. CASE UNCHANGED Look!vars
  BY <1>1 DEF Look!vars, Look!Service!vars
<1>2. ASSUME NEW k \in Keys, Look!Change(k) PROVE Look!Service!Submit
  BY <1>2 DEF Look!Change, Look!Service!Submit
<1>3. CASE Look!Timeout \/ Look!Flush \/ Look!Destroy
  <2>1. Look!FlushStorage /\ alive' \in BOOLEAN /\ (alive' => alive)
    BY <1>3 DEF Look!Timeout, Look!Flush, Look!Destroy, LookInv, Look!TypeOK
  <2>2. lookLog' = lookLog /\ lookDurable <= lookDurable' /\ lookAcked <= lookAcked'
    BY <2>1, LookFlush
  <2>3. /\ lookDurable' \in 0..Len(lookLog') /\ lookAcked' \in 0..Len(lookLog') /\ lookAcked' <= lookDurable'
        /\ lookDurable \in 0..Len(lookLog) /\ lookAcked \in 0..Len(lookLog) /\ Len(lookLog) \in Nat
    BY LenProperties DEF LookInv, Look!TypeOK
  <2>4. lookDurable' \in lookDurable..Len(lookLog) /\ lookAcked' \in lookAcked..lookDurable'
    BY <2>2, <2>3
  <2> QED BY <2>1, <2>2, <2>4 DEF Look!Service!Settle, Look!Service!Next
<1> QED BY <1>1, <1>2, <1>3 DEF Look!Next, Look!Service!Next

(* The timer, the retry button and the exit of AppearanceController keep the
   promise of the abstract write-behind store. *)
THEOREM AppearanceImplementsStore == Look!Spec => Look!ImplementsStore
BY LookRefinementInit, LookRefinementStep, LookBegins, LookStep, PTL DEF Look!Spec, Look!ImplementsStore, Look!Service!Spec

(* The appearance settings are kept and their store keeps its promise, also next to the
   other stores, whose steps leave them as they are (AppearanceStore). *)
THEOREM AppearanceIsKeptCorrect == StoresSpec => AppearanceIsKept
<1>1. StoresInit => Look!Init
  BY DEF StoresInit
<1>2. [StoresNext]_storesVars => [Look!Next]_(Look!vars)
  BY DEF StoresNext, storesVars, lookVars, Look!vars
<1>3. StoresSpec => Look!Spec
  BY <1>1, <1>2, PTL DEF StoresSpec, Look!Spec
<1> QED
  BY <1>3, NothingForgottenCorrect, AppearanceImplementsStore, PTL DEF AppearanceIsKept

-----------------------------------------------------------------------------
(* An import can be taken back and is not undone: while it writes nobody else does,
   and what it has not replaced yet is in its backup. *)

Phases   == {"idle", "prepared", "backed", "writing"}
Contents == [Files -> Nat]
ProfileTypeOK ==
  /\ profile \in Contents /\ unwritten \in [Migrate!Writers -> Nat]
  /\ job \in [phase : Phases, left : SUBSET Files, failed : BOOLEAN]
  /\ told \in [changes : Nat, imports : Nat, last : Nat]
  /\ backups \in Seq(Contents)

LastBackup == backups[Len(backups)]
ProfileInv ==
  /\ ProfileTypeOK
  /\ told.last <= told.changes
  /\ \A w \in Migrate!Writers : unwritten[w] # 0 => unwritten[w] >= told.last
  /\ held => unwritten["preferences"] = 0
  /\ job.phase # "idle" => \A w \in Migrate!Writers : unwritten[w] = 0
  /\ job.phase = "backed" => backups # <<>> /\ LastBackup = profile
  /\ job.phase = "writing" => backups # <<>> /\ \A f \in job.left : LastBackup[f] = profile[f]

LEMMA ProfileBegins == Migrate!DataMigrationInit => ProfileInv
BY DEF Migrate!DataMigrationInit, Migrate!Idle, ProfileInv, ProfileTypeOK, Phases, Contents

LEMMA WrittenOver ==
  ASSUME ProfileInv, NEW w \in Migrate!Writers
  PROVE  /\ Migrate!Written(w) \in Contents
         /\ \A f \in Files : Migrate!Written(w)[f] = IF f = w /\ unwritten[w] # 0 THEN unwritten[w] ELSE profile[f]
BY DEF ProfileInv, ProfileTypeOK, Contents, Migrate!Written

LEMMA ProfileStep ==
  ASSUME ProfileInv, [Migrate!DataMigrationNext]_profileVars
  PROVE  ProfileInv' /\ Migrate!Recoverable /\ Migrate!Stays
<1>1. /\ profile \in Contents /\ unwritten \in [Migrate!Writers -> Nat]
      /\ job \in [phase : Phases, left : SUBSET Files, failed : BOOLEAN]
      /\ told.changes \in Nat /\ told.imports \in Nat /\ told.last \in Nat
      /\ told = [changes |-> told.changes, imports |-> told.imports, last |-> told.last]
      /\ backups \in Seq(Contents) /\ told.last <= told.changes
  BY DEF ProfileInv, ProfileTypeOK
<1>2. CASE profile' = profile
  <2>1. Migrate!Recoverable /\ Migrate!Stays
    BY <1>2 DEF Migrate!Recoverable, Migrate!Stays
  <2> SUFFICES ProfileInv'
    BY <2>1
  <2>2. CASE UNCHANGED profileVars
    BY <2>1, <2>2 DEF profileVars, ProfileInv, ProfileTypeOK, LastBackup
  <2>3. ASSUME NEW w \in Migrate!Writers, Migrate!Change(w) PROVE ProfileInv'
    <3>1. /\ job.phase = "idle" /\ told' = [told EXCEPT !.changes = @ + 1]
          /\ unwritten' = [unwritten EXCEPT ![w] = IF w = "preferences" /\ held THEN 0 ELSE told.changes + 1]
          /\ UNCHANGED <<profile, backups, held, playing, job>>
      BY <2>3 DEF Migrate!Change, Migrate!Submit
    <3>2. told'.changes = told.changes + 1 /\ told'.last = told.last
          /\ told' \in [changes : Nat, imports : Nat, last : Nat]
      BY <1>1, <3>1
    <3> QED
      BY <1>1, <3>1, <3>2 DEF ProfileInv, ProfileTypeOK, Migrate!Writers
  <2>4. ASSUME NEW w \in Migrate!Writers, Migrate!Write(w) PROVE ProfileInv'
    <3>1. /\ unwritten' = [unwritten EXCEPT ![w] = 0] /\ UNCHANGED <<profile, backups, held, playing, job, told>>
      BY <1>2, <2>4 DEF Migrate!Write
    <3> QED
      BY <1>1, <3>1 DEF ProfileInv, ProfileTypeOK, LastBackup, Migrate!Writers
  <2>5. CASE Migrate!PlayOrPause
    BY <1>2, <2>5 DEF Migrate!PlayOrPause, ProfileInv, ProfileTypeOK, LastBackup
  <2>6. CASE Migrate!Prepare
    <3>1. \/ unwritten' = [w \in Migrate!Writers |-> 0] /\ job' = [job EXCEPT !.phase = "prepared"]
          \/ UNCHANGED <<unwritten, job>>
      BY <2>6 DEF Migrate!Prepare
    <3>2. UNCHANGED <<backups, held, told>>
      BY <2>6 DEF Migrate!Prepare
    <3>3. CASE unwritten' = [w \in Migrate!Writers |-> 0] /\ job' = [job EXCEPT !.phase = "prepared"]
      BY <1>1, <1>2, <3>2, <3>3 DEF ProfileInv, ProfileTypeOK, Phases, Migrate!Writers
    <3> QED
      BY <1>2, <3>1, <3>2, <3>3 DEF ProfileInv, ProfileTypeOK, LastBackup
  <2>7. CASE Migrate!BackUp
    <3>1. /\ job.phase = "prepared" /\ UNCHANGED <<unwritten, held, told>>
          /\ \/ backups' = Append(backups, profile) /\ job' = [job EXCEPT !.phase = "backed"]
             \/ job' = Migrate!Idle /\ UNCHANGED backups
      BY <2>7 DEF Migrate!BackUp
    <3>2. CASE backups' = Append(backups, profile) /\ job' = [job EXCEPT !.phase = "backed"]
      <4>1. backups' \in Seq(Contents) /\ backups' # <<>> /\ LastBackup' = profile
        BY <1>1, <3>2 DEF LastBackup
      <4>2. job' \in [phase : Phases, left : SUBSET Files, failed : BOOLEAN] /\ job'.phase = "backed"
        BY <1>1, <3>2 DEF Phases
      <4> QED
        BY <1>2, <3>1, <4>1, <4>2 DEF ProfileInv, ProfileTypeOK
    <3>3. CASE job' = Migrate!Idle /\ UNCHANGED backups
      BY <1>1, <1>2, <3>1, <3>3 DEF ProfileInv, ProfileTypeOK, Migrate!Idle, Phases
    <3> QED
      BY <3>1, <3>2, <3>3
  <2>8. CASE Migrate!importing
    <3>1. /\ job.phase = "backed" /\ held' = TRUE
          /\ unwritten' = [unwritten EXCEPT !["preferences"] = 0]
          /\ job' = [phase |-> "writing", left |-> Files, failed |-> FALSE]
          /\ told' = [told EXCEPT !.changes = @ + 1, !.imports = @ + 1, !.last = told.changes + 1]
          /\ UNCHANGED backups
      BY <2>8 DEF Migrate!importing, Migrate!Hold
    <3>2. told'.changes = told.changes + 1 /\ told'.last = told.changes + 1
          /\ told' \in [changes : Nat, imports : Nat, last : Nat]
      <4>1. told' = [changes |-> told.changes + 1, imports |-> told.imports + 1, last |-> told.changes + 1]
        BY <1>1, <3>1
      <4> QED
        BY <1>1, <4>1
    <3>3. unwritten' \in [Migrate!Writers -> Nat] /\ \A w \in Migrate!Writers : unwritten'[w] = 0
      BY <1>1, <3>1 DEF ProfileInv, Migrate!Writers
    <3>4. job' \in [phase : Phases, left : SUBSET Files, failed : BOOLEAN]
          /\ job'.phase = "writing" /\ LastBackup' = profile /\ backups # <<>>
      BY <3>1 DEF Phases, ProfileInv, LastBackup
    <3> QED
      BY <1>1, <1>2, <3>1, <3>2, <3>3, <3>4 DEF ProfileInv, ProfileTypeOK, Migrate!Writers
  <2>9. CASE Migrate!Imported \/ Migrate!Restart
    <3>1. /\ job' = Migrate!Idle /\ UNCHANGED <<backups, told>>
          /\ unwritten' = [w \in Migrate!Writers |-> 0] \/ UNCHANGED <<unwritten, held>>
      BY <2>9 DEF Migrate!Imported, Migrate!Restart
    <3> QED
      BY <1>1, <1>2, <3>1 DEF ProfileInv, ProfileTypeOK, Migrate!Idle, Phases, Migrate!Writers
  <2>10. ASSUME NEW f \in Files, Migrate!Sync(f) PROVE ProfileInv'
    <3>1. PICK bad \in BOOLEAN : job' = [job EXCEPT !.left = @ \ {f}, !.failed = bad]
      BY <1>1, <2>10 DEF Migrate!Sync
    <3>2. UNCHANGED <<backups, unwritten, held, told>>
      BY <2>10 DEF Migrate!Sync
    <3>3. job' \in [phase : Phases, left : SUBSET Files, failed : BOOLEAN]
          /\ job'.phase = job.phase /\ job'.left \subseteq job.left
      BY <1>1, <3>1
    <3> QED
      BY <1>2, <3>2, <3>3, <2>10 DEF ProfileInv, ProfileTypeOK, LastBackup, Migrate!Sync
  <2> QED
    BY <2>1, <2>2, <2>3, <2>4, <2>5, <2>6, <2>7, <2>8, <2>9, <2>10 DEF Migrate!DataMigrationNext
<1>3. CASE profile' # profile
  <2>1. ASSUME NEW w \in Migrate!Writers, Migrate!Write(w)
        PROVE  ProfileInv' /\ Migrate!Recoverable /\ Migrate!Stays
    <3>1. /\ unwritten[w] # 0 /\ profile' = Migrate!Written(w) /\ unwritten' = [unwritten EXCEPT ![w] = 0]
          /\ UNCHANGED <<backups, held, playing, job, told>>
      BY <2>1 DEF Migrate!Write
    <3>2. profile' \in Contents /\ \A f \in Files : profile'[f] # profile[f] => profile'[f] = unwritten[w]
      BY <3>1, WrittenOver
    <3>3. job.phase = "idle" /\ unwritten[w] >= told.last
      BY <3>1 DEF ProfileInv
    <3>4. Migrate!Recoverable /\ Migrate!Stays
      BY <3>2, <3>3 DEF Migrate!Recoverable, Migrate!Stays
    <3> QED
      BY <1>1, <3>1, <3>2, <3>3, <3>4 DEF ProfileInv, ProfileTypeOK, Migrate!Writers
  <2>2. CASE Migrate!Prepare
    <3>1. /\ job.phase = "idle"
          /\ profile' = [f \in Files |-> IF f \in Migrate!Writers THEN Migrate!Written(f)[f] ELSE profile[f]]
          /\ unwritten' = [w \in Migrate!Writers |-> 0] /\ job' = [job EXCEPT !.phase = "prepared"]
          /\ UNCHANGED <<backups, held, told>>
      BY <1>3, <2>2 DEF Migrate!Prepare
    <3>2. ASSUME NEW f \in Files
          PROVE  /\ profile'[f] \in Nat
                 /\ profile'[f] # profile[f] => profile'[f] >= told.last
      <4>1. profile'[f] = IF f \in Migrate!Writers THEN Migrate!Written(f)[f] ELSE profile[f]
        BY <3>1
      <4>2. CASE f \in Migrate!Writers
        <5>1. Migrate!Written(f)[f] = IF unwritten[f] # 0 THEN unwritten[f] ELSE profile[f]
          BY <4>2, WrittenOver
        <5> QED
          BY <1>1, <4>1, <4>2, <5>1 DEF ProfileInv, Contents
      <4> QED
        BY <1>1, <4>1, <4>2 DEF Contents
    <3>3. profile' \in Contents
      BY <3>1, <3>2 DEF Contents
    <3>4. Migrate!Recoverable /\ Migrate!Stays
      BY <3>1, <3>2 DEF Migrate!Recoverable, Migrate!Stays
    <3> QED
      BY <1>1, <3>1, <3>3, <3>4 DEF ProfileInv, ProfileTypeOK, Phases, Migrate!Writers
  <2>3. ~Migrate!importing
    <3> SUFFICES ASSUME Migrate!importing PROVE FALSE
      OBVIOUS
    <3>1. unwritten["preferences"] = 0 /\ "preferences" \in Migrate!Writers /\ profile' = Migrate!Written("preferences")
      BY DEF ProfileInv, Migrate!importing, Migrate!Hold, Migrate!Writers
    <3>2. profile' \in Contents /\ \A f \in Files : profile'[f] = profile[f]
      BY <3>1, WrittenOver
    <3> QED
      BY <1>1, <1>3, <3>2 DEF Contents
  <2>4. ASSUME NEW f \in Files, Migrate!Sync(f) PROVE ProfileInv' /\ Migrate!Recoverable /\ Migrate!Stays
    <3>1. PICK bad \in BOOLEAN : job' = [job EXCEPT !.left = @ \ {f}, !.failed = bad]
      BY <1>1, <2>4 DEF Migrate!Sync
    <3>2. /\ job.phase = "writing" /\ f \in job.left /\ profile' = [profile EXCEPT ![f] = told.last]
          /\ UNCHANGED <<backups, unwritten, held, told>>
      BY <1>3, <2>4 DEF Migrate!Sync
    <3>3. /\ job' \in [phase : Phases, left : SUBSET Files, failed : BOOLEAN]
          /\ job'.phase = job.phase /\ job'.left = job.left \ {f}
      BY <1>1, <3>1
    <3>4. profile' \in Contents /\ \A g \in Files : profile'[g] = IF g = f THEN told.last ELSE profile[g]
      BY <1>1, <3>2 DEF Contents
    <3>5. Migrate!Recoverable /\ Migrate!Stays
      BY <1>1, <3>2, <3>4 DEF ProfileInv, LastBackup, Migrate!Recoverable, Migrate!Stays
    <3>6. \A g \in job'.left : LastBackup'[g] = profile'[g]
      BY <1>1, <3>2, <3>3, <3>4 DEF ProfileInv, LastBackup
    <3> QED
      BY <3>2, <3>3, <3>4, <3>5, <3>6 DEF ProfileInv, ProfileTypeOK
  <2>5. ~(\E w \in Migrate!Writers : Migrate!Change(w)) /\ ~Migrate!PlayOrPause /\ ~Migrate!BackUp
        /\ ~Migrate!Imported /\ ~Migrate!Restart /\ ~(UNCHANGED profileVars)
    BY <1>3 DEF Migrate!Change, Migrate!PlayOrPause, Migrate!BackUp, Migrate!Imported, Migrate!Restart, profileVars
  <2> QED
    BY <2>1, <2>2, <2>3, <2>4, <2>5 DEF Migrate!DataMigrationNext
<1> QED
  BY <1>2, <1>3

(* Whatever an import replaced is in its backup, also when it failed half-way, and no
   writer puts an older change over what was imported (DataMigration). *)
THEOREM ImportIsSafeCorrect == StoresSpec => ImportIsSafe
<1>1. StoresInit => ProfileInv
  BY ProfileBegins DEF StoresInit
<1>2. [StoresNext]_storesVars => [Migrate!DataMigrationNext]_profileVars
  BY DEF StoresNext, storesVars, profileVars
<1>3. ProfileInv /\ [Migrate!DataMigrationNext]_profileVars => ProfileInv'
  BY ProfileStep
<1>4. ProfileInv /\ [Migrate!DataMigrationNext]_profileVars => [Migrate!Recoverable /\ Migrate!Stays]_profileVars
  BY ProfileStep
<1> QED
  BY <1>1, <1>2, <1>3, <1>4, PTL DEF StoresSpec, ImportIsSafe

-----------------------------------------------------------------------------
(* A damaged database is kept whole.  The quarantined databases have the names below
   free, so a new one takes that name; a sidecar under it, which a rollback could not
   move back, is of the damaged database that is still live, and has no live twin. *)

Broken  == {"foreign", "corrupt"}
Kinds   == {"none", "good"} \cup Broken
Moves   == {m \in Seq(Data!Piece) : Len(m) <= 3 /\ \A i \in 1..Len(m) : m[i] = Data!Pieces[i]}
Backups == Nat \X Data!Piece \X Nat
FilesTypeOK ==
  /\ live \in [Data!Piece -> Nat] /\ content \in Kinds
  /\ quarantined \subseteq Backups /\ damaged \subseteq Data!Piece \X Nat
  /\ opening \in [at : {"closed", "open", "ready", "quarantine", "undo"}, name : Nat, moved : Moves,
                  was : Kinds]
  /\ tally \in [made : Nat, trouble : Nat]

(* A number belongs to one database, and what was damaged is not good again. *)
NumbersOK ==
  /\ \A p \in Data!Piece : live[p] <= tally.made
  /\ \A b \in quarantined : b[3] # 0 /\ b[3] <= tally.made
  /\ \A d \in damaged : d[2] # 0 /\ d[2] <= tally.made /\ (content = "good" => d[2] # live["db"])
  /\ tally.made <= MaxDatabases
  /\ content = "none" <=> live["db"] = 0
  /\ live["db"] # 0 => \A s \in Data!Sidecars : live[s] \in {0, live["db"]}

NamesOK(free) ==
  /\ \A n \in Nat : Data!Taken(n) <=> n < free
  /\ free + (IF live["db"] = 0 THEN 0 ELSE 1) <= tally.made
  /\ \A b \in quarantined :
       /\ b[1] <= free
       /\ b[1] = free => /\ live["db"] # 0 /\ content \in Broken
                         /\ b[3] = live["db"] /\ live[b[2]] = 0
  /\ \A b, c \in quarantined : b[1] = c[1] => b[3] = c[3]

MovingOK(free) ==
  opening.at \in {"quarantine", "undo"} =>
    /\ opening.was \in Broken
    /\ opening.moved = <<>> =>
         opening.at = "quarantine" /\ live["db"] # 0 /\ content = opening.was /\ opening.name = free
    /\ opening.moved # <<>> =>
         /\ live["db"] = 0 /\ opening.name + 1 = free
         /\ \A b \in quarantined : b[1] = opening.name => \A s \in Data!Sidecars :
              live[s] \in {0, b[3]} /\ (b[2] = s => live[s] = 0)
         /\ opening.at = "quarantine" =>
              \A i \in DOMAIN opening.moved : live[opening.moved[i]] = 0

OpenedOK ==
  /\ opening.at = "open" => /\ content # "foreign"
                            /\ live["db"] = 0 => \A p \in Data!Piece : live[p] = 0
  /\ opening.at = "ready" => /\ content = "good"
                             /\ \A p \in Data!Piece : live[p] = live["db"]

FilesAt(free) ==
  /\ FilesTypeOK /\ NumbersOK /\ OpenedOK /\ NamesOK(free) /\ MovingOK(free)
  /\ Data!QuarantineLosesNothing
FilesInv == \E free \in 0..MaxDatabases : FilesAt(free)

LEMMA MovesAre ==
  ASSUME NEW m, m \in Moves
  PROVE  m \in Seq(Data!Piece) /\ Len(m) \in 0..3 /\ \A i \in 1..Len(m) : m[i] = Data!Pieces[i]
<1>1. /\ m \in Seq(Data!Piece)
      /\ Len(m) <= 3 /\ \A i \in 1..Len(m) : m[i] = Data!Pieces[i]
  BY Zenon DEF Moves
<1>2. PICK k \in Nat : k = Len(m)
  BY <1>1
<1>3. k \in 0..3
  BY ONLY <1>1, <1>2
<1> QED
  BY Zenon, <1>1, <1>2, <1>3

LEMMA NextMoved ==
  ASSUME NEW m, m \in Moves, Len(m) < 3, NEW p, p = Data!Pieces[Len(m) + 1]
  PROVE  /\ p \in Data!Piece /\ Append(m, p) \in Moves /\ Append(m, p) # <<>>
         /\ p = "db" <=> m = <<>>
         /\ \A i \in DOMAIN Append(m, p) :
              Append(m, p)[i] = p \/ (i \in DOMAIN m /\ Append(m, p)[i] = m[i])
<1>1. m \in Seq(Data!Piece) /\ Len(m) \in 0..2 /\ \A i \in 1..Len(m) : m[i] = Data!Pieces[i]
  BY MovesAre
<1>2. /\ Data!Pieces[1] = "db" /\ Data!Pieces[2] = "wal" /\ Data!Pieces[3] = "shm"
  BY DEF Data!Pieces
<1>3. p \in Data!Piece /\ (p = "db" <=> Len(m) = 0)
  BY <1>1, <1>2 DEF Data!Piece
<1>4. PICK n : n = Append(m, p)
  OBVIOUS
<1>5. /\ n \in Seq(Data!Piece) /\ Len(n) = Len(m) + 1 /\ n[Len(m) + 1] = p
      /\ \A i \in 1..Len(m) : n[i] = m[i]
  BY <1>1, <1>3, <1>4
<1>6. n # <<>> /\ (m = <<>> <=> Len(m) = 0) /\ DOMAIN n = 1..Len(n) /\ DOMAIN m = 1..Len(m)
  BY <1>1, <1>5
<1>7. n \in Moves
  BY <1>1, <1>5 DEF Moves
<1> QED
  BY <1>1, <1>3, <1>4, <1>5, <1>6, <1>7

LEMMA LastMoved ==
  ASSUME NEW m, m \in Moves, m # <<>>, NEW rest, rest = SubSeq(m, 1, Len(m) - 1)
  PROVE  /\ m[Len(m)] \in Data!Piece /\ rest \in Moves
         /\ m[Len(m)] = "db" <=> rest = <<>>
<1>1. m \in Seq(Data!Piece) /\ Len(m) \in 0..3 /\ \A i \in 1..Len(m) : m[i] = Data!Pieces[i]
  BY MovesAre
<1>0. Len(m) # 0
  BY ONLY <1>1, m # <<>>
<1>2. /\ Data!Pieces[1] = "db" /\ Data!Pieces[2] = "wal" /\ Data!Pieces[3] = "shm"
  BY DEF Data!Pieces
<1>6. PICK k \in 1..3 : k = Len(m)
  BY <1>0, <1>1
<1>3. m[k] = Data!Pieces[k]
  BY <1>1, <1>6
<1>7. m[k] \in Data!Piece /\ (m[k] = "db" <=> k = 1)
  BY <1>2, <1>3 DEF Data!Piece
<1>4. rest \in Seq(Data!Piece) /\ Len(rest) = k - 1 /\ \A i \in 1..Len(rest) : rest[i] = m[i]
  BY ONLY <1>1, <1>6, rest = SubSeq(m, 1, Len(m) - 1)
<1>5. \A i \in 1..Len(rest) : rest[i] = Data!Pieces[i]
  BY <1>1, <1>4, <1>6
<1>8. Len(rest) <= 3 /\ (rest = <<>> <=> k = 1)
  BY ONLY <1>4, <1>6
<1>9. rest \in Moves
  BY Zenon, <1>4, <1>5, <1>8 DEF Moves
<1> QED
  BY <1>6, <1>7, <1>8, <1>9

LEMMA FreeNameIs ==
  ASSUME NEW free \in 0..MaxDatabases, NamesOK(free)
  PROVE  Data!FreeName = free
<1>1. free \in 0..(MaxDatabases + MaxRenames) /\ free \in Nat
  BY FilesAssumption
<1>2. ~Data!Taken(free) /\ \A i \in 0..(free - 1) : Data!Taken(i)
  BY <1>1 DEF NamesOK
<1>3. ASSUME NEW n \in 0..(MaxDatabases + MaxRenames), ~Data!Taken(n),
             \A i \in 0..(n - 1) : Data!Taken(i)
      PROVE  n = free
  <2>1. n \in Nat
    BY FilesAssumption
  <2>2. ~(n < free)
    BY <1>3, <2>1 DEF NamesOK
  <2>3. ~(free < n)
    BY <1>1, <1>2, <1>3, <2>1
  <2> QED
    BY <1>1, <2>1, <2>2, <2>3
<1> QED
  BY <1>1, <1>2, <1>3 DEF Data!FreeName

Openings == [at : {"closed", "open", "ready", "quarantine", "undo"}, name : Nat, moved : Moves,
             was : Kinds]

LEMMA OpeningMoves ==
  ASSUME NEW free \in 0..MaxDatabases, FilesAt(free),
         UNCHANGED <<live, content, quarantined, damaged>>,
         tally' \in [made : Nat, trouble : Nat], tally'.made = tally.made,
         opening' \in Openings, OpenedOK', MovingOK(free)'
  PROVE  FilesInv'
<1>1. Data!QuarantineLosesNothing'
  BY DEF FilesAt, Data!QuarantineLosesNothing, OpenedOK, Data!OpeningIs, Data!Piece, Data!Sidecars
<1>2. FilesTypeOK' /\ NumbersOK'
  BY DEF FilesAt, FilesTypeOK, NumbersOK, Openings
<1>3. NamesOK(free)'
  BY DEF FilesAt, NamesOK, Data!Taken
<1> QED
  BY <1>1, <1>2, <1>3 DEF FilesAt, FilesInv

LEMMA Troubles ==
  ASSUME FilesTypeOK
  PROVE  /\ tally.made \in Nat /\ tally \in [made : Nat, trouble : Nat]
         /\ Data!Trouble => tally' \in [made : Nat, trouble : Nat] /\ tally'.made = tally.made
         /\ Data!Throw => opening' \in Openings /\ opening'.at = "closed"
         /\ \A where \in {"closed", "open", "ready", "quarantine", "undo"} :
              Data!Step(where) => /\ opening' \in Openings /\ opening'.at = where
                                  /\ opening'.name = opening.name /\ opening'.moved = opening.moved
                                  /\ opening'.was = opening.was
<1>1. opening \in Openings /\ tally \in [made : Nat, trouble : Nat]
  BY DEF FilesTypeOK, Openings
<1>2. Data!Trouble => tally' \in [made : Nat, trouble : Nat] /\ tally'.made = tally.made
  BY <1>1 DEF Data!Trouble
<1>3. Data!Throw => opening' \in Openings /\ opening'.at = "closed"
  BY DEF Data!Throw, Data!Closed, Openings, Moves, Kinds
<1>4. ASSUME NEW where \in {"closed", "open", "ready", "quarantine", "undo"}, Data!Step(where)
      PROVE  /\ opening' \in Openings /\ opening'.at = where
             /\ opening'.name = opening.name /\ opening'.moved = opening.moved
             /\ opening'.was = opening.was
  BY <1>1, <1>4 DEF Data!Step, Openings
<1> QED
  BY <1>1, <1>2, <1>3, <1>4

LEMMA QuarantineBegins ==
  ASSUME NEW free \in 0..MaxDatabases, FilesAt(free), content \in Broken, Data!Quarantine,
         UNCHANGED <<live, content, quarantined, damaged, tally>>
  PROVE  FilesInv'
<1>1. opening' = [at |-> "quarantine", name |-> free, moved |-> <<>>, was |-> content]
  BY FreeNameIs DEF FilesAt, Data!Quarantine
<1>2. opening' \in Openings /\ tally' \in [made : Nat, trouble : Nat]
  BY <1>1 DEF Openings, Moves, Kinds, FilesAt, FilesTypeOK
<1>3. live["db"] # 0
  BY DEF FilesAt, NumbersOK, Broken
<1>4. OpenedOK' /\ MovingOK(free)'
  BY <1>1, <1>3 DEF OpenedOK, MovingOK
<1> QED
  BY <1>2, <1>4, OpeningMoves

LEMMA OpenKeeps ==
  ASSUME NEW free \in 0..MaxDatabases, FilesAt(free), Data!OpenLocked
  PROVE  FilesInv'
<1>1. UNCHANGED <<live, content, quarantined, damaged>> /\ opening.at = "closed" /\ ~Data!Orphaned
  BY DEF Data!OpenLocked, Data!OpeningIs
<1>2. FilesTypeOK
  BY DEF FilesAt
<1>3. CASE content # "foreign" /\ Data!Step("open") /\ UNCHANGED tally
  <2>1. opening' \in Openings /\ opening'.at = "open"
    BY <1>2, <1>3, Troubles
  <2>2. live["db"] = 0 => \A p \in Data!Piece : live[p] = 0
    BY <1>1 DEF Data!Orphaned, Data!Sidecars, Data!Piece
  <2>3. OpenedOK' /\ MovingOK(free)'
    BY <1>1, <1>3, <2>1, <2>2 DEF OpenedOK, MovingOK
  <2> QED
    BY <1>1, <1>2, <1>3, <2>1, <2>3, OpeningMoves, Troubles
<1>4. CASE content = "foreign" /\ Data!Quarantine /\ UNCHANGED tally
  BY <1>1, <1>4, QuarantineBegins DEF Broken
<1>5. CASE Data!Trouble /\ Data!Throw
  <2>1. /\ opening' \in Openings /\ opening'.at = "closed"
        /\ tally' \in [made : Nat, trouble : Nat] /\ tally'.made = tally.made
    BY <1>2, <1>5, Troubles
  <2>2. OpenedOK' /\ MovingOK(free)'
    BY <2>1 DEF OpenedOK, MovingOK
  <2> QED
    BY <1>1, <2>1, <2>2, OpeningMoves
<1> QED
  BY <1>3, <1>4, <1>5 DEF Data!OpenLocked

LEMMA QuietKeeps ==
  ASSUME NEW free \in 0..MaxDatabases, FilesAt(free), Data!Die \/ Data!Quarantined
  PROVE  FilesInv'
<1>1. FilesTypeOK /\ UNCHANGED <<live, content, quarantined, damaged>>
  BY DEF FilesAt, Data!Die, Data!Quarantined
<1>2. CASE Data!Die
  <2>1. /\ opening' \in Openings /\ opening'.at = "closed"
        /\ tally' \in [made : Nat, trouble : Nat] /\ tally'.made = tally.made
    BY <1>1, <1>2, Troubles DEF Data!Die
  <2>2. OpenedOK' /\ MovingOK(free)'
    BY <2>1 DEF OpenedOK, MovingOK
  <2> QED
    BY <1>1, <2>1, <2>2, OpeningMoves
<1>3. CASE Data!Quarantined
  <2>1. opening.at = "quarantine" /\ Len(opening.moved) = 3 /\ tally' = tally /\ Data!Step("open")
    BY <1>3 DEF Data!Quarantined, Data!OpeningIs
  <2>2. opening' \in Openings /\ opening'.at = "open"
    BY <1>1, <2>1, Troubles
  <2>3. /\ opening.moved[1] = "db" /\ opening.moved[2] = "wal" /\ opening.moved[3] = "shm"
        /\ DOMAIN opening.moved = 1..3
    <3>1. opening.moved \in Moves
      BY <1>1 DEF FilesTypeOK
    <3>2. PICK m : m = opening.moved
      OBVIOUS
    <3>3. m \in Seq(Data!Piece) /\ Len(m) = 3 /\ \A i \in 1..Len(m) : m[i] = Data!Pieces[i]
      BY <2>1, <3>1, <3>2, MovesAre
    <3>4. m[1] = "db" /\ m[2] = "wal" /\ m[3] = "shm" /\ DOMAIN m = 1..3
      BY ONLY <3>3 DEF Data!Pieces
    <3> QED
      BY <3>2, <3>4
  <2>4. \A p \in Data!Piece : live[p] = 0
    <3>1. /\ 1 \in DOMAIN opening.moved /\ 2 \in DOMAIN opening.moved /\ 3 \in DOMAIN opening.moved
          /\ opening.moved # <<>>
      BY <2>3
    <3>2. \A i \in DOMAIN opening.moved : live[opening.moved[i]] = 0
      BY <2>1, <3>1 DEF FilesAt, MovingOK
    <3>3. live[opening.moved[1]] = 0 /\ live[opening.moved[2]] = 0 /\ live[opening.moved[3]] = 0
      BY <3>1, <3>2
    <3> QED
      BY <2>3, <3>3 DEF Data!Piece
  <2>5. content = "none"
    BY <2>4 DEF FilesAt, NumbersOK, Data!Piece
  <2>6. OpenedOK' /\ MovingOK(free)'
    BY <1>1, <2>2, <2>4, <2>5 DEF OpenedOK, MovingOK
  <2> QED
    BY <1>1, <2>1, <2>2, <2>6, OpeningMoves, Troubles
<1> QED
  BY <1>2, <1>3

LEMMA ThrowKeeps ==
  ASSUME NEW free \in 0..MaxDatabases, FilesAt(free), Data!Throw,
         UNCHANGED <<live, content, quarantined, damaged>>,
         tally' \in [made : Nat, trouble : Nat], tally'.made = tally.made
  PROVE  FilesInv'
<1>1. opening' \in Openings /\ opening'.at = "closed"
  BY Troubles DEF FilesAt
<1>2. OpenedOK' /\ MovingOK(free)'
  BY <1>1 DEF OpenedOK, MovingOK
<1> QED
  BY <1>1, <1>2, OpeningMoves

LEMMA InitializeKeeps ==
  ASSUME NEW free \in 0..MaxDatabases, FilesAt(free), Data!Initialize
  PROVE  FilesInv'
<1>1. /\ opening.at = "open" /\ UNCHANGED <<quarantined, damaged>>
      /\ FilesTypeOK /\ NumbersOK /\ NamesOK(free) /\ OpenedOK
      /\ damaged \subseteq {<<p, live[p]>> : p \in Data!Piece} \cup {<<b[2], b[3]>> : b \in quarantined}
  BY DEF Data!Initialize, Data!OpeningIs, FilesAt, Data!QuarantineLosesNothing
<1>2. tally.made \in Nat /\ live \in [Data!Piece -> Nat]
  BY <1>1 DEF FilesTypeOK
<1>3. CASE live["db"] = 0
  <2>1. /\ tally.made < MaxDatabases /\ tally' = [tally EXCEPT !.made = @ + 1]
        /\ live' = [p \in Data!Piece |-> IF live[p] = 0 THEN tally.made + 1 ELSE live[p]]
        /\ content' = "good" /\ Data!Step("ready")
    BY <1>3 DEF Data!Initialize
  <2>2. /\ tally' \in [made : Nat, trouble : Nat] /\ tally'.made = tally.made + 1
        /\ opening' \in Openings /\ opening'.at = "ready"
    BY <1>1, <2>1, Troubles DEF FilesTypeOK
  <2>3. \A p \in Data!Piece : live[p] = 0
    BY <1>1, <1>3 DEF OpenedOK
  <2>4. /\ live' \in [Data!Piece -> Nat]
        /\ \A p \in Data!Piece : live'[p] = tally.made + 1 /\ live[p] = 0
    BY <1>2, <2>1, <2>3
  <2>5. FilesTypeOK'
    BY <1>1, <2>1, <2>2, <2>4 DEF FilesTypeOK, Openings, Kinds
  <2>6. \A d \in damaged : d[2] # 0 /\ d[2] <= tally.made /\ d[2] \in Nat
    BY <1>1 DEF NumbersOK, FilesTypeOK
  <2>7. \A b \in quarantined : b[3] # 0 /\ b[3] <= tally.made /\ b[3] \in Nat /\ b[1] \in Nat
    BY <1>1 DEF NumbersOK, FilesTypeOK, Backups
  <2>8. NumbersOK'
    BY <1>1, <1>2, <2>1, <2>2, <2>4, <2>6, <2>7, FilesAssumption
      DEF NumbersOK, Data!Piece, Data!Sidecars
  <2>9. NamesOK(free)'
    <3>1. free \in Nat /\ free <= tally.made
      BY <1>1, <1>3, FilesAssumption DEF NamesOK
    <3>2. live'["db"] # 0
      BY <1>2, <2>4 DEF Data!Piece
    <3>3. \A b \in quarantined : b[1] <= free /\ b[1] # free
      BY <1>1, <1>3 DEF NamesOK
    <3> QED
      BY <1>1, <1>2, <2>2, <3>1, <3>2, <3>3 DEF NamesOK, Data!Taken
  <2>10. OpenedOK' /\ MovingOK(free)'
    BY <2>1, <2>2, <2>4 DEF OpenedOK, MovingOK, Data!Piece
  <2>11. damaged \subseteq {<<b[2], b[3]>> : b \in quarantined}
    <3>1. ASSUME NEW d, d \in damaged
          PROVE  d \notin {<<p, live[p]>> : p \in Data!Piece}
      BY <2>4, <2>6, <3>1
    <3> QED
      BY <1>1, <3>1
  <2>12. Data!QuarantineLosesNothing'
    BY <1>1, <2>4, <2>11 DEF Data!QuarantineLosesNothing, Data!Piece, Data!Sidecars
  <2> QED
    BY <2>5, <2>8, <2>9, <2>10, <2>12 DEF FilesAt, FilesInv
<1>4. CASE live["db"] # 0 /\ content = "corrupt"
  BY <1>1, <1>4, QuarantineBegins DEF Data!Initialize, Broken
<1>5. CASE live["db"] # 0 /\ content # "corrupt"
  <2>1. /\ live' = [p \in Data!Piece |-> IF live[p] = 0 THEN live["db"] ELSE live[p]]
        /\ Data!Step("ready") /\ UNCHANGED <<content, tally>>
    BY <1>5 DEF Data!Initialize
  <2>2. content = "good"
    BY <1>1, <1>5 DEF OpenedOK, NumbersOK, FilesTypeOK, Kinds, Broken
  <2>3. opening' \in Openings /\ opening'.at = "ready"
    BY <1>1, <2>1, Troubles
  <2>4. /\ live' \in [Data!Piece -> Nat]
        /\ \A p \in Data!Piece : live'[p] = live["db"] /\ live[p] \in {0, live["db"]}
    BY <1>1, <1>2, <1>5, <2>1 DEF NumbersOK, Data!Piece, Data!Sidecars
  <2>5. FilesTypeOK'
    BY <1>1, <2>1, <2>3, <2>4 DEF FilesTypeOK, Openings
  <2>6. live["db"] \in Nat /\ live["db"] <= tally.made /\ live'["db"] = live["db"]
    BY <1>1, <1>2, <2>4 DEF NumbersOK, Data!Piece
  <2>7. NumbersOK'
    BY <1>1, <2>1, <2>4, <2>6 DEF NumbersOK, Data!Piece, Data!Sidecars
  <2>8. \A b \in quarantined : b[1] <= free /\ b[1] # free
    BY <1>1, <2>2 DEF NamesOK, Broken
  <2>9. NamesOK(free)'
    BY <1>1, <2>1, <2>6, <2>8 DEF NamesOK, Data!Taken
  <2>10. OpenedOK' /\ MovingOK(free)'
    BY <2>1, <2>2, <2>3, <2>4, <2>6 DEF OpenedOK, MovingOK, Data!Piece
  <2>11. \A d \in damaged : d \notin {<<p, live[p]>> : p \in Data!Piece}
    BY <1>1, <2>2, <2>4 DEF NumbersOK
  <2>12. Data!QuarantineLosesNothing'
    BY <1>1, <2>4, <2>6, <2>11 DEF Data!QuarantineLosesNothing, Data!Piece, Data!Sidecars
  <2> QED
    BY <2>5, <2>7, <2>9, <2>10, <2>12 DEF FilesAt, FilesInv
<1> QED
  BY <1>3, <1>4, <1>5

LEMMA CloseKeeps ==
  ASSUME NEW free \in 0..MaxDatabases, FilesAt(free), Data!CloseLocked
  PROVE  FilesInv'
<1>1. /\ opening.at = "ready" /\ Data!Throw
      /\ live' = [live EXCEPT !["wal"] = 0, !["shm"] = 0]
      /\ UNCHANGED <<content, quarantined, damaged, tally>>
  BY DEF Data!CloseLocked, Data!OpeningIs
<1>2. /\ FilesTypeOK /\ NumbersOK /\ NamesOK(free) /\ OpenedOK
      /\ damaged \subseteq {<<p, live[p]>> : p \in Data!Piece} \cup {<<b[2], b[3]>> : b \in quarantined}
  BY DEF FilesAt, Data!QuarantineLosesNothing
<1>3. opening' \in Openings /\ opening'.at = "closed"
  BY <1>1, <1>2, Troubles
<1>4. content = "good" /\ live \in [Data!Piece -> Nat] /\ \A p \in Data!Piece : live[p] = live["db"]
  BY <1>1, <1>2 DEF OpenedOK, FilesTypeOK
<1>5. /\ live' \in [Data!Piece -> Nat] /\ live'["db"] = live["db"]
      /\ \A s \in Data!Sidecars : live'[s] = 0
  BY <1>1, <1>4 DEF Data!Piece, Data!Sidecars
<1>6. FilesTypeOK'
  BY <1>1, <1>2, <1>3, <1>5 DEF FilesTypeOK, Openings
<1>7. tally.made \in Nat /\ live["db"] # 0 /\ live["db"] <= tally.made
  BY <1>2, <1>4 DEF NumbersOK, FilesTypeOK, Data!Piece
<1>8. NumbersOK'
  BY <1>1, <1>2, <1>5, <1>7 DEF NumbersOK, Data!Piece, Data!Sidecars
<1>9. NamesOK(free)'
  BY <1>1, <1>2, <1>4, <1>5 DEF NamesOK, Broken, Data!Taken
<1>10. OpenedOK' /\ MovingOK(free)'
  BY <1>3 DEF OpenedOK, MovingOK
<1>11. \A d \in damaged : d \notin {<<p, live[p]>> : p \in Data!Piece}
  BY <1>2, <1>4 DEF NumbersOK
<1>12. Data!QuarantineLosesNothing'
  BY <1>1, <1>2, <1>3, <1>11 DEF Data!QuarantineLosesNothing, Data!OpeningIs
<1> QED
  BY <1>6, <1>8, <1>9, <1>10, <1>12 DEF FilesAt, FilesInv

LEMMA DamageKeeps ==
  ASSUME NEW free \in 0..MaxDatabases, FilesAt(free), Data!Damage
  PROVE  FilesInv'
<1>1. /\ opening.at = "closed" /\ content = "good" /\ content' \in Broken
      /\ damaged' = damaged \cup {<<p, live[p]>> : p \in {q \in Data!Piece : live[q] # 0}}
      /\ UNCHANGED <<live, quarantined, opening, tally>>
  BY DEF Data!Damage, Data!OpeningIs, Broken
<1>2. /\ FilesTypeOK /\ NumbersOK /\ NamesOK(free) /\ OpenedOK
      /\ damaged \subseteq {<<p, live[p]>> : p \in Data!Piece} \cup {<<b[2], b[3]>> : b \in quarantined}
  BY DEF FilesAt, Data!QuarantineLosesNothing
<1>3. live \in [Data!Piece -> Nat] /\ live["db"] # 0
  BY <1>1, <1>2 DEF FilesTypeOK, NumbersOK
<1>4. FilesTypeOK'
  BY <1>1, <1>2, <1>3 DEF FilesTypeOK, Kinds
<1>5. content' # "good" /\ content' # "none"
  BY <1>1 DEF Broken
<1>6. \A d \in damaged' : d[2] # 0 /\ d[2] <= tally.made
  BY <1>1, <1>2 DEF NumbersOK
<1>7. NumbersOK'
  BY <1>1, <1>2, <1>3, <1>5, <1>6 DEF NumbersOK
<1>8. NamesOK(free)'
  BY <1>1, <1>2 DEF NamesOK, Broken, Data!Taken
<1>9. OpenedOK' /\ MovingOK(free)'
  BY <1>1 DEF OpenedOK, MovingOK
<1>10. Data!QuarantineLosesNothing'
  BY <1>1, <1>2 DEF Data!QuarantineLosesNothing, Data!OpeningIs
<1> QED
  BY <1>4, <1>7, <1>8, <1>9, <1>10 DEF FilesAt, FilesInv

LEMMA MovesOn ==
  ASSUME FilesTypeOK, opening.at = "quarantine", Len(opening.moved) < 3,
         NEW p, p = Data!NextMove, opening' = Data!Moved(p)
  PROVE  /\ p \in Data!Piece /\ p = "db" <=> opening.moved = <<>>
         /\ opening' \in Openings /\ opening'.at = "quarantine" /\ opening'.moved # <<>>
         /\ opening'.name = opening.name /\ opening'.was = opening.was
         /\ \A i \in DOMAIN opening'.moved :
              \/ opening'.moved[i] = p
              \/ i \in DOMAIN opening.moved /\ opening'.moved[i] = opening.moved[i]
<1>1. opening \in Openings /\ opening.moved \in Moves
  BY DEF FilesTypeOK, Openings
<1>2. PICK m : m = opening.moved
  OBVIOUS
<1>3. p = Data!Pieces[Len(m) + 1] /\ Len(m) < 3 /\ m \in Moves
  BY <1>1, <1>2 DEF Data!NextMove
<1>4. /\ p \in Data!Piece /\ Append(m, p) \in Moves /\ Append(m, p) # <<>>
      /\ p = "db" <=> m = <<>>
      /\ \A i \in DOMAIN Append(m, p) :
           Append(m, p)[i] = p \/ (i \in DOMAIN m /\ Append(m, p)[i] = m[i])
  BY <1>3, NextMoved
<1>5. PICK n : n = Append(m, p)
  OBVIOUS
<1>6. opening' = [opening EXCEPT !.moved = n]
  BY <1>2, <1>5 DEF Data!Moved
<1>7. /\ opening' \in Openings /\ opening'.at = "quarantine" /\ opening'.moved = n
      /\ opening'.name = opening.name /\ opening'.was = opening.was
  BY <1>1, <1>4, <1>5, <1>6 DEF Openings
<1> QED
  BY <1>2, <1>4, <1>5, <1>7

LEMMA DatabaseMoves ==
  ASSUME NEW free \in 0..MaxDatabases, FilesAt(free), Data!MoveAside, opening.moved = <<>>,
         live["db"] # 0, opening' = Data!Moved("db"), Data!NextMove = "db",
         quarantined' = Data!MovedTo(opening.name, "db"), live' = [live EXCEPT !["db"] = 0],
         content' = "none", UNCHANGED <<damaged, tally>>
  PROVE  FilesInv'
<1>1. /\ FilesTypeOK /\ NumbersOK /\ NamesOK(free) /\ MovingOK(free)
      /\ damaged \subseteq {<<p, live[p]>> : p \in Data!Piece} \cup {<<b[2], b[3]>> : b \in quarantined}
  BY DEF FilesAt, Data!QuarantineLosesNothing
<1>2. opening.at = "quarantine" /\ Len(opening.moved) < 3
  BY DEF Data!MoveAside, Data!OpeningIs
<1>3. /\ opening.was \in Broken /\ content \in Broken /\ opening.name = free
  BY <1>1, <1>2 DEF MovingOK
<1>4. /\ opening' \in Openings /\ opening'.at = "quarantine" /\ opening'.moved # <<>>
      /\ opening'.name = free /\ opening'.was \in Broken
      /\ \A i \in DOMAIN opening'.moved : opening'.moved[i] = "db"
  <2>1. Len(opening.moved) < 3 /\ DOMAIN opening.moved = {}
    BY <1>2
  <2> QED
    BY <1>1, <1>2, <1>3, <2>1, MovesOn
<1>5. PICK number : number = live["db"]
  OBVIOUS
<1>6. /\ live \in [Data!Piece -> Nat] /\ number \in Nat /\ number # 0 /\ number <= tally.made
      /\ tally.made \in Nat /\ tally.made <= MaxDatabases
  BY <1>1, <1>5 DEF FilesTypeOK, NumbersOK, Data!Piece
<1>7. /\ live' \in [Data!Piece -> Nat] /\ live'["db"] = 0
      /\ \A s \in Data!Sidecars : live'[s] = live[s] /\ live[s] \in {0, number} /\ s # "db"
  BY <1>1, <1>5, <1>6 DEF Data!Piece, Data!Sidecars, NumbersOK
<1>8. quarantined' = quarantined \cup {<<free, "db", number>>}
  <2>1. \A b \in quarantined : <<b[1], b[2]>> # <<free, "db">>
    <3>1. ~Data!Taken(free)
      BY <1>1, FilesAssumption DEF NamesOK
    <3> QED
      BY <3>1 DEF Data!Taken
  <2> QED
    BY <1>3, <1>5, <2>1 DEF Data!MovedTo
<1>9. free \in Nat /\ free + 1 <= tally.made /\ free + 1 \in 0..MaxDatabases
  BY <1>1, <1>6, FilesAssumption DEF NamesOK
<1>10. quarantined \subseteq Backups /\ quarantined' \subseteq Backups
  BY <1>1, <1>6, <1>8, <1>9 DEF FilesTypeOK, Backups, Data!Piece
<1>11. FilesTypeOK'
  BY <1>1, <1>4, <1>7, <1>10 DEF FilesTypeOK, Openings, Kinds
<1>12. NumbersOK'
  <2>1. \A b \in quarantined' : b[3] # 0 /\ b[3] <= tally.made
    BY <1>1, <1>6, <1>8 DEF NumbersOK
  <2>2. \A p \in Data!Piece : live'[p] <= tally.made
    BY <1>1, <1>6, <1>7 DEF NumbersOK, Data!Piece, Data!Sidecars
  <2> QED
    BY <1>1, <1>7, <2>1, <2>2 DEF NumbersOK
<1>13. NamesOK(free + 1)'
  <2>1. \A n \in Nat : Data!Taken(n)' <=> n < free + 1
    <3>1. ASSUME NEW n \in Nat
          PROVE  Data!Taken(n)' <=> (Data!Taken(n) \/ n = free)
      <4>1. PICK new : new = <<free, "db", number>>
        OBVIOUS
      <4>2. new[1] = free /\ new[2] = "db" /\ quarantined' = quarantined \cup {new}
        BY <1>8, <4>1
      <4> QED
        BY ONLY <4>2 DEF Data!Taken
    <3> QED
      BY <1>1, <1>9, <3>1 DEF NamesOK
  <2>2. \A b \in quarantined : b[1] \in Nat /\ b[1] <= free /\ (b[1] = free => b[3] = number)
    BY <1>1, <1>5, <1>10 DEF NamesOK, Backups
  <2>3. \A b \in quarantined' : b[1] <= free + 1 /\ b[1] # free + 1
    BY <1>8, <1>9, <2>2
  <2>4. \A b, c \in quarantined' : b[1] = c[1] => b[3] = c[3]
    BY <1>1, <1>8, <2>2 DEF NamesOK
  <2> QED
    BY <1>7, <1>9, <2>1, <2>3, <2>4 DEF NamesOK
<1>14. MovingOK(free + 1)'
  <2>1. \A b \in quarantined' : b[1] = free => \A s \in Data!Sidecars :
          live'[s] \in {0, b[3]} /\ (b[2] = s => live'[s] = 0)
    BY <1>1, <1>5, <1>7, <1>8 DEF NamesOK
  <2> QED
    BY <1>4, <1>7, <2>1 DEF MovingOK
<1>15. OpenedOK'
  BY <1>4 DEF OpenedOK
<1>16. Data!QuarantineLosesNothing'
  <2>1. \A p \in Data!Piece : <<p, live[p]>> = <<"db", number>> \/ live'[p] = live[p]
    BY <1>5, <1>7 DEF Data!Piece, Data!Sidecars
  <2>2. <<"db", number>> \in {<<b[2], b[3]>> : b \in quarantined'}
    BY <1>8
  <2>3. damaged \subseteq {<<p, live'[p]>> : p \in Data!Piece} \cup {<<b[2], b[3]>> : b \in quarantined'}
    BY <1>1, <1>8, <2>1, <2>2
  <2> QED
    BY <1>4, <2>3 DEF Data!QuarantineLosesNothing, Data!OpeningIs
<1> QED
  BY <1>9, <1>11, <1>12, <1>13, <1>14, <1>15, <1>16 DEF FilesAt, FilesInv

LEMMA SidecarMoves ==
  ASSUME NEW free \in 0..MaxDatabases, FilesAt(free), Data!MoveAside, opening.moved # <<>>,
         NEW s \in Data!Sidecars, s = Data!NextMove, live[s] # 0, opening' = Data!Moved(s),
         quarantined' = Data!MovedTo(opening.name, s), live' = [live EXCEPT ![s] = 0],
         UNCHANGED <<content, damaged, tally>>
  PROVE  FilesInv'
<1>1. /\ FilesTypeOK /\ NumbersOK /\ NamesOK(free) /\ MovingOK(free)
      /\ damaged \subseteq {<<p, live[p]>> : p \in Data!Piece} \cup {<<b[2], b[3]>> : b \in quarantined}
  BY DEF FilesAt, Data!QuarantineLosesNothing
<1>2. opening.at = "quarantine" /\ Len(opening.moved) < 3 /\ s \in Data!Piece /\ s # "db"
  BY DEF Data!MoveAside, Data!OpeningIs, Data!Piece, Data!Sidecars
<1>3. /\ live["db"] = 0 /\ opening.name + 1 = free /\ opening.was \in Broken
      /\ \A b \in quarantined : b[1] = opening.name => \A t \in Data!Sidecars :
           live[t] \in {0, b[3]} /\ (b[2] = t => live[t] = 0)
      /\ \A i \in DOMAIN opening.moved : live[opening.moved[i]] = 0
  BY <1>1, <1>2 DEF MovingOK
<1>4. /\ opening' \in Openings /\ opening'.at = "quarantine" /\ opening'.moved # <<>>
      /\ opening'.name = opening.name /\ opening'.was = opening.was
      /\ \A i \in DOMAIN opening'.moved :
           \/ opening'.moved[i] = s
           \/ i \in DOMAIN opening.moved /\ opening'.moved[i] = opening.moved[i]
  BY <1>1, <1>2, MovesOn
<1>5. PICK number, name : number = live[s] /\ name = opening.name
  OBVIOUS
<1>6. /\ live \in [Data!Piece -> Nat] /\ number \in Nat /\ number # 0 /\ number <= tally.made
      /\ tally.made \in Nat /\ name \in Nat /\ name < free
  BY <1>1, <1>2, <1>3, <1>5, FilesAssumption DEF FilesTypeOK, NumbersOK
<1>7. /\ live' \in [Data!Piece -> Nat] /\ live'[s] = 0
      /\ \A p \in Data!Piece : p # s => live'[p] = live[p]
  BY <1>2, <1>6
<1>8. quarantined' = quarantined \cup {<<name, s, number>>}
  <2>1. \A b \in quarantined : <<b[1], b[2]>> # <<name, s>>
    BY <1>3, <1>5
  <2> QED
    BY <1>5, <2>1 DEF Data!MovedTo
<1>9. \A b \in quarantined : b[1] = name => b[3] = number
  BY <1>3, <1>5, <1>6
<1>10. quarantined \subseteq Backups /\ quarantined' \subseteq Backups
  BY <1>1, <1>2, <1>6, <1>8 DEF FilesTypeOK, Backups
<1>11. FilesTypeOK'
  BY <1>1, <1>4, <1>7, <1>10 DEF FilesTypeOK, Openings
<1>12. NumbersOK'
  <2>1. \A b \in quarantined' : b[3] # 0 /\ b[3] <= tally.made
    BY <1>1, <1>6, <1>8 DEF NumbersOK
  <2>2. /\ \A p \in Data!Piece : live'[p] <= tally.made
        /\ live'["db"] = 0
    BY <1>1, <1>2, <1>3, <1>6, <1>7 DEF NumbersOK, Data!Piece
  <2>3. \A d \in damaged : d[2] # 0 /\ d[2] <= tally.made /\ content # "good"
    BY <1>1, <1>3 DEF NumbersOK
  <2> QED
    BY <1>1, <1>3, <2>1, <2>2, <2>3 DEF NumbersOK
<1>13. live'["db"] = 0
  BY <1>2, <1>3, <1>7 DEF Data!Piece
<1>14. NamesOK(free)'
  <2>1. \A n \in Nat : Data!Taken(n)' <=> n < free
    <3>1. ASSUME NEW n \in Nat
          PROVE  Data!Taken(n)' <=> Data!Taken(n)
      BY <1>2, <1>8 DEF Data!Taken
    <3> QED
      BY <1>1, <3>1 DEF NamesOK
  <2>2. \A b \in quarantined' : b[1] <= free /\ b[1] # free
    BY <1>1, <1>3, <1>6, <1>8, FilesAssumption DEF NamesOK
  <2>3. \A b, c \in quarantined' : b[1] = c[1] => b[3] = c[3]
    BY <1>1, <1>8, <1>9 DEF NamesOK
  <2>4. free + (IF live'["db"] = 0 THEN 0 ELSE 1) <= tally'.made
    BY <1>1, <1>3, <1>13 DEF NamesOK
  <2> QED
    BY <2>1, <2>2, <2>3, <2>4 DEF NamesOK
<1>15. MovingOK(free)'
  <2>1. \A b \in quarantined' : b[1] = opening'.name => \A t \in Data!Sidecars :
          live'[t] \in {0, b[3]} /\ (b[2] = t => live'[t] = 0)
    <3>1. ASSUME NEW b, b \in quarantined', b[1] = name, NEW t \in Data!Sidecars
          PROVE  live'[t] \in {0, b[3]} /\ (b[2] = t => live'[t] = 0)
      <4>1. CASE t = s
        BY <1>7, <4>1
      <4>2. CASE t # s
        <5>1. live'[t] = live[t]
          BY <1>7, <4>2 DEF Data!Piece, Data!Sidecars
        <5>2. PICK c \in quarantined : c[1] = name /\ c[2] = "db"
          BY <1>1, <1>6 DEF NamesOK, Data!Taken
        <5>3. live[t] \in {0, number}
          BY <1>3, <1>5, <1>9, <5>2
        <5>4. b[3] = number
          BY <1>8, <1>9, <3>1
        <5>5. b[2] = t => live[t] = 0
          BY <1>3, <1>5, <1>8, <3>1, <4>2
        <5> QED
          BY <5>1, <5>3, <5>4, <5>5
      <4> QED
        BY <4>1, <4>2
    <3> QED
      BY <1>4, <1>5, <3>1
  <2>2. \A i \in DOMAIN opening'.moved : live'[opening'.moved[i]] = 0
    <3>1. ASSUME NEW p, p = s \/ live[p] = 0
          PROVE  live'[p] = 0
      BY <1>6, <1>7, <3>1
    <3> QED
      BY <1>3, <1>4, <3>1
  <2> QED
    BY <1>3, <1>4, <1>13, <2>1, <2>2 DEF MovingOK
<1>16. OpenedOK'
  BY <1>4 DEF OpenedOK
<1>17. Data!QuarantineLosesNothing'
  <2>1. \A p \in Data!Piece : <<p, live[p]>> = <<s, number>> \/ live'[p] = live[p]
    BY <1>5, <1>7
  <2>2. <<s, number>> \in {<<b[2], b[3]>> : b \in quarantined'}
    BY <1>8
  <2>3. damaged \subseteq {<<p, live'[p]>> : p \in Data!Piece} \cup {<<b[2], b[3]>> : b \in quarantined'}
    BY <1>1, <1>8, <2>1, <2>2
  <2> QED
    BY <1>4, <2>3 DEF Data!QuarantineLosesNothing, Data!OpeningIs
<1> QED
  BY <1>11, <1>12, <1>14, <1>15, <1>16, <1>17 DEF FilesAt, FilesInv

LEMMA MoveAsideKeeps ==
  ASSUME NEW free \in 0..MaxDatabases, FilesAt(free), Data!MoveAside
  PROVE  FilesInv'
<1>1. PICK p : p = Data!NextMove
  OBVIOUS
<1>2. FilesTypeOK /\ MovingOK(free) /\ opening.at = "quarantine" /\ Len(opening.moved) < 3
      /\ UNCHANGED damaged
  BY DEF FilesAt, Data!MoveAside, Data!OpeningIs
<1>3. p \in Data!Piece /\ (p = "db" <=> opening.moved = <<>>)
  <2>1. opening.moved \in Moves
    BY <1>2 DEF FilesTypeOK
  <2> QED
    BY <1>1, <1>2, <2>1, NextMoved DEF Data!NextMove
<1>4. CASE live[p] = 0 /\ opening' = Data!Moved(p) /\ UNCHANGED <<live, content, quarantined, tally>>
  <2>1. opening.moved # <<>>
    BY <1>2, <1>3, <1>4 DEF MovingOK
  <2>2. /\ opening' \in Openings /\ opening'.at = "quarantine" /\ opening'.moved # <<>>
        /\ opening'.name = opening.name /\ opening'.was = opening.was
        /\ \A i \in DOMAIN opening'.moved :
             \/ opening'.moved[i] = p
             \/ i \in DOMAIN opening.moved /\ opening'.moved[i] = opening.moved[i]
    BY <1>1, <1>2, <1>4, MovesOn
  <2>3. \A i \in DOMAIN opening'.moved : live[opening'.moved[i]] = 0
    BY <1>2, <1>4, <2>1, <2>2 DEF MovingOK
  <2>4. OpenedOK' /\ MovingOK(free)'
    BY <1>2, <1>4, <2>1, <2>2, <2>3 DEF OpenedOK, MovingOK
  <2>5. tally' \in [made : Nat, trouble : Nat] /\ tally'.made = tally.made
    BY <1>2, <1>4 DEF FilesTypeOK
  <2> QED
    BY <1>2, <1>4, <2>2, <2>4, <2>5, OpeningMoves
<1>5. CASE /\ live[p] # 0 /\ opening' = Data!Moved(p)
           /\ quarantined' = Data!MovedTo(opening.name, p) /\ live' = [live EXCEPT ![p] = 0]
           /\ content' = IF p = "db" THEN "none" ELSE content
           /\ UNCHANGED tally
  <2>1. CASE p = "db"
    <3>1. /\ live["db"] # 0 /\ opening' = Data!Moved("db") /\ Data!NextMove = "db"
          /\ quarantined' = Data!MovedTo(opening.name, "db") /\ live' = [live EXCEPT !["db"] = 0]
          /\ content' = "none" /\ UNCHANGED <<damaged, tally>> /\ opening.moved = <<>>
      BY <1>1, <1>2, <1>3, <1>5, <2>1
    <3> QED
      BY <3>1, DatabaseMoves
  <2>2. CASE p # "db"
    <3>1. p \in Data!Sidecars /\ content' = content /\ opening.moved # <<>>
      BY <1>3, <1>5, <2>2 DEF Data!Piece, Data!Sidecars
    <3> QED
      BY <1>1, <1>2, <1>5, <3>1, SidecarMoves
  <2> QED
    BY <2>1, <2>2
<1>6. CASE /\ live[p] # 0 /\ Data!Trouble
           /\ IF p = "db" THEN Data!Throw ELSE Data!Step("undo")
           /\ UNCHANGED <<live, content, quarantined>>
  <2>1. tally' \in [made : Nat, trouble : Nat] /\ tally'.made = tally.made
    BY <1>2, <1>6, Troubles
  <2>2. CASE p = "db"
    BY <1>2, <1>6, <2>1, <2>2, ThrowKeeps
  <2>3. CASE p # "db"
    <3>1. /\ opening' \in Openings /\ opening'.at = "undo"
          /\ opening'.name = opening.name /\ opening'.moved = opening.moved
          /\ opening'.was = opening.was /\ opening.moved # <<>>
      BY <1>2, <1>3, <1>6, <2>3, Troubles
    <3>2. OpenedOK' /\ MovingOK(free)'
      BY <1>2, <1>6, <3>1 DEF OpenedOK, MovingOK
    <3> QED
      BY <1>2, <1>6, <2>1, <3>1, <3>2, OpeningMoves
  <2> QED
    BY <2>2, <2>3
<1> QED
  BY <1>1, <1>4, <1>5, <1>6 DEF Data!MoveAside

LEMMA MoveBackKeeps ==
  ASSUME NEW free \in 0..MaxDatabases, FilesAt(free), Data!MoveBack
  PROVE  FilesInv'
<1>1. /\ FilesTypeOK /\ NumbersOK /\ NamesOK(free) /\ MovingOK(free)
      /\ damaged \subseteq {<<p, live[p]>> : p \in Data!Piece} \cup {<<b[2], b[3]>> : b \in quarantined}
  BY DEF FilesAt, Data!QuarantineLosesNothing
<1>2. opening.at = "undo" /\ opening.moved # <<>> /\ UNCHANGED damaged
  BY DEF Data!MoveBack, Data!OpeningIs
<1>30. PICK p : p = opening.moved[Len(opening.moved)]
  OBVIOUS
<1>31. PICK rest : rest = SubSeq(opening.moved, 1, Len(opening.moved) - 1)
  OBVIOUS
<1>32. PICK name : name = opening.name
  OBVIOUS
<1>33. PICK mine : mine = {b \in quarantined : b[1] = name /\ b[2] = p}
  OBVIOUS
<1>4. p \in Data!Piece /\ rest \in Moves /\ (p = "db" <=> rest = <<>>)
  BY <1>1, <1>2, <1>30, <1>31, <1>32, <1>33, LastMoved DEF FilesTypeOK
<1>5. /\ live["db"] = 0 /\ name + 1 = free /\ opening.was \in Broken
      /\ \A b \in quarantined : b[1] = name => \A t \in Data!Sidecars :
           live[t] \in {0, b[3]} /\ (b[2] = t => live[t] = 0)
  BY <1>1, <1>2, <1>30, <1>31, <1>32, <1>33 DEF MovingOK
<1>6. name \in Nat /\ free \in Nat /\ name \in 0..MaxDatabases /\ opening \in Openings
  BY <1>1, <1>30, <1>31, <1>32, <1>33, <1>5, FilesAssumption DEF FilesTypeOK, Openings
<1>7. PICK twin \in quarantined : twin[1] = name /\ twin[2] = "db"
  BY <1>1, <1>5, <1>6 DEF NamesOK, Data!Taken
<1>8. PICK number : number = twin[3]
  OBVIOUS
<1>9. /\ \A b \in quarantined : b[1] = name => b[3] = number
      /\ number \in Nat /\ number # 0 /\ number <= tally.made
  BY <1>1, <1>7, <1>8 DEF NamesOK, NumbersOK, FilesTypeOK, Backups
<1>10. opening' = IF rest = <<>> THEN Data!Closed ELSE [opening EXCEPT !.moved = rest]
  BY <1>30, <1>31, <1>32, <1>33 DEF Data!MoveBack
<1>11. /\ opening' \in Openings
       /\ p = "db" => opening'.at = "closed"
       /\ p # "db" => /\ opening'.at = "undo" /\ opening'.moved # <<>> /\ opening'.name = name
                      /\ opening'.was = opening.was
  <2>1. CASE rest = <<>>
    BY <1>4, <1>10, <2>1 DEF Data!Closed, Openings, Moves, Kinds
  <2>2. CASE rest # <<>>
    BY <1>2, <1>30, <1>31, <1>32, <1>33, <1>4, <1>6, <1>10, <2>2 DEF Openings
  <2> QED
    BY <2>1, <2>2
<1>12. OpenedOK'
  BY <1>11 DEF OpenedOK
<1>13. tally \in [made : Nat, trouble : Nat] /\ live \in [Data!Piece -> Nat]
  BY <1>1 DEF FilesTypeOK
<1>14. CASE UNCHANGED <<live, content, quarantined>> /\ (Data!Trouble \/ UNCHANGED tally)
  <2>1. tally' \in [made : Nat, trouble : Nat] /\ tally'.made = tally.made
    BY <1>1, <1>13, <1>14, Troubles
  <2>2. MovingOK(free)'
    BY <1>2, <1>30, <1>31, <1>32, <1>33, <1>5, <1>11, <1>14 DEF MovingOK
  <2> QED
    BY <1>2, <1>11, <1>12, <1>14, <2>1, <2>2, OpeningMoves
<1>15. CASE /\ mine # {} /\ quarantined' = quarantined \ mine
            /\ live' = [live EXCEPT ![p] = (CHOOSE b \in mine : TRUE)[3]]
            /\ content' = IF p = "db" THEN opening.was ELSE content
            /\ UNCHANGED tally
  <2>1. (CHOOSE b \in mine : TRUE) \in mine
    BY <1>15
  <2>2. (CHOOSE b \in mine : TRUE)[3] = number
    BY <1>30, <1>31, <1>32, <1>33, <1>9, <2>1
  <2>3. /\ live' \in [Data!Piece -> Nat] /\ live'[p] = number
        /\ \A q \in Data!Piece : q # p => live'[q] = live[q]
    BY <1>4, <1>9, <1>13, <1>15, <2>2
  <2>4. live[p] = 0
    <3>1. ASSUME p # "db"
          PROVE  live[p] = 0
      BY <1>30, <1>31, <1>32, <1>33, <1>4, <1>5, <2>1, <3>1 DEF Data!Piece, Data!Sidecars
    <3> QED
      BY <1>5, <3>1
  <2>5. FilesTypeOK'
    BY <1>1, <1>2, <1>5, <1>11, <1>15, <2>3 DEF FilesTypeOK, Openings, Kinds
  <2>6. Data!QuarantineLosesNothing'
    <3>1. ASSUME NEW d, d \in damaged
          PROVE  d \in {<<q, live'[q]>> : q \in Data!Piece} \cup {<<b[2], b[3]>> : b \in quarantined'}
      <4>1. CASE d \in {<<q, live[q]>> : q \in Data!Piece}
        <5>1. PICK q \in Data!Piece : d = <<q, live[q]>>
          BY <4>1
        <5>2. d[2] # 0
          BY <1>1, <3>1 DEF NumbersOK
        <5>3. live'[q] = live[q]
          BY <2>3, <2>4, <5>1, <5>2
        <5> QED
          BY <5>1, <5>3
      <4>2. CASE d \in {<<b[2], b[3]>> : b \in quarantined}
        <5>1. PICK b \in quarantined : d = <<b[2], b[3]>>
          BY <4>2
        <5>2. CASE b \in mine
          BY <1>30, <1>31, <1>32, <1>33, <1>4, <1>9, <2>3, <5>1, <5>2
        <5>3. CASE b \notin mine
          BY <1>15, <5>1, <5>3
        <5> QED
          BY <5>2, <5>3
      <4> QED
        BY <1>1, <3>1, <4>1, <4>2
    <3> QED
      BY <1>2, <1>11, <3>1 DEF Data!QuarantineLosesNothing, Data!OpeningIs
  <2>7. \A b \in quarantined' : b \in quarantined /\ (b[1] = name => b[2] # p /\ b[3] = number)
    BY <1>30, <1>31, <1>32, <1>33, <1>9, <1>15
  <2>8. CASE p = "db"
    <3>1. live'["db"] = number /\ content' \in Broken /\ content' # "good" /\ content' # "none"
      BY <1>5, <1>15, <2>3, <2>8 DEF Broken
    <3>2. \A s \in Data!Sidecars : live'[s] \in {0, number} /\ live'[s] = live[s]
      BY <1>5, <1>7, <1>8, <2>3, <2>8 DEF Data!Piece, Data!Sidecars
    <3>3. \A q \in Data!Piece : live'[q] <= tally'.made
      BY <1>1, <1>9, <1>15, <2>3 DEF NumbersOK
    <3>4. NumbersOK'
      BY <1>1, <1>2, <1>9, <1>15, <2>7, <3>1, <3>2, <3>3 DEF NumbersOK
    <3>5. \A n \in Nat : Data!Taken(n)' <=> n < name
      <4>1. ASSUME NEW n \in Nat
            PROVE  Data!Taken(n)' <=> Data!Taken(n) /\ n # name
        BY <1>30, <1>31, <1>32, <1>33, <1>15, <2>8 DEF Data!Taken
      <4> QED
        BY <1>1, <1>5, <1>6, <4>1 DEF NamesOK
    <3>6. ASSUME NEW b, b \in quarantined'
          PROVE  /\ b[1] <= name
                 /\ b[1] = name => b[3] = number /\ live'[b[2]] = 0
      <4>1. b \in quarantined /\ b \in Backups /\ b[1] \in Nat /\ b[2] \in Data!Piece
        BY <1>1, <2>7, <3>6 DEF FilesTypeOK, Backups
      <4>2. b[1] <= free /\ b[1] # free
        BY <1>1, <1>5, <4>1 DEF NamesOK
      <4>3. b[1] <= name
        BY <1>5, <1>6, <4>1, <4>2
      <4>4. ASSUME b[1] = name
            PROVE  b[3] = number /\ live'[b[2]] = 0
        <5>1. b[3] = number /\ b[2] \in Data!Sidecars
          BY <2>7, <2>8, <3>6, <4>1, <4>4 DEF Data!Piece, Data!Sidecars
        <5> QED
          BY <1>5, <3>2, <4>1, <4>4, <5>1
      <4> QED
        BY <4>3, <4>4
    <3>7. \A b, c \in quarantined' : b[1] = c[1] => b[3] = c[3]
      BY <1>1, <2>7 DEF NamesOK
    <3>8. name + (IF live'["db"] = 0 THEN 0 ELSE 1) <= tally'.made
      <4>1. free <= tally.made
        BY <1>1, <1>5, <1>6, <1>13 DEF NamesOK
      <4> QED
        BY <1>5, <1>9, <1>15, <3>1, <4>1
    <3>9. NamesOK(name)'
      BY <1>9, <3>1, <3>5, <3>6, <3>7, <3>8 DEF NamesOK
    <3>10. MovingOK(name)'
      BY <1>11, <2>8 DEF MovingOK
    <3> QED
      BY <1>6, <1>12, <2>5, <2>6, <3>4, <3>9, <3>10 DEF FilesAt, FilesInv
  <2>9. CASE p # "db"
    <3>1. live'["db"] = 0 /\ content' = content
      BY <1>5, <1>15, <2>3, <2>9 DEF Data!Piece
    <3>2. \A q \in Data!Piece : live'[q] <= tally'.made
      BY <1>1, <1>9, <1>15, <2>3 DEF NumbersOK
    <3>3. \A d \in damaged : d[2] # 0 /\ d[2] <= tally.made /\ content # "good"
      BY <1>1, <1>5 DEF NumbersOK
    <3>4. \A b \in quarantined' : b[3] # 0 /\ b[3] <= tally'.made
      BY <1>1, <1>15, <2>7 DEF NumbersOK
    <3>5. NumbersOK'
      BY <1>1, <1>2, <1>5, <1>15, <3>1, <3>2, <3>3, <3>4 DEF NumbersOK
    <3>6. \A n \in Nat : Data!Taken(n)' <=> n < free
      <4>1. ASSUME NEW n \in Nat
            PROVE  Data!Taken(n)' <=> Data!Taken(n)
        BY <1>30, <1>31, <1>32, <1>33, <1>15, <2>9 DEF Data!Taken
      <4> QED
        BY <1>1, <4>1 DEF NamesOK
    <3>7. \A b \in quarantined' : b[1] <= free /\ b[1] # free
      BY <1>1, <1>5, <2>7 DEF NamesOK
    <3>8. \A b, c \in quarantined' : b[1] = c[1] => b[3] = c[3]
      BY <1>1, <2>7 DEF NamesOK
    <3>9. free + (IF live'["db"] = 0 THEN 0 ELSE 1) <= tally'.made
      BY <1>1, <1>5, <1>15, <3>1 DEF NamesOK
    <3>10. NamesOK(free)'
      BY <3>6, <3>7, <3>8, <3>9 DEF NamesOK
    <3>11. ASSUME NEW b, b \in quarantined', b[1] = name, NEW t \in Data!Sidecars
           PROVE  live'[t] \in {0, b[3]} /\ (b[2] = t => live'[t] = 0)
      <4>1. b \in quarantined /\ b[2] # p /\ b[3] = number
        BY <2>7, <3>11
      <4>2. CASE t = p
        BY <2>3, <4>1, <4>2
      <4>3. CASE t # p
        <5>1. live'[t] = live[t]
          BY <2>3, <4>3 DEF Data!Piece, Data!Sidecars
        <5> QED
          BY <1>5, <3>11, <4>1, <5>1
      <4> QED
        BY <4>2, <4>3
    <3>12. MovingOK(free)'
      BY <1>5, <1>11, <2>9, <3>1, <3>11 DEF MovingOK
    <3> QED
      BY <1>12, <2>5, <2>6, <3>5, <3>10, <3>12 DEF FilesAt, FilesInv
  <2> QED
    BY <2>8, <2>9
<1>16. CASE mine = {} /\ quarantined' = quarantined \ mine
            /\ live' = [live EXCEPT ![p] = live[p]]
            /\ content' = (IF p = "db" THEN opening.was ELSE content)
            /\ UNCHANGED tally
  <2>1. p # "db"
    BY <1>30, <1>31, <1>32, <1>33, <1>7, <1>16
  <2>2. live' = live
    BY <1>4, <1>13, <1>16
  <2> QED
    BY <1>14, <1>16, <2>1, <2>2
<1>17. \/ mine # {} /\ Data!Trouble /\ UNCHANGED <<live, content, quarantined>>
       \/ /\ quarantined' = quarantined \ mine
          /\ live' = [live EXCEPT ![p] = IF mine = {} THEN live[p] ELSE (CHOOSE b \in mine : TRUE)[3]]
          /\ content' = IF p = "db" THEN opening.was ELSE content
          /\ UNCHANGED tally
  BY <1>30, <1>31, <1>32, <1>33 DEF Data!MoveBack
<1> QED
  BY <1>14, <1>15, <1>16, <1>17

LEMMA FilesBegins ==
  ASSUME Data!DatabaseFilesInit
  PROVE  FilesInv
<1>1. /\ live = [p \in Data!Piece |-> 0] /\ content = "none" /\ quarantined = {} /\ damaged = {}
      /\ opening = Data!Closed /\ tally = [made |-> 0, trouble |-> 0]
  BY DEF Data!DatabaseFilesInit
<1>2. opening.at = "closed" /\ opening \in Openings
  BY <1>1 DEF Data!Closed, Openings, Moves, Kinds
<1>3. FilesTypeOK
  BY <1>1, <1>2 DEF FilesTypeOK, Openings, Kinds
<1>4. 0 \in 0..MaxDatabases
  BY FilesAssumption
<1>5. NumbersOK
  BY <1>1, FilesAssumption DEF NumbersOK, Data!Piece, Data!Sidecars
<1>6. NamesOK(0)
  BY <1>1 DEF NamesOK, Data!Taken, Data!Piece
<1>7. OpenedOK /\ MovingOK(0)
  BY <1>2 DEF OpenedOK, MovingOK
<1>8. Data!QuarantineLosesNothing
  BY <1>1, <1>2 DEF Data!QuarantineLosesNothing, Data!OpeningIs
<1> QED
  BY <1>3, <1>4, <1>5, <1>6, <1>7, <1>8 DEF FilesAt, FilesInv

LEMMA FilesKept ==
  ASSUME FilesInv, [Data!DatabaseFilesNext]_(Data!fileVars)
  PROVE  FilesInv'
<1>1. PICK free \in 0..MaxDatabases : FilesAt(free)
  BY DEF FilesInv
<1>2. CASE UNCHANGED Data!fileVars
  <2>1. UNCHANGED <<live, content, quarantined, opening, damaged, tally>>
    BY <1>2 DEF Data!fileVars
  <2>2. opening' \in Openings /\ tally' \in [made : Nat, trouble : Nat]
    BY <1>1, <2>1 DEF FilesAt, FilesTypeOK, Openings
  <2>3. OpenedOK' /\ MovingOK(free)'
    BY <1>1, <2>1 DEF FilesAt, OpenedOK, MovingOK
  <2> QED
    BY <1>1, <2>1, <2>2, <2>3, OpeningMoves
<1>3. CASE Data!DatabaseFilesNext
  BY <1>1, <1>3, OpenKeeps, InitializeKeeps, MoveAsideKeeps, MoveBackKeeps, QuietKeeps, CloseKeeps,
     DamageKeeps DEF Data!DatabaseFilesNext
<1> QED
  BY <1>2, <1>3

(* Whatever rename fails and wherever the process dies, every byte of a damaged database
   is still on disk under one name with its sidecars, and no database is opened next to
   the WAL or SHM of another one (DatabaseFiles). *)
THEOREM QuarantineLosesNothingCorrect == StoresSpec => []QuarantineLosesNothing
<1>1. StoresInit => FilesInv
  BY FilesBegins DEF StoresInit
<1>2. FilesInv /\ [StoresNext]_storesVars => FilesInv'
  <2> SUFFICES ASSUME FilesInv, [StoresNext]_storesVars PROVE FilesInv'
    OBVIOUS
  <2>1. [Data!DatabaseFilesNext]_(Data!fileVars)
    BY DEF StoresNext, storesVars, Data!fileVars, dataVars
  <2> QED
    BY <2>1, FilesKept
<1>3. FilesInv => QuarantineLosesNothing
  BY DEF FilesInv, FilesAt, QuarantineLosesNothing
<1> QED
  BY <1>1, <1>2, <1>3, PTL DEF StoresSpec

-----------------------------------------------------------------------------
(* The diagnostic log.  The queue holds the last accepted records, the worker has the
   one before them, and no line on disk is younger than what was completed. *)

RecordsNumbered ==
  /\ \A i \in 1..Len(queue) : queue[i].seq = accepted - Len(queue) + i
  /\ completed = accepted - Len(queue) - (IF Writer!Writing THEN 1 ELSE 0)
  /\ Writer!Writing => record.seq = accepted - Len(queue) /\ seen.failed = failed
  /\ announced = reported
WriterEnds ==
  /\ writer \in {"exited", "none"} => ending /\ queue = <<>>
  /\ owner = "done" => writer \in {"exited", "none"}

(* Complete lines are in order and not younger than n, a torn line is the last one. *)
InOrder(f, n) ==
  /\ f \in Seq(Nat)
  /\ \A i \in 1..Len(f) : f[i] <= n /\ (f[i] = 0 => i = Len(f))
  /\ \A i, j \in 1..Len(f) : i < j /\ f[j] # 0 => f[i] < f[j]
FilesInOrder(f, p, n) ==
  /\ InOrder(f, n) /\ InOrder(p, n) /\ Len(f) <= MaxLines
  /\ \A i \in 1..Len(p), j \in 1..Len(f) : p[i] # 0 /\ f[j] # 0 => p[i] < f[j]

Ordinary(q) == {i \in 1..Len(q) : ~q[i].important}
WriterCounts ==
  /\ Writer!TypeOK /\ base \in Nat
  /\ Len(queue) <= Capacity
  /\ Cardinality(Ordinary(queue)) <= Capacity - ErrorReserve
  /\ accepted + (IF Writer!Refused THEN 1 ELSE 0)
       = written + failed + Len(queue) + (IF Writer!Writing THEN 1 ELSE 0)
WriterInv ==
  WriterCounts /\ RecordsNumbered /\ WriterEnds /\ FilesInOrder(file, previous, base + completed)

LEMMA OrdinaryCount ==
  ASSUME NEW q, q \in Seq(Writer!Records)
  PROVE  /\ IsFiniteSet(Ordinary(q)) /\ Cardinality(Ordinary(q)) \in Nat
         /\ Cardinality(Ordinary(q)) <= Len(q)
<1>1. Len(q) \in Nat
  BY LenProperties
<1>2. PICK n \in Nat : n = Len(q)
  BY <1>1
<1>3. IsFiniteSet(1..n) /\ Cardinality(1..n) = n
  <2>1. IsFiniteSet(1..n) /\ Cardinality(1..n) = IF 1 > n THEN 0 ELSE n - 1 + 1
    BY FS_Interval
  <2> QED
    BY <2>1
<1>4. Ordinary(q) \subseteq 1..n
  BY <1>2 DEF Ordinary
<1> QED
  BY <1>2, <1>3, <1>4, FS_Subset, FS_CardinalityType

LEMMA OrdinaryAppended ==
  ASSUME NEW q, q \in Seq(Writer!Records), NEW r, r \in Writer!Records
  PROVE  Cardinality(Ordinary(Append(q, r)))
           = Cardinality(Ordinary(q)) + (IF r.important THEN 0 ELSE 1)
<1>1. PICK t : t = Append(q, r)
  OBVIOUS
<1>2. /\ t \in Seq(Writer!Records) /\ Len(t) = Len(q) + 1 /\ t[Len(q) + 1] = r /\ Len(q) \in Nat
      /\ \A i \in 1..Len(q) : t[i] = q[i]
  BY <1>1, AppendProperties, LenProperties
<1>3. CASE r.important
  <2>1. Ordinary(t) = Ordinary(q)
    BY <1>2, <1>3 DEF Ordinary
  <2> QED
    BY <1>1, <1>3, <2>1, OrdinaryCount
<1>4. CASE ~r.important
  <2>1. Ordinary(t) = Ordinary(q) \cup {Len(q) + 1} /\ Len(q) + 1 \notin Ordinary(q)
    BY <1>2, <1>4 DEF Ordinary
  <2>2. Cardinality(Ordinary(t)) = Cardinality(Ordinary(q)) + 1
    BY <2>1, OrdinaryCount, FS_AddElement
  <2> QED
    BY <1>1, <1>4, <2>2
<1> QED
  BY <1>3, <1>4

LEMMA OrdinaryTaken ==
  ASSUME NEW q, q \in Seq(Writer!Records), q # <<>>
  PROVE  Cardinality(Ordinary(Tail(q))) <= Cardinality(Ordinary(q))
<1>1. PICK t : t = Tail(q)
  OBVIOUS
<1>2. /\ t \in Seq(Writer!Records) /\ Len(t) = Len(q) - 1 /\ Len(q) \in Nat
      /\ \A i \in 1..Len(t) : t[i] = q[i + 1]
  BY <1>1, HeadTailProperties, LenProperties
<1>3. PICK from : from = [i \in Ordinary(t) |-> i + 1]
  OBVIOUS
<1>4. /\ from \in [Ordinary(t) -> Ordinary(q)]
      /\ \A i, j \in Ordinary(t) : from[i] = from[j] => i = j
  BY <1>2, <1>3 DEF Ordinary
<1>5. from \in Injection(Ordinary(t), Ordinary(q))
  BY <1>4 DEF Injection, IsInjective
<1>6. IsFiniteSet(Ordinary(q))
  BY OrdinaryCount
<1> QED
  BY <1>1, <1>5, <1>6, FS_Injection

LEMMA InOrderGrows ==
  ASSUME NEW f, NEW n \in Nat, NEW m \in Nat, n <= m, InOrder(f, n)
  PROVE  InOrder(f, m)
<1>1. \A i \in 1..Len(f) : f[i] \in Nat
  BY DEF InOrder
<1>2. \A i \in 1..Len(f) : f[i] <= m
  BY <1>1 DEF InOrder
<1> QED
  BY <1>2 DEF InOrder

LEMMA EmptyInOrder ==
  ASSUME NEW n \in Nat
  PROVE  InOrder(<<>>, n)
BY DEF InOrder

LEMMA RepairedInOrder ==
  ASSUME NEW f, NEW n \in Nat, InOrder(f, n)
  PROVE  /\ InOrder(Writer!Repaired(f), n)
         /\ Len(Writer!Repaired(f)) \in Nat /\ Len(Writer!Repaired(f)) <= Len(f)
         /\ \A i \in 1..Len(Writer!Repaired(f)) : i \in 1..Len(f) /\ Writer!Repaired(f)[i] = f[i] /\ f[i] # 0
<1>1. f \in Seq(Nat) /\ Len(f) \in Nat
  BY DEF InOrder
<1>2. CASE Writer!IsTorn(f)
  <2>1. PICK l \in Nat : l = Len(f)
    BY <1>1
  <2>2. f # <<>> /\ l # 0 /\ f[l] = 0
    BY <1>1, <1>2, <2>1 DEF Writer!IsTorn, Writer!Torn
  <2>3. PICK t : t = SubSeq(f, 1, l - 1)
    OBVIOUS
  <2>4. t \in Seq(Nat) /\ Len(t) = l - 1 /\ \A i \in 1..Len(t) : t[i] = f[i]
    BY ONLY <1>1, <2>1, <2>2, <2>3
  <2>5. Writer!Repaired(f) = t
    BY <1>2, <2>1, <2>3 DEF Writer!Repaired
  <2>6. \A i \in 1..Len(t) : i \in 1..l /\ i # l
    BY <2>1, <2>2, <2>4
  <2>7. \A i \in 1..Len(t) : t[i] = f[i] /\ f[i] # 0
    BY <2>1, <2>4, <2>6 DEF InOrder
  <2>8. InOrder(t, n)
    BY <2>1, <2>4, <2>6, <2>7 DEF InOrder
  <2>9. /\ InOrder(t, n) /\ Len(t) \in Nat /\ Len(t) <= Len(f)
        /\ \A i \in 1..Len(t) : i \in 1..Len(f) /\ t[i] = f[i] /\ f[i] # 0
    <3>1. Len(t) \in Nat /\ Len(t) <= Len(f)
      BY <2>1, <2>2, <2>4
    <3>2. \A i \in 1..Len(t) : i \in 1..Len(f)
      BY <2>1, <2>6
    <3> QED
      BY <2>7, <2>8, <3>1, <3>2
  <2> QED
    BY ONLY <2>5, <2>9
<1>3. CASE ~Writer!IsTorn(f)
  <2>1. Writer!Repaired(f) = f
    BY <1>3 DEF Writer!Repaired
  <2>2. \A i \in 1..Len(f) : f[i] # 0
    <3> SUFFICES ASSUME NEW i \in 1..Len(f), f[i] = 0 PROVE FALSE
      OBVIOUS
    <3>1. i = Len(f) /\ f # <<>>
      BY <1>1 DEF InOrder
    <3> QED
      BY <1>3, <3>1 DEF Writer!IsTorn, Writer!Torn
  <2> QED
    BY <1>1, <2>1, <2>2
<1> QED
  BY <1>2, <1>3

(* A line that is appended whole is younger than all, a torn one is the last. *)
LEMMA AppendedInOrder ==
  ASSUME NEW f, NEW n \in Nat, InOrder(f, n), \A i \in 1..Len(f) : f[i] # 0,
         NEW line, line = 0 \/ line = n + 1
  PROVE  /\ InOrder(Append(f, line), n + 1) /\ Len(Append(f, line)) = Len(f) + 1
         /\ \A i \in 1..Len(Append(f, line)) :
              \/ i \in 1..Len(f) /\ Append(f, line)[i] = f[i]
              \/ Append(f, line)[i] = line
<1>1. f \in Seq(Nat) /\ Len(f) \in Nat /\ line \in Nat
  BY DEF InOrder
<1>2. PICK t : t = Append(f, line)
  OBVIOUS
<1>3. /\ t \in Seq(Nat) /\ Len(t) = Len(f) + 1 /\ t[Len(f) + 1] = line
      /\ \A i \in 1..Len(f) : t[i] = f[i]
  BY ONLY <1>1, <1>2
<1>4. \A i \in 1..Len(f) : f[i] <= n /\ f[i] \in Nat
  BY <1>1 DEF InOrder
<1>5. \A i \in 1..Len(t) :
        \/ i \in 1..Len(f) /\ t[i] = f[i]
        \/ i = Len(t) /\ t[i] = line
  BY <1>1, <1>3
<1>6. \A i \in 1..Len(t) : t[i] <= n + 1 /\ (t[i] = 0 => i = Len(t))
  BY <1>4, <1>5
<1>7. ASSUME NEW i \in 1..Len(t), NEW j \in 1..Len(t), i < j, t[j] # 0
      PROVE  t[i] < t[j]
  <2>1. i \in 1..Len(f) /\ t[i] = f[i]
    BY <1>1, <1>3, <1>7
  <2>2. CASE j \in 1..Len(f)
    BY <1>3, <1>7, <2>1, <2>2 DEF InOrder
  <2>3. CASE j \notin 1..Len(f)
    BY <1>4, <1>5, <1>7, <2>1, <2>3
  <2> QED
    BY <2>2, <2>3
<1>8. InOrder(t, n + 1)
  BY <1>3, <1>6, <1>7 DEF InOrder
<1> QED
  BY <1>2, <1>3, <1>5, <1>8

(* writeFile(): whatever an attempt leaves behind is in order. *)
LEMMA AttemptInOrder ==
  ASSUME NEW n \in Nat, FilesInOrder(file, previous, n), NEW o, o \in Writer!Attempts(n + 1)
  PROVE  FilesInOrder(o.file, o.previous, n + 1) /\ o.ok \in BOOLEAN
<1>1. InOrder(file, n) /\ InOrder(previous, n) /\ Len(file) <= MaxLines /\ Len(file) \in Nat
  BY DEF FilesInOrder, InOrder
<1>2. InOrder(file, n + 1) /\ InOrder(previous, n + 1) /\ InOrder(<<>>, n + 1) /\ InOrder(<<>>, n)
  BY <1>1, InOrderGrows, EmptyInOrder
<1>3. MaxLines \in Nat /\ MaxLines >= 1 /\ Len(<<>>) = 0
  BY QueueAssumption
<1>4. CASE o = [ok |-> FALSE, file |-> file, previous |-> previous]
  BY <1>2, <1>4 DEF FilesInOrder
<1>5. ASSUME NEW r, r \in Writer!Rotations
      PROVE  /\ FilesInOrder(r.file, r.previous, n) /\ FilesInOrder(r.file, r.previous, n + 1)
             /\ r.ok \in BOOLEAN /\ (r.ok => r.file = <<>> \/ Len(r.file) + 1 <= MaxLines)
  <2>1. \/ r = [ok |-> FALSE, file |-> file, previous |-> previous]
        \/ r = [ok |-> FALSE, file |-> file, previous |-> <<>>]
        \/ r = [ok |-> TRUE, file |-> <<>>, previous |-> file]
        \/ r = [ok |-> TRUE, file |-> file, previous |-> previous] /\ ~Writer!Full
    BY <1>5 DEF Writer!Rotations, Writer!Outcome
  <2>2. ~Writer!Full => file = <<>> \/ Len(file) + 1 <= MaxLines
    BY <1>1, <1>3 DEF Writer!Full
  <2>3. FilesInOrder(file, <<>>, n) /\ FilesInOrder(<<>>, file, n)
    BY <1>1, <1>2, <1>3 DEF FilesInOrder
  <2>4. FilesInOrder(r.file, r.previous, n) /\ r.ok \in BOOLEAN
    <3>1. CASE r = [ok |-> FALSE, file |-> file, previous |-> previous]
      BY <3>1
    <3>2. CASE r = [ok |-> FALSE, file |-> file, previous |-> <<>>]
      BY <2>3, <3>2
    <3>3. CASE r = [ok |-> TRUE, file |-> <<>>, previous |-> file]
      BY <2>3, <3>3
    <3>4. CASE r = [ok |-> TRUE, file |-> file, previous |-> previous]
      BY <3>4
    <3> QED
      BY <2>1, <3>1, <3>2, <3>3, <3>4
  <2>5. FilesInOrder(r.file, r.previous, n + 1)
    BY <2>4, InOrderGrows DEF FilesInOrder
  <2> QED
    BY <2>1, <2>2, <2>4, <2>5
<1>6. ASSUME NEW r, r \in Writer!Rotations, r.ok, NEW a, a \in Writer!Append1(Writer!Repaired(r.file), n + 1),
             o.file = a.file, o.previous = r.previous
      PROVE  FilesInOrder(o.file, o.previous, n + 1)
  <2>1. FilesInOrder(r.file, r.previous, n) /\ (r.file = <<>> \/ Len(r.file) + 1 <= MaxLines)
    BY <1>5, <1>6
  <2>2. PICK f, p : f = r.file /\ p = r.previous
    OBVIOUS
  <2>3. InOrder(f, n) /\ InOrder(p, n) /\ Len(f) \in Nat /\ (f = <<>> \/ Len(f) + 1 <= MaxLines)
        /\ \A i \in 1..Len(p), j \in 1..Len(f) : p[i] # 0 /\ f[j] # 0 => p[i] < f[j]
    BY <2>1, <2>2 DEF FilesInOrder, InOrder
  <2>4. Len(f) + 1 <= MaxLines
    BY <1>3, <2>3
  <2>5. PICK g : g = Writer!Repaired(f)
    OBVIOUS
  <2>6. /\ InOrder(g, n) /\ Len(g) \in Nat /\ Len(g) + 1 <= MaxLines
        /\ \A i \in 1..Len(g) : i \in 1..Len(f) /\ g[i] = f[i] /\ g[i] # 0
    <3>1. /\ InOrder(g, n) /\ Len(g) \in Nat /\ Len(g) <= Len(f)
          /\ \A i \in 1..Len(g) : i \in 1..Len(f) /\ g[i] = f[i] /\ f[i] # 0
      <4>1. InOrder(f, n)
        BY <2>3
      <4> QED
        BY <2>5, <4>1, RepairedInOrder
    <3>2. Len(g) + 1 <= MaxLines
      BY <1>3, <2>3, <2>4, <3>1
    <3> QED
      BY <3>1, <3>2
  <2>7. PICK t : t = a.file
    OBVIOUS
  <2>8. \/ t = g
        \/ t = Append(g, n + 1)
        \/ t = Append(g, 0)
    BY <1>6, <2>2, <2>5, <2>7 DEF Writer!Append1, Writer!Outcome, Writer!Torn
  <2>9. /\ InOrder(t, n + 1) /\ Len(t) \in Nat /\ Len(t) <= MaxLines
        /\ \A i \in 1..Len(t) :
             \/ i \in 1..Len(g) /\ t[i] = g[i]
             \/ t[i] = 0
             \/ t[i] = n + 1
    <3>1. CASE t = g
      BY <1>3, <2>6, <3>1, InOrderGrows
    <3>2. CASE t = Append(g, n + 1)
      BY <1>3, <2>6, <3>2, AppendedInOrder
    <3>3. CASE t = Append(g, 0)
      BY <1>3, <2>6, <3>3, AppendedInOrder
    <3> QED
      BY <2>8, <3>1, <3>2, <3>3
  <2>10. \A i \in 1..Len(p) : p[i] \in Nat /\ p[i] <= n
    BY <2>3 DEF InOrder
  <2>11. \A i \in 1..Len(p), j \in 1..Len(t) : p[i] # 0 /\ t[j] # 0 => p[i] < t[j]
    BY <2>3, <2>6, <2>9, <2>10
  <2>12. InOrder(p, n + 1)
    BY <2>3, InOrderGrows
  <2>13. FilesInOrder(t, p, n + 1)
    BY <2>9, <2>11, <2>12 DEF FilesInOrder
  <2> QED
    BY <1>6, <2>2, <2>7, <2>13
<1>7. \/ o = [ok |-> FALSE, file |-> file, previous |-> previous]
      \/ \E r \in Writer!Rotations :
           \/ ~r.ok /\ o = r
           \/ r.ok /\ o = [ok |-> FALSE, file |-> r.file, previous |-> r.previous]
           \/ r.ok /\ \E a \in Writer!Append1(Writer!Repaired(r.file), n + 1) :
                         o = [ok |-> a.ok, file |-> a.file, previous |-> r.previous]
  BY DEF Writer!Attempts, Writer!Outcome
<1>8. ASSUME NEW f, NEW a, a \in Writer!Append1(f, n + 1)
      PROVE  a.ok \in BOOLEAN
  <2>1. \E ok \in BOOLEAN : \E g, h : a = [ok |-> ok, file |-> g, previous |-> h]
    BY Zenon, <1>8 DEF Writer!Append1, Writer!Outcome
  <2> QED
    BY <2>1
<1>9. ASSUME NEW r, r \in Writer!Rotations, ~r.ok, o = r
      PROVE  FilesInOrder(o.file, o.previous, n + 1) /\ o.ok \in BOOLEAN
  BY <1>5, <1>9
<1>10. ASSUME NEW r, r \in Writer!Rotations, o = [ok |-> FALSE, file |-> r.file, previous |-> r.previous]
       PROVE  FilesInOrder(o.file, o.previous, n + 1) /\ o.ok \in BOOLEAN
  BY <1>5, <1>10
<1>11. ASSUME NEW r, r \in Writer!Rotations, r.ok,
              NEW a, a \in Writer!Append1(Writer!Repaired(r.file), n + 1),
              o = [ok |-> a.ok, file |-> a.file, previous |-> r.previous]
       PROVE  FilesInOrder(o.file, o.previous, n + 1) /\ o.ok \in BOOLEAN
  BY <1>6, <1>8, <1>11
<1> QED
  BY <1>4, <1>7, <1>9, <1>10, <1>11

-----------------------------------------------------------------------------
WriterStates == {"check", "asleep", "write", "notify", "exited", "none"}
Untouched == UNCHANGED <<queue, accepted, written, failed, completed, reported, record, seen,
                         file, previous, base, announced>>

LEMMA WriterTypes ==
  ASSUME Writer!TypeOK
  PROVE  /\ queue \in Seq(Writer!Records) /\ Len(queue) \in Nat
         /\ accepted \in Nat /\ dropped \in Nat /\ criticalDropped \in 0..dropped
         /\ written \in Nat /\ failed \in Nat /\ completed \in 0..accepted
         /\ reported \in Writer!Losses /\ seen \in Writer!Losses /\ ending \in BOOLEAN
         /\ writer \in WriterStates /\ record \in Writer!Records
BY LenProperties DEF Writer!TypeOK, WriterStates

(* Steps that wake or move threads change neither the queue nor the files. *)
LEMMA ThreadsMove ==
  ASSUME WriterInv, Untouched, dropped' \in Nat, criticalDropped' \in 0..dropped',
         writer' \in WriterStates, writer' = "write" <=> writer = "write",
         writer' = "none" <=> writer = "none",
         ending' \in BOOLEAN, at' \in [Flushers -> {"idle", "check", "asleep"}],
         until' \in [Flushers -> Nat], owner' \in {"running", "wake", "join", "done"},
         WriterEnds'
  PROVE  WriterInv'
<1>1. WriterCounts'
  BY DEF WriterInv, WriterCounts, Untouched, Writer!TypeOK, WriterStates, Writer!Refused,
         Writer!Writing, Ordinary
<1>2. RecordsNumbered'
  BY DEF WriterInv, RecordsNumbered, Untouched, Writer!Writing
<1>3. FilesInOrder(file, previous, base + completed)'
  BY DEF WriterInv, FilesInOrder, InOrder, Untouched
<1> QED
  BY <1>1, <1>2, <1>3 DEF WriterInv

LEMMA AcceptKeeps ==
  ASSUME WriterInv, NEW important \in BOOLEAN, Writer!Accept(important)
  PROVE  WriterInv'
<1>1. PICK new : new = [seq |-> accepted + 1, important |-> important]
  OBVIOUS
<1>2. /\ ~ending /\ Len(queue) < (IF important THEN Capacity ELSE Capacity - ErrorReserve)
      /\ queue' = Append(queue, new) /\ accepted' = accepted + 1
      /\ writer' = (IF writer = "asleep" THEN "check" ELSE writer)
      /\ UNCHANGED <<dropped, criticalDropped, written, failed, completed, reported, ending, record,
                     seen, at, until, owner, file, previous, base, crashes, announced>>
  BY <1>1 DEF Writer!Accept, Writer!HasRoom, Writer!Limit, Writer!WakeWorker, Writer!disk,
              Writer!history
<1>3. WriterCounts /\ RecordsNumbered /\ WriterEnds
      /\ Writer!TypeOK /\ FilesInOrder(file, previous, base + completed)
  BY DEF WriterInv, WriterCounts
<1>4. /\ queue \in Seq(Writer!Records) /\ Len(queue) \in Nat /\ accepted \in Nat
      /\ written \in Nat /\ failed \in Nat /\ completed \in 0..accepted /\ writer \in WriterStates
  BY <1>3, WriterTypes
<1>5. new \in Writer!Records /\ new.seq = accepted + 1 /\ new.important = important
  BY <1>1, <1>4 DEF Writer!Records
<1>6. /\ queue' \in Seq(Writer!Records) /\ Len(queue') = Len(queue) + 1
      /\ queue'[Len(queue) + 1] = new /\ \A i \in 1..Len(queue) : queue'[i] = queue[i]
  BY ONLY <1>2, <1>4, <1>5, AppendProperties
<1>7. writer' \in WriterStates /\ (Writer!Writing' <=> Writer!Writing) /\ ~Writer!Refused' /\ ~Writer!Refused
  BY <1>2, <1>3, <1>4 DEF WriterStates, Writer!Writing, Writer!Refused, WriterEnds
<1>8. Writer!TypeOK'
  BY <1>2, <1>3, <1>4, <1>6, <1>7 DEF Writer!TypeOK, WriterStates
<1>9. Len(queue') <= Capacity
  BY <1>2, <1>4, <1>6, QueueAssumption
<1>10. Cardinality(Ordinary(queue')) <= Capacity - ErrorReserve
  <2>1. Cardinality(Ordinary(queue')) = Cardinality(Ordinary(queue)) + (IF important THEN 0 ELSE 1)
    BY <1>2, <1>4, <1>5, OrdinaryAppended
  <2>2. Cardinality(Ordinary(queue)) \in Nat /\ Cardinality(Ordinary(queue)) <= Len(queue)
    BY <1>4, OrdinaryCount
  <2>3. Cardinality(Ordinary(queue)) <= Capacity - ErrorReserve
    BY <1>3 DEF WriterCounts
  <2> QED
    BY <1>2, <1>4, <2>1, <2>2, <2>3, QueueAssumption
<1>11. WriterCounts'
  BY <1>2, <1>3, <1>4, <1>6, <1>7, <1>8, <1>9, <1>10 DEF WriterCounts
<1>12. RecordsNumbered'
  <2>1. \A i \in 1..Len(queue') : i \in 1..Len(queue) \/ i = Len(queue) + 1
    BY <1>4, <1>6
  <2>2. \A i \in 1..Len(queue') : queue'[i].seq = accepted' - Len(queue') + i
    BY <1>2, <1>3, <1>4, <1>5, <1>6, <2>1 DEF RecordsNumbered
  <2>3. accepted' - Len(queue') = accepted - Len(queue)
    BY <1>2, <1>4, <1>6
  <2> QED
    BY <1>2, <1>3, <1>7, <2>2, <2>3 DEF RecordsNumbered
<1>13. WriterEnds'
  BY <1>2, <1>3 DEF WriterEnds
<1>14. FilesInOrder(file, previous, base + completed)'
  BY <1>2, <1>3 DEF FilesInOrder, InOrder
<1> QED
  BY <1>11, <1>12, <1>13, <1>14 DEF WriterInv

LEMMA QuietWriterKeeps ==
  ASSUME WriterInv,
         \/ \E important, valid \in BOOLEAN : Writer!Refuse(important, valid)
         \/ \E f \in Flushers : Writer!FlushEnter(f) \/ Writer!FlushStep(f)
         \/ Writer!Shutdown \/ Writer!ShutdownWake \/ Writer!ShutdownJoin
         \/ Writer!WorkerSleep \/ Writer!WorkerExit \/ Writer!WorkerNotify
  PROVE  WriterInv'
<1>1. Writer!TypeOK /\ WriterEnds
  BY DEF WriterInv, WriterCounts
<1>2. /\ dropped \in Nat /\ criticalDropped \in 0..dropped /\ ending \in BOOLEAN
      /\ writer \in WriterStates /\ at \in [Flushers -> {"idle", "check", "asleep"}]
      /\ until \in [Flushers -> Nat] /\ owner \in {"running", "wake", "join", "done"}
      /\ accepted \in Nat
  BY <1>1 DEF Writer!TypeOK, WriterStates
<1>3. ASSUME NEW important \in BOOLEAN, NEW valid \in BOOLEAN, Writer!Refuse(important, valid)
      PROVE  WriterInv'
  <2>1. /\ Untouched /\ UNCHANGED <<ending, writer, at, until, owner>>
        /\ dropped' = dropped + 1
        /\ criticalDropped' = IF important THEN criticalDropped + 1 ELSE criticalDropped
    BY <1>3 DEF Writer!Refuse, Untouched, Writer!disk, Writer!history
  <2>2. dropped' \in Nat /\ criticalDropped' \in 0..dropped'
    BY <1>2, <2>1
  <2>3. WriterEnds'
    BY <1>1, <2>1 DEF WriterEnds, Untouched
  <2> QED
    BY <1>2, <2>1, <2>2, <2>3, ThreadsMove
<1>4. ASSUME NEW f \in Flushers, Writer!FlushEnter(f) \/ Writer!FlushStep(f)
      PROVE  WriterInv'
  <2>1. /\ Untouched /\ UNCHANGED <<dropped, criticalDropped, ending, writer, owner>>
        /\ until' = until \/ until' = [until EXCEPT ![f] = accepted]
        /\ \E to \in {"idle", "check", "asleep"} : at' = [at EXCEPT ![f] = to]
    BY <1>4 DEF Writer!FlushEnter, Writer!FlushStep, Writer!FlushReturn, Writer!FlushSleep, Untouched,
                Writer!disk, Writer!history, Writer!stats
  <2>2. at' \in [Flushers -> {"idle", "check", "asleep"}] /\ until' \in [Flushers -> Nat]
    BY <1>2, <2>1
  <2>3. WriterEnds'
    BY <1>1, <2>1 DEF WriterEnds, Untouched
  <2> QED
    BY <1>2, <2>1, <2>2, <2>3, ThreadsMove
<1>5. CASE Writer!Shutdown \/ Writer!ShutdownWake \/ Writer!ShutdownJoin
  <2>1. /\ Untouched /\ UNCHANGED <<dropped, criticalDropped, at, until>>
        /\ ending' \in BOOLEAN /\ (ending => ending') /\ owner' \in {"wake", "join", "done"}
        /\ writer' # writer => writer = "asleep" /\ writer' = "check"
        /\ owner' = "done" => writer' \in {"exited", "none"}
    BY <1>2, <1>5 DEF Writer!Shutdown, Writer!ShutdownWake, Writer!ShutdownJoin, Untouched,
                Writer!disk, Writer!history, Writer!stats, Writer!WakeWorker
  <2>2. WriterEnds'
    BY <1>1, <2>1 DEF WriterEnds, Untouched
  <2> QED
    BY <1>2, <2>1, <2>2, ThreadsMove DEF WriterStates
<1>6. CASE Writer!WorkerSleep \/ Writer!WorkerExit \/ Writer!WorkerNotify
  <2>1. /\ Untouched /\ UNCHANGED <<dropped, criticalDropped, until, ending, owner>>
        /\ at' = at \/ at' = [f \in Flushers |-> IF at[f] = "asleep" THEN "check" ELSE at[f]]
        /\ writer \in {"check", "notify"} /\ writer' \in {"asleep", "exited", "check"}
        /\ writer' = "exited" => ending /\ queue = <<>>
    BY <1>6 DEF Writer!WorkerSleep, Writer!WorkerExit, Writer!WorkerNotify, Untouched, Writer!MayExit,
                Writer!disk, Writer!history, Writer!stats
  <2>2. at' \in [Flushers -> {"idle", "check", "asleep"}]
    BY <1>2, <2>1
  <2>3. WriterEnds'
    BY <1>1, <2>1 DEF WriterEnds, Untouched
  <2> QED
    BY <1>2, <2>1, <2>2, <2>3, ThreadsMove DEF WriterStates
<1> QED
  BY <1>3, <1>4, <1>5, <1>6

LEMMA FilesGrow ==
  ASSUME NEW f, NEW p, NEW n \in Nat, NEW m \in Nat, n <= m, FilesInOrder(f, p, n)
  PROVE  FilesInOrder(f, p, m)
BY InOrderGrows DEF FilesInOrder

LEMMA TakeKeeps ==
  ASSUME WriterInv, Writer!WorkerTake
  PROVE  WriterInv'
<1>1. /\ writer = "check" /\ queue # <<>> /\ record' = Head(queue) /\ queue' = Tail(queue)
      /\ seen' = [dropped |-> dropped, failed |-> failed] /\ writer' = "write"
      /\ UNCHANGED <<accepted, dropped, criticalDropped, written, failed, completed, reported, ending,
                     at, until, owner, file, previous, base, crashes, announced>>
  BY DEF Writer!WorkerTake, Writer!stats, Writer!disk, Writer!history
<1>2. WriterCounts /\ RecordsNumbered /\ WriterEnds
      /\ Writer!TypeOK /\ FilesInOrder(file, previous, base + completed)
  BY DEF WriterInv, WriterCounts
<1>3. /\ queue \in Seq(Writer!Records) /\ Len(queue) \in Nat /\ accepted \in Nat
      /\ written \in Nat /\ failed \in Nat /\ completed \in 0..accepted /\ dropped \in Nat
  BY <1>2, WriterTypes
<1>4. /\ queue' \in Seq(Writer!Records) /\ Len(queue') = Len(queue) - 1 /\ record' = queue[1]
      /\ Len(queue) >= 1 /\ \A i \in 1..Len(queue') : queue'[i] = queue[i + 1]
  BY ONLY <1>1, <1>3, HeadTailProperties
<1>5. record' \in Writer!Records /\ seen' \in Writer!Losses /\ seen'.failed = failed
  BY <1>1, <1>3, <1>4 DEF Writer!Losses
<1>6. Writer!TypeOK'
  BY <1>1, <1>2, <1>4, <1>5 DEF Writer!TypeOK
<1>7. ~Writer!Writing /\ Writer!Writing' /\ ~Writer!Refused /\ ~Writer!Refused'
  BY <1>1 DEF Writer!Writing, Writer!Refused
<1>8. Cardinality(Ordinary(queue')) <= Capacity - ErrorReserve
  <2>1. Cardinality(Ordinary(queue')) <= Cardinality(Ordinary(queue))
    BY <1>1, <1>3, OrdinaryTaken
  <2>2. Cardinality(Ordinary(queue)) <= Capacity - ErrorReserve /\ Cardinality(Ordinary(queue)) \in Nat
        /\ Cardinality(Ordinary(queue')) \in Nat
    BY <1>2, <1>3, <1>4, OrdinaryCount DEF WriterCounts
  <2> QED
    BY <2>1, <2>2, QueueAssumption
<1>9. WriterCounts'
  BY <1>1, <1>2, <1>3, <1>4, <1>6, <1>7, <1>8, QueueAssumption DEF WriterCounts
<1>10. RecordsNumbered'
  <2>1. queue[1].seq = accepted - Len(queue) + 1
    BY <1>2, <1>3, <1>4 DEF RecordsNumbered
  <2>2. \A i \in 1..Len(queue') : queue'[i].seq = accepted - Len(queue') + i
    <3>1. ASSUME NEW i \in 1..Len(queue')
          PROVE  queue'[i].seq = accepted - Len(queue') + i
      <4>1. i + 1 \in 1..Len(queue) /\ queue'[i] = queue[i + 1]
        BY <1>3, <1>4
      <4>2. queue[i + 1].seq = accepted - Len(queue) + (i + 1)
        BY <1>2, <4>1 DEF RecordsNumbered
      <4> QED
        BY <1>3, <1>4, <4>1, <4>2
    <3> QED
      BY <3>1
  <2>3. completed = accepted - Len(queue') - 1 /\ record'.seq = accepted - Len(queue')
    BY <1>2, <1>3, <1>4, <1>7, <2>1 DEF RecordsNumbered
  <2> QED
    BY <1>1, <1>2, <1>5, <1>7, <2>2, <2>3 DEF RecordsNumbered
<1>11. WriterEnds'
  BY <1>1, <1>2 DEF WriterEnds
<1>12. FilesInOrder(file, previous, base + completed)'
  BY <1>1, <1>2 DEF FilesInOrder, InOrder
<1> QED
  BY <1>9, <1>10, <1>11, <1>12 DEF WriterInv

LEMMA WriteKeeps ==
  ASSUME WriterInv, Writer!WorkerWrite
  PROVE  /\ WriterInv'
         /\ written' > written => announced'.failed = failed /\ announced'.dropped = seen.dropped
<1>1. /\ writer = "write" /\ completed' = record.seq /\ writer' = "notify"
      /\ UNCHANGED <<queue, accepted, dropped, criticalDropped, ending, record, seen, at, until, owner,
                     base, crashes>>
  BY DEF Writer!WorkerWrite, Writer!Completes
<1>2. PICK o \in Writer!Attempts(base + record.seq) :
        /\ file' = o.file /\ previous' = o.previous
        /\ written' = IF o.ok THEN written + 1 ELSE written
        /\ failed' = IF o.ok THEN failed ELSE failed + 1
        /\ IF o.ok THEN Writer!Report ELSE UNCHANGED <<reported, announced>>
  BY DEF Writer!WorkerWrite
<1>3. WriterCounts /\ RecordsNumbered /\ WriterEnds /\ base \in Nat
      /\ Writer!TypeOK /\ FilesInOrder(file, previous, base + completed)
  BY DEF WriterInv, WriterCounts
<1>4. /\ queue \in Seq(Writer!Records) /\ Len(queue) \in Nat /\ accepted \in Nat
      /\ written \in Nat /\ failed \in Nat /\ completed \in 0..accepted
      /\ seen \in Writer!Losses /\ reported \in Writer!Losses
  BY <1>3, WriterTypes
<1>5. Writer!Writing /\ ~Writer!Writing' /\ ~Writer!Refused /\ ~Writer!Refused'
  BY <1>1 DEF Writer!Writing, Writer!Refused
<1>6. /\ record.seq = completed + 1 /\ record.seq = accepted - Len(queue) /\ seen.failed = failed
      /\ announced = reported
  BY <1>3, <1>4, <1>5 DEF RecordsNumbered
<1>7. FilesInOrder(o.file, o.previous, base + completed + 1) /\ o.ok \in BOOLEAN
  <2>1. PICK n \in Nat : n = base + completed
    BY <1>3, <1>4
  <2>2. base + record.seq = n + 1 /\ base + completed + 1 = n + 1
    BY <1>3, <1>4, <1>6, <2>1
  <2>3. o \in Writer!Attempts(n + 1)
    BY <1>2, <2>2
  <2> QED
    BY <1>3, <2>1, <2>2, <2>3, AttemptInOrder
<1>8. FilesInOrder(file, previous, base + completed)'
  <2>1. base' + completed' = base + completed + 1
    BY <1>1, <1>3, <1>4, <1>6
  <2>2. file' = o.file /\ previous' = o.previous
    BY <1>2
  <2>3. FilesInOrder(file', previous', base' + completed')
    BY <1>7, <2>1, <2>2
  <2> QED
    BY <2>3 DEF FilesInOrder, InOrder
<1>9. announced' = reported' /\ reported' \in Writer!Losses /\ (o.ok => announced' = seen)
  BY <1>2, <1>4, <1>6, <1>7 DEF Writer!Report, Writer!LossesUnreported
<1>10. written' \in Nat /\ failed' \in Nat /\ written' + failed' = written + failed + 1
       /\ (written' > written => o.ok)
  BY <1>2, <1>4, <1>7
<1>11. completed' \in 0..accepted'
  BY <1>1, <1>4, <1>6
<1>12. file' \in Seq(Nat) /\ previous' \in Seq(Nat)
  BY <1>2, <1>7 DEF FilesInOrder, InOrder
<1>13. Writer!TypeOK'
  BY <1>1, <1>3, <1>9, <1>10, <1>11, <1>12 DEF Writer!TypeOK
<1>14. WriterCounts'
  <2>1. /\ Len(queue') <= Capacity /\ Cardinality(Ordinary(queue')) <= Capacity - ErrorReserve
        /\ base' \in Nat
    BY <1>1, <1>3 DEF WriterCounts
  <2>2. accepted + 0 = written + failed + Len(queue) + 1
    BY <1>3, <1>5 DEF WriterCounts
  <2>3. PICK a \in Nat : a = accepted
    BY <1>4
  <2>4. PICK d \in Nat : d = written + failed
    BY <1>4
  <2>5. PICK e \in Nat : e = written' + failed'
    <3>1. PICK w \in Nat : w = written'
      BY ONLY <1>10
    <3>2. PICK r \in Nat : r = failed'
      BY ONLY <1>10
    <3>3. w + r \in Nat
      OBVIOUS
    <3>4. w + r = written' + failed'
      BY ONLY <3>1, <3>2, Zenon
    <3> QED
      BY ONLY <3>3, <3>4, Zenon
  <2>6. PICK l \in Nat : l = Len(queue)
    BY <1>4
  <2>7. a = d + l + 1 /\ e = d + 1
    BY ONLY <1>10, <2>2, <2>3, <2>4, <2>5, <2>6
  <2>8. a + 0 = e + l + 0
    BY ONLY <2>7, <2>3, <2>4, <2>5, <2>6
  <2>9. accepted' + 0 = written' + failed' + Len(queue') + 0
    BY <1>1, <2>3, <2>5, <2>6, <2>8
  <2> QED
    BY <1>5, <1>13, <2>1, <2>9 DEF WriterCounts
<1>15. RecordsNumbered'
  <2>1. completed' = accepted' - Len(queue') - 0
    BY <1>1, <1>4, <1>6
  <2>2. \A i \in 1..Len(queue') : queue'[i].seq = accepted' - Len(queue') + i
    BY <1>1, <1>3 DEF RecordsNumbered
  <2> QED
    BY <1>5, <1>9, <2>1, <2>2 DEF RecordsNumbered
<1>16. WriterEnds'
  BY <1>1, <1>3 DEF WriterEnds
<1> QED
  BY <1>6, <1>8, <1>9, <1>10, <1>14, <1>15, <1>16 DEF WriterInv

LEMMA WriterStarts ==
  ASSUME queue = <<>>, accepted = 0, dropped = 0, criticalDropped = 0, written = 0, completed = 0,
         \/ writer = "check" /\ failed = 0 /\ ending = FALSE
         \/ writer = "none" /\ failed = 1 /\ ending = TRUE,
         reported = Writer!NoLosses, seen = Writer!NoLosses, record = Writer!NoRecord,
         at = [f \in Flushers |-> "idle"], until = [f \in Flushers |-> 0], owner = "running",
         announced = Writer!NoLosses, base \in Nat, FilesInOrder(file, previous, base)
  PROVE  WriterInv
<1>1. Writer!NoLosses \in Writer!Losses /\ Writer!NoRecord \in Writer!Records
  BY DEF Writer!NoLosses, Writer!Losses, Writer!NoRecord, Writer!Records
<1>2. file \in Seq(Nat) /\ previous \in Seq(Nat)
  BY DEF FilesInOrder, InOrder
<1>3. Writer!TypeOK
  <2>1. failed \in Nat /\ ending \in BOOLEAN
    <3>1. \/ failed = 0 /\ ending = FALSE
          \/ failed = 1 /\ ending = TRUE
      OBVIOUS
    <3>2. failed = 0 \/ failed = 1
      BY ONLY <3>1
    <3>3. failed \in Nat
      BY ONLY <3>2
    <3>4. ending \in BOOLEAN
      BY ONLY <3>1, Zenon
    <3> QED
      BY ONLY <3>3, <3>4
  <2>0. criticalDropped \in 0..dropped /\ completed \in 0..accepted
    OBVIOUS
  <2>2. queue \in Seq(Writer!Records)
    OBVIOUS
  <2>3. at \in [Flushers -> {"idle", "check", "asleep"}]
    OBVIOUS
  <2>4. until \in [Flushers -> Nat]
    OBVIOUS
  <2> QED
    BY <1>1, <1>2, <2>0, <2>1, <2>2, <2>3, <2>4 DEF Writer!TypeOK
<1>4. Len(queue) = 0 /\ Ordinary(queue) = {} /\ ~Writer!Writing
  BY DEF Ordinary, Writer!Writing
<1>5. Cardinality(Ordinary(queue)) = 0
  BY <1>4, FS_EmptySet
<1>6. WriterCounts
  BY <1>3, <1>4, <1>5, QueueAssumption DEF WriterCounts, Writer!Refused
<1>7. RecordsNumbered /\ WriterEnds
  <2>1. \A i \in 1..Len(queue) : FALSE
    BY ONLY <1>4
  <2>2. completed = 0 /\ accepted = 0 /\ Len(queue) = 0 /\ 0 = 0 - 0 - 0
    BY <1>4
  <2> QED
    BY <1>4, <2>1, <2>2 DEF RecordsNumbered, WriterEnds
<1>8. FilesInOrder(file, previous, base + completed)
  OBVIOUS
<1> QED
  BY <1>6, <1>7, <1>8 DEF WriterInv

LEMMA CrashKeeps ==
  ASSUME WriterInv, Writer!Crash
  PROVE  WriterInv'
<1>1. WriterCounts /\ RecordsNumbered /\ base \in Nat
      /\ Writer!TypeOK /\ FilesInOrder(file, previous, base + completed)
  BY DEF WriterInv, WriterCounts
<1>2. Len(queue) \in Nat /\ accepted \in Nat /\ completed \in 0..accepted
  BY <1>1, WriterTypes
<1>3. PICK n \in Nat : n = base + completed
  BY <1>1, <1>2
<1>4. FilesInOrder(file', previous', base + accepted)
  <2>1. CASE writer = "write"
    <3>1. record.seq = completed + 1 /\ record.seq <= accepted
      BY <1>1, <1>2, <2>1 DEF RecordsNumbered, Writer!Writing
    <3>2. base + record.seq = n + 1 /\ n + 1 <= base + accepted /\ base + accepted \in Nat
      BY <1>1, <1>2, <1>3, <3>1
    <3>3. PICK o \in Writer!Attempts(base + record.seq) : file' = o.file /\ previous' = o.previous
      BY <2>1 DEF Writer!Crash
    <3>4. FilesInOrder(o.file, o.previous, n + 1)
      BY <1>1, <1>3, <3>2, <3>3, AttemptInOrder
    <3> QED
      BY <3>2, <3>3, <3>4, FilesGrow
  <2>2. CASE writer # "write"
    <3>1. file' = file /\ previous' = previous
      BY <2>2 DEF Writer!Crash, Writer!Outcome
    <3>2. n <= base + accepted /\ base + accepted \in Nat
      BY <1>1, <1>2, <1>3
    <3> QED
      BY <1>1, <1>3, <3>1, <3>2, FilesGrow
  <2> QED
    BY <2>1, <2>2
<1>5. /\ queue' = <<>> /\ accepted' = 0 /\ dropped' = 0 /\ criticalDropped' = 0
      /\ written' = 0 /\ completed' = 0
      /\ \/ writer' = "check" /\ failed' = 0 /\ ending' = FALSE
         \/ writer' = "none" /\ failed' = 1 /\ ending' = TRUE
      /\ reported' = Writer!NoLosses /\ seen' = Writer!NoLosses /\ record' = Writer!NoRecord
      /\ at' = [f \in Flushers |-> "idle"] /\ until' = [f \in Flushers |-> 0]
      /\ owner' = "running" /\ announced' = Writer!NoLosses /\ base' = base + accepted
  BY DEF Writer!Crash
<1>6. base' \in Nat /\ FilesInOrder(file, previous, base)'
  <2>1. FilesInOrder(file', previous', base')
    BY <1>4, <1>5
  <2> QED
    BY <1>1, <1>2, <1>5, <2>1 DEF FilesInOrder, InOrder
<1>7. Writer!NoLosses \in Writer!Losses /\ Writer!NoRecord \in Writer!Records
  BY DEF Writer!NoLosses, Writer!Losses, Writer!NoRecord, Writer!Records
<1>8. file' \in Seq(Nat) /\ previous' \in Seq(Nat)
  BY <1>6 DEF FilesInOrder, InOrder
<1>9. Writer!TypeOK'
  <2>1. failed' \in Nat /\ ending' \in BOOLEAN
    <3>1. \/ failed' = 0 /\ ending' = FALSE
          \/ failed' = 1 /\ ending' = TRUE
      BY ONLY <1>5
    <3>2. failed' = 0 \/ failed' = 1
      BY ONLY <3>1
    <3>3. failed' \in Nat
      BY ONLY <3>2
    <3>4. ending' \in BOOLEAN
      BY ONLY <3>1, Zenon
    <3> QED
      BY ONLY <3>3, <3>4
  <2>0. criticalDropped' \in 0..dropped' /\ completed' \in 0..accepted'
    BY ONLY <1>5
  <2>2. queue' \in Seq(Writer!Records)
    BY <1>5
  <2>3. at' \in [Flushers -> {"idle", "check", "asleep"}]
    BY <1>5
  <2>4. until' \in [Flushers -> Nat]
    BY <1>5
  <2> QED
    BY <1>5, <1>7, <1>8, <2>0, <2>1, <2>2, <2>3, <2>4 DEF Writer!TypeOK
<1>10. Len(queue') = 0 /\ Ordinary(queue') = {} /\ ~Writer!Writing'
  BY <1>5 DEF Ordinary, Writer!Writing
<1>11. Cardinality(Ordinary(queue')) = 0
  BY <1>10, FS_EmptySet
<1>12. WriterCounts'
  BY <1>5, <1>6, <1>9, <1>10, <1>11, QueueAssumption DEF WriterCounts, Writer!Refused
<1>13. RecordsNumbered' /\ WriterEnds'
  <2>1. \A i \in 1..Len(queue') : FALSE
    BY ONLY <1>10
  <2>2. completed' = 0 /\ accepted' = 0 /\ Len(queue') = 0 /\ 0 = 0 - 0 - 0
    BY <1>5, <1>10
  <2> QED
    BY <1>5, <1>10, <2>1, <2>2 DEF RecordsNumbered, WriterEnds
<1>14. FilesInOrder(file, previous, base + completed)'
  <2>1. base' + completed' = base'
    BY <1>5, <1>6
  <2> QED
    BY <1>6, <2>1
<1> QED
  BY <1>12, <1>13, <1>14 DEF WriterInv

LEMMA WriterBegins ==
  ASSUME Writer!Init
  PROVE  WriterInv
<1>1. FilesInOrder(<<>>, <<>>, 0)
  <2>1. InOrder(<<>>, 0) /\ Len(<<>>) = 0 /\ 1..0 = {}
    BY EmptyInOrder
  <2> QED
    BY <2>1, QueueAssumption DEF FilesInOrder
<1> QED
  BY <1>1, WriterStarts DEF Writer!Init

(* What the properties say of a step. *)
LEMMA WriterStep ==
  ASSUME WriterInv, [Writer!Next]_(Writer!vars)
  PROVE  /\ WriterInv'
         /\ at' # at => Writer!FlushCoversRecords
         /\ written' > written => announced'.failed = failed /\ announced'.dropped = seen.dropped
<1>1. Writer!TypeOK /\ written \in Nat
  BY WriterTypes DEF WriterInv, WriterCounts
<1>2. CASE UNCHANGED Writer!vars
  <2>1. Untouched /\ UNCHANGED <<dropped, criticalDropped, ending, writer, at, until, owner>>
    BY <1>2 DEF Writer!vars, Writer!stats, Writer!disk, Writer!history, Untouched
  <2>2. WriterEnds'
    BY <2>1 DEF WriterInv, WriterEnds, Untouched
  <2>3. WriterInv'
    BY <1>1, <2>1, <2>2, ThreadsMove DEF Writer!TypeOK, WriterStates
  <2>4. written' = written /\ ~(written' > written)
    BY <1>1, <2>1 DEF Untouched
  <2> QED
    BY <2>1, <2>3, <2>4
<1>3. ASSUME Writer!Next, ~Writer!WorkerWrite
      PROVE  WriterInv' /\ ~(written' > written)
  <2>1. CASE \E important, valid \in BOOLEAN : Writer!Accept(important)
    BY <1>1, <2>1, AcceptKeeps DEF Writer!Accept
  <2>2. CASE Writer!WorkerTake
    BY <1>1, <2>2, TakeKeeps DEF Writer!WorkerTake, Writer!stats
  <2>3. CASE Writer!Crash
    <3>1. written' = 0
      BY <2>3 DEF Writer!Crash
    <3> QED
      BY <1>1, <2>3, <3>1, CrashKeeps
  <2>4. CASE \/ \E important, valid \in BOOLEAN : Writer!Refuse(important, valid)
             \/ \E f \in Flushers : Writer!FlushEnter(f) \/ Writer!FlushStep(f)
             \/ Writer!Shutdown \/ Writer!ShutdownWake \/ Writer!ShutdownJoin
             \/ Writer!WorkerSleep \/ Writer!WorkerExit \/ Writer!WorkerNotify
    <3>1. written' = written
      BY <2>4 DEF Writer!Refuse, Writer!FlushEnter, Writer!FlushStep, Writer!FlushReturn,
                  Writer!FlushSleep, Writer!Shutdown, Writer!ShutdownWake, Writer!ShutdownJoin,
                  Writer!WorkerSleep, Writer!WorkerExit, Writer!WorkerNotify, Writer!stats
    <3> QED
      BY <1>1, <2>4, <3>1, QuietWriterKeeps
  <2> QED
    BY <1>3, <2>1, <2>2, <2>3, <2>4 DEF Writer!Next, Writer!WorkerStep
<1>4. Writer!FlushCoversRecords
  <2> SUFFICES ASSUME NEW f \in Flushers, Writer!FlushReturn(f)
               PROVE  /\ \A i \in DOMAIN queue : queue[i].seq > until[f]
                      /\ Writer!Writing => record.seq > until[f]
    BY DEF Writer!FlushCoversRecords
  <2>1. completed >= until[f] /\ until[f] \in Nat
    BY <1>1 DEF Writer!FlushReturn, Writer!TypeOK
  <2>2. /\ queue \in Seq(Writer!Records) /\ Len(queue) \in Nat /\ accepted \in Nat
        /\ completed \in Nat
    BY <1>1, WriterTypes
  <2>3. RecordsNumbered
    BY DEF WriterInv
  <2>4. \A i \in 1..Len(queue) : queue[i].seq > until[f]
    BY <2>1, <2>2, <2>3 DEF RecordsNumbered
  <2>5. Writer!Writing => record.seq > until[f]
    BY <2>1, <2>2, <2>3 DEF RecordsNumbered
  <2> QED
    BY <2>2, <2>4, <2>5
<1> QED
  BY <1>2, <1>3, <1>4, WriteKeeps

LEMMA RecordsHold ==
  ASSUME WriterInv
  PROVE  Writer!EveryRecordCounted /\ Writer!FilesIntact /\ Writer!ShutdownDrains
<1>1. WriterCounts /\ RecordsNumbered /\ WriterEnds /\ Writer!TypeOK
      /\ FilesInOrder(file, previous, base + completed)
  BY DEF WriterInv, WriterCounts
<1>2. /\ queue \in Seq(Writer!Records) /\ Len(queue) \in Nat /\ accepted \in Nat
      /\ completed \in Nat
  BY <1>1, WriterTypes
<1>3. Writer!EveryRecordCounted
  <2>1. {i \in DOMAIN queue : ~queue[i].important} = Ordinary(queue)
    BY <1>2 DEF Ordinary
  <2> QED
    BY <1>1, <2>1 DEF WriterCounts, Writer!EveryRecordCounted, Writer!Cardinality, Cardinality
<1>4. Writer!FilesIntact
  <2>1. /\ InOrder(file, base + completed) /\ InOrder(previous, base + completed)
        /\ Len(file) <= MaxLines
        /\ \A i \in 1..Len(previous), j \in 1..Len(file) :
             previous[i] # 0 /\ file[j] # 0 => previous[i] < file[j]
    BY <1>1 DEF FilesInOrder
  <2>2. /\ file \in Seq(Nat) /\ previous \in Seq(Nat) /\ Len(file) \in Nat /\ Len(previous) \in Nat
        /\ \A i \in 1..Len(file) : file[i] = 0 => i = Len(file)
        /\ \A i \in 1..Len(previous) : previous[i] = 0 => i = Len(previous)
        /\ \A i, j \in 1..Len(file) : i < j /\ file[j] # 0 => file[i] < file[j]
        /\ \A i, j \in 1..Len(previous) : i < j /\ previous[j] # 0 => previous[i] < previous[j]
    BY <2>1, LenProperties DEF InOrder
  <2>3. PICK lines : lines = previous \o file
    OBVIOUS
  <2>4. /\ lines \in Seq(Nat) /\ Len(lines) = Len(previous) + Len(file)
        /\ \A i \in 1..Len(lines) : lines[i] = IF i <= Len(previous) THEN previous[i]
                                               ELSE file[i - Len(previous)]
    BY ONLY <2>2, <2>3, Concatenation
  <2>5. ASSUME NEW i \in 1..Len(lines), NEW j \in 1..Len(lines), i < j, lines[i] # 0, lines[j] # 0
        PROVE  lines[i] < lines[j]
    <3>1. CASE j <= Len(previous)
      <4>1. /\ i \in 1..Len(previous) /\ j \in 1..Len(previous)
            /\ lines[i] = previous[i] /\ lines[j] = previous[j]
        BY <2>2, <2>4, <2>5, <3>1
      <4> QED
        BY <2>2, <2>5, <4>1
    <3>2. CASE i <= Len(previous) /\ j > Len(previous)
      <4>1. /\ i \in 1..Len(previous) /\ j - Len(previous) \in 1..Len(file)
            /\ lines[i] = previous[i] /\ lines[j] = file[j - Len(previous)]
        BY <2>2, <2>4, <2>5, <3>2
      <4> QED
        BY <2>1, <2>5, <4>1
    <3>3. CASE i > Len(previous)
      <4>0. /\ i \in Int /\ j \in Int /\ i > Len(previous) /\ i < j
            /\ j <= Len(previous) + Len(file) /\ Len(previous) \in Nat /\ Len(file) \in Nat
        BY <2>2, <2>4, <2>5, <3>3
      <4>1. /\ i - Len(previous) \in 1..Len(file) /\ j - Len(previous) \in 1..Len(file)
            /\ i - Len(previous) < j - Len(previous)
        BY ONLY <4>0
      <4>2. lines[i] = file[i - Len(previous)] /\ lines[j] = file[j - Len(previous)]
        BY ONLY <2>4, <4>0, i \in 1..Len(lines), j \in 1..Len(lines)
      <4> QED
        BY <2>2, <2>5, <4>1, <4>2
    <3> QED
      BY <2>2, <2>4, <3>1, <3>2, <3>3
  <2>6. DOMAIN lines = 1..Len(lines) /\ DOMAIN file = 1..Len(file) /\ DOMAIN previous = 1..Len(previous)
    BY <2>2, <2>4
  <2>7. \A i, j \in DOMAIN (previous \o file) :
          i < j /\ (previous \o file)[i] # 0 /\ (previous \o file)[j] # 0
            => (previous \o file)[i] < (previous \o file)[j]
    BY <2>3, <2>5, <2>6
  <2> QED
    BY <2>1, <2>2, <2>6, <2>7 DEF Writer!FilesIntact, Writer!Torn
<1>5. Writer!ShutdownDrains
  <2>1. ASSUME owner = "done"
        PROVE  queue = <<>> /\ completed = accepted
    <3>1. queue = <<>> /\ ~Writer!Writing
      BY <1>1, <2>1 DEF WriterEnds, Writer!Writing
    <3>2. completed = accepted - Len(queue) - 0 /\ Len(queue) = 0
      BY <1>1, <3>1 DEF RecordsNumbered
    <3> QED
      BY <1>2, <3>1, <3>2
  <2> QED
    BY <2>1 DEF Writer!ShutdownDrains
<1> QED
  BY <1>3, <1>4, <1>5

(* The diagnostic log: every record is counted once, the reserve for errors is kept, the
   files stay bounded, whole and in order through crashes, a flush covers what was
   accepted before it, losses are told, and the end drains the queue (DiagnosticWriter). *)
THEOREM RecordsAreKeptCorrect == StoresSpec => RecordsAreKept
<1>1. StoresInit => WriterInv
  BY WriterBegins DEF StoresInit
<1>2. [StoresNext]_storesVars => [Writer!Next]_(Writer!vars)
  BY DEF StoresNext, storesVars, writerVars, Writer!vars, Writer!stats, Writer!disk, Writer!history
<1>3. WriterInv /\ [Writer!Next]_(Writer!vars) => WriterInv'
  BY WriterStep
<1>4. WriterInv /\ [Writer!Next]_(Writer!vars) => [Writer!FlushCoversRecords]_at
  BY WriterStep
<1>5. WriterInv /\ [Writer!Next]_(Writer!vars) => [Writer!LossesAreTold]_writerVars
  BY WriterStep DEF Writer!LossesAreTold
<1>6. WriterInv => Writer!EveryRecordCounted /\ Writer!FilesIntact /\ Writer!ShutdownDrains
  BY RecordsHold
<1> QED
  BY <1>1, <1>2, <1>3, <1>4, <1>5, <1>6, PTL DEF StoresSpec, RecordsAreKept

-----------------------------------------------------------------------------
(* The statistics.  What a page shows of the table adds up: a statistic groups the rows that
   count by a key, and every row is in one group. *)

LEMMA StatsCardinality == \A S : Stats!Cardinality(S) = Cardinality(S)
BY DEF Stats!Cardinality, Cardinality, Stats!IsFiniteSet, IsFiniteSet

LEMMA SumOfPlays ==
  ASSUME NEW S, IsFiniteSet(S), NEW c, \A x \in S : c[x] = x.plays /\ c[x] \in Int
  PROVE  Stats!MapThenSumSet(LAMBDA item : item.plays, S) = Sum(c, S)
<1> DEFINE P(it) == it = [s \in SUBSET S |-> IF s = {} THEN 0
                            ELSE (CHOOSE x \in s : TRUE).plays + it[s \ {CHOOSE x \in s : TRUE}]]
<1>1. Stats!MapThenSumSet(LAMBDA item : item.plays, S) = (CHOOSE it : P(it))[S]
  BY Zenon DEF Stats!MapThenSumSet, Stats!MapThenFoldSet
<1>2. \A it : P(it) <=> SumOf(it, S, c)
  <2> SUFFICES ASSUME NEW it PROVE P(it) <=> SumOf(it, S, c)
    OBVIOUS
  <2> DEFINE body(s) == IF s = {} THEN 0 ELSE Some(s).plays + it[s \ {Some(s)}]
             other(s) == IF s = {} THEN 0 ELSE c[Some(s)] + it[s \ {Some(s)}]
  <2>1. \A s \in SUBSET S : s # {} => Some(s).plays = c[Some(s)]
    BY DEF Some
  <2>2. \A s \in SUBSET S : body(s) = other(s)
    BY <2>1
  <2>3. [s \in SUBSET S |-> body(s)] = [s \in SUBSET S |-> other(s)]
    <3> HIDE DEF body, other
    <3> QED
      BY <2>2
  <2> QED
    BY <2>3 DEF SumOf, Some
<1> HIDE DEF P
<1>3. PICK it : SumOf(it, S, c)
  BY SumOfExists
<1>4. P(CHOOSE jt : P(jt))
  BY <1>2, <1>3
<1>5. PICK jt : jt = CHOOSE kt : P(kt)
  OBVIOUS
<1>6. SumOf(jt, S, c)
  BY <1>2, <1>4, <1>5
<1>7. PICK ht : SumOf(ht, S, c) /\ Sum(c, S) = ht[S]
  BY SumIsSumOf
<1>8. ht[S] = jt[S]
  BY <1>6, <1>7, SumOfUnique
<1>9. (CHOOSE kt : P(kt))[S] = Sum(c, S)
  BY <1>5, <1>7, <1>8
<1> QED
  BY <1>1, <1>9, Zenon

LEMMA SumOfCounts ==
  ASSUME NEW S, IsFiniteSet(S), NEW c, \A x \in S : c[x] = x.count /\ c[x] \in Int
  PROVE  Stats!MapThenSumSet(LAMBDA item : item.count, S) = Sum(c, S)
<1> DEFINE P(it) == it = [s \in SUBSET S |-> IF s = {} THEN 0
                            ELSE (CHOOSE x \in s : TRUE).count + it[s \ {CHOOSE x \in s : TRUE}]]
<1>1. Stats!MapThenSumSet(LAMBDA item : item.count, S) = (CHOOSE it : P(it))[S]
  BY Zenon DEF Stats!MapThenSumSet, Stats!MapThenFoldSet
<1>2. \A it : P(it) <=> SumOf(it, S, c)
  <2> SUFFICES ASSUME NEW it PROVE P(it) <=> SumOf(it, S, c)
    OBVIOUS
  <2> DEFINE body(s) == IF s = {} THEN 0 ELSE Some(s).count + it[s \ {Some(s)}]
             other(s) == IF s = {} THEN 0 ELSE c[Some(s)] + it[s \ {Some(s)}]
  <2>1. \A s \in SUBSET S : s # {} => Some(s).count = c[Some(s)]
    BY DEF Some
  <2>2. \A s \in SUBSET S : body(s) = other(s)
    BY <2>1
  <2>3. [s \in SUBSET S |-> body(s)] = [s \in SUBSET S |-> other(s)]
    <3> HIDE DEF body, other
    <3> QED
      BY <2>2
  <2> QED
    BY <2>3 DEF SumOf, Some
<1> HIDE DEF P
<1>3. PICK it : SumOf(it, S, c)
  BY SumOfExists
<1>4. P(CHOOSE jt : P(jt))
  BY <1>2, <1>3
<1>5. PICK jt : jt = CHOOSE kt : P(kt)
  OBVIOUS
<1>6. SumOf(jt, S, c)
  BY <1>2, <1>4, <1>5
<1>7. PICK ht : SumOf(ht, S, c) /\ Sum(c, S) = ht[S]
  BY SumIsSumOf
<1>8. ht[S] = jt[S]
  BY <1>6, <1>7, SumOfUnique
<1>9. (CHOOSE kt : P(kt))[S] = Sum(c, S)
  BY <1>5, <1>7, <1>8
<1> QED
  BY <1>1, <1>9, Zenon

\* The plays of any of the groups are the rows of these groups.
ShownRows(rows, dim, since, shown) ==
  {i \in Stats!CountedRows(rows, since) : \E x \in shown : x.key = Stats!DimGroup(dim, rows[i])}

LEMMA TopAddsUp ==
  ASSUME NEW rows, NEW since, IsFiniteSet(Stats!CountedRows(rows, since)), NEW dim,
         NEW shown \in SUBSET Stats!Groups(rows, dim, since)
  PROVE  /\ Stats!MapThenSumSet(LAMBDA item : item.plays, shown)
              = Cardinality(ShownRows(rows, dim, since, shown))
         /\ Cardinality(shown)
              = Cardinality({Stats!DimGroup(dim, rows[i]) : i \in ShownRows(rows, dim, since, shown)})
         /\ IsFiniteSet(shown)
<1> DEFINE I == Stats!CountedRows(rows, since)
           top == Stats!Groups(rows, dim, since)
           of(i) == Stats!DimGroup(dim, rows[i])
           J == {i \in I : \E x \in shown : x.key = of(i)}
           key == [i \in J |-> of(i)]
           groups == {key[i] : i \in J}
           item == [g \in groups |-> [key |-> g, plays |-> Cardinality({i \in J : key[i] = g})]]
           c == [x \in shown |-> x.plays]
<1>1. groups = {of(i) : i \in J}
  OBVIOUS
<1>2. /\ \A x \in shown : x.key \in groups /\ x = item[x.key]
      /\ \A g \in groups : item[g] \in shown /\ item[g].key = g
                          /\ item[g].plays = Cardinality({i \in J : key[i] = g})
  <2>1. \A x \in top : \E i \in I : x = [key |-> of(i), plays |-> Cardinality({k \in I : of(k) = of(i)})]
    <3>1. top = {[key |-> g, plays |-> Cardinality({i \in I : of(i) = g})] : g \in {of(i) : i \in I}}
      BY StatsCardinality, Zenon DEF Stats!Groups
    <3> HIDE DEF top, I, of
    <3> QED
      BY <3>1
  <2>2. ASSUME NEW x \in shown
        PROVE  x.key \in groups /\ x = item[x.key]
    <3>1. PICK i \in I : x = [key |-> of(i), plays |-> Cardinality({k \in I : of(k) = of(i)})]
      BY <2>1
    <3>2. x.key = of(i) /\ i \in J
      BY <3>1
    <3>3. x.key \in groups
      BY <3>2, <1>1
    <3>4. {k \in I : of(k) = of(i)} = {k \in J : key[k] = x.key}
      <4> HIDE DEF I, of, groups, item
      <4> QED
        BY <3>2
    <3>5. item[x.key] = [key |-> x.key, plays |-> Cardinality({k \in J : key[k] = x.key})]
      <4> HIDE DEF groups, J, key
      <4> QED
        BY <3>3
    <3> HIDE DEF item, groups, J, key, of, I
    <3> QED
      BY <3>1, <3>2, <3>3, <3>4, <3>5
  <2>3. ASSUME NEW g \in groups
        PROVE  item[g] \in shown /\ item[g].key = g /\ item[g].plays = Cardinality({i \in J : key[i] = g})
    <3>1. PICK x \in shown : x.key = g
      BY <1>1
    <3>2. item[g] = [key |-> g, plays |-> Cardinality({i \in J : key[i] = g})]
      <4> HIDE DEF groups, J, key
      <4> QED
        OBVIOUS
    <3> HIDE DEF item, groups, J, key, of, I
    <3> QED
      BY <3>1, <3>2, <2>2
  <2> HIDE DEF item, groups, J, key, of, I
  <2> QED
    BY <2>2, <2>3
<1>3. \A g \in groups : c[item[g]] = Cardinality({i \in J : key[i] = g})
  <2> HIDE DEF item, groups, J, key, of, I
  <2> QED
    BY <1>2
<1>4. \A x \in shown : c[x] = x.plays
  OBVIOUS
<1>5. /\ IsFiniteSet(shown) /\ \A x \in shown : c[x] \in Int
      /\ Sum(c, shown) = Cardinality(J)
      /\ Cardinality(shown) = Cardinality(groups)
  <2>1. IsFiniteSet(J)
    BY FS_Subset
  <2>2. (\A i \in J : key[i] \in groups) /\ \A g \in groups : \E i \in J : key[i] = g
    OBVIOUS
  <2> HIDE DEF groups, key, J, item, c, I, of
  <2>3. /\ \A g, h \in groups : item[g] = item[h] => g = h
        /\ \A g \in groups : item[g] \in shown
        /\ \A x \in shown : \E g \in groups : x = item[g]
    BY <1>2
  <2>4. Grouping(J, key, groups, item, shown, c)
    BY <1>3, <2>2, <2>3 DEF Grouping
  <2> QED
    BY <2>1, <2>4, Grouped
<1> HIDE DEF c, item, key, groups
<1>6. Stats!MapThenSumSet(LAMBDA z : z.plays, shown) = Sum(c, shown)
  BY <1>4, <1>5, SumOfPlays
<1>7. J = ShownRows(rows, dim, since, shown)
  BY DEF ShownRows
<1> HIDE DEF J
<1> QED
  BY <1>1, <1>5, <1>6, <1>7, Zenon

\* A list of all the groups is of all the rows that count.
LEMMA AllGroupsShown ==
  ASSUME NEW rows, NEW since, IsFiniteSet(Stats!CountedRows(rows, since)), NEW dim
  PROVE  LET top == Stats!Groups(rows, dim, since) IN
         /\ IsFiniteSet(top)
         /\ Stats!MapThenSumSet(LAMBDA item : item.plays, top) = Cardinality(Stats!CountedRows(rows, since))
         /\ Cardinality(top)
              = Cardinality({Stats!DimGroup(dim, rows[i]) : i \in Stats!CountedRows(rows, since)})
<1> DEFINE I == Stats!CountedRows(rows, since)
           top == Stats!Groups(rows, dim, since)
           of(i) == Stats!DimGroup(dim, rows[i])
<1>1. ASSUME NEW i \in I PROVE \E x \in top : x.key = of(i)
  <2>1. [key |-> of(i), plays |-> Stats!Cardinality({k \in I : of(k) = of(i)})] \in top
    BY DEF Stats!Groups
  <2> HIDE DEF top, I, of
  <2> QED
    BY <2>1
<1>2. ShownRows(rows, dim, since, top) = I
  <2>1. ShownRows(rows, dim, since, top) = {i \in I : \E x \in top : x.key = of(i)}
    BY DEF ShownRows
  <2> HIDE DEF top, I, of
  <2> QED
    BY <1>1, <2>1
<1>3. top \in SUBSET top
  OBVIOUS
<1>4. /\ Stats!MapThenSumSet(LAMBDA item : item.plays, top) = Cardinality(ShownRows(rows, dim, since, top))
      /\ Cardinality(top) = Cardinality({of(i) : i \in ShownRows(rows, dim, since, top)})
      /\ IsFiniteSet(top)
  <2> HIDE DEF top
  <2>1. PICK shown : shown = top
    OBVIOUS
  <2>2. shown \in SUBSET Stats!Groups(rows, dim, since)
    BY <2>1, <1>3 DEF top
  <2>3. /\ Stats!MapThenSumSet(LAMBDA item : item.plays, shown) = Cardinality(ShownRows(rows, dim, since, shown))
        /\ Cardinality(shown) = Cardinality({of(i) : i \in ShownRows(rows, dim, since, shown)})
        /\ IsFiniteSet(shown)
    BY <2>2, TopAddsUp
  <2> QED
    BY <2>1, <2>3, Zenon
<1> QED
  BY <1>2, <1>4, Zenon

LEMMA TimelineAddsUp ==
  ASSUME NEW rows, NEW since, IsFiniteSet(Stats!CountedRows(rows, since))
  PROVE  Stats!MapThenSumSet(LAMBDA item : item.count, Stats!GetTimeline(rows, since))
           = Cardinality(Stats!CountedRows(rows, since))
<1> DEFINE I == Stats!CountedRows(rows, since)
           line == Stats!GetTimeline(rows, since)
           key == [i \in I |-> rows[i].at]
           groups == {key[i] : i \in I}
           item == [g \in groups |-> [day |-> g, count |-> Cardinality({i \in I : key[i] = g})]]
           c == [x \in line |-> x.count]
<1>1. groups = {rows[i].at : i \in I}
  OBVIOUS
<1>2. line = {item[g] : g \in groups}
  <2>1. \A g : {i \in I : rows[i].at = g} = {i \in I : key[i] = g}
    OBVIOUS
  <2>2. line = {[day |-> g, count |-> Cardinality({i \in I : rows[i].at = g})] : g \in groups}
    BY <1>1, StatsCardinality, Zenon DEF Stats!GetTimeline
  <2>3. \A g \in groups : item[g] = [day |-> g, count |-> Cardinality({i \in I : rows[i].at = g})]
    BY <2>1
  <2>4. \A x : x \in line <=> \E g \in groups : x = item[g]
    <3> HIDE DEF line, item, groups, I, key
    <3> QED
      BY <2>2, <2>3
  <2> HIDE DEF line, item, groups, I, key
  <2> QED
    BY <2>4
<1>3. \A g, h \in groups : item[g] = item[h] => g = h
  OBVIOUS
<1>4. \A g \in groups : c[item[g]] = Cardinality({i \in I : key[i] = g})
  <2>1. \A g \in groups : item[g].count = Cardinality({i \in I : key[i] = g}) /\ item[g] \in line
    BY <1>2
  <2> HIDE DEF line, item, groups, I, key
  <2> QED
    BY <2>1
<1>5. \A x \in line : c[x] = x.count
  OBVIOUS
<1>6. /\ IsFiniteSet(line) /\ \A x \in line : c[x] \in Int
      /\ Sum(c, line) = Cardinality(I)
  <2> HIDE DEF item, c
  <2>2. IsFiniteSet(I)
    OBVIOUS
  <2>4. (\A i \in I : key[i] \in groups) /\ \A g \in groups : \E i \in I : key[i] = g
    OBVIOUS
  <2> HIDE DEF groups, key, I, line
  <2>5. (\A g \in groups : item[g] \in line) /\ \A x \in line : \E g \in groups : x = item[g]
    BY <1>2
  <2>6. Grouping(I, key, groups, item, line, c)
    BY <1>3, <1>4, <2>4, <2>5 DEF Grouping
  <2> QED
    BY <2>2, <2>6, Grouped
<1> HIDE DEF line, c, item, key, groups
<1>7. Stats!MapThenSumSet(LAMBDA z : z.count, line) = Sum(c, line)
  BY <1>5, <1>6, SumOfCounts
<1> QED
  BY <1>6, <1>7, Zenon DEF line

\* The pages agree, whatever is in the table.
LEMMA StatisticsHold ==
  ASSUME NEW S, table \in Seq(S)
  PROVE  Stats!StatisticsAgree
<1> SUFFICES ASSUME NEW since \in {0, 2}
             PROVE  LET summary == Stats!GetSummary(table, since) IN
    /\ Stats!MapThenSumSet(LAMBDA item : item.count, Stats!GetTimeline(table, since)) = summary.plays
    /\ \A dim \in {"song", "album"}, limit \in -1..(kMaxStatsRows + 1) :
         \A shown \in Stats!GetTop(table, dim, since, limit) :
           LET plays == Stats!MapThenSumSet(LAMBDA item : item.plays, shown) IN
           /\ plays <= summary.plays
           /\ Stats!Cardinality(shown) < Stats!SafeLimit(limit) => plays = summary.plays
           /\ dim = "song" => /\ Stats!Cardinality(shown) <= summary.songs
                              /\ Stats!Cardinality(shown) = summary.songs => plays = summary.plays
  BY Zenon DEF Stats!StatisticsAgree
<1> DEFINE I == Stats!CountedRows(table, since)
<1>1. IsFiniteSet(I)
  <2>1. I \in SUBSET (1..Len(table)) /\ Len(table) \in Nat
    BY DEF Stats!CountedRows
  <2>2. IsFiniteSet(1..Len(table))
    BY <2>1, FS_Interval
  <2> HIDE DEF I
  <2> QED
    BY <2>1, <2>2, FS_Subset
<1>2. Stats!GetSummary(table, since).plays = Cardinality(I)
  <2>1. Stats!GetSummary(table, since).plays = Stats!Cardinality(I)
    BY DEF Stats!GetSummary, Stats!CountedRows
  <2> QED
    BY <2>1, StatsCardinality, Zenon
<1>3. Stats!MapThenSumSet(LAMBDA item : item.count, Stats!GetTimeline(table, since)) = Cardinality(I)
  BY <1>1, TimelineAddsUp, Zenon
<1>4. Stats!GetSummary(table, since).songs = Cardinality(Stats!Groups(table, "song", since))
  <2>1. Cardinality(Stats!Groups(table, "song", since))
          = Cardinality({Stats!DimGroup("song", table[i]) : i \in I})
    BY <1>1, AllGroupsShown, Zenon
  <2>2. {Stats!DimGroup("song", table[i]) : i \in I} = {table[i].song : i \in I}
    BY DEF Stats!DimGroup
  <2>3. Stats!GetSummary(table, since).songs = Stats!Cardinality({table[i].song : i \in I})
    BY DEF Stats!GetSummary
  <2> QED
    BY <2>1, <2>2, <2>3, StatsCardinality, Zenon
<1>5. ASSUME NEW dim, NEW limit, NEW shown \in Stats!GetTop(table, dim, since, limit)
      PROVE  LET plays == Stats!MapThenSumSet(LAMBDA item : item.plays, shown)
                 top == Stats!Groups(table, dim, since) IN
             /\ plays <= Cardinality(I)
             /\ Cardinality(shown) < Stats!SafeLimit(limit) => plays = Cardinality(I)
             /\ Cardinality(shown) <= Cardinality(top)
             /\ Cardinality(shown) = Cardinality(top) => plays = Cardinality(I)
  <2> DEFINE top == Stats!Groups(table, dim, since)
             plays == Stats!MapThenSumSet(LAMBDA item : item.plays, shown)
             shownRows == ShownRows(table, dim, since, shown)
  <2>1. /\ shown \in SUBSET top
        /\ Cardinality(shown) = IF Cardinality(top) < Stats!SafeLimit(limit)
                                THEN Cardinality(top) ELSE Stats!SafeLimit(limit)
    BY StatsCardinality, Zenon DEF Stats!GetTop
  <2>2. plays = Cardinality(shownRows)
    <3>1. PICK list : list = shown
      OBVIOUS
    <3>2. list \in SUBSET Stats!Groups(table, dim, since)
      BY <2>1, <3>1
    <3>3. /\ Stats!MapThenSumSet(LAMBDA item : item.plays, list) = Cardinality(ShownRows(table, dim, since, list))
          /\ Cardinality(list)
               = Cardinality({Stats!DimGroup(dim, table[i]) : i \in ShownRows(table, dim, since, list)})
          /\ IsFiniteSet(list)
      BY <1>1, <3>2, TopAddsUp
    <3> QED
      BY <3>1, <3>3, Zenon
  <2>3. Cardinality(shownRows) <= Cardinality(I)
    BY <1>1, FS_Subset DEF ShownRows
  <2>4. /\ IsFiniteSet(top)
        /\ Stats!MapThenSumSet(LAMBDA item : item.plays, top) = Cardinality(I)
    BY <1>1, AllGroupsShown, Zenon
  <2> HIDE DEF top, plays, shownRows, I
  <2>5. Cardinality(shown) <= Cardinality(top) /\ (Cardinality(shown) = Cardinality(top) => shown = top)
    BY <2>1, <2>4, FS_Subset
  <2>6. shown = top => plays = Cardinality(I)
    BY <2>4, Zenon DEF plays
  <2>7. Cardinality(shown) < Stats!SafeLimit(limit) => Cardinality(shown) = Cardinality(top)
    BY <2>1, <2>4, FS_CardinalityType, FS_Subset DEF Stats!SafeLimit
  <2> QED
    BY <2>2, <2>3, <2>5, <2>6, <2>7 DEF plays, top
<1> HIDE DEF I
<1> QED
  BY <1>2, <1>3, <1>4, <1>5, StatsCardinality, Zenon

-----------------------------------------------------------------------------
(* The listens.  A record on its way is of a session that was heard for that long; the
   table has a session once, and one of the archive only when its row counts; and an import
   that is at row n has brought all that count before it into the table. *)

Read == Stats!read(Archive)
\* The player, field by field.
ListenOk(s) ==
  /\ DOMAIN s = {"id", "song", "listened", "previous", "playing", "started", "finalized", "at"}
  /\ s.id \in 0..MaxListens /\ s.song = s1 /\ s.listened \in Nat /\ s.previous \in Int
  /\ s.playing \in BOOLEAN /\ s.started \in BOOLEAN /\ s.finalized \in BOOLEAN /\ s.at \in Nat
  /\ s.id = 0 => s.finalized /\ ~s.playing
  /\ s.playing => ~s.finalized
  /\ s.playing => s.previous = -1 \/ s.previous = s.at
WorldOk(w) ==
  /\ DOMAIN w = {"heard", "sessions", "imports", "trouble"}
  /\ w.heard \in [1..MaxListens -> Nat] /\ w.sessions \in 0..MaxListens
  /\ w.imports \in Nat /\ w.trouble \in Nat
ListenInv ==
  /\ ListenOk(session) /\ WorldOk(world)
  /\ session.id # 0 => session.listened <= world.heard[session.id]
Heard(r) ==
  \E n \in 1..MaxListens : r.session = <<"listen", n>> /\ r.seconds \in Nat /\ r.seconds <= world.heard[n]
SentInv == \A r \in sent : Heard(r)
TableInv ==
  /\ \E S : table \in Seq(S)
  /\ OneListen(table)
  /\ \A i \in DOMAIN table, k \in DOMAIN Archive :
       table[i].session = Read[k].session => Counting(Archive[k])
MergedUpTo(n) ==
  \A k \in DOMAIN Archive : k < n /\ Counting(Archive[k]) =>
    \E i \in DOMAIN table : table[i].session = Read[k].session
ImportOk(m) ==
  /\ DOMAIN m = {"phase", "next", "stopped", "whole"}
  /\ m.phase \in {"idle", "reading", "merging"} /\ m.next \in Nat \ {0}
  /\ m.stopped \in BOOLEAN /\ m.whole \in BOOLEAN
  /\ m.phase = "reading" => m.next = 1
  /\ m.whole => m.phase = "idle"
ImportInv ==
  /\ ImportOk(import)
  /\ import.phase = "merging" => import.next <= Len(Archive) + 1 /\ MergedUpTo(import.next)
  /\ import.whole => MergedUpTo(Len(Archive) + 1)
StatsInv == ListenInv /\ SentInv /\ TableInv /\ ImportInv

LEMMA ArchiveRows ==
  /\ Len(Archive) \in Nat /\ DOMAIN Archive = 1..Len(Archive)
  /\ \A k \in DOMAIN Archive :
       /\ Read[k].seconds = Archive[k].seconds /\ Read[k].at = Archive[k].at
       /\ Archive[k].seconds \in Nat /\ Archive[k].at \in Nat
       /\ Read[k].session # NoSession
       /\ \A l \in DOMAIN Archive : Read[k].session = Read[l].session => k = l
       /\ ~Counting(Archive[k]) => Read[k].session \notin Listens
<1>1. Len(Archive) \in Nat /\ DOMAIN Archive = 1..Len(Archive)
  BY ArchiveAssumption DEF IsList
<1>2. DOMAIN Read = DOMAIN Archive
  BY DEF Read, Stats!read
<1>3. ASSUME NEW k \in DOMAIN Archive
      PROVE  Read[k].seconds = Archive[k].seconds /\ Read[k].at = Archive[k].at
  <2>1. PICK row : row = Archive[k] /\ row = Row(row.session, row.song, row.album, row.seconds, row.at)
    BY <1>3, ArchiveAssumption
  <2>2. Read[k] = [row EXCEPT !.session = IF @ = NoSession THEN <<"legacy", row, k>> ELSE @]
    BY <2>1 DEF Read, Stats!read, Stats!canonical
  <2>3. DOMAIN row = {"session", "song", "album", "seconds", "at"}
    BY <2>1 DEF Row
  <2>4. PICK new : Read[k] = [row EXCEPT !.session = new]
    BY <2>2
  <2> QED
    BY <2>1, <2>3, <2>4
<1>4. ASSUME NEW k \in DOMAIN Archive PROVE Archive[k].seconds \in Nat /\ Archive[k].at \in Nat
  BY <1>4, ArchiveAssumption
<1>5. ASSUME NEW k \in DOMAIN Archive
      PROVE  /\ Read[k].session # NoSession
             /\ \A l \in DOMAIN Archive : Read[k].session = Read[l].session => k = l
  BY <1>2, <1>5, ArchiveAssumption DEF OneListen, Sessions, Read
<1>6. ASSUME NEW k \in DOMAIN Archive PROVE ~Counting(Archive[k]) => Read[k].session \notin Listens
  BY <1>6, TablesAssumption DEF Read
<1> QED
  BY <1>1, <1>3, <1>4, <1>5, <1>6

\* What becomes of a table t when r is recorded: the table u.
RecordLands(t, r, u) ==
  /\ \E T : u \in Seq(T)
  /\ OneListen(u)
  /\ \A i \in DOMAIN t : i \in DOMAIN u /\ u[i] = t[i]
  /\ \A i \in DOMAIN u : (i \in DOMAIN t /\ u[i] = t[i]) \/ (u[i] = r /\ ~(r.seconds <= CountedSeconds))
  /\ r.session # NoSession /\ ~(r.seconds <= CountedSeconds)
       => \E i \in DOMAIN u : u[i].session = r.session

LEMMA Recorded ==
  ASSUME NEW S, NEW t, t \in Seq(S), OneListen(t), NEW r, NEW u, u = Stats!RecordPlay(t, r)
  PROVE  RecordLands(t, r, u)
<1>1. CASE u = t
  <2>1. r.session # NoSession /\ ~(r.seconds <= CountedSeconds)
          => \E i \in DOMAIN u : u[i].session = r.session
    <3>1. Stats!RecordStatus(t, r) = "Recorded" => t = Append(t, r)
      BY <1>1 DEF Stats!RecordPlay
    <3>2. t # Append(t, r)
      <4>1. Len(Append(t, r)) = Len(t) + 1 /\ Len(t) \in Nat
        BY AppendProperties
      <4> QED
        BY <4>1
    <3> QED
      BY <1>1, <3>1, <3>2 DEF Stats!RecordStatus
  <2> QED
    BY <1>1, <2>1 DEF RecordLands
<1>2. CASE u # t
  <2>1. u = Append(t, r) /\ Stats!RecordStatus(t, r) = "Recorded"
    BY <1>2 DEF Stats!RecordPlay
  <2>2. /\ ~(r.seconds <= CountedSeconds)
        /\ r.session = NoSession \/ \A i \in DOMAIN t : t[i].session # r.session
    BY <2>1 DEF Stats!RecordStatus
  <2>3. PICK T : T = S \cup {r}
    OBVIOUS
  <2>4. t \in Seq(T) /\ r \in T
    BY <2>3
  <2>5. /\ u \in Seq(T) /\ Len(u) = Len(t) + 1 /\ Len(t) \in Nat /\ u[Len(t) + 1] = r
        /\ \A i \in 1..Len(t) : u[i] = t[i]
    BY <2>1, <2>4, AppendProperties
  <2>6. DOMAIN u = 1..(Len(t) + 1) /\ DOMAIN t = 1..Len(t)
    BY <2>5
  <2>7. /\ \A i \in DOMAIN t : i \in DOMAIN u /\ u[i] = t[i]
        /\ \A i \in DOMAIN u : i \in DOMAIN t \/ i = Len(t) + 1
        /\ Len(t) + 1 \in DOMAIN u
    BY <2>5, <2>6
  <2>8. OneListen(u)
    BY <2>2, <2>5, <2>7 DEF OneListen
  <2> QED
    BY <2>2, <2>5, <2>7, <2>8 DEF RecordLands
<1> QED
  BY <1>1, <1>2

LEMMA TableKept ==
  ASSUME TableInv, NEW r, r.seconds \in Nat, table' = Stats!RecordPlay(table, r),
         \A k \in DOMAIN Archive :
           r.session = Read[k].session /\ r.seconds > CountedSeconds => Counting(Archive[k])
  PROVE  /\ TableInv'
         /\ \A i \in DOMAIN table : i \in DOMAIN table' /\ table'[i] = table[i]
         /\ r.session # NoSession /\ r.seconds > CountedSeconds
              => \E i \in DOMAIN table' : table'[i].session = r.session
<1>1. PICK S : table \in Seq(S)
  BY DEF TableInv
<1>2. CountedSeconds \in Nat
  BY NumbersAssumption
<1>3. r.seconds > CountedSeconds <=> ~(r.seconds <= CountedSeconds)
  BY <1>2
<1>4. OneListen(table)
  BY DEF TableInv
<1>5. RecordLands(table, r, table')
  BY <1>1, <1>4, Recorded
<1>6. \A i \in DOMAIN table', k \in DOMAIN Archive :
        table'[i].session = Read[k].session => Counting(Archive[k])
  BY <1>3, <1>5 DEF TableInv, RecordLands
<1>7. OneListen(table)' <=> OneListen(table')
  BY DEF OneListen
<1>8. TableInv'
  BY <1>5, <1>6, <1>7 DEF TableInv, RecordLands, Read, Stats!read, Stats!canonical, Counting
<1> QED
  BY <1>3, <1>5, <1>8 DEF RecordLands

LEMMA ImportKept ==
  ASSUME ImportInv, UNCHANGED import,
         \A i \in DOMAIN table : i \in DOMAIN table' /\ table'[i] = table[i]
  PROVE  ImportInv'
<1>1. Read' = Read /\ \A k : Counting(Archive[k])' <=> Counting(Archive[k])
  BY DEF Read, Stats!read, Stats!canonical, Counting
<1>2. ASSUME MergedUpTo(import.next) PROVE MergedUpTo(import.next)'
  BY <1>1, <1>2 DEF MergedUpTo
<1>3. ASSUME MergedUpTo(Len(Archive) + 1) PROVE MergedUpTo(Len(Archive) + 1)'
  BY <1>1, <1>3 DEF MergedUpTo
<1> QED
  BY <1>2, <1>3 DEF ImportInv, ImportOk

-----------------------------------------------------------------------------
(* Playing, seeking and the end of a song keep what the player measured below what was heard. *)

\* The record of a finished listen.
LEMMA FinishedAre == ASSUME ListenInv PROVE \A r \in Stats!Finished(session) : Heard(r)
<1> SUFFICES ASSUME NEW r, r \in Stats!Finished(session) PROVE Heard(r)
  OBVIOUS
<1>1. /\ ~session.finalized
      /\ r = [session |-> <<"listen", session.id>>, song |-> session.song, album |-> NoAlbum,
              seconds |-> session.listened, at |-> session.id]
  BY DEF Stats!Finished
<1>2. session.id \in 1..MaxListens /\ session.listened \in Nat /\ session.listened <= world.heard[session.id]
  BY <1>1, NumbersAssumption DEF ListenInv, ListenOk
<1>3. r.session = <<"listen", session.id>> /\ r.seconds = session.listened
  BY <1>1
<1> QED
  BY <1>2, <1>3 DEF Heard

\* What was heard only grows.
Grows == \A n \in 1..MaxListens : world.heard[n] \in Nat /\ world'.heard[n] \in Nat
                                    /\ world.heard[n] <= world'.heard[n]
LEMMA HeardKept == ASSUME Grows, NEW r, Heard(r) PROVE \E n \in 1..MaxListens :
      r.session = <<"listen", n>> /\ r.seconds \in Nat /\ r.seconds <= world'.heard[n]
<1>1. PICK n : n \in 1..MaxListens /\ r.session = <<"listen", n>> /\ r.seconds \in Nat /\ r.seconds <= world.heard[n]
  BY DEF Heard
<1>2. world.heard[n] \in Nat /\ world'.heard[n] \in Nat /\ world.heard[n] <= world'.heard[n]
  BY <1>1 DEF Grows
<1>3. PICK k, h, h2 : k = r.seconds /\ h = world.heard[n] /\ h2 = world'.heard[n]
  OBVIOUS
<1>4. k \in Nat /\ h \in Nat /\ h2 \in Nat /\ k <= h /\ h <= h2
  BY <1>1, <1>2, <1>3
<1>5. k <= h2
  BY ONLY <1>4
<1> QED
  BY <1>1, <1>3, <1>5

LEMMA SentKept ==
  ASSUME ListenInv, SentInv, sent' \subseteq sent \cup Stats!Finished(session), Grows
  PROVE  SentInv'
<1>1. \A r \in sent' : Heard(r)
  BY FinishedAre DEF SentInv
<1> QED
  BY <1>1, HeardKept DEF SentInv, Heard

LEMMA SameHeard == ASSUME ListenInv, world'.heard = world.heard PROVE Grows
<1>1. \A n \in 1..MaxListens : world.heard[n] \in Nat
  BY DEF ListenInv, WorldOk
<1> QED
  BY <1>1 DEF Grows

LEMMA IntendStep == ASSUME ListenInv, SentInv, NEW s, s = s1, Stats!Intend(s) PROVE ListenInv' /\ SentInv'
<1> USE NumbersAssumption
<1>1. /\ session' = [session EXCEPT !.finalized = FALSE, !.playing = FALSE, !.id = world.sessions + 1,
                     !.song = s1, !.listened = 0, !.previous = -1, !.started = FALSE, !.at = 0]
      /\ world.sessions < MaxListens
      /\ world' = [world EXCEPT !.sessions = world.sessions + 1]
      /\ sent' = sent \cup Stats!Finished(session)
  BY DEF Stats!Intend, Stats!intend, Stats!finish, ListenInv, ListenOk
<1>2. WorldOk(world') /\ world'.heard = world.heard /\ world.heard \in [1..MaxListens -> Nat]
      /\ world.sessions + 1 \in 1..MaxListens
  BY <1>1 DEF ListenInv, WorldOk
<1>3. ListenOk(session') /\ session'.listened = 0
  BY <1>1, <1>2 DEF ListenInv, ListenOk
<1>4. session'.id # 0 => session'.listened <= world'.heard[session'.id]
  BY <1>2, <1>3 DEF ListenOk
<1>5. SentInv'
  BY <1>1, <1>2, SentKept, SameHeard
<1> QED
  BY <1>2, <1>3, <1>4, <1>5 DEF ListenInv, ListenOk, WorldOk

LEMMA PauseStep == ASSUME ListenInv, SentInv, Stats!PlayOrPause PROVE ListenInv' /\ SentInv'
<1>1. session.id # 0 /\ session' = Stats!setPlaying(session, ~session.playing) /\ world' = world /\ sent' = sent
  BY DEF Stats!PlayOrPause
<1>2. ListenOk(session') /\ session'.id = session.id /\ session'.listened = session.listened
  <2>1. CASE session.finalized
    BY <1>1, <2>1 DEF Stats!setPlaying, ListenInv
  <2>2. CASE ~session.finalized
    <3>1. PICK p, q, b : /\ session' = [session EXCEPT !.playing = b, !.previous = p, !.started = q]
                         /\ b = ~session.playing /\ p = (IF b THEN session.at ELSE -1) /\ q = (session.started \/ b)
      BY <1>1, <2>2 DEF Stats!setPlaying, ListenInv, ListenOk
    <3>2. ListenOk(session)
      BY DEF ListenInv
    <3>3. b \in BOOLEAN /\ q \in BOOLEAN /\ p \in Int /\ (b => p = session.at)
      BY <3>1, <3>2 DEF ListenOk
    <3> QED
      BY ONLY <1>1, <2>2, <3>1, <3>2, <3>3 DEF ListenOk
  <2> QED
    BY <2>1, <2>2
<1>3. SentInv'
  BY <1>1 DEF SentInv, Heard
<1> QED
  BY <1>1, <1>2, <1>3 DEF ListenInv, ListenOk, WorldOk

LEMMA EndStep == ASSUME ListenInv, SentInv, Stats!EndOfMedia PROVE ListenInv' /\ SentInv'
<1>1. /\ session' = [session EXCEPT !.finalized = TRUE, !.playing = FALSE]
      /\ world' = world /\ sent' = sent \cup Stats!Finished(session)
  BY DEF Stats!EndOfMedia, Stats!finish
<1>2. ListenOk(session') /\ session'.id = session.id /\ session'.listened = session.listened
  BY <1>1 DEF ListenInv, ListenOk
<1>3. SentInv'
  BY <1>1, SentKept, SameHeard
<1> QED
  BY <1>1, <1>2, <1>3 DEF ListenInv, ListenOk, WorldOk

LEMMA PlaysStep ==
  ASSUME ListenInv, SentInv, NEW delta, delta \in Nat, Stats!Plays(delta) PROVE ListenInv' /\ SentInv'
<1>0. ListenOk(session) /\ WorldOk(world)
  BY DEF ListenInv
<1>1. /\ session.playing /\ ~session.finalized /\ sent' = sent
      /\ session' = Stats!position(session, session.at + delta)
      /\ world' = [world EXCEPT !.heard = [world.heard EXCEPT ![session.id] = @ + delta]]
  BY <1>0 DEF Stats!Plays, ListenOk
<1>2. /\ session.id \in 1..MaxListens /\ session.at \in Nat /\ session.listened \in Nat
      /\ session.previous = -1 \/ session.previous = session.at
      /\ session.listened <= world.heard[session.id] /\ world.heard[session.id] \in Nat
  BY <1>0, <1>1, NumbersAssumption DEF ListenOk, ListenInv, WorldOk
<1>3. PICK at0, ls, pr, hd : at0 = session.at /\ ls = session.listened /\ pr = session.previous
                              /\ hd = world.heard[session.id]
  OBVIOUS
<1>4. PICK new, step : new = session.at + delta /\ step = new - session.previous
  OBVIOUS
<1>5. PICK more : more = (IF Stats!SteadyStep(session, step) THEN ls + step ELSE ls)
  OBVIOUS
<1>6. more \in Nat /\ more <= hd + delta /\ hd + delta \in Nat /\ hd <= hd + delta
      /\ new \in Nat /\ new \in Int
  <2>1. /\ more = ls \/ (more = ls + step /\ pr >= 0)
        /\ new = at0 + delta /\ step = new - pr
        /\ ls \in Nat /\ hd \in Nat /\ ls <= hd /\ at0 \in Nat /\ delta \in Nat /\ (pr = -1 \/ pr = at0)
    BY <1>2, <1>3, <1>4, <1>5 DEF Stats!SteadyStep
  <2> QED
    BY ONLY <2>1
<1>7. ListenOk(session') /\ session'.id = session.id /\ session'.listened = more
  <2>1. PICK moved : moved = [session EXCEPT !.at = new]
    OBVIOUS
  <2>2. moved.listened = ls
    BY <1>0, <1>3, <2>1 DEF ListenOk
  <2>3. session' = Stats!position(session, new)
    BY <1>1, <1>4
  <2>4. session' = [moved EXCEPT !.previous = new,
                      !.listened = IF Stats!SteadyStep(session, new - session.previous)
                                   THEN @ + (new - session.previous) ELSE @]
    BY <1>1, <2>1, <2>3 DEF Stats!position
  <2>5. session' = [moved EXCEPT !.previous = new,
                      !.listened = IF Stats!SteadyStep(session, step) THEN @ + step ELSE @]
    BY <1>4, <2>4, Zenon
  <2>6. PICK l : l = (IF Stats!SteadyStep(session, step) THEN moved.listened + step ELSE moved.listened)
                 /\ session' = [moved EXCEPT !.previous = new, !.listened = l]
    BY <2>5
  <2>7. l = more
    BY <1>5, <2>2, <2>6, Zenon
  <2>8. session' = [moved EXCEPT !.previous = new, !.listened = more]
    BY <2>6, <2>7
  <2>9. ListenOk(session) /\ session.playing /\ ~session.finalized /\ more \in Nat /\ new \in Nat /\ new \in Int
    BY <1>0, <1>1, <1>6
  <2> QED
    BY ONLY <2>1, <2>8, <2>9 DEF ListenOk
<1>8. PICK heard : heard = [world.heard EXCEPT ![session.id] = hd + delta]
  OBVIOUS
<1>9. /\ world' = [world EXCEPT !.heard = heard] /\ world'.heard = heard
      /\ heard \in [1..MaxListens -> Nat] /\ heard[session.id] = hd + delta
  <2>1. PICK more2 : more2 = hd + delta /\ more2 \in Nat
    BY <1>6
  <2>2. heard = [world.heard EXCEPT ![session.id] = more2]
    BY <1>8, <2>1
  <2>3. world' = [world EXCEPT !.heard = heard]
    <3>1. heard = [world.heard EXCEPT ![session.id] = @ + delta]
      BY <1>3, <1>8
    <3> QED
      BY <1>1, <3>1
  <2>4. world'.heard = heard
    BY <1>0, <2>3 DEF WorldOk
  <2> QED
    BY <1>0, <1>2, <2>1, <2>2, <2>3, <2>4 DEF WorldOk
<1>10. WorldOk(world')
  BY ONLY <1>0, <1>9 DEF WorldOk
<1>11. Grows
  <2> SUFFICES ASSUME NEW n, n \in 1..MaxListens
               PROVE  world.heard[n] \in Nat /\ world'.heard[n] \in Nat /\ world.heard[n] <= world'.heard[n]
    BY DEF Grows
  <2>1. CASE n = session.id
    BY <1>2, <1>3, <1>6, <1>9, <2>1
  <2>2. CASE n # session.id
    <3>1. world'.heard[n] = world.heard[n] /\ world.heard[n] \in Nat
      BY <1>0, <1>8, <1>9, <2>2 DEF WorldOk
    <3>2. PICK h : h = world.heard[n]
      OBVIOUS
    <3>3. h \in Nat /\ h <= h
      BY <3>1, <3>2
    <3> QED
      BY <3>1, <3>2, <3>3
  <2> QED
    BY <2>1, <2>2
<1>12. SentInv'
  BY <1>1, <1>11, SentKept
<1> QED
  BY <1>6, <1>7, <1>9, <1>10, <1>12 DEF ListenInv, ListenOk, WorldOk

LEMMA SeekStep == ASSUME ListenInv, SentInv, NEW to, to \in Nat, Stats!Seek(to) PROVE ListenInv' /\ SentInv'
<1>0. ListenOk(session)
  BY DEF ListenInv
<1>1. session' = Stats!position(Stats!seek(session), to) /\ world' = world /\ sent' = sent
  BY DEF Stats!Seek
<1>2. PICK sought : sought = [session EXCEPT !.previous = -1]
  OBVIOUS
<1>3. /\ ListenOk(sought) /\ sought.previous = -1 /\ sought.id = session.id /\ sought.listened = session.listened
      /\ session' = Stats!position(sought, to)
  BY <1>0, <1>1, <1>2 DEF ListenOk, Stats!seek
<1>4. PICK moved : moved = [sought EXCEPT !.at = to]
  OBVIOUS
<1>5. ListenOk(moved) /\ moved.previous = -1 /\ moved.id = session.id /\ moved.listened = session.listened
      /\ moved.at = to /\ moved.playing = sought.playing /\ moved.finalized = sought.finalized
  BY ONLY <1>3, <1>4, to \in Nat DEF ListenOk
<1>6. ~Stats!SteadyStep(sought, to - sought.previous)
  BY <1>3 DEF Stats!SteadyStep
<1>7. session' = moved \/ (session' = [moved EXCEPT !.previous = to, !.listened = moved.listened] /\ ~moved.finalized)
  BY <1>3, <1>4, <1>5, <1>6 DEF Stats!position
<1>8. ListenOk(session') /\ session'.id = session.id /\ session'.listened = session.listened
  <2>1. PICK l : l = moved.listened
    OBVIOUS
  <2>2. to \in Nat /\ to \in Int
    OBVIOUS
  <2>3. session' = moved \/ (session' = [moved EXCEPT !.previous = to, !.listened = l] /\ ~moved.finalized)
    BY <1>7, <2>1
  <2> QED
    BY ONLY <1>5, <2>1, <2>2, <2>3 DEF ListenOk
<1>9. SentInv'
  BY <1>1 DEF SentInv, Heard
<1> QED
  BY <1>1, <1>8, <1>9 DEF ListenInv, ListenOk, WorldOk

LEMMA NoListenIs ==
  Stats!NoListen = [id |-> 0, song |-> s1, listened |-> 0, previous |-> -1,
             playing |-> FALSE, started |-> FALSE, finalized |-> TRUE, at |-> 0]
<1>1. (CHOOSE s \in {s1} : TRUE) = s1
  OBVIOUS
<1> QED
  BY <1>1, Zenon DEF Stats!NoListen

LEMMA RestartStep == ASSUME ListenInv, SentInv, Stats!Restart PROVE ListenInv' /\ SentInv'
<1>2. session' = Stats!NoListen /\ sent' = {} /\ world' = [world EXCEPT !.trouble = @ + 1]
  BY DEF Stats!Restart
<1>3. ListenOk(session') /\ session'.id = 0
  BY <1>2, NoListenIs, NumbersAssumption DEF ListenOk
<1>4. WorldOk(world')
  BY <1>2 DEF ListenInv, WorldOk
<1>5. SentInv'
  BY <1>2 DEF SentInv
<1> QED
  BY <1>3, <1>4, <1>5 DEF ListenInv, ListenOk, WorldOk

LEMMA OtherSteps ==
  ASSUME ListenInv, SentInv, session' = session, sent' \subseteq sent, WorldOk(world'), world'.heard = world.heard
  PROVE  ListenInv' /\ SentInv'
<1>1. SentInv'
  BY SentKept, SameHeard
<1> QED
  BY <1>1 DEF ListenInv, ListenOk, WorldOk

LEMMA ListenStep ==
  ASSUME ListenInv, SentInv, [Stats!PlayStatsNext]_statsVars
  PROVE  ListenInv' /\ SentInv'
<1>1. ASSUME NEW s \in {s1}, Stats!Intend(s) PROVE ListenInv' /\ SentInv'
  BY <1>1, IntendStep
<1>2. ASSUME NEW delta \in 1..JumpTicks, Stats!Plays(delta) PROVE ListenInv' /\ SentInv'
  BY <1>2, PlaysStep, NumbersAssumption
<1>3. ASSUME NEW to \in 0..LastTick, Stats!Seek(to) PROVE ListenInv' /\ SentInv'
  BY <1>3, SeekStep, NumbersAssumption
<1>4. ASSUME NEW r \in sent, Stats!Record(r) PROVE ListenInv' /\ SentInv'
  <2>1. session' = session /\ sent' \subseteq sent
        /\ (world' = world \/ world' = [world EXCEPT !.trouble = @ + 1])
    BY <1>4 DEF Stats!Record
  <2>2. WorldOk(world') /\ world'.heard = world.heard
    BY <2>1 DEF ListenInv, WorldOk
  <2> QED
    BY <2>1, <2>2, OtherSteps
<1>5. ASSUME \/ Stats!importStatistics \/ Stats!Backup \/ Stats!Unreadable \/ Stats!Merge
             \/ Stats!Merged \/ Stats!cancelStatistics
      PROVE  ListenInv' /\ SentInv'
  <2>1. session' = session /\ sent' = sent
        /\ \/ world' = world
           \/ world' = [world EXCEPT !.trouble = @ + 1]
           \/ world' = [world EXCEPT !.imports = @ + 1]
    BY <1>5 DEF Stats!importStatistics, Stats!Backup, Stats!Unreadable, Stats!Merge,
                Stats!Merged, Stats!cancelStatistics
  <2>2. WorldOk(world') /\ world'.heard = world.heard
    BY <2>1 DEF ListenInv, WorldOk
  <2> QED
    BY <2>1, <2>2, OtherSteps
<1>6. ASSUME UNCHANGED statsVars PROVE ListenInv' /\ SentInv'
  BY <1>6, OtherSteps DEF statsVars, ListenInv
<1> QED
  BY <1>1, <1>2, <1>3, <1>4, <1>5, <1>6, PauseStep, EndStep, RestartStep DEF Stats!PlayStatsNext

-----------------------------------------------------------------------------
(* Records and rows reach the table, and no import forgets where it was. *)

LEMMA ReadIsConstant ==
  /\ Read' = Read /\ \A k : Counting(Archive[k])' <=> Counting(Archive[k])
BY DEF Read, Stats!read, Stats!canonical, Counting

LEMMA TableStays == ASSUME TableInv, table' = table PROVE TableInv'
BY ReadIsConstant DEF TableInv, OneListen

LEMMA MergedStays ==
  ASSUME NEW n, MergedUpTo(n), \A i \in DOMAIN table : i \in DOMAIN table' /\ table'[i] = table[i]
  PROVE  \A k \in DOMAIN Archive : k < n /\ Counting(Archive[k]) =>
           \E i \in DOMAIN table' : table'[i].session = Read[k].session
BY DEF MergedUpTo

\* An import that ends as it began, or goes on from where it was.
LEMMA ImportGoesOn ==
  ASSUME ImportInv, table' = table, ImportOk(import'),
         import'.phase = "merging" => import'.next <= Len(Archive) + 1 /\ MergedUpTo(import'.next),
         import'.whole => MergedUpTo(Len(Archive) + 1)
  PROVE  ImportInv'
<1>1. ASSUME MergedUpTo(import'.next) PROVE MergedUpTo(import.next)'
  BY <1>1, ReadIsConstant DEF MergedUpTo
<1>2. ASSUME MergedUpTo(Len(Archive) + 1) PROVE MergedUpTo(Len(Archive) + 1)'
  BY <1>2, ReadIsConstant DEF MergedUpTo
<1> QED
  BY <1>1, <1>2 DEF ImportInv, ImportOk

LEMMA RecordStep == ASSUME StatsInv, NEW r, r \in sent, Stats!Record(r) PROVE TableInv' /\ ImportInv'
<1>1. PICK n : n \in 1..MaxListens /\ r.session = <<"listen", n>> /\ r.seconds \in Nat
  BY DEF StatsInv, SentInv, Heard
<1>2. r.session \in Listens
  BY <1>1 DEF Listens
<1>3. CASE table' = table
  BY <1>3, TableStays, ImportKept DEF StatsInv, Stats!Record
<1>4. CASE table' = Stats!RecordPlay(table, r)
  <2>1. \A k \in DOMAIN Archive : r.session = Read[k].session => Counting(Archive[k])
    BY <1>2, ArchiveRows
  <2>2. TableInv' /\ \A i \in DOMAIN table : i \in DOMAIN table' /\ table'[i] = table[i]
    BY <1>1, <1>4, <2>1, TableKept DEF StatsInv
  <2> QED
    BY <2>2, ImportKept DEF StatsInv, Stats!Record
<1> QED
  BY <1>3, <1>4 DEF Stats!Record

LEMMA MergeStep == ASSUME StatsInv, Stats!Merge PROVE TableInv' /\ ImportInv'
<1>1. PICK n, row : n = import.next /\ row = Read[n]
  OBVIOUS
<1>2. /\ n \in DOMAIN Archive /\ n \in Nat /\ n <= Len(Archive) /\ Len(Archive) \in Nat /\ MergedUpTo(n)
      /\ ImportOk(import) /\ import.phase = "merging"
  <2>1. n <= Len(Archive) /\ n \in Nat \ {0} /\ MergedUpTo(n)
        /\ ImportOk(import) /\ import.phase = "merging" /\ ~import.stopped
    BY <1>1 DEF StatsInv, ImportInv, ImportOk, Stats!Merge
  <2> QED
    BY <2>1, ArchiveRows
<1>3. \/ /\ table' = (IF row.at > 0 THEN Stats!RecordPlay(table, row) ELSE table)
         /\ import' = [import EXCEPT !.next = n + 1]
      \/ import' = Stats!NoImport /\ table' = table
  BY <1>1 DEF Stats!Merge, Read
<1>4. CASE import' = Stats!NoImport /\ table' = table
  <2>1. ImportOk(import') /\ import'.phase = "idle" /\ ~import'.whole
    BY <1>4 DEF ImportOk, Stats!NoImport
  <2> QED
    BY <1>4, <2>1, TableStays, ImportGoesOn DEF StatsInv
<1>5. CASE /\ table' = (IF row.at > 0 THEN Stats!RecordPlay(table, row) ELSE table)
           /\ import' = [import EXCEPT !.next = n + 1]
  <2>1. /\ row.seconds = Archive[n].seconds /\ row.at = Archive[n].at /\ row.seconds \in Nat /\ row.at \in Nat
        /\ row.session # NoSession
    BY <1>1, <1>2, ArchiveRows
  <2>2. Counting(Archive[n]) <=> row.at > 0 /\ row.seconds > CountedSeconds
    BY <2>1 DEF Counting
  <2>3. /\ TableInv'
        /\ \A i \in DOMAIN table : i \in DOMAIN table' /\ table'[i] = table[i]
        /\ Counting(Archive[n]) => \E i \in DOMAIN table' : table'[i].session = Read[n].session
    <3>1. CASE row.at > 0
      <4>1. \A k \in DOMAIN Archive :
              row.session = Read[k].session /\ row.seconds > CountedSeconds => Counting(Archive[k])
        BY <1>1, <1>2, <2>2, <3>1, ArchiveRows
      <4>2. table' = Stats!RecordPlay(table, row)
        BY <1>5, <3>1
      <4> QED
        BY <1>1, <2>1, <2>2, <4>1, <4>2, TableKept DEF StatsInv
    <3>2. CASE ~(row.at > 0)
      <4>1. table' = table
        BY <1>5, <3>2
      <4> QED
        BY <2>2, <3>2, <4>1, TableStays DEF StatsInv
    <3> QED
      BY <3>1, <3>2
  <2>4. /\ ImportOk(import') /\ import'.next = n + 1 /\ import'.phase = "merging" /\ ~import'.whole
    <3>1. PICK m : m = n + 1 /\ m \in Nat \ {0}
      BY <1>2
    <3>2. import' = [import EXCEPT !.next = m] /\ ImportOk(import) /\ import.phase = "merging"
      BY <1>2, <1>5, <3>1
    <3>3. ImportOk(import') /\ import'.next = m /\ import'.phase = "merging" /\ ~import'.whole
      BY ONLY <3>1, <3>2, m \in Nat \ {0} DEF ImportOk
    <3> QED
      BY <3>1, <3>3
  <2>5. \A k \in DOMAIN Archive : k < n + 1 /\ Counting(Archive[k]) =>
           \E i \in DOMAIN table' : table'[i].session = Read[k].session
    <3>1. \A k \in DOMAIN Archive : k < n + 1 => k < n \/ k = n
      BY <1>2, ArchiveRows
    <3>2. \A k \in DOMAIN Archive : k < n /\ Counting(Archive[k]) =>
             \E i \in DOMAIN table' : table'[i].session = Read[k].session
      BY <1>2, <2>3, MergedStays
    <3> QED
      BY <2>3, <3>1, <3>2
  <2>6. MergedUpTo(import.next)'
    BY <2>4, <2>5, ReadIsConstant DEF MergedUpTo
  <2>7. import'.next <= Len(Archive) + 1
    BY <1>2, <2>4
  <2> QED
    BY <2>3, <2>4, <2>6, <2>7 DEF ImportInv, ImportOk
<1> QED
  BY <1>3, <1>4, <1>5

LEMMA TableStep ==
  ASSUME StatsInv, [Stats!PlayStatsNext]_statsVars PROVE TableInv' /\ ImportInv'
<1>0. ImportOk(import) /\ ImportInv /\ Len(Archive) \in Nat /\ DOMAIN Archive = 1..Len(Archive)
  BY ArchiveRows DEF StatsInv, ImportInv
<1>a. ASSUME table' = table, import' = import PROVE TableInv' /\ ImportInv'
  BY <1>a, TableStays, ImportKept DEF StatsInv
<1>b. ASSUME table' = table, import' = Stats!NoImport PROVE TableInv' /\ ImportInv'
  <2>1. ImportOk(import') /\ import'.phase = "idle" /\ ~import'.whole
    BY <1>b DEF ImportOk, Stats!NoImport
  <2> QED
    BY <1>0, <1>b, <2>1, TableStays, ImportGoesOn DEF StatsInv
<1>1. ASSUME Stats!importStatistics PROVE TableInv' /\ ImportInv'
  <2>1. import' = [Stats!NoImport EXCEPT !.phase = "reading"] /\ table' = table
    BY <1>1 DEF Stats!importStatistics
  <2>2. ImportOk(import') /\ import'.phase = "reading" /\ ~import'.whole
    BY <2>1 DEF ImportOk, Stats!NoImport
  <2> QED
    BY <1>0, <2>1, <2>2, TableStays, ImportGoesOn DEF StatsInv
<1>2. ASSUME Stats!Backup PROVE TableInv' /\ ImportInv'
  <2>1. CASE import.stopped
    BY <1>2, <1>b, <2>1 DEF Stats!Backup
  <2>2. CASE ~import.stopped
    <3>1. import' = [import EXCEPT !.phase = "merging"] /\ table' = table /\ import.phase = "reading"
      BY <1>2, <2>2 DEF Stats!Backup
    <3>2. ImportOk(import') /\ import'.next = 1 /\ ~import'.whole
      BY <1>0, <3>1 DEF ImportOk
    <3>3. MergedUpTo(1)
      BY <1>0 DEF MergedUpTo
    <3>4. import'.next <= Len(Archive) + 1 /\ MergedUpTo(import'.next)
      BY <1>0, <3>2, <3>3
    <3> QED
      BY <1>0, <3>1, <3>2, <3>4, TableStays, ImportGoesOn DEF StatsInv
  <2> QED
    BY <2>1, <2>2
<1>3. ASSUME Stats!Unreadable PROVE TableInv' /\ ImportInv'
  BY <1>3, <1>b DEF Stats!Unreadable
<1>4. ASSUME Stats!Merged PROVE TableInv' /\ ImportInv'
  <2>1. /\ \/ import' = Stats!NoImport
           \/ import' = [Stats!NoImport EXCEPT !.whole = TRUE] /\ import.next > Len(Archive)
        /\ table' = table /\ import.phase = "merging"
    BY <1>4 DEF Stats!Merged
  <2>2. ImportOk(import') /\ import'.phase = "idle" /\ (import'.whole => import.next > Len(Archive))
    <3>1. CASE import' = Stats!NoImport
      BY <3>1 DEF ImportOk, Stats!NoImport
    <3>2. CASE import' = [Stats!NoImport EXCEPT !.whole = TRUE] /\ import.next > Len(Archive)
      BY <3>2 DEF ImportOk, Stats!NoImport
    <3> QED
      BY <2>1, <3>1, <3>2
  <2>3. import.next \in Nat /\ import.next <= Len(Archive) + 1 /\ MergedUpTo(import.next)
    BY <1>0, <2>1 DEF ImportInv, ImportOk
  <2>4. import'.whole => import.next = Len(Archive) + 1
    BY <1>0, <2>2, <2>3
  <2> QED
    BY <1>0, <2>1, <2>2, <2>3, <2>4, TableStays, ImportGoesOn DEF StatsInv
<1>5. ASSUME Stats!cancelStatistics PROVE TableInv' /\ ImportInv'
  <2>1. import' = [import EXCEPT !.stopped = TRUE] /\ table' = table /\ import.phase # "idle"
    BY <1>5 DEF Stats!cancelStatistics
  <2>2. ImportOk(import') /\ import'.phase = import.phase /\ import'.next = import.next /\ ~import'.whole
    BY <1>0, <2>1 DEF ImportOk
  <2>3. import.phase = "merging" => import.next <= Len(Archive) + 1 /\ MergedUpTo(import.next)
    BY <1>0 DEF ImportInv
  <2>4. import'.phase = "merging" => import'.next <= Len(Archive) + 1 /\ MergedUpTo(import'.next)
    BY <2>2, <2>3
  <2> QED
    BY <1>0, <2>1, <2>2, <2>4, TableStays, ImportGoesOn DEF StatsInv
<1>6. ASSUME Stats!Restart PROVE TableInv' /\ ImportInv'
  BY <1>6, <1>b DEF Stats!Restart
<1>7. ASSUME \/ \E s \in {s1} : Stats!Intend(s)
             \/ Stats!PlayOrPause \/ Stats!EndOfMedia
             \/ \E d \in 1..JumpTicks : Stats!Plays(d)
             \/ \E p \in 0..LastTick : Stats!Seek(p)
             \/ UNCHANGED statsVars
      PROVE  TableInv' /\ ImportInv'
  <2>1. table' = table /\ import' = import
    BY <1>7 DEF Stats!Intend, Stats!PlayOrPause, Stats!EndOfMedia, Stats!Plays, Stats!Seek, statsVars
  <2> QED
    BY <1>a, <2>1
<1> QED
  BY <1>1, <1>2, <1>3, <1>4, <1>5, <1>6, <1>7, RecordStep, MergeStep DEF Stats!PlayStatsNext

LEMMA StatsStep == ASSUME StatsInv, [Stats!PlayStatsNext]_statsVars PROVE StatsInv'
BY ListenStep, TableStep DEF StatsInv

LEMMA StatsBegin ==
  ASSUME Stats!PlayStatsInit, table = <<>> \/ table \in Tables PROVE StatsInv
<1>1. session = Stats!NoListen /\ sent = {} /\ import = Stats!NoImport
      /\ world = [heard |-> [n \in 1..MaxListens |-> 0], sessions |-> 0, imports |-> 0, trouble |-> 0]
  BY DEF Stats!PlayStatsInit
<1>2. ListenOk(session) /\ session.id = 0
  BY <1>1, NoListenIs, NumbersAssumption DEF ListenOk
<1>3. WorldOk(world)
  <2>1. [n \in 1..MaxListens |-> 0] \in [1..MaxListens -> Nat]
    OBVIOUS
  <2> QED
    BY <1>1, <2>1, NumbersAssumption DEF WorldOk
<1>4. SentInv
  BY <1>1 DEF SentInv
<1>5. ImportInv
  BY <1>1 DEF ImportInv, ImportOk, Stats!NoImport
<1>6. TableInv
  <2>1. CASE table = <<>>
    BY <2>1 DEF TableInv, OneListen
  <2>2. CASE table \in Tables
    <3>1. table \in Seq({table[i] : i \in DOMAIN table}) /\ OneListen(table)
      BY <2>2, TablesAssumption DEF IsList
    <3>2. ASSUME NEW i \in DOMAIN table, NEW k \in DOMAIN Archive, table[i].session = Read[k].session
          PROVE  Counting(Archive[k])
      <4>1. table[i].session \in UNION {Sessions(rows) : rows \in Tables}
        BY <2>2 DEF Sessions
      <4> QED
        BY <3>2, <4>1, TablesAssumption DEF Read
    <3> QED
      BY <3>1, <3>2 DEF TableInv
  <2> QED
    BY <2>1, <2>2
<1> QED
  BY <1>2, <1>3, <1>4, <1>5, <1>6 DEF StatsInv, ListenInv

LEMMA ListensHold == ASSUME StatsInv PROVE ListensAreTrue
<1>1. PICK S : table \in Seq(S)
  BY DEF StatsInv, TableInv
<1>2. Stats!StatisticsAgree
  BY <1>1, StatisticsHold
<1>3. Stats!ListenedWasHeard
  <2> SUFFICES ASSUME NEW r, r \in sent PROVE r.seconds <= world.heard[r.session[2]]
    BY DEF Stats!ListenedWasHeard
  <2>1. PICK n : n \in 1..MaxListens /\ r.session = <<"listen", n>> /\ r.seconds \in Nat /\ r.seconds <= world.heard[n]
    BY DEF StatsInv, SentInv, Heard
  <2>2. r.session[2] = n
    BY <2>1
  <2> QED
    BY <2>1, <2>2
<1>4. \A i, j \in DOMAIN table : table[i].session = table[j].session /\ table[i].session # NoSession => i = j
  BY DEF StatsInv, TableInv, OneListen
<1>5. ASSUME import.whole
      PROVE  Cardinality({i \in DOMAIN Archive : Archive[i].at > 0 /\ Archive[i].seconds > CountedSeconds})
               = Cardinality({i \in DOMAIN table : \E k \in DOMAIN Archive : table[i].session = Read[k].session})
  <2> DEFINE A == {i \in DOMAIN Archive : Archive[i].at > 0 /\ Archive[i].seconds > CountedSeconds}
             B == {i \in DOMAIN table : \E k \in DOMAIN Archive : table[i].session = Read[k].session}
             f == [k \in A |-> CHOOSE i \in DOMAIN table : table[i].session = Read[k].session]
  <2>1. IsFiniteSet(A)
    <3>1. A \in SUBSET (1..Len(Archive)) /\ Len(Archive) \in Nat
      BY ArchiveRows
    <3>2. IsFiniteSet(1..Len(Archive))
      BY <3>1, FS_Interval
    <3> HIDE DEF A
    <3> QED
      BY <3>1, <3>2, FS_Subset
  <2>2. \A k \in A : k \in DOMAIN Archive /\ Counting(Archive[k])
    BY DEF Counting
  <2>3. \A k \in A : \E i \in DOMAIN table : table[i].session = Read[k].session
    <3>1. MergedUpTo(Len(Archive) + 1)
      BY <1>5 DEF StatsInv, ImportInv
    <3>2. \A k \in DOMAIN Archive : k < Len(Archive) + 1
      BY ArchiveRows
    <3> QED
      BY <2>2, <3>1, <3>2 DEF MergedUpTo
  <2>4. \A k \in A : f[k] \in DOMAIN table /\ table[f[k]].session = Read[k].session
    BY <2>3
  <2>5. \A k \in A : f[k] \in B
    BY <2>2, <2>4
  <2>6. \A k, l \in A : f[k] = f[l] => k = l
    <3> SUFFICES ASSUME NEW k, k \in A, NEW l, l \in A, f[k] = f[l] PROVE k = l
      OBVIOUS
    <3>1. k \in DOMAIN Archive /\ l \in DOMAIN Archive /\ Read[k].session = Read[l].session
      BY <2>2, <2>4
    <3> HIDE DEF A, f
    <3> QED
      BY <3>1, ArchiveRows
  <2>7. \A i \in B : \E k \in A : f[k] = i
    <3> SUFFICES ASSUME NEW i \in B PROVE \E k \in A : f[k] = i
      OBVIOUS
    <3>1. PICK k \in DOMAIN Archive : table[i].session = Read[k].session
      OBVIOUS
    <3>2. i \in DOMAIN table
      OBVIOUS
    <3>3. Counting(Archive[k])
      BY <3>1, <3>2 DEF StatsInv, TableInv
    <3>4. k \in A
      BY <3>3 DEF Counting
    <3>5. f[k] \in DOMAIN table /\ table[f[k]].session = table[i].session /\ table[i].session # NoSession
      BY <2>4, <3>1, <3>4, ArchiveRows
    <3>6. f[k] = i
      BY <1>4, <3>2, <3>5
    <3> QED
      BY <3>4, <3>6
  <2>8. f = [k \in A |-> f[k]]
    OBVIOUS
  <2> HIDE DEF A, B, f
  <2>9. f \in [A -> B]
    BY <2>5, <2>8
  <2>10. f \in Bijection(A, B)
    BY <2>6, <2>7, <2>9 DEF Bijection, Injection, Surjection, IsInjective
  <2>11. Cardinality(A) = Cardinality(B)
    BY <2>1, <2>10, FS_Bijection DEF ExistsBijection
  <2> QED
    BY <2>11 DEF A, B
<1>6. Stats!EachListenOnce
  BY <1>4, <1>5, StatsCardinality, Zenon DEF Stats!EachListenOnce, Read
<1> QED
  BY <1>2, <1>3, <1>6 DEF ListensAreTrue

(* However often a listen is sent or merged it is in the table once, no longer than it was
   heard; an import that went through has brought every listen of the archive that counts, in
   spite of storage errors, cancellations and restarts before; and the plays by day, and those of
   the songs and albums of a list that is not full, add up to the summary's. *)
THEOREM ListensAreTrueCorrect == StoresSpec => []ListensAreTrue
<1>1. StoresInit => StatsInv
  <2> SUFFICES ASSUME StoresInit PROVE StatsInv
    OBVIOUS
  <2>1. Stats!PlayStatsInit
    BY DEF StoresInit
  <2>2. table \in Tables
    BY <2>1 DEF Stats!PlayStatsInit
  <2> QED
    BY <2>1, <2>2, StatsBegin
<1>2. StatsInv /\ [StoresNext]_storesVars => StatsInv'
  <2>1. [StoresNext]_storesVars => [Stats!PlayStatsNext]_statsVars
    BY DEF StoresNext, storesVars, statsVars
  <2> QED
    BY <2>1, StatsStep
<1>3. StatsInv => ListensAreTrue
  BY ListensHold
<1> QED
  BY <1>1, <1>2, <1>3, PTL DEF StoresSpec
=============================================================================
