--------------------------- MODULE DeadlineService ---------------------------
(***************************************************************************)
(* What the process watchdog promises its users, without its threads,      *)
(* queues and budgets: a request arms one deadline, and its claim flag is  *)
(* won once, either by the owner that finished first or by the deadline.   *)
(* A deadline that lost is released and its action never runs; a deadline  *)
(* that won has its action run exactly once, unless the service itself is  *)
(* torn down in between.                                                   *)
(*                                                                         *)
(* RequestWatchdog.tla is shown to implement this module; RequestScheduler *)
(* is built on the actions of this module.                                 *)
(***************************************************************************)

CONSTANT Jobs        \* the requests, each with a claim flag of its own

VARIABLES
  claimed,           \* the std::atomic_bool both sides compete for
  alarm              \* where the deadline of each request stands

serviceVars == <<claimed, alarm>>

AlarmState == {"idle", "armed", "fired", "delivered", "released", "dropped"}

TypeOK == /\ claimed \in [Jobs -> BOOLEAN]
          /\ alarm   \in [Jobs -> AlarmState]

Init == /\ claimed = [j \in Jobs |-> FALSE]
        /\ alarm   = [j \in Jobs |-> "idle"]

Move(j, from, to) == /\ alarm[j] = from
                     /\ alarm' = [alarm EXCEPT ![j] = to]

Win(j) == /\ ~claimed[j]
          /\ claimed' = [claimed EXCEPT ![j] = TRUE]

(* A deadline is accepted. *)
Arm(j) == Move(j, "idle", "armed") /\ UNCHANGED claimed

(* The owner finished first: the deadline must not act any more.  An owner *)
(* may win while its deadline is not armed, or no longer in the service.   *)
OwnerWins(j) == /\ alarm[j] \in {"idle", "armed", "dropped"}
                /\ Win(j)
                /\ UNCHANGED alarm

(* The deadline passed first. *)
Fire(j) == Win(j) /\ Move(j, "armed", "fired")

(* The deadline of a finished request gives its slot back. *)
Release(j) == claimed[j] /\ Move(j, "armed", "released") /\ UNCHANGED claimed

(* The action of an expired deadline has been carried out. *)
Deliver(j) == Move(j, "fired", "delivered") /\ UNCHANGED claimed

(* The service is torn down with the deadlines of S still in its hands.   *)
Drop(S) == /\ \A j \in S : alarm[j] \in {"armed", "fired"}
           /\ alarm' = [j \in Jobs |-> IF j \in S THEN "dropped" ELSE alarm[j]]
           /\ UNCHANGED claimed

Next == \/ \E j \in Jobs : \/ Arm(j) \/ OwnerWins(j) \/ Fire(j)
                           \/ Release(j) \/ Deliver(j)
        \/ \E S \in SUBSET Jobs : Drop(S)

(* Once accepted, a deadline is resolved, and once won it is acted upon.   *)
Resolve(j) == \/ Fire(j) \/ Release(j)
              \/ \E S \in SUBSET Jobs : j \in S /\ Drop(S)
Answer(j)  == \/ Deliver(j)
              \/ \E S \in SUBSET Jobs : j \in S /\ Drop(S)

Fairness == \A j \in Jobs : WF_serviceVars(Resolve(j)) /\ WF_serviceVars(Answer(j))

SafeSpec == Init /\ [][Next]_serviceVars
Spec     == SafeSpec /\ Fairness
=============================================================================
