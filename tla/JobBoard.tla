-------------------------------- MODULE JobBoard --------------------------------
(***************************************************************************)
(* What a queue of jobs promises those who put jobs on it: a job that was  *)
(* accepted is open until it settles, and it settles once.  Only an        *)
(* infeasible job opens again.  A job yields its one schedule by           *)
(* completing, and an outcome that a worker reaches is told before it      *)
(* stands.  Nobody is told anything else of a job that has settled.        *)
(***************************************************************************)
EXTENDS Naturals

CONSTANT Jobs

VARIABLES
  state,     \* "none", "open", "completed", "infeasible" or "failed"
  told,      \* the outcomes told of each job
  schedules  \* the schedules each job has yielded

vars == <<state, told, schedules>>

Outcome == {"completed", "infeasible", "failed"}

Init ==
  /\ state = [j \in Jobs |-> "none"]
  /\ told = [j \in Jobs |-> {}]
  /\ schedules = [j \in Jobs |-> 0]

Open(j) ==
  /\ state[j] \in {"none", "infeasible"}
  /\ state' = [state EXCEPT ![j] = "open"]
  /\ UNCHANGED <<told, schedules>>

\* Of an open job it may turn out to have been said too early.
Tell(j, o) ==
  /\ state[j] \in {"open", o}
  /\ told' = [told EXCEPT ![j] = @ \cup {o}]
  /\ UNCHANGED <<state, schedules>>

Settle(j, o) ==
  /\ state[j] = "open"
  /\ o \in told[j]
  /\ state' = [state EXCEPT ![j] = o]
  /\ schedules' = IF o = "completed" THEN [schedules EXCEPT ![j] = 1] ELSE schedules
  /\ UNCHANGED told

\* Jobs whose workers are gone fail, and are told of afterwards.
GiveUp(lost) ==
  /\ \A j \in lost : state[j] = "open"
  /\ state' = [j \in Jobs |-> IF j \in lost THEN "failed" ELSE state[j]]
  /\ UNCHANGED <<told, schedules>>

Next ==
  \/ \E lost \in SUBSET Jobs : GiveUp(lost)
  \/ \E j \in Jobs : Open(j) \/ \E o \in Outcome : Tell(j, o) \/ Settle(j, o)

Spec == Init /\ [][Next]_vars
================================================================================
