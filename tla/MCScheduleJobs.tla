----------------------------- MODULE MCScheduleJobs -----------------------------
(***************************************************************************)
(* Requests r1 and r2 share an idempotency key; r3 has a key of its own.   *)
(* The configurations choose which of them are reoptimizations.            *)
(***************************************************************************)
EXTENDS ScheduleJobs

CONSTANTS r1, r2, r3, k1, k2

MCKeyOf == [r \in Requests |-> IF r = r3 THEN k2 ELSE k1]
================================================================================
