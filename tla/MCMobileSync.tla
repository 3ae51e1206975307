------------------------------- MODULE MCMobileSync -------------------------------
(***************************************************************************)
(* Shifts worked offline: clock in, clock out, clock in again, a request.  *)
(***************************************************************************)
EXTENDS MobileSync

CONSTANTS in, out, in2, leave, claim

MCAt == [a \in Actions |->
  CASE a = in -> 1 [] a = out -> 2 [] a = in2 -> 3 [] a = leave -> 4 [] a = claim -> 5]
================================================================================
