--------------------------------- MODULE MCSwap ---------------------------------
(***************************************************************************)
(* One open swap: e1 answers it twice, once without a shift to offer, and  *)
(* e2 once.  The supervisors who approve are interchangeable.              *)
(***************************************************************************)
EXTENDS Swap, TLC

CONSTANTS s1, e1, e2, h1, a1, a2, a3

MCSwapOf == [c \in Calls |-> s1]
MCResponderOf == [c \in Responses |-> IF c = a3 THEN e2 ELSE e1]
MCOfferOf == [a \in Accepts |-> IF a = a2 THEN None ELSE h1]
MCNothing == [s \in Swaps |-> None]
Supervisors == Permutations(Approvals)
================================================================================
