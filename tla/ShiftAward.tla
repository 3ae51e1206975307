------------------------------- MODULE ShiftAward ------------------------------
(***************************************************************************)
(* What the open-shift market and the swaps promise scheduling-service: a  *)
(* shift is handed over to at most one claim, and what was handed over is  *)
(* never taken back.  The partial unique index of OneLiveClaimPerPost and  *)
(* the conditional UPDATEs of the post and of the swap are there to keep   *)
(* this promise when the Redis lock does not ("exactly one winner per open *)
(* shift").                                                                *)
(***************************************************************************)
CONSTANTS Shifts, Claims, ShiftOf

VARIABLE awarded   \* for each shift, the claims announced as its winner

Init == awarded = [s \in Shifts |-> {}]

\* The first announcement names the winner; any later one repeats it.
Award(c) ==
  /\ awarded[ShiftOf[c]] \subseteq {c}
  /\ awarded' = [awarded EXCEPT ![ShiftOf[c]] = {c}]

Next == \E c \in Claims : Award(c)

Spec == Init /\ [][Next]_awarded
================================================================================
