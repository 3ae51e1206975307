---------------------------------- MODULE MCLeave ---------------------------------
(***************************************************************************)
(* Last year's balance and this year's, which the requests draw on: r1 is  *)
(* backdated, r2 and r3 overlap.                                           *)
(***************************************************************************)
EXTENDS Leave

CONSTANTS old, new, r1, r2, r3, yes, no

MCDates == [r \in Requests |-> CASE r = r1 -> {1} [] r = r2 -> {2, 3} [] OTHER -> {3}]
MCBalanceOf == [r \in Requests |-> new]
MCGrant == [b \in Balances |-> 1]
MCCarriedIn == [b \in Balances |-> IF b = new THEN 1 ELSE 0]
MCCarryovers == {<<old, new>>}
MCRequestOf == [d \in Decisions |-> IF d \in {yes, no} THEN r2 ELSE r1]
================================================================================
