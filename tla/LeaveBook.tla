-------------------------------- MODULE LeaveBook --------------------------------
(***************************************************************************)
(* What an employee's leave account promises: leave is booked only on days *)
(* that no other leave takes and only if the account is worth all the days *)
(* booked on it by then.  Leave that needs approval is decided once, by    *)
(* somebody who may.  Days that lapse are lost to later bookings, never    *)
(* undo an earlier one, and are never more than the account is worth.      *)
(***************************************************************************)
EXTENDS Integers, FiniteSets

CONSTANTS
  Requests,
  Dates,      \* the days each request asks for
  Accounts,
  AccountOf,  \* the account each request draws on
  Automatic,  \* requests approved as they are booked
  Approvable, \* requests that somebody may approve
  Rejectable  \* requests that somebody may reject

VARIABLES
  state,  \* "none", "pending", "approved" or "rejected"
  worth,  \* the days each account is worth
  lapsed  \* the days it has lost

vars == <<state, worth, lapsed>>

Active == {"pending", "approved"}

Init ==
  /\ state = [r \in Requests |-> "none"]
  /\ worth = [b \in Accounts |-> 0]
  /\ lapsed = [b \in Accounts |-> 0]

Booked(b) ==
  UNION {Dates[r] : r \in {q \in Requests : AccountOf[q] = b /\ state[q] \in Active}}

Book(r) ==
  /\ state[r] = "none"
  /\ \A q \in Requests : state[q] \in Active => Dates[q] \cap Dates[r] = {}
  /\ Cardinality(Booked(AccountOf[r]) \cup Dates[r]) <= worth[AccountOf[r]]
  /\ state' = [state EXCEPT ![r] = IF r \in Automatic THEN "approved" ELSE "pending"]
  /\ UNCHANGED <<worth, lapsed>>

Approve(r) ==
  /\ state[r] = "pending"
  /\ r \in Approvable
  /\ state' = [state EXCEPT ![r] = "approved"]
  /\ UNCHANGED <<worth, lapsed>>

Reject(r) ==
  /\ state[r] = "pending"
  /\ r \in Rejectable
  /\ state' = [state EXCEPT ![r] = "rejected"]
  /\ UNCHANGED <<worth, lapsed>>

Grow ==
  /\ worth' \in [Accounts -> Nat]
  /\ \A b \in Accounts : worth'[b] >= worth[b]
  /\ UNCHANGED <<state, lapsed>>

Lapse ==
  /\ lapsed' \in [Accounts -> Nat]
  /\ \A b \in Accounts : lapsed'[b] >= lapsed[b]
  /\ worth' = [b \in Accounts |-> worth[b] - (lapsed'[b] - lapsed[b])]
  /\ worth' \in [Accounts -> Nat]
  /\ UNCHANGED state

Next == Grow \/ Lapse \/ \E r \in Requests : Book(r) \/ Approve(r) \/ Reject(r)

Spec == Init /\ [][Next]_vars
================================================================================
