--------------------------------- MODULE Relay ---------------------------------
(***************************************************************************)
(* What an outbox, an audit queue and an offline queue promise alike: what *)
(* the sender has taken on reaches the receiver, or ends up where somebody *)
(* looks after it, and is not forgotten before.  It may arrive more than   *)
(* once.  Nothing arrives, and nothing is retried, that was not sent.      *)
(***************************************************************************)
CONSTANT Items

VARIABLES
  sent,     \* items the sender has taken on
  owed,     \* items the sender, or a broker on its behalf, will try again
  arrived,  \* items the receiver has
  buried    \* items set aside: dead letters, conflicts shown to the user

vars == <<sent, owed, arrived, buried>>

Init == sent = {} /\ owed = {} /\ arrived = {} /\ buried = {}

Send(x) ==
  /\ x \notin sent
  /\ sent' = sent \cup {x}
  /\ owed' = owed \cup {x}
  /\ UNCHANGED <<arrived, buried>>

Arrive(x) ==
  /\ x \in sent
  /\ arrived' = arrived \cup {x}
  /\ UNCHANGED <<sent, owed, buried>>

\* Setting an item aside may end the attempts at once.
Bury(x) ==
  /\ x \in sent
  /\ buried' = buried \cup {x}
  /\ owed' \in {owed, owed \ {x}}
  /\ UNCHANGED <<sent, arrived>>

\* At least once: what was sent may be sent again, even after it has arrived.
Repeat(x) ==
  /\ x \in sent
  /\ owed' = owed \cup {x}
  /\ UNCHANGED <<sent, arrived, buried>>

Forget(x) ==
  /\ x \in arrived \cup buried
  /\ owed' = owed \ {x}
  /\ UNCHANGED <<sent, arrived, buried>>

Next == \E x \in Items : Send(x) \/ Arrive(x) \/ Bury(x) \/ Repeat(x) \/ Forget(x)

Spec == Init /\ [][Next]_vars
================================================================================
