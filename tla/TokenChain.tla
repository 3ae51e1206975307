------------------------------- MODULE TokenChain -------------------------------
(***************************************************************************)
(* What a login promises: one chain of tokens, of which at most the last   *)
(* works.  A token is used up by the one that replaces it, and a chain     *)
(* that has ended stays ended.                                             *)
(*                                                                         *)
(* A revocation is asked to end some chains, looks for their live tokens   *)
(* and then ends the ones it found.  A token that is replaced between the  *)
(* two escapes: its chain goes on.  That is the only way a chain that was  *)
(* there survives a revocation carried out.                                *)
(***************************************************************************)
CONSTANTS Logins, Tokens, Revokers

VARIABLES
  live,  \* the tokens of each login that work
  used,  \* those that do not work any more
  phase, \* how far each revocation is: idle, asked, found or done
  asked, \* the logins it was asked to end
  found  \* the live tokens it has found, as long as they are live

chains == <<live, used>>
revocations == <<phase, asked, found>>
vars == <<live, used, phase, asked, found>>

Unknown(t) == \A c \in Logins : t \notin live[c] \cup used[c]

Init ==
  /\ live = [c \in Logins |-> {}]
  /\ used = [c \in Logins |-> {}]
  /\ phase = [r \in Revokers |-> "idle"]
  /\ asked = [r \in Revokers |-> {}]
  /\ found = [r \in Revokers |-> {}]

Begin(c, n) ==
  /\ live[c] = {} /\ used[c] = {}
  /\ Unknown(n)
  /\ live' = [live EXCEPT ![c] = {n}]
  /\ UNCHANGED <<used, revocations>>

Rotate(c, t, n) ==
  /\ live[c] = {t}
  /\ Unknown(n)
  /\ live' = [live EXCEPT ![c] = {n}]
  /\ used' = [used EXCEPT ![c] = @ \cup {t}]
  /\ found' = [r \in Revokers |-> found[r] \ {t}]
  /\ UNCHANGED <<phase, asked>>

\* One chain is to end, or all the chains of a user.
Ask(r, logins) ==
  /\ phase[r] = "idle"
  /\ phase' = [phase EXCEPT ![r] = "asked"]
  /\ asked' = [asked EXCEPT ![r] = logins]
  /\ UNCHANGED <<chains, found>>

Look(r) ==
  /\ phase[r] = "asked"
  /\ phase' = [phase EXCEPT ![r] = "found"]
  /\ asked' = [asked EXCEPT ![r] = {}]
  /\ found' = [found EXCEPT ![r] = UNION {live[c] : c \in asked[r]}]
  /\ UNCHANGED chains

End(r) ==
  /\ phase[r] = "found"
  /\ phase' = [phase EXCEPT ![r] = "done"]
  /\ live' = [c \in Logins |-> live[c] \ found[r]]
  /\ used' = [c \in Logins |-> used[c] \cup (live[c] \cap found[r])]
  /\ found' = [q \in Revokers |-> found[q] \ found[r]]
  /\ UNCHANGED asked

\* A revocation is over, or fails on the way.
Quit(r) ==
  /\ phase[r] # "idle"
  /\ phase' = [phase EXCEPT ![r] = "idle"]
  /\ asked' = [asked EXCEPT ![r] = {}]
  /\ found' = [found EXCEPT ![r] = {}]
  /\ UNCHANGED chains

Next ==
  \/ \E c \in Logins, n \in Tokens : Begin(c, n) \/ \E t \in Tokens : Rotate(c, t, n)
  \/ \E r \in Revokers :
       \/ \E logins \in SUBSET Logins : Ask(r, logins)
       \/ Look(r) \/ End(r) \/ Quit(r)

Spec == Init /\ [][Next]_vars
================================================================================
