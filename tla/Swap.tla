---------------------------------- MODULE Swap ----------------------------------
(***************************************************************************)
(* Shift swaps: SwapRequestService (propose, accept, decline) and the      *)
(* supervisors' approveSwap and rejectSwap.                                *)
(*                                                                         *)
(* A call is one request to the service.  Its steps are the statements     *)
(* other calls can observe, as in module Marketplace.  Where the code      *)
(* loads an entity, changes it and saves it, the row may have changed in   *)
(* between: save() writes back every column in which the entity differs    *)
(* from the row it finds, or only the status when the other change comes   *)
(* after that comparison.                                                  *)
(***************************************************************************)
EXTENDS Naturals

CONSTANTS
  Swaps,         \* rows of swap_request
  Employees,     \* responders
  Shifts,        \* shifts a responder may give in return
  Accepts,       \* calls of respondToSwap with accept = true
  Declines,      \* calls of respondToSwap with accept = false
  Approvals,     \* calls of approveSwap
  Rejections,    \* calls of rejectSwap
  SwapOf,        \* the swap each call names
  ResponderOf,   \* the employee behind each response
  OfferOf,       \* the shift an accept offers, or None
  NamedTarget,   \* the employee each proposal names, or None: an open swap
  NamedShift,    \* the shift each proposal asks for, or None
  AutoApproved,  \* accepts run by an instance that has the tenant opted in to auto-approval
  None

Responses == Accepts \cup Declines
Decisions == Approvals \cup Rejections
Calls     == Responses \cup Decisions

ASSUME SwapAssumption ==
  /\ Accepts \cap (Declines \cup Decisions) = {}
  /\ Declines \cap Decisions = {}
  /\ Approvals \cap Rejections = {}
  /\ SwapOf \in [Calls -> Swaps]
  /\ ResponderOf \in [Responses -> Employees]
  /\ OfferOf \in [Accepts -> Shifts \cup {None}]
  /\ NamedTarget \in [Swaps -> Employees \cup {None}]
  /\ NamedShift \in [Swaps -> Shifts \cup {None}]
  /\ AutoApproved \subseteq Accepts
  /\ None \notin Employees \cup Shifts \cup Accepts

VARIABLES
  swap,      \* the row of each swap
  lock,      \* Redis: the accept whose token the swap's lock key holds
  pc,        \* where each call is
  entity,    \* the row as the call has it in memory
  executed,  \* SwapExecuted rows in the outbox
  points     \* participants with a SWAP_EXECUTED row in the ledger, per call

vars == <<swap, lock, pc, entity, executed, points>>

\* The enum's cancelled and superseded are never written.
Status == {"pending", "pending_approval", "accepted", "rejected"}
Row == [status : Status \cup {"none"},
        target : Employees \cup {None},
        shift  : Shifts \cup {None}]
NoRow == [status |-> "none", target |-> None, shift |-> None]

Event == [by : Calls, target : Employees \cup {None}, shift : Shifts \cup {None}]
Sides == {"initiator", "target"}

Answered == {"eligible", "ineligible", "unavailable"}
InFlight == {"read", "resolve", "validate", "decide", "refuse", "fail", "save",
             "engage", "release"} \cup Answered

TypeOK ==
  /\ swap \in [Swaps -> Row]
  /\ lock \in [Swaps -> Accepts \cup {None}]
  /\ pc \in [Calls -> {"idle", "done"} \cup InFlight]
  /\ entity \in [Calls -> Row]
  /\ executed \in [Swaps -> SUBSET Event]
  /\ points \in [Calls -> SUBSET Sides]

Init ==
  /\ swap = [s \in Swaps |-> NoRow]
  /\ lock = [s \in Swaps |-> None]
  /\ pc = [c \in Calls |-> "idle"]
  /\ entity = [c \in Calls |-> NoRow]
  /\ executed = [s \in Swaps |-> {}]
  /\ points = [c \in Calls |-> {}]

WithStatus(row, status) == [row EXCEPT !.status = status]
WithTrade(row, employee, shift) == [row EXCEPT !.target = employee, !.shift = shift]

Goto(c, place) == pc' = [pc EXCEPT ![c] = place]
Exists(c) == swap[SwapOf[c]].status # "none"

\* The entity is re-read: what other calls have committed since becomes visible.
Load(c) == entity' = [entity EXCEPT ![c] = swap[SwapOf[c]]]

\* manager.save() of the loaded entity with a new status.
Save(c, status) ==
  \E base \in {entity[c], swap[SwapOf[c]]} :
    swap' = [swap EXCEPT ![SwapOf[c]] = WithStatus(base, status)]

\* recordSwapExecuted: the outbox row names the trade as the entity has it.
Execute(c) ==
  executed' = [executed EXCEPT ![SwapOf[c]] =
    @ \cup {[by |-> c, target |-> entity[c].target, shift |-> entity[c].shift]}]

ProposeSwap(s) ==
  /\ swap[s].status = "none"
  /\ swap' = [swap EXCEPT ![s] =
       [status |-> "pending", target |-> NamedTarget[s], shift |-> NamedShift[s]]]
  /\ UNCHANGED <<lock, pc, entity, executed, points>>

(***************************************************************************)
(* Accepting.                                                              *)
(***************************************************************************)
AcquireClaimLock(a) ==
  LET s == SwapOf[a] IN
  /\ pc[a] = "idle" /\ Exists(a)
  /\ IF lock[s] = None
       THEN lock' = [lock EXCEPT ![s] = a] /\ Goto(a, "read")
       ELSE Goto(a, "done") /\ UNCHANGED lock
  /\ UNCHANGED <<swap, entity, executed, points>>

RedisUnavailable(a) ==
  /\ pc[a] = "idle" /\ Exists(a)
  /\ Goto(a, "done")
  /\ UNCHANGED <<swap, lock, entity, executed, points>>

\* The offered shift stands in for one the proposal did not name.
ReadForAccept(a) ==
  LET row   == swap[SwapOf[a]]
      shift == IF row.shift # None THEN row.shift ELSE OfferOf[a]
  IN /\ pc[a] = "read"
     /\ IF /\ row.status = "pending"
           /\ row.target \in {None, ResponderOf[a]}
           /\ shift # None
          THEN /\ entity' = [entity EXCEPT ![a] = WithTrade(row, ResponderOf[a], shift)]
               /\ Goto(a, "resolve")
          ELSE Goto(a, "release") /\ UNCHANGED entity
     /\ UNCHANGED <<swap, lock, executed, points>>

\* Mutant of Resolve: a plain save, with no guard on the target.
ResolveAnyTarget(a) ==
  /\ pc[a] = "resolve"
  /\ swap' = [swap EXCEPT ![SwapOf[a]] = WithTrade(@, entity[a].target, entity[a].shift)]
  /\ Goto(a, "validate")
  /\ UNCHANGED <<lock, entity, executed, points>>

\* UPDATE ... WHERE status = 'pending' AND the target is nobody or the responder.
Resolve(a) ==
  LET s == SwapOf[a] IN
  /\ pc[a] = "resolve"
  /\ IF swap[s].status = "pending" /\ swap[s].target \in {None, ResponderOf[a]}
       THEN /\ swap' = [swap EXCEPT ![s] = WithTrade(@, entity[a].target, entity[a].shift)]
            /\ Goto(a, "validate")
       ELSE Goto(a, "release") /\ UNCHANGED swap
  /\ UNCHANGED <<lock, entity, executed, points>>

\* Scheduling's answer for both sides of the trade, or its failure to answer.
CheckEligibility(a, answer) ==
  /\ pc[a] = "validate"
  /\ Goto(a, answer)
  /\ UNCHANGED <<swap, lock, entity, executed, points>>

ReadForDecision(a) ==
  /\ pc[a] \in Answered
  /\ Load(a)
  /\ Goto(a, CASE pc[a] = "eligible" -> "decide"
               [] pc[a] = "ineligible" -> "refuse"
               [] OTHER -> "fail")
  /\ UNCHANGED <<swap, lock, executed, points>>

\* Mutant of Decide: the decision is written whatever the status is by now.
DecideBlindly(a) ==
  LET s == SwapOf[a] IN
  /\ pc[a] = "decide"
  /\ swap' = [swap EXCEPT ![s] =
       WithStatus(@, IF a \in AutoApproved THEN "accepted" ELSE "pending_approval")]
  /\ IF a \in AutoApproved
       THEN Execute(a) /\ Goto(a, "engage")
       ELSE Goto(a, "release") /\ UNCHANGED executed
  /\ UNCHANGED <<lock, entity, points>>

\* UPDATE ... WHERE status = 'pending': a decision that comes second is dropped.
Decide(a) ==
  LET s == SwapOf[a] IN
  /\ pc[a] = "decide"
  /\ IF swap[s].status # "pending"
       THEN Goto(a, "release") /\ UNCHANGED <<swap, executed>>
       ELSE IF a \in AutoApproved
         THEN /\ swap' = [swap EXCEPT ![s] = WithStatus(@, "accepted")]
              /\ Execute(a)
              /\ Goto(a, "engage")
         ELSE /\ swap' = [swap EXCEPT ![s] = WithStatus(@, "pending_approval")]
              /\ Goto(a, "release")
              /\ UNCHANGED executed
  /\ UNCHANGED <<lock, entity, points>>

\* Mutant of Refuse: the declared status that no operation ever writes.
RefuseAsSuperseded(a) ==
  LET s == SwapOf[a] IN
  /\ pc[a] = "refuse"
  /\ swap' = IF swap[s].status = "pending"
               THEN [swap EXCEPT ![s] = WithStatus(@, "superseded")] ELSE swap
  /\ Goto(a, "release")
  /\ UNCHANGED <<lock, entity, executed, points>>

Refuse(a) ==
  LET s == SwapOf[a] IN
  /\ pc[a] = "refuse"
  /\ swap' = IF swap[s].status = "pending"
               THEN [swap EXCEPT ![s] = WithStatus(@, "rejected")] ELSE swap
  /\ Goto(a, "release")
  /\ UNCHANGED <<lock, entity, executed, points>>

\* The guardrails did not answer: the swap is saved as rejected, whatever it is.
FailClosed(a) ==
  /\ pc[a] = "fail"
  /\ Save(a, "rejected")
  /\ Goto(a, "release")
  /\ UNCHANGED <<lock, entity, executed, points>>

ReleaseClaimLock(a) ==
  LET s == SwapOf[a] IN
  /\ pc[a] = "release"
  /\ lock' = IF lock[s] = a THEN [lock EXCEPT ![s] = None] ELSE lock
  /\ Goto(a, "done")
  /\ UNCHANGED <<swap, entity, executed, points>>

\* The lock's TTL runs out, whatever its holder is doing.
ExpireLock(s) ==
  /\ lock[s] # None
  /\ lock' = [lock EXCEPT ![s] = None]
  /\ UNCHANGED <<swap, pc, entity, executed, points>>

\* Points for both participants, in two transactions of which either may fail.
RecordEngagement(c, sides) ==
  /\ pc[c] = "engage"
  /\ points' = [points EXCEPT ![c] = sides]
  /\ Goto(c, IF c \in Accepts THEN "release" ELSE "done")
  /\ UNCHANGED <<swap, lock, entity, executed>>

(***************************************************************************)
(* Declining takes no lock; neither do the supervisors.                    *)
(***************************************************************************)
ReadForDecline(d) ==
  LET row == swap[SwapOf[d]] IN
  /\ pc[d] = "idle" /\ Exists(d)
  /\ IF row.status = "pending" /\ row.target = ResponderOf[d]
       THEN Load(d) /\ Goto(d, "save")
       ELSE Goto(d, "done") /\ UNCHANGED entity
  /\ UNCHANGED <<swap, lock, executed, points>>

ReadPendingSwap(d) ==
  /\ pc[d] = "idle" /\ Exists(d)
  /\ IF swap[SwapOf[d]].status = "pending_approval"
       THEN Load(d) /\ Goto(d, "save")
       ELSE Goto(d, "done") /\ UNCHANGED entity
  /\ UNCHANGED <<swap, lock, executed, points>>

\* Mutant of ApproveSwap: the hand-off is left to a publish after the commit.
ApproveThenPublish(d) ==
  /\ pc[d] = "save"
  /\ Save(d, "accepted")
  /\ Goto(d, "engage")
  /\ UNCHANGED <<lock, entity, executed, points>>

ApproveSwap(d) ==
  /\ pc[d] = "save"
  /\ Save(d, "accepted")
  /\ Execute(d)
  /\ Goto(d, "engage")
  /\ UNCHANGED <<lock, entity, points>>

\* reject by the named responder, rejectSwap by a supervisor.
Reject(d) ==
  /\ pc[d] = "save"
  /\ Save(d, "rejected")
  /\ Goto(d, "done")
  /\ UNCHANGED <<lock, entity, executed, points>>

\* A statement throws in an accept, whose finally block still releases the lock.
StatementFails(a) ==
  /\ pc[a] \in InFlight
  /\ Goto(a, "release")
  /\ UNCHANGED <<swap, lock, entity, executed, points>>

\* The process dies: nothing releases the lock.
Crash(c) ==
  /\ pc[c] \in InFlight
  /\ Goto(c, "done")
  /\ UNCHANGED <<swap, lock, entity, executed, points>>

(***************************************************************************)
(* The specification.                                                      *)
(***************************************************************************)
Accept(a) ==
  \/ AcquireClaimLock(a) \/ RedisUnavailable(a)
  \/ ReadForAccept(a)
  \/ Resolve(a)
  \/ \E answer \in Answered : CheckEligibility(a, answer)
  \/ ReadForDecision(a)
  \/ Decide(a) \/ Refuse(a) \/ FailClosed(a)
  \/ StatementFails(a)
  \/ ReleaseClaimLock(a)

Quiescent ==
  /\ \A c \in Calls : pc[c] = "done"
  /\ UNCHANGED vars

Next ==
  \/ \E s \in Swaps : ProposeSwap(s) \/ ExpireLock(s)
  \/ \E a \in Accepts : Accept(a)
  \/ \E d \in Declines : ReadForDecline(d)
  \/ \E d \in Decisions : ReadPendingSwap(d)
  \/ \E d \in Approvals : ApproveSwap(d)
  \/ \E d \in Declines \cup Rejections : Reject(d)
  \/ \E c \in Calls : \E sides \in SUBSET Sides : RecordEngagement(c, sides)
  \/ \E c \in Calls : Crash(c)
  \/ Quiescent

Spec == Init /\ [][Next]_vars

(***************************************************************************)
(* Properties.                                                             *)
(***************************************************************************)
\* Two employees who accept one open swap cannot both become its target: who
\* resolved it first stays, with or without the lock.
TargetIsStable ==
  [][\A s \in Swaps :
       swap[s].target # None => swap'[s].target = swap[s].target]_vars

\* What scheduling is told to execute names the employee the swap row holds.
ExecutedForTarget ==
  \A s \in Swaps : \A e \in executed[s] : e.target = swap[s].target

\* An accept that executes its swap is the only one to execute it: no second
\* accept and no supervisor hands the same swap to scheduling again.
AcceptExecutesAlone ==
  \A s \in Swaps : \A e, f \in executed[s] : e.by \in Accepts => e = f

\* An accepted swap has its hand-off in the outbox, whatever crashed since.
AcceptedIsHandedOff ==
  \A s \in Swaps : swap[s].status = "accepted" => executed[s] # {}

\* The employees that scheduling was told to trade each swap with.
Partners == [s \in Swaps |-> {<<s, e.target>> : e \in executed[s]}]

Trade == INSTANCE ShiftAward
           WITH Shifts <- Swaps, Claims <- Swaps \X Employees,
                ShiftOf <- [c \in Swaps \X Employees |-> c[1]], awarded <- Partners

\* A swap may be handed over more than once, by supervisors who approve it together,
\* but always to one and the same employee, and it is not taken back.
TradedWithOne == Trade!Spec
================================================================================
