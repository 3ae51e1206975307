------------------------------- MODULE SwapProofs -------------------------------
(***************************************************************************)
(* Theorems about Swap, for any number of swaps, responders and calls.     *)
(***************************************************************************)
EXTENDS Swap, TLAPS

(***************************************************************************)
(* The inductive invariant.  A target, once resolved, is what every call   *)
(* that goes on to write has in its entity, so writing the entity back     *)
(* leaves the target alone.  A swap in a supervisor's hands is pending no  *)
(* more, and a swap that was executed has been decided for good.           *)
(***************************************************************************)
UnproposedIsOpen == \A s \in Swaps : swap[s].status = "none" => swap[s].target = None

DecidedHasTarget ==
  \A s \in Swaps :
    swap[s].status \in {"pending_approval", "accepted"} => swap[s].target # None

ResolvedTarget ==
  \A a \in Accepts :
    /\ pc[a] = "resolve" => entity[a].target = ResponderOf[a]
    /\ pc[a] \in {"validate"} \cup Answered => swap[SwapOf[a]].target = ResponderOf[a]

EntityTarget ==
  \A c \in Calls :
    pc[c] \in {"decide", "refuse", "fail", "save"}
      => /\ entity[c].target = swap[SwapOf[c]].target
         /\ entity[c].target # None

SupervisedIsDecided ==
  \A d \in Decisions :
    pc[d] = "save" => swap[SwapOf[d]].status \notin {"none", "pending"}

ExecutedIsDecided ==
  \A s \in Swaps : \A e \in executed[s] :
    /\ swap[s].status \in {"accepted", "rejected"}
    /\ e.target # None

NoSupervisorAfterAccept ==
  \A s \in Swaps : \A e \in executed[s] :
    e.by \in Accepts => \A d \in Decisions : SwapOf[d] = s => pc[d] # "save"

Inv ==
  /\ TypeOK
  /\ UnproposedIsOpen
  /\ DecidedHasTarget
  /\ ResolvedTarget
  /\ EntityTarget
  /\ SupervisedIsDecided
  /\ ExecutedIsDecided
  /\ NoSupervisorAfterAccept
  /\ ExecutedForTarget
  /\ AcceptExecutesAlone
  /\ AcceptedIsHandedOff

(***************************************************************************)
(* Type correctness.                                                       *)
(***************************************************************************)
LEMMA InitType == Init => TypeOK
  BY SwapAssumption DEF Init, TypeOK, Row, NoRow, Status

\* Changing fields of a row gives a row with those fields changed.
LEMMA RowStatus ==
  ASSUME NEW row \in Row, NEW status \in Status
  PROVE  /\ WithStatus(row, status) \in Row
         /\ WithStatus(row, status).status = status
         /\ WithStatus(row, status).target = row.target
         /\ WithStatus(row, status).shift = row.shift
  BY DEF Row, WithStatus

LEMMA RowTrade ==
  ASSUME NEW row \in Row, NEW t \in Employees \cup {None}, NEW h \in Shifts \cup {None}
  PROVE  /\ WithTrade(row, t, h) \in Row
         /\ WithTrade(row, t, h).status = row.status
         /\ WithTrade(row, t, h).target = t
         /\ WithTrade(row, t, h).shift = h
  BY DEF Row, WithTrade

LEMMA SaveType ==
  ASSUME TypeOK, NEW c \in Calls, NEW status \in Status, Save(c, status)
  PROVE  swap' \in [Swaps -> Row]
  <1> PICK base \in {entity[c], swap[SwapOf[c]]} :
        swap' = [swap EXCEPT ![SwapOf[c]] = WithStatus(base, status)]
    BY DEF Save
  <1>1. base \in Row
    BY SwapAssumption DEF TypeOK
  <1>2. WithStatus(base, status) \in Row
    BY <1>1, RowStatus
  <1> QED
    BY <1>2 DEF TypeOK

LEMMA ExecuteType ==
  ASSUME TypeOK, NEW c \in Calls, Execute(c)
  PROVE  executed' \in [Swaps -> SUBSET Event]
  BY SwapAssumption DEF Execute, TypeOK, Row, Event

LEMMA StepType == TypeOK /\ [Next]_vars => TypeOK'
  <1> SUFFICES ASSUME TypeOK, [Next]_vars PROVE TypeOK'
    OBVIOUS
  <1> USE SwapAssumption DEF InFlight, Answered, Goto
  <1>1. ASSUME NEW s \in Swaps, ProposeSwap(s) \/ ExpireLock(s) PROVE TypeOK'
    <2>1. [status |-> "pending", target |-> NamedTarget[s], shift |-> NamedShift[s]] \in Row
      BY DEF Row, Status
    <2> QED
      BY <1>1, <2>1 DEF ProposeSwap, ExpireLock, TypeOK
  <1>2. ASSUME NEW a \in Accepts, Accept(a) PROVE TypeOK'
    <2> a \in Calls
      BY DEF Calls, Responses
    <2>1. CASE AcquireClaimLock(a) \/ RedisUnavailable(a) \/ ReleaseClaimLock(a)
      BY <2>1 DEF AcquireClaimLock, RedisUnavailable, ReleaseClaimLock, TypeOK
    <2>2. CASE ReadForAccept(a)
      <3>1. ResponderOf[a] \in Employees
        BY DEF Responses
      <3>2. \A h \in Shifts \cup {None} :
              WithTrade(swap[SwapOf[a]], ResponderOf[a], h) \in Row
        BY <3>1, RowTrade DEF TypeOK
      <3>3. swap[SwapOf[a]].shift \in Shifts \cup {None} /\ OfferOf[a] \in Shifts \cup {None}
        BY DEF TypeOK, Row
      <3> QED
        BY <2>2, <3>2, <3>3 DEF ReadForAccept, TypeOK
    <2>3. CASE Resolve(a)
      <3>1. swap[SwapOf[a]] \in Row /\ entity[a] \in Row
        BY DEF TypeOK
      <3>2. WithTrade(swap[SwapOf[a]], entity[a].target, entity[a].shift) \in Row
        BY <3>1, RowTrade DEF Row
      <3> QED
        BY <2>3, <3>2 DEF Resolve, TypeOK
    <2>4. ASSUME NEW answer \in Answered, CheckEligibility(a, answer) PROVE TypeOK'
      BY <2>4 DEF CheckEligibility, TypeOK, Row
    <2>5. CASE ReadForDecision(a)
      BY <2>5 DEF ReadForDecision, Load, TypeOK
    <2>6. CASE Decide(a)
      <3>1. \A status \in Status : WithStatus(swap[SwapOf[a]], status) \in Row
        BY RowStatus DEF TypeOK
      <3> QED
        BY <2>6, <3>1, ExecuteType DEF Decide, TypeOK, Status
    <2>7. CASE Refuse(a)
      <3>1. WithStatus(swap[SwapOf[a]], "rejected") \in Row
        BY RowStatus DEF TypeOK, Status
      <3> QED
        BY <2>7, <3>1 DEF Refuse, TypeOK
    <2>8. CASE FailClosed(a)
      BY <2>8, SaveType DEF FailClosed, TypeOK, Status
    <2>9. CASE StatementFails(a)
      BY <2>9 DEF StatementFails, TypeOK
    <2> QED
      BY <1>2, <2>1, <2>2, <2>3, <2>4, <2>5, <2>6, <2>7, <2>8, <2>9 DEF Accept
  <1>3. ASSUME NEW d \in Declines, ReadForDecline(d) PROVE TypeOK'
    BY <1>3 DEF ReadForDecline, Load, TypeOK, Calls, Responses
  <1>4. ASSUME NEW d \in Decisions, ReadPendingSwap(d) PROVE TypeOK'
    BY <1>4 DEF ReadPendingSwap, Load, TypeOK, Calls
  <1>5. ASSUME NEW d \in Approvals, ApproveSwap(d) PROVE TypeOK'
    <2>1. d \in Calls
      BY DEF Calls, Decisions
    <2> QED
      BY <1>5, <2>1, SaveType, ExecuteType DEF ApproveSwap, TypeOK, Status
  <1>6. ASSUME NEW d \in Declines \cup Rejections, Reject(d) PROVE TypeOK'
    <2>1. d \in Calls
      BY DEF Calls, Decisions, Responses
    <2> QED
      BY <1>6, <2>1, SaveType DEF Reject, TypeOK, Status
  <1>7. ASSUME NEW c \in Calls, NEW sides \in SUBSET Sides, RecordEngagement(c, sides)
        PROVE TypeOK'
    BY <1>7 DEF RecordEngagement, TypeOK
  <1>8. ASSUME NEW c \in Calls, Crash(c) PROVE TypeOK'
    BY <1>8 DEF Crash, TypeOK
  <1>9. CASE UNCHANGED vars
    BY <1>9 DEF vars, TypeOK
  <1> QED
    BY <1>1, <1>2, <1>3, <1>4, <1>5, <1>6, <1>7, <1>8, <1>9 DEF Next, Quiescent

(***************************************************************************)
(* Safety.                                                                 *)
(***************************************************************************)
LEMMA InitInv == Init => Inv
  <1> SUFFICES ASSUME Init PROVE Inv
    OBVIOUS
  <1>1. TypeOK
    BY InitType
  <1> QED
    BY <1>1, SwapAssumption
    DEF Init, Inv, NoRow, UnproposedIsOpen, DecidedHasTarget, ResolvedTarget, EntityTarget,
        SupervisedIsDecided, ExecutedIsDecided, NoSupervisorAfterAccept, ExecutedForTarget,
        AcceptExecutesAlone, AcceptedIsHandedOff, Answered, Calls, Responses

\* Steps that write no swap and no outbox row.
LEMMA QuietStep ==
  ASSUME Inv, TypeOK', UNCHANGED <<swap, executed>>,
         NEW c \in Calls, NEW place, pc' = [pc EXCEPT ![c] = place],
         \A q \in Calls \ {c} : entity'[q] = entity[q],
         c \in Accepts /\ place = "resolve" => entity'[c].target = ResponderOf[c],
         c \in Accepts /\ place \in {"validate"} \cup Answered
           => swap[SwapOf[c]].target = ResponderOf[c],
         place \in {"decide", "refuse", "fail", "save"}
           => /\ entity'[c].target = swap[SwapOf[c]].target
              /\ entity'[c].target # None,
         place = "save" => c \notin Decisions \/ swap[SwapOf[c]].status = "pending_approval"
  PROVE  Inv'
  <1>1. ResolvedTarget'
    BY DEF Inv, TypeOK, ResolvedTarget, Calls, Responses
  <1>2. EntityTarget'
    BY DEF Inv, TypeOK, EntityTarget
  <1>3. SupervisedIsDecided'
    BY DEF Inv, TypeOK, SupervisedIsDecided, Calls
  <1>4. NoSupervisorAfterAccept'
    BY DEF Inv, TypeOK, NoSupervisorAfterAccept, ExecutedIsDecided, Calls
  <1> QED
    BY <1>1, <1>2, <1>3, <1>4
    DEF Inv, UnproposedIsOpen, DecidedHasTarget, ExecutedIsDecided, ExecutedForTarget,
        AcceptExecutesAlone, AcceptedIsHandedOff

\* Steps that write one swap, keep its target and end in no writing phase.
LEMMA StatusStep ==
  ASSUME Inv, TypeOK', NEW c \in Calls, UNCHANGED entity,
         NEW place \in {"release", "done", "engage"}, pc' = [pc EXCEPT ![c] = place],
         NEW row \in Row, swap' = [swap EXCEPT ![SwapOf[c]] = row],
         row.target = swap[SwapOf[c]].target, row.target # None,
         row.status \in {"pending_approval", "accepted", "rejected"},
         executed[SwapOf[c]] # {} => row.status \in {"accepted", "rejected"},
         \/ executed' = executed /\ row.status # "accepted"
         \/ /\ row.status = "accepted"
            /\ entity[c].target = row.target
            /\ \/ c \in Accepts /\ swap[SwapOf[c]].status = "pending"
               \/ c \in Decisions /\ pc[c] = "save"
            /\ Execute(c)
  PROVE  Inv'
  <1> DEFINE s == SwapOf[c]
             ev == [by |-> c, target |-> entity[c].target, shift |-> entity[c].shift]
  <1> USE SwapAssumption
  <1>0. s \in Swaps
    OBVIOUS
  <1>1. \A t \in Swaps : swap'[t].target = swap[t].target
    BY DEF Inv, TypeOK
  <1>2. UnproposedIsOpen' /\ DecidedHasTarget'
    BY <1>0, <1>1 DEF Inv, TypeOK, UnproposedIsOpen, DecidedHasTarget
  <1>3. ResolvedTarget' /\ EntityTarget'
    BY <1>1 DEF Inv, TypeOK, ResolvedTarget, EntityTarget, Calls, Responses, Answered
  <1>4. SupervisedIsDecided'
    BY <1>0 DEF Inv, TypeOK, SupervisedIsDecided, Calls
  <1>5. CASE executed' = executed /\ row.status # "accepted"
    <2>1. ExecutedIsDecided' /\ ExecutedForTarget' /\ AcceptExecutesAlone'
      BY <1>0, <1>1, <1>5
      DEF Inv, TypeOK, ExecutedIsDecided, ExecutedForTarget, AcceptExecutesAlone
    <2>2. NoSupervisorAfterAccept'
      BY <1>5 DEF Inv, TypeOK, NoSupervisorAfterAccept, Calls
    <2>3. AcceptedIsHandedOff'
      BY <1>0, <1>5 DEF Inv, TypeOK, AcceptedIsHandedOff
    <2> QED
      BY <1>2, <1>3, <1>4, <2>1, <2>2, <2>3 DEF Inv
  <1>6. CASE row.status = "accepted" /\ Execute(c)
    <2>1. executed' = [executed EXCEPT ![s] = @ \cup {ev}]
      BY <1>6 DEF Execute
    <2>2. /\ executed'[s] = executed[s] \cup {ev}
          /\ \A t \in Swaps \ {s} : executed'[t] = executed[t]
      BY <1>0, <2>1 DEF Inv, TypeOK
    <2>3. entity[c].target = row.target
      BY <1>6
    <2>4. ExecutedIsDecided' /\ ExecutedForTarget'
      BY <1>0, <1>1, <1>6, <2>2, <2>3 DEF Inv, TypeOK, ExecutedIsDecided, ExecutedForTarget
    <2>5. AcceptedIsHandedOff'
      BY <1>0, <2>2 DEF Inv, TypeOK, AcceptedIsHandedOff
    <2>6. CASE c \in Accepts /\ swap[s].status = "pending"
      <3>1. executed[s] = {}
        BY <1>0, <2>6 DEF Inv, TypeOK, ExecutedIsDecided
      <3>2. AcceptExecutesAlone'
        BY <2>2, <3>1 DEF Inv, AcceptExecutesAlone
      <3>3. \A d \in Decisions : SwapOf[d] = s => pc'[d] # "save"
        BY <2>6 DEF Inv, TypeOK, SupervisedIsDecided, Calls
      <3>4. NoSupervisorAfterAccept'
        BY <2>2, <3>1, <3>3 DEF Inv, TypeOK, NoSupervisorAfterAccept, Calls
      <3> QED
        BY <1>2, <1>3, <1>4, <2>4, <2>5, <3>2, <3>4 DEF Inv
    <2>7. CASE c \in Decisions /\ pc[c] = "save"
      <3>1. \A e \in executed[s] : e.by \notin Accepts
        BY <1>0, <2>7 DEF Inv, NoSupervisorAfterAccept
      <3>2. c \notin Accepts
        BY <2>7
      <3>3. AcceptExecutesAlone'
        BY <2>2, <3>1, <3>2 DEF Inv, AcceptExecutesAlone
      <3>4. NoSupervisorAfterAccept'
        BY <2>2, <3>1, <3>2 DEF Inv, TypeOK, NoSupervisorAfterAccept, Calls
      <3> QED
        BY <1>2, <1>3, <1>4, <2>4, <2>5, <3>3, <3>4 DEF Inv
    <2> QED
      BY <1>6, <2>6, <2>7
  <1> QED
    BY <1>5, <1>6

\* Saving the entity with a final status, from a phase that loaded it.
LEMMA SaveStep ==
  ASSUME Inv, TypeOK', NEW c \in Calls, pc[c] \in {"fail", "save"}, UNCHANGED entity,
         NEW place \in {"release", "done", "engage"}, pc' = [pc EXCEPT ![c] = place],
         NEW status \in {"accepted", "rejected"}, Save(c, status),
         \/ executed' = executed /\ status = "rejected"
         \/ status = "accepted" /\ c \in Decisions /\ pc[c] = "save" /\ Execute(c)
  PROVE  Inv'
  <1> PICK base \in {entity[c], swap[SwapOf[c]]} :
        swap' = [swap EXCEPT ![SwapOf[c]] = WithStatus(base, status)]
    BY DEF Save
  <1> DEFINE row == WithStatus(base, status)
  <1>1. base \in Row
    BY SwapAssumption DEF Inv, TypeOK
  <1>2. row \in Row /\ row.status = status /\ row.target = base.target
    BY <1>1, RowStatus DEF Status
  <1>3. row.target = swap[SwapOf[c]].target /\ row.target # None /\ entity[c].target = row.target
    BY <1>2 DEF Inv, EntityTarget
  <1> HIDE DEF row
  <1> QED
    BY <1>2, <1>3, StatusStep DEF row

\* A proposal creates the row: no call has got far with it.
LEMMA ProposeStep ==
  ASSUME Inv, TypeOK', NEW s \in Swaps, ProposeSwap(s)
  PROVE  Inv'
  <1> USE SwapAssumption DEF ProposeSwap
  <1> DEFINE row == [status |-> "pending", target |-> NamedTarget[s], shift |-> NamedShift[s]]
  <1>1. swap[s].target = None /\ executed[s] = {}
    BY DEF Inv, TypeOK, UnproposedIsOpen, ExecutedIsDecided
  <1>2. swap'[s].status = "pending" /\ \A t \in Swaps \ {s} : swap'[t] = swap[t]
    BY DEF Inv, TypeOK
  <1>3. \A c \in Calls : SwapOf[c] = s => pc[c] \notin {"decide", "refuse", "fail", "save"}
    BY <1>1 DEF Inv, EntityTarget
  <1>4. \A a \in Accepts : SwapOf[a] = s => pc[a] \notin {"validate"} \cup Answered
    BY <1>1 DEF Inv, ResolvedTarget, Responses
  <1>5. UnproposedIsOpen' /\ DecidedHasTarget'
    BY <1>2 DEF Inv, UnproposedIsOpen, DecidedHasTarget
  <1>6. ResolvedTarget' /\ EntityTarget' /\ SupervisedIsDecided'
    BY <1>2, <1>3, <1>4
    DEF Inv, ResolvedTarget, EntityTarget, SupervisedIsDecided, Calls, Responses
  <1>7. ExecutedIsDecided' /\ NoSupervisorAfterAccept' /\ ExecutedForTarget'
    BY <1>1, <1>2 DEF Inv, ExecutedIsDecided, NoSupervisorAfterAccept, ExecutedForTarget
  <1>8. AcceptExecutesAlone' /\ AcceptedIsHandedOff'
    BY <1>2 DEF Inv, AcceptExecutesAlone, AcceptedIsHandedOff
  <1> QED
    BY <1>5, <1>6, <1>7, <1>8 DEF Inv

\* Resolving a pending swap: its target was nobody or the responder already.
LEMMA ResolveStep ==
  ASSUME Inv, TypeOK', NEW a \in Accepts, pc[a] = "resolve",
         swap[SwapOf[a]].status = "pending",
         swap[SwapOf[a]].target \in {None, ResponderOf[a]},
         swap' = [swap EXCEPT ![SwapOf[a]] = WithTrade(@, entity[a].target, entity[a].shift)],
         pc' = [pc EXCEPT ![a] = "validate"], UNCHANGED <<entity, executed>>
  PROVE  Inv'
  <1> USE SwapAssumption
  <1> DEFINE s == SwapOf[a]
  <1>0. a \in Calls /\ s \in Swaps /\ ResponderOf[a] \in Employees
    BY DEF Calls, Responses
  <1>1. entity[a].target = ResponderOf[a]
    BY DEF Inv, ResolvedTarget
  <1>2. swap[s] \in Row /\ entity[a].target \in Employees \cup {None}
          /\ entity[a].shift \in Shifts \cup {None}
    BY <1>0 DEF Inv, TypeOK, Row
  <1>3. /\ swap'[s].status = "pending"
        /\ swap'[s].target = ResponderOf[a]
        /\ \A t \in Swaps \ {s} : swap'[t] = swap[t]
    <2> DEFINE row == WithTrade(swap[s], entity[a].target, entity[a].shift)
    <2>1. row.status = swap[s].status /\ row.target = entity[a].target
      BY <1>2, RowTrade
    <2>2. swap' = [swap EXCEPT ![s] = row]
      OBVIOUS
    <2> HIDE DEF row
    <2>3. swap'[s] = row /\ \A t \in Swaps \ {s} : swap'[t] = swap[t]
      BY <1>0, <2>2 DEF Inv, TypeOK
    <2> QED
      BY <1>1, <2>1, <2>3
  <1>4. executed[s] = {}
    BY <1>0 DEF Inv, TypeOK, ExecutedIsDecided
  <1>5. \A t \in Swaps : swap[t].target # None => swap'[t].target = swap[t].target
    BY <1>3
  <1>6. UnproposedIsOpen' /\ DecidedHasTarget'
    BY <1>3 DEF Inv, UnproposedIsOpen, DecidedHasTarget
  <1>7. ResolvedTarget'
    <2>1. \A b \in Accepts : b \in Calls /\ ResponderOf[b] # None
      BY DEF Calls, Responses
    <2> QED
      BY <1>0, <1>3, <1>5, <2>1 DEF Inv, TypeOK, ResolvedTarget, Answered
  <1>8. EntityTarget'
    BY <1>0, <1>5 DEF Inv, TypeOK, EntityTarget
  <1>9. SupervisedIsDecided'
    BY <1>0, <1>3 DEF Inv, TypeOK, SupervisedIsDecided, Calls
  <1>10. ExecutedIsDecided' /\ ExecutedForTarget'
    BY <1>3, <1>4 DEF Inv, ExecutedIsDecided, ExecutedForTarget
  <1>11. NoSupervisorAfterAccept'
    BY <1>0 DEF Inv, TypeOK, NoSupervisorAfterAccept, Calls
  <1>12. AcceptExecutesAlone' /\ AcceptedIsHandedOff'
    BY <1>3 DEF Inv, AcceptExecutesAlone, AcceptedIsHandedOff
  <1> QED
    BY <1>6, <1>7, <1>8, <1>9, <1>10, <1>11, <1>12 DEF Inv

\* The conditional decision of an accept, once it finds the swap pending.
LEMMA DecideStep ==
  ASSUME Inv, TypeOK', NEW a \in Accepts, pc[a] \in {"decide", "refuse"},
         swap[SwapOf[a]].status = "pending", UNCHANGED entity,
         NEW status \in {"pending_approval", "accepted", "rejected"},
         swap' = [swap EXCEPT ![SwapOf[a]] = WithStatus(@, status)],
         NEW place \in {"release", "engage"}, pc' = [pc EXCEPT ![a] = place],
         IF status = "accepted" THEN Execute(a) ELSE executed' = executed
  PROVE  Inv'
  <1> USE SwapAssumption
  <1> DEFINE row == WithStatus(swap[SwapOf[a]], status)
  <1>1. a \in Calls
    BY DEF Calls, Responses
  <1>2. row \in Row /\ row.status = status /\ row.target = swap[SwapOf[a]].target
    BY <1>1, RowStatus DEF Inv, TypeOK, Status
  <1>3. row.target # None /\ entity[a].target = row.target
    BY <1>1, <1>2 DEF Inv, EntityTarget
  <1>4. executed[SwapOf[a]] = {}
    BY <1>1 DEF Inv, TypeOK, ExecutedIsDecided
  <1>5. swap' = [swap EXCEPT ![SwapOf[a]] = row]
    OBVIOUS
  <1> HIDE DEF row
  <1>6. \/ executed' = executed /\ row.status # "accepted"
        \/ row.status = "accepted" /\ Execute(a)
    BY <1>2
  <1>7. executed[SwapOf[a]] # {} => row.status \in {"accepted", "rejected"}
    BY <1>4
  <1>8. row.status \in {"pending_approval", "accepted", "rejected"}
    BY <1>2
  <1>9. row.target = swap[SwapOf[a]].target /\ place \in {"release", "done", "engage"}
    BY <1>2
  <1>10. row \in Row
    BY <1>2
  <1> QED
    BY <1>1, <1>3, <1>5, <1>6, <1>7, <1>8, <1>9, <1>10, StatusStep

LEMMA AcceptStep ==
  ASSUME Inv, TypeOK', NEW a \in Accepts, Accept(a)
  PROVE  Inv'
  <1> USE SwapAssumption DEF Goto
  <1>0. a \in Calls /\ a \notin Decisions
    BY DEF Calls, Responses
  <1>1. CASE AcquireClaimLock(a) \/ RedisUnavailable(a) \/ ReleaseClaimLock(a)
               \/ StatementFails(a)
    <2>1. UNCHANGED <<swap, executed, entity>>
      BY <1>1 DEF AcquireClaimLock, RedisUnavailable, ReleaseClaimLock, StatementFails
    <2>2. \E place \in {"read", "done", "release"} : pc' = [pc EXCEPT ![a] = place]
      BY <1>1 DEF AcquireClaimLock, RedisUnavailable, ReleaseClaimLock, StatementFails
    <2> QED
      BY <1>0, <2>1, <2>2, QuietStep DEF Answered
  <1>2. CASE ReadForAccept(a)
    <2>1. CASE pc' = [pc EXCEPT ![a] = "release"] /\ entity' = entity
      BY <1>0, <1>2, <2>1, QuietStep DEF ReadForAccept, Answered
    <2>2. CASE /\ pc' = [pc EXCEPT ![a] = "resolve"]
               /\ \E h \in Shifts \cup {None} : entity' = [entity EXCEPT ![a] =
                    WithTrade(swap[SwapOf[a]], ResponderOf[a], h)]
      <3>1. ResponderOf[a] \in Employees /\ swap[SwapOf[a]] \in Row
        BY <1>0 DEF Responses, Inv, TypeOK
      <3>2. entity'[a].target = ResponderOf[a]
        BY <1>0, <2>2, <3>1, RowTrade DEF Inv, TypeOK
      <3>3. \A q \in Calls \ {a} : entity'[q] = entity[q]
        BY <2>2 DEF Inv, TypeOK
      <3> QED
        BY <1>0, <1>2, <2>2, <3>2, <3>3, QuietStep DEF ReadForAccept, Answered
    <2>3. swap[SwapOf[a]].shift \in Shifts \cup {None} /\ OfferOf[a] \in Shifts \cup {None}
      BY <1>0 DEF Inv, TypeOK, Row
    <2> QED
      BY <1>2, <2>1, <2>2, <2>3 DEF ReadForAccept
  <1>3. CASE Resolve(a)
    <2>1. CASE swap[SwapOf[a]].status = "pending"
                 /\ swap[SwapOf[a]].target \in {None, ResponderOf[a]}
      BY <1>3, <2>1, ResolveStep DEF Resolve
    <2>2. CASE ~(swap[SwapOf[a]].status = "pending"
                   /\ swap[SwapOf[a]].target \in {None, ResponderOf[a]})
      BY <1>0, <1>3, <2>2, QuietStep DEF Resolve, Answered
    <2> QED
      BY <2>1, <2>2
  <1>4. ASSUME NEW answer \in Answered, CheckEligibility(a, answer) PROVE Inv'
    <2>1. swap[SwapOf[a]].target = ResponderOf[a]
      BY <1>4 DEF CheckEligibility, Inv, ResolvedTarget
    <2> QED
      BY <1>0, <1>4, <2>1, QuietStep DEF CheckEligibility, Answered
  <1>5. CASE ReadForDecision(a)
    <2>1. swap[SwapOf[a]].target = ResponderOf[a] /\ ResponderOf[a] # None
      BY <1>5 DEF ReadForDecision, Inv, ResolvedTarget, Responses
    <2>2. entity'[a] = swap[SwapOf[a]] /\ \A q \in Calls \ {a} : entity'[q] = entity[q]
      BY <1>0, <1>5 DEF ReadForDecision, Load, Inv, TypeOK
    <2>3. \E place \in {"decide", "refuse", "fail"} : pc' = [pc EXCEPT ![a] = place]
      BY <1>5 DEF ReadForDecision
    <2>4. UNCHANGED <<swap, executed>>
      BY <1>5 DEF ReadForDecision
    <2>5. PICK place \in {"decide", "refuse", "fail"} : pc' = [pc EXCEPT ![a] = place]
      BY <2>3
    <2>6. place \notin {"resolve", "validate", "save"} \cup Answered
      BY DEF Answered
    <2>7. entity'[a].target = swap[SwapOf[a]].target /\ entity'[a].target # None
      BY <2>1, <2>2
    <2> QED
      BY <1>0, <2>2, <2>4, <2>5, <2>6, <2>7, QuietStep
  <1>6. CASE Decide(a)
    <2>1. CASE swap[SwapOf[a]].status # "pending"
      BY <1>0, <1>6, <2>1, QuietStep DEF Decide, Answered
    <2>2. CASE swap[SwapOf[a]].status = "pending"
      BY <1>6, <2>2, DecideStep DEF Decide
    <2> QED
      BY <2>1, <2>2
  <1>7. CASE Refuse(a)
    <2>1. CASE swap[SwapOf[a]].status # "pending"
      BY <1>0, <1>7, <2>1, QuietStep DEF Refuse, Answered
    <2>2. CASE swap[SwapOf[a]].status = "pending"
      BY <1>7, <2>2, DecideStep DEF Refuse
    <2> QED
      BY <2>1, <2>2
  <1>8. CASE FailClosed(a)
    BY <1>0, <1>8, SaveStep DEF FailClosed
  <1> QED
    BY <1>1, <1>2, <1>3, <1>4, <1>5, <1>6, <1>7, <1>8 DEF Accept

LEMMA StepInv == Inv /\ [Next]_vars => Inv'
  <1> SUFFICES ASSUME Inv, [Next]_vars PROVE Inv'
    OBVIOUS
  <1>0. TypeOK'
    BY StepType DEF Inv
  <1> USE SwapAssumption DEF Goto
  <1>1. ASSUME NEW s \in Swaps, ProposeSwap(s) PROVE Inv'
    BY <1>0, <1>1, ProposeStep
  <1>2. ASSUME NEW a \in Accepts, Accept(a) PROVE Inv'
    BY <1>0, <1>2, AcceptStep
  <1>3. ASSUME NEW d \in Declines, ReadForDecline(d) PROVE Inv'
    <2>1. d \in Calls /\ d \notin Accepts /\ d \notin Decisions /\ ResponderOf[d] # None
      BY DEF Calls, Responses
    <2>2. CASE pc' = [pc EXCEPT ![d] = "done"] /\ entity' = entity
      BY <1>0, <1>3, <2>1, <2>2, QuietStep DEF ReadForDecline, Answered
    <2>3. CASE pc' = [pc EXCEPT ![d] = "save"] /\ Load(d) /\ swap[SwapOf[d]].target = ResponderOf[d]
      <3>1. entity'[d] = swap[SwapOf[d]] /\ \A q \in Calls \ {d} : entity'[q] = entity[q]
        BY <2>1, <2>3 DEF Load, Inv, TypeOK
      <3> QED
        BY <1>0, <1>3, <2>1, <2>3, <3>1, QuietStep DEF ReadForDecline, Answered
    <2> QED
      BY <1>3, <2>2, <2>3 DEF ReadForDecline
  <1>4. ASSUME NEW d \in Decisions, ReadPendingSwap(d) PROVE Inv'
    <2>1. d \in Calls /\ d \notin Accepts /\ SwapOf[d] \in Swaps
      BY DEF Calls
    <2>2. CASE pc' = [pc EXCEPT ![d] = "done"] /\ entity' = entity
      BY <1>0, <1>4, <2>1, <2>2, QuietStep DEF ReadPendingSwap, Answered
    <2>3. CASE /\ pc' = [pc EXCEPT ![d] = "save"]
               /\ Load(d)
               /\ swap[SwapOf[d]].status = "pending_approval"
      <3>1. entity'[d] = swap[SwapOf[d]] /\ \A q \in Calls \ {d} : entity'[q] = entity[q]
        BY <2>1, <2>3 DEF Load, Inv, TypeOK
      <3>2. swap[SwapOf[d]].target # None
        BY <2>1, <2>3 DEF Inv, DecidedHasTarget
      <3> QED
        BY <1>0, <1>4, <2>1, <2>3, <3>1, <3>2, QuietStep DEF ReadPendingSwap, Answered
    <2> QED
      BY <1>4, <2>2, <2>3 DEF ReadPendingSwap
  <1>5. ASSUME NEW d \in Approvals, ApproveSwap(d) PROVE Inv'
    <2>1. d \in Calls /\ d \in Decisions
      BY DEF Calls, Decisions
    <2> QED
      BY <1>0, <1>5, <2>1, SaveStep DEF ApproveSwap
  <1>6. ASSUME NEW d \in Declines \cup Rejections, Reject(d) PROVE Inv'
    <2>1. d \in Calls
      BY DEF Calls, Decisions, Responses
    <2> QED
      BY <1>0, <1>6, <2>1, SaveStep DEF Reject
  <1>7. ASSUME NEW c \in Calls, NEW sides \in SUBSET Sides, RecordEngagement(c, sides)
        PROVE Inv'
    BY <1>0, <1>7, QuietStep DEF RecordEngagement, Answered
  <1>8. ASSUME NEW c \in Calls, Crash(c) PROVE Inv'
    BY <1>0, <1>8, QuietStep DEF Crash, Answered
  <1>9. ASSUME NEW s \in Swaps, ExpireLock(s) PROVE Inv'
    BY <1>0, <1>9
    DEF ExpireLock, Inv, UnproposedIsOpen, DecidedHasTarget, ResolvedTarget, EntityTarget,
        SupervisedIsDecided, ExecutedIsDecided, NoSupervisorAfterAccept, ExecutedForTarget,
        AcceptExecutesAlone, AcceptedIsHandedOff
  <1>10. CASE UNCHANGED vars
    BY <1>0, <1>10
    DEF vars, Inv, UnproposedIsOpen, DecidedHasTarget, ResolvedTarget, EntityTarget,
        SupervisedIsDecided, ExecutedIsDecided, NoSupervisorAfterAccept, ExecutedForTarget,
        AcceptExecutesAlone, AcceptedIsHandedOff
  <1> QED
    BY <1>1, <1>2, <1>3, <1>4, <1>5, <1>6, <1>7, <1>8, <1>9, <1>10 DEF Next, Quiescent

LEMMA InvHolds == Spec => []Inv
  BY InitInv, StepInv, PTL DEF Spec

\* Every row, entity and outbox event the calls write is well formed.
THEOREM SwapTypeCorrect == Spec => []TypeOK
  BY InvHolds, PTL DEF Inv

\* Scheduling is never told to execute a swap for someone who is not its target.
THEOREM ExecutedForTargetHolds == Spec => []ExecutedForTarget
  BY InvHolds, PTL DEF Inv

\* A swap an accept executed is executed by nobody else, however many accepts
\* outlive the lock and however many supervisors act on the queue.
THEOREM AcceptExecutesAloneHolds == Spec => []AcceptExecutesAlone
  BY InvHolds, PTL DEF Inv

\* No path leaves a swap accepted without its hand-off in the outbox.
THEOREM AcceptedIsHandedOffHolds == Spec => []AcceptedIsHandedOff
  BY InvHolds, PTL DEF Inv

\* The writes that reach a resolved swap keep its target.
LEMMA StepTarget ==
  ASSUME Inv, [Next]_vars, NEW s \in Swaps, swap[s].target # None
  PROVE  swap'[s].target = swap[s].target
  <1> USE SwapAssumption
  <1>1. ASSUME NEW c \in Calls, pc[c] \in {"fail", "save"}, NEW status \in Status, Save(c, status)
        PROVE swap'[s].target = swap[s].target
    <2> PICK base \in {entity[c], swap[SwapOf[c]]} :
          swap' = [swap EXCEPT ![SwapOf[c]] = WithStatus(base, status)]
      BY <1>1 DEF Save
    <2>1. base \in Row /\ base.target = swap[SwapOf[c]].target
      BY <1>1 DEF Inv, TypeOK, EntityTarget
    <2>2. WithStatus(base, status).target = base.target
      BY <2>1, RowStatus
    <2> QED
      BY <2>1, <2>2 DEF Inv, TypeOK
  <1>2. ASSUME NEW a \in Accepts, Resolve(a) PROVE swap'[s].target = swap[s].target
    <2>1. a \in Calls /\ entity[a].target = ResponderOf[a] /\ ResponderOf[a] \in Employees
      BY <1>2 DEF Resolve, Inv, ResolvedTarget, Calls, Responses
    <2>2. /\ entity[a].shift \in Shifts \cup {None}
          /\ swap[SwapOf[a]] \in Row
      BY <2>1 DEF Inv, TypeOK, Row
    <2>3. WithTrade(swap[SwapOf[a]], entity[a].target, entity[a].shift).target = ResponderOf[a]
      BY <2>1, <2>2, RowTrade
    <2> QED
      BY <1>2, <2>1, <2>3 DEF Resolve, Inv, TypeOK
  <1>3. ASSUME NEW a \in Accepts, Decide(a) \/ Refuse(a) PROVE swap'[s].target = swap[s].target
    <2>1. a \in Calls
      BY DEF Calls, Responses
    <2>2. \A status \in Status :
            WithStatus(swap[SwapOf[a]], status).target = swap[SwapOf[a]].target
      BY <2>1, RowStatus DEF Inv, TypeOK
    <2> QED
      BY <1>3, <2>1, <2>2 DEF Decide, Refuse, Inv, TypeOK, Status
  <1>4. ASSUME NEW t \in Swaps, ProposeSwap(t) PROVE swap'[s].target = swap[s].target
    BY <1>4 DEF ProposeSwap, Inv, TypeOK, UnproposedIsOpen
  <1>5. ASSUME NEW a \in Accepts, FailClosed(a) PROVE swap'[s].target = swap[s].target
    BY <1>1, <1>5 DEF FailClosed, Calls, Responses, Status
  <1>6. ASSUME NEW d \in Calls, ApproveSwap(d) \/ Reject(d) PROVE swap'[s].target = swap[s].target
    BY <1>1, <1>6 DEF ApproveSwap, Reject, Status
  <1>7. CASE UNCHANGED swap
    BY <1>7
  <1> QED
    BY <1>2, <1>3, <1>4, <1>5, <1>6, <1>7
    DEF Next, Accept, Quiescent, vars, Calls, Responses, Decisions, ExpireLock,
        AcquireClaimLock, RedisUnavailable, ReadForAccept, CheckEligibility,
        ReadForDecision, StatementFails, ReleaseClaimLock, ReadForDecline,
        ReadPendingSwap, RecordEngagement, Crash

\* Of the employees who accept one open swap the first to resolve it keeps it.
THEOREM TargetIsStableHolds == Spec => TargetIsStable
  <1>1. Inv /\ [Next]_vars
          => [\A s \in Swaps :
                swap[s].target # None => swap'[s].target = swap[s].target]_vars
    BY StepTarget
  <1> QED
    BY <1>1, InvHolds, PTL DEF Spec, TargetIsStable

(***************************************************************************)
(* Swaps implement ShiftAward: who executes a swap has loaded the target   *)
(* that the row holds, and that is whom every earlier event named.         *)
(***************************************************************************)
TradeStep == [Trade!Next]_Partners

LEMMA ExecuteAwards ==
  ASSUME Inv, NEW c \in Calls, pc[c] \in {"decide", "save"}, Execute(c)
  PROVE  TradeStep
  <1> PICK s \in Swaps : s = SwapOf[c]
    BY SwapAssumption
  <1> PICK t \in Employees : t = entity[c].target
    BY DEF Inv, TypeOK, Row, EntityTarget
  <1>1. \A e \in executed[s] : e.target = t
    BY DEF Inv, EntityTarget, ExecutedForTarget
  <1>2. /\ executed'[s] = executed[s] \cup {[by |-> c, target |-> t, shift |-> entity[c].shift]}
        /\ \A u \in Swaps \ {s} : executed'[u] = executed[u]
    BY DEF Execute, Inv, TypeOK
  <1>3. \A e \in executed'[s] : e.target = t
    BY <1>1, <1>2
  <1>4. Partners[s] \subseteq {<<s, t>>} /\ Partners'[s] = {<<s, t>>}
    <2>1. /\ Partners[s] = {<<s, e.target>> : e \in executed[s]}
          /\ Partners'[s] = {<<s, e.target>> : e \in executed'[s]}
      BY DEF Partners
    <2>2. \A e \in executed[s] : <<s, e.target>> = <<s, t>>
      BY <1>1
    <2>3. \A e \in executed'[s] : <<s, e.target>> = <<s, t>>
      BY <1>3
    <2>4. executed'[s] # {}
      BY <1>2
    <2> QED
      BY <2>1, <2>2, <2>3, <2>4
  <1>5. \A u \in Swaps \ {s} : Partners'[u] = Partners[u]
    BY <1>2 DEF Partners
  <1>6. Partners' = [Partners EXCEPT ![s] = {<<s, t>>}]
    BY <1>4, <1>5 DEF Partners
  <1>7. Trade!Award(<<s, t>>)
    BY <1>4, <1>6 DEF Trade!Award
  <1> QED
    BY <1>7 DEF TradeStep, Trade!Next

LEMMA NextTrades == Inv /\ [Next]_vars => TradeStep
  <1> SUFFICES ASSUME Inv, [Next]_vars PROVE TradeStep
    OBVIOUS
  <1>1. CASE UNCHANGED executed
    BY <1>1 DEF TradeStep, Partners
  <1>2. ASSUME NEW a \in Accepts, Decide(a) PROVE TradeStep
    BY <1>1, <1>2, ExecuteAwards DEF Decide, Calls, Responses
  <1>3. ASSUME NEW d \in Approvals, ApproveSwap(d) PROVE TradeStep
    BY <1>3, ExecuteAwards DEF ApproveSwap, Calls, Decisions
  <1>4. ASSUME NEW a \in Accepts, Accept(a) PROVE Decide(a) \/ UNCHANGED executed
    BY <1>4
    DEF Accept, AcquireClaimLock, RedisUnavailable, ReadForAccept, Resolve, CheckEligibility,
        ReadForDecision, Refuse, FailClosed, StatementFails, ReleaseClaimLock
  <1> QED
    BY <1>1, <1>2, <1>3, <1>4
    DEF Next, Quiescent, vars, ProposeSwap, ExpireLock, ReadForDecline, ReadPendingSwap,
        Reject, RecordEngagement, Crash

\* Whatever accepts, declines and supervisors do at once, scheduling hears of one
\* partner for each swap.
THEOREM SwapTradesWithOne == Spec => TradedWithOne
  <1>1. Init => Trade!Init
    BY DEF Init, Trade!Init, Partners
  <1> QED
    BY <1>1, InvHolds, NextTrades, PTL DEF Spec, TradedWithOne, Trade!Spec, TradeStep
================================================================================
