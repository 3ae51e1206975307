---------------------------------- MODULE Leave ----------------------------------
(***************************************************************************)
(* attendance-leave-service, for one employee: requests reserve days of a  *)
(* balance, deciders turn the reservation into use or give it back, and    *)
(* nightly jobs add to the balances, carry what is left of a closed period *)
(* over to the next one, and claw the unused part back once it expires.    *)
(*                                                                         *)
(* Requests and decisions lock the rows they read (FOR UPDATE).  The jobs  *)
(* are single UPDATE statements under READ COMMITTED: when the row they    *)
(* write is locked they wait, and then apply what they computed from their *)
(* snapshot to the row as it has become; only the conditions on that row   *)
(* are evaluated again.                                                    *)
(***************************************************************************)
EXTENDS Integers, FiniteSets

CONSTANTS
  Requests,     \* calls of requestLeave and submitBackdatedLeave
  Backdated,    \* the latter
  NoApproval,   \* requests for a leave type that requires no approval
  Dates,        \* the dates each request names
  Balances,     \* balance rows: a leave type and a period
  BalanceOf,    \* the row whose period covers a request, or None
  Grant,        \* accruedDays each row is provisioned with
  CarriedIn,    \* carryoverDaysIn each row is provisioned with, part of its Grant
  Carryovers,   \* pairs of a closed period's row and its successor
  MaxCarryover, \* maxCarryoverDays of the leave type
  AccrualRate,  \* accrual_rate_per_period
  BalanceCap,   \* max_balance_cap
  Decisions,    \* calls of decide
  RequestOf,    \* the request each decides
  Approving,    \* the decisions that approve
  Permitted,    \* those whose actor may approve backdated leave
  Jobs,         \* instances running the carryover job
  None

ASSUME LeaveAssumption ==
  /\ Backdated \subseteq Requests
  /\ NoApproval \subseteq Requests
  /\ \A r \in Requests : IsFiniteSet(Dates[r])
  /\ None \notin Balances
  /\ BalanceOf \in [Requests -> Balances \cup {None}]
  /\ Grant \in [Balances -> Nat]
  /\ CarriedIn \in [Balances -> Nat]
  /\ Carryovers \subseteq Balances \X Balances
  /\ {MaxCarryover, AccrualRate, BalanceCap} \subseteq Nat
  /\ RequestOf \in [Decisions -> Requests]
  /\ Approving \subseteq Decisions
  /\ Permitted \subseteq Decisions

VARIABLES
  exists,     \* balance rows provisioned
  accrued, used, pending, \* the days of each
  carried,    \* its carryover_days_in
  rolled,     \* its carryover_applied
  due,        \* whether its accrual frequency has come round since last_accrued_at
  expired,    \* whether its carryover_expiry_date has passed
  status,     \* each request's row
  spc, dpc,   \* where each submission and decision is
  reminders,  \* delayed jobs in the approval queue
  announced,  \* requests published as approved
  jpc,        \* where each job is
  targets,    \* the rows its statement's snapshot matched
  computed,   \* the days it computed for each of them
  clawed      \* history: days clawed back from each row

balance == <<exists, accrued, used, pending, carried, rolled, due, expired>>
nightly == <<jpc, targets, computed, clawed>>
calls == <<status, spc, dpc, reminders, announced>>
vars == <<exists, accrued, used, pending, carried, rolled, due, expired, status, spc, dpc,
          reminders, announced, jpc, targets, computed, clawed>>

Lower(a, b) == IF a < b THEN a ELSE b
Higher(a, b) == IF a > b THEN a ELSE b

TypeOK ==
  /\ exists \subseteq Balances
  /\ \A days \in {accrued, used, pending, carried, clawed} : days \in [Balances -> Nat]
  /\ rolled \subseteq Balances /\ due \subseteq Balances /\ expired \subseteq Balances
  /\ status \in [Requests -> {"none", "pending", "approved", "rejected"}]
  /\ spc \in [Requests -> {"idle", "reserve", "remind", "done"}]
  /\ dpc \in [Decisions -> {"idle", "apply", "notify", "done"}]
  /\ reminders \subseteq Requests
  /\ announced \subseteq Requests
  /\ jpc \in [Jobs -> {"idle", "rollover", "read", "expiry"}]
  /\ targets \in [Jobs -> SUBSET Balances]
  /\ computed \in [Jobs -> [Balances -> Nat]]

Init ==
  /\ exists = {}
  /\ accrued = [b \in Balances |-> 0]
  /\ used = [b \in Balances |-> 0]
  /\ pending = [b \in Balances |-> 0]
  /\ carried = [b \in Balances |-> 0]
  /\ rolled = {}
  /\ due = Balances
  /\ expired = {}
  /\ status = [r \in Requests |-> "none"]
  /\ spc = [r \in Requests |-> "idle"]
  /\ dpc = [d \in Decisions |-> "idle"]
  /\ reminders = {}
  /\ announced = {}
  /\ jpc = [j \in Jobs |-> "idle"]
  /\ targets = [j \in Jobs |-> {}]
  /\ computed = [j \in Jobs |-> [b \in Balances |-> 0]]
  /\ clawed = [b \in Balances |-> 0]

DayCount(r) == Cardinality(Dates[r])
Available(b) == accrued[b] - used[b] - pending[b]

\* The row locks that are held from one step to the next.
BalanceLocked(b) == \E s \in Requests : spc[s] = "reserve" /\ BalanceOf[s] = b
RequestLocked(r) == \E d \in Decisions : dpc[d] = "apply" /\ RequestOf[d] = r

\* The primary key refuses a second row for the period.
Provision(b) ==
  /\ b \notin exists
  /\ exists' = exists \cup {b}
  /\ accrued' = [accrued EXCEPT ![b] = Grant[b]]
  /\ carried' = [carried EXCEPT ![b] = CarriedIn[b]]
  /\ UNCHANGED <<used, pending, rolled, due, expired, calls, nightly>>

(***************************************************************************)
(* Submitting.                                                             *)
(***************************************************************************)
\* Mutant of LockBalance: a plain SELECT.
ReadBalance(s) ==
  LET b == BalanceOf[s] IN
  /\ spc[s] = "idle"
  /\ spc' = [spc EXCEPT ![s] =
       IF b \in exists /\ DayCount(s) <= Available(b) THEN "reserve" ELSE "done"]
  /\ UNCHANGED <<balance, status, dpc, reminders, announced, nightly>>

\* A missing or insufficient balance ends the call.
LockBalance(s) ==
  LET b == BalanceOf[s] IN
  /\ spc[s] = "idle"
  /\ ~BalanceLocked(b)
  /\ spc' = [spc EXCEPT ![s] =
       IF b \in exists /\ DayCount(s) <= Available(b) THEN "reserve" ELSE "done"]
  /\ UNCHANGED <<balance, status, dpc, reminders, announced, nightly>>

\* leave_request_no_overlapping_active_ranges.
Overlaps(s) ==
  \E r \in Requests : status[r] \in {"pending", "approved"} /\ Dates[r] \cap Dates[s] # {}

Reserve(s) ==
  LET b == BalanceOf[s]
      waits == s \notin NoApproval \/ s \in Backdated
  IN /\ spc[s] = "reserve"
     /\ IF Overlaps(s)
          THEN spc' = [spc EXCEPT ![s] = "done"] /\ UNCHANGED <<used, pending, status>>
          ELSE IF waits
          THEN /\ pending' = [pending EXCEPT ![b] = @ + DayCount(s)]
               /\ status' = [status EXCEPT ![s] = "pending"]
               /\ spc' = [spc EXCEPT ![s] = "remind"]
               /\ UNCHANGED used
          ELSE /\ used' = [used EXCEPT ![b] = @ + DayCount(s)]
               /\ status' = [status EXCEPT ![s] = "approved"]
               /\ spc' = [spc EXCEPT ![s] = "done"]
               /\ UNCHANGED pending
     /\ UNCHANGED <<exists, accrued, carried, rolled, due, expired, dpc, reminders,
                    announced, nightly>>

\* After the commit, and only if the queue can be reached.
ScheduleReminder(s) ==
  /\ spc[s] = "remind"
  /\ spc' = [spc EXCEPT ![s] = "done"]
  /\ reminders' \in {reminders, reminders \cup {s}}
  /\ UNCHANGED <<balance, status, dpc, announced, nightly>>

\* The worker looks the status up again and only writes a log line and a metric.
ProcessReminder(r) ==
  /\ r \in reminders
  /\ reminders' = reminders \ {r}
  /\ UNCHANGED <<balance, status, spc, dpc, announced, nightly>>

(***************************************************************************)
(* Deciding.                                                               *)
(***************************************************************************)
MayDecide(d) ==
  /\ status[RequestOf[d]] = "pending"
  /\ RequestOf[d] \in Backdated /\ d \in Approving => d \in Permitted

\* Mutant of LockRequest: a plain SELECT.
ReadRequest(d) ==
  /\ dpc[d] = "idle"
  /\ status[RequestOf[d]] # "none"
  /\ dpc' = [dpc EXCEPT ![d] = IF MayDecide(d) THEN "apply" ELSE "done"]
  /\ UNCHANGED <<balance, status, spc, reminders, announced, nightly>>

LockRequest(d) ==
  /\ dpc[d] = "idle"
  /\ status[RequestOf[d]] # "none"
  /\ ~RequestLocked(RequestOf[d])
  /\ dpc' = [dpc EXCEPT ![d] = IF MayDecide(d) THEN "apply" ELSE "done"]
  /\ UNCHANGED <<balance, status, spc, reminders, announced, nightly>>

ApplyDecision(d) ==
  LET r == RequestOf[d]
      b == BalanceOf[r]
  IN /\ dpc[d] = "apply"
     /\ ~BalanceLocked(b)
     /\ pending' = [pending EXCEPT ![b] = @ - DayCount(r)]
     /\ used' = IF d \in Approving THEN [used EXCEPT ![b] = @ + DayCount(r)] ELSE used
     /\ status' = [status EXCEPT ![r] = IF d \in Approving THEN "approved" ELSE "rejected"]
     /\ dpc' = [dpc EXCEPT ![d] = "notify"]
     /\ UNCHANGED <<exists, accrued, carried, rolled, due, expired, spc, reminders,
                    announced, nightly>>

\* cancelReminder, publishApproval and the audit of a backdated decision, each of
\* which may fail without a consequence for the caller.
Notify(d) ==
  LET r == RequestOf[d] IN
  /\ dpc[d] = "notify"
  /\ dpc' = [dpc EXCEPT ![d] = "done"]
  /\ reminders' \in {reminders, reminders \ {r}}
  /\ announced' \in {announced, IF d \in Approving THEN announced \cup {r} ELSE announced}
  /\ UNCHANGED <<balance, status, spc, nightly>>

(***************************************************************************)
(* The nightly jobs.                                                       *)
(***************************************************************************)
\* A week, a fortnight, a month or a year after the last accrual.
ComesDue(b) ==
  /\ b \notin due
  /\ due' = due \cup {b}
  /\ UNCHANGED <<exists, accrued, used, pending, carried, rolled, expired, calls, nightly>>

\* Its conditions are all on the row it writes.
Accrue(b) ==
  /\ b \in exists /\ b \in due /\ accrued[b] < BalanceCap
  /\ ~BalanceLocked(b)
  /\ accrued' = [accrued EXCEPT ![b] = Lower(@ + AccrualRate, BalanceCap)]
  /\ due' = due \ {b}
  /\ UNCHANGED <<exists, used, pending, carried, rolled, expired, calls, nightly>>

\* The closed periods a row may be carried over from.
Predecessors(b) == {p \in exists : <<p, b>> \in Carryovers}

RolloverAmount(b) ==
  LET p == CHOOSE p \in Predecessors(b) : TRUE
  IN Higher(Lower(Available(p), MaxCarryover), 0)

\* A statement's snapshot: the rows it matched and what it computed for them.
Snapshot(j, rows, days(_)) ==
  /\ targets' = [targets EXCEPT ![j] = rows]
  /\ computed' = [computed EXCEPT ![j] = [b \in Balances |-> IF b \in rows THEN days(b) ELSE 0]]
  /\ UNCHANGED <<balance, calls, clawed>>

\* The snapshot of ROLLOVER_SQL.
StartRollover(j) ==
  /\ jpc[j] = "idle"
  /\ jpc' = [jpc EXCEPT ![j] = "rollover"]
  /\ Snapshot(j, {b \in exists \ rolled : Predecessors(b) # {}}, RolloverAmount)

\* The successor's carryover_applied is evaluated again once its lock is free.
Rollover(j) ==
  LET rows == targets[j] \ rolled IN
  /\ jpc[j] = "rollover"
  /\ \A b \in targets[j] : ~BalanceLocked(b)
  /\ jpc' = [jpc EXCEPT ![j] = "read"]
  /\ accrued' = [b \in Balances |-> accrued[b] + IF b \in rows THEN computed[j][b] ELSE 0]
  /\ carried' = [b \in Balances |-> IF b \in rows THEN computed[j][b] ELSE carried[b]]
  /\ rolled' = rolled \cup rows
  /\ UNCHANGED <<exists, used, pending, due, expired, calls, targets, computed, clawed>>

ExpiryDatePasses(b) ==
  /\ b \notin expired
  /\ CarriedIn[b] > 0 \/ \E p \in Balances : <<p, b>> \in Carryovers
  /\ expired' = expired \cup {b}
  /\ UNCHANGED <<exists, accrued, used, pending, carried, rolled, due, calls, nightly>>

Clawback(b) == Lower(carried[b], Higher(Available(b), 0))

\* The expired rows of EXPIRY_SQL, read with their clawback.
ReadExpired(j) ==
  /\ jpc[j] = "read"
  /\ jpc' = [jpc EXCEPT ![j] = "expiry"]
  /\ Snapshot(j, {b \in exists \cap expired : carried[b] > 0}, Clawback)

\* leave_balance_non_negative_check refuses the whole statement.
NonNegative(j) == \A b \in Balances : computed[j][b] <= accrued[b]

\* Mutant of Expire: the row keeps its carryover_days_in.
ExpireWithoutMark(j) ==
  /\ jpc[j] = "expiry"
  /\ NonNegative(j)
  /\ jpc' = [jpc EXCEPT ![j] = "idle"]
  /\ accrued' = [b \in Balances |-> accrued[b] - computed[j][b]]
  /\ clawed' = [b \in Balances |-> clawed[b] + computed[j][b]]
  /\ targets' = [targets EXCEPT ![j] = {}]
  /\ computed' = [computed EXCEPT ![j] = [b \in Balances |-> 0]]
  /\ UNCHANGED <<exists, used, pending, carried, rolled, due, expired, calls>>

\* The UPDATE joins them by primary key alone.
Expire(j) ==
  /\ jpc[j] = "expiry"
  /\ NonNegative(j)
  /\ \A b \in targets[j] : ~BalanceLocked(b)
  /\ jpc' = [jpc EXCEPT ![j] = "idle"]
  /\ accrued' = [b \in Balances |-> accrued[b] - computed[j][b]]
  /\ carried' = [b \in Balances |-> IF b \in targets[j] THEN 0 ELSE carried[b]]
  /\ clawed' = [b \in Balances |-> clawed[b] + computed[j][b]]
  /\ targets' = [targets EXCEPT ![j] = {}]
  /\ computed' = [computed EXCEPT ![j] = [b \in Balances |-> 0]]
  /\ UNCHANGED <<exists, used, pending, rolled, due, expired, calls>>

\* A statement that fails, on a check constraint or for any other reason, is
\* logged, and the tick goes on.
StatementFails(j) ==
  /\ jpc[j] \in {"rollover", "expiry"}
  /\ jpc' = [jpc EXCEPT ![j] = IF @ = "rollover" THEN "read" ELSE "idle"]
  /\ targets' = [targets EXCEPT ![j] = {}]
  /\ computed' = [computed EXCEPT ![j] = [b \in Balances |-> 0]]
  /\ UNCHANGED <<balance, calls, clawed>>

(***************************************************************************)
(* The specification.                                                      *)
(***************************************************************************)
Next ==
  \/ \E b \in Balances : Provision(b) \/ ComesDue(b) \/ Accrue(b) \/ ExpiryDatePasses(b)
  \/ \E s \in Requests :
       LockBalance(s) \/ Reserve(s) \/ ScheduleReminder(s) \/ ProcessReminder(s)
  \/ \E d \in Decisions : LockRequest(d) \/ ApplyDecision(d) \/ Notify(d)
  \/ \E j \in Jobs :
       StartRollover(j) \/ Rollover(j) \/ ReadExpired(j) \/ Expire(j) \/ StatementFails(j)

Spec == Init /\ [][Next]_vars

(***************************************************************************)
(* Properties.                                                             *)
(***************************************************************************)
DaysOf(b, state) ==
  Cardinality(UNION {Dates[r] : r \in {q \in Requests : BalanceOf[q] = b /\ status[q] = state}})

\* Whatever submissions and decisions interleave, the days a balance has pending and
\* used are the distinct dates of its pending and of its approved requests.
BalanceMatchesRequests ==
  \A b \in Balances : pending[b] = DaysOf(b, "pending") /\ used[b] = DaysOf(b, "approved")

\* Requests never reserve more than was ever granted, accrued or carried over.
GrantsCoverRequests ==
  \A b \in Balances : used[b] + pending[b] <= accrued[b] + clawed[b]

\* The requests a decision may approve, and those one may reject.
Approvable ==
  {RequestOf[d] : d \in {e \in Approving : RequestOf[e] \in Backdated => e \in Permitted}}
Rejectable == {RequestOf[d] : d \in Decisions \ Approving}

Account == INSTANCE LeaveBook WITH
  Accounts <- Balances, AccountOf <- BalanceOf, Automatic <- NoApproval \ Backdated,
  state <- status, worth <- accrued, lapsed <- clawed

\* Requests, decisions and nightly jobs that interleave look like one account book:
\* each request is booked once on free days the balance is worth at that moment, is
\* decided once by somebody who may, and no job undoes it.
LeaveIsBooked == Account!Spec

\* Expiry takes back at most what the row was provisioned with and what rollover
\* brought in.
ClawedAtMostCarried ==
  \A b \in Balances :
    clawed[b] <= CarriedIn[b] + IF b \in rolled THEN MaxCarryover ELSE 0
================================================================================
