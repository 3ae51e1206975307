------------------------------ MODULE ScheduleJobs ------------------------------
(***************************************************************************)
(* scheduling-service's job queue: the API inserts rows of schedule_jobs,  *)
(* worker processes claim and solve them, every worker's loop first reaps  *)
(* the jobs whose worker is gone, and a supervisor may approve the         *)
(* relaxation offered for an infeasible job, which queues it again.        *)
(*                                                                         *)
(* A worker executes a claim in one transaction, which stays open while it *)
(* solves and commits after the completion event is published.  A request  *)
(* inserts at most one job, and the job is named by the request.           *)
(***************************************************************************)
EXTENDS Naturals, FiniteSets

CONSTANTS
  Requests,        \* calls of enqueue_submit_job and enqueue_reoptimize
  Reoptimizations, \* those of enqueue_reoptimize
  HasPayload,      \* submissions whose shiftSlots are not empty
  Keys,            \* idempotency keys
  KeyOf,           \* the key each request carries
  Workers,         \* worker processes
  Approvals,       \* calls of enqueue_relaxation_approval
  MaxAttempts,     \* worker_reaper_max_attempts
  SlowSolves,      \* whether a solve may outlast worker_reaper_stuck_threshold_seconds
  None

ASSUME JobAssumption ==
  /\ Reoptimizations \subseteq Requests
  /\ HasPayload \subseteq Requests
  /\ KeyOf \in [Requests -> Keys]
  /\ MaxAttempts \in Nat
  /\ SlowSolves \in BOOLEAN
  /\ None \notin Requests

VARIABLES
  keyJob,       \* idempotency_keys: the job each key was used for
  rpc,          \* where each request is
  now,          \* the clock that stamps requested_at
  requestedAt,  \* requested_at of each job
  status,       \* its status, "none" before its INSERT
  kind,         \* its job_kind
  attempts,     \* its attempt_count
  overdue,      \* whether its solving_started_at is past the reaper's threshold
  offered,      \* whether relaxations_applied holds a feasible relaxation
  schedules,    \* Schedule rows written for it
  announced,    \* completion events published for it (Nats-Msg-Id is job:status)
  wpc,          \* where each worker is in its loop
  wjob,         \* the job it executes
  outcome,      \* the status it is about to give that job
  reaped,       \* jobs it has reaped as failed and not announced yet
  apc,          \* where each approval is
  ajob          \* the job it has read

api == <<keyJob, rpc, now, requestedAt>>
row == <<status, kind, attempts, overdue, offered>>
worker == <<wpc, wjob, outcome, reaped>>
approval == <<apc, ajob>>
vars == <<keyJob, rpc, now, requestedAt, status, kind, attempts, overdue, offered,
          schedules, announced, wpc, wjob, outcome, reaped, apc, ajob>>

Terminal  == {"completed", "infeasible", "failed"}
Status    == {"none", "queued", "solving"} \cup Terminal
Kind      == {"submit", "relaxation_approval", "reoptimize"}
Executing == {"load", "solve", "reproof", "announce", "commit"}

TypeOK ==
  /\ keyJob \in [Keys -> Requests \cup {None}]
  /\ rpc \in [Requests -> {"idle", "insert", "done"}]
  /\ now \in Nat
  /\ requestedAt \in [Requests -> Nat]
  /\ status \in [Requests -> Status]
  /\ kind \in [Requests -> Kind]
  /\ attempts \in [Requests -> 0..MaxAttempts]
  /\ overdue \in [Requests -> BOOLEAN]
  /\ offered \in [Requests -> BOOLEAN]
  /\ schedules \in [Requests -> Nat]
  /\ announced \in [Requests -> SUBSET Terminal]
  /\ wpc \in [Workers -> {"reap", "publish", "claim"} \cup Executing]
  /\ wjob \in [Workers -> Requests \cup {None}]
  /\ \A w \in Workers : wpc[w] \in Executing => wjob[w] \in Requests
  /\ outcome \in [Workers -> Terminal \cup {"none"}]
  /\ \A w \in Workers : wpc[w] \in {"announce", "commit"} => outcome[w] \in Terminal
  /\ reaped \in [Workers -> SUBSET Requests]
  /\ apc \in [Approvals -> {"idle", "flush", "done"}]
  /\ ajob \in [Approvals -> Requests \cup {None}]
  /\ \A a \in Approvals : apc[a] = "flush" => ajob[a] \in Requests

Init ==
  /\ keyJob = [k \in Keys |-> None]
  /\ rpc = [r \in Requests |-> "idle"]
  /\ now = 0
  /\ requestedAt = [r \in Requests |-> 0]
  /\ status = [r \in Requests |-> "none"]
  /\ kind = [r \in Requests |-> IF r \in Reoptimizations THEN "reoptimize" ELSE "submit"]
  /\ attempts = [r \in Requests |-> 0]
  /\ overdue = [r \in Requests |-> FALSE]
  /\ offered = [r \in Requests |-> FALSE]
  /\ schedules = [r \in Requests |-> 0]
  /\ announced = [r \in Requests |-> {}]
  /\ wpc = [w \in Workers |-> "reap"]
  /\ wjob = [w \in Workers |-> None]
  /\ outcome = [w \in Workers |-> "none"]
  /\ reaped = [w \in Workers |-> {}]
  /\ apc = [a \in Approvals |-> "idle"]
  /\ ajob = [a \in Approvals |-> None]

Goto(w, place) == wpc' = [wpc EXCEPT ![w] = place]

\* The worker has a transaction open for job j.
Executes(w, j) == wpc[w] \in Executing /\ wjob[w] = j

\* _persist_schedule flushes the UPDATE of a completed job before the event is
\* published: from there to the commit the row is locked.
Locked(j) ==
  \E w \in Workers :
    wpc[w] \in {"announce", "commit"} /\ wjob[w] = j /\ outcome[w] = "completed"

(***************************************************************************)
(* The API.                                                                *)
(***************************************************************************)
\* A key seen before is answered with its job.
FindExistingJob(r) ==
  /\ rpc[r] = "idle"
  /\ IF keyJob[KeyOf[r]] = None
       THEN /\ rpc' = [rpc EXCEPT ![r] = "insert"]
            /\ now' = now + 1
            /\ requestedAt' = [requestedAt EXCEPT ![r] = now]
       ELSE /\ rpc' = [rpc EXCEPT ![r] = "done"]
            /\ UNCHANGED <<now, requestedAt>>
  /\ UNCHANGED <<keyJob, row, schedules, announced, worker, approval>>

\* The schedule to reoptimize is missing or archived.
RefuseReoptimize(r) ==
  /\ rpc[r] = "idle"
  /\ r \in Reoptimizations
  /\ keyJob[KeyOf[r]] = None
  /\ rpc' = [rpc EXCEPT ![r] = "done"]
  /\ UNCHANGED <<keyJob, now, requestedAt, row, schedules, announced, worker, approval>>

\* Mutant of InsertJob: idempotency_keys without its primary key.
InsertAnyway(r) ==
  /\ rpc[r] = "insert"
  /\ rpc' = [rpc EXCEPT ![r] = "done"]
  /\ keyJob' = [keyJob EXCEPT ![KeyOf[r]] = r]
  /\ status' = [status EXCEPT ![r] = "queued"]
  /\ UNCHANGED <<now, requestedAt, kind, attempts, overdue, offered, schedules,
                 announced, worker, approval>>

\* The job and its key in one transaction, which the key's primary key aborts if
\* another request has used it since the lookup.
InsertJob(r) ==
  /\ rpc[r] = "insert"
  /\ rpc' = [rpc EXCEPT ![r] = "done"]
  /\ IF keyJob[KeyOf[r]] = None
       THEN /\ keyJob' = [keyJob EXCEPT ![KeyOf[r]] = r]
            /\ status' = [status EXCEPT ![r] = "queued"]
       ELSE UNCHANGED <<keyJob, status>>
  /\ UNCHANGED <<now, requestedAt, kind, attempts, overdue, offered, schedules,
                 announced, worker, approval>>

ReadInfeasibleJob(a, j) ==
  /\ apc[a] = "idle"
  /\ status[j] # "none"
  /\ IF status[j] = "infeasible" /\ offered[j]
       THEN /\ apc' = [apc EXCEPT ![a] = "flush"]
            /\ ajob' = [ajob EXCEPT ![a] = j]
       ELSE apc' = [apc EXCEPT ![a] = "done"] /\ UNCHANGED ajob
  /\ UNCHANGED <<api, row, schedules, announced, worker>>

\* The flush of the entity read above, whatever the row has become since.
EnqueueRelaxationApproval(a) ==
  LET j == ajob[a] IN
  /\ apc[a] = "flush"
  /\ ~Locked(j)
  /\ status' = [status EXCEPT ![j] = "queued"]
  /\ kind' = [kind EXCEPT ![j] = "relaxation_approval"]
  /\ overdue' = [overdue EXCEPT ![j] = FALSE]
  /\ apc' = [apc EXCEPT ![a] = "done"]
  /\ UNCHANGED <<api, attempts, offered, schedules, announced, worker, ajob>>

(***************************************************************************)
(* The reaper, at the head of every worker's loop.                         *)
(***************************************************************************)
\* A claim ages.  If no solve is slow, only a claim nobody executes gets old.
GetsOverdue(j) ==
  /\ status[j] = "solving"
  /\ ~overdue[j]
  /\ SlowSolves \/ \A w \in Workers : ~Executes(w, j)
  /\ overdue' = [overdue EXCEPT ![j] = TRUE]
  /\ UNCHANGED <<api, status, kind, attempts, offered, schedules, announced, worker,
                 approval>>

\* Mutant of Stuck: the threshold is dropped from the sweep.
AnySolving == {j \in Requests : status[j] = "solving"}

Stuck == {j \in Requests : status[j] = "solving" /\ overdue[j]}

\* Mutant of Exhausted: one attempt too many.
OneMoreAttempt(j) == attempts[j] > MaxAttempts

Exhausted(j) == attempts[j] >= MaxAttempts

\* Mutant of ReapStuckJobs: exhausted jobs are left alone.
ReapWithoutFailing(w) ==
  LET retried == {j \in Stuck : ~Exhausted(j)} IN
  /\ wpc[w] = "reap"
  /\ \A j \in Stuck : ~Locked(j)
  /\ status' = [j \in Requests |-> IF j \in retried THEN "queued" ELSE status[j]]
  /\ attempts' = [j \in Requests |-> IF j \in retried THEN attempts[j] + 1 ELSE attempts[j]]
  /\ overdue' = [j \in Requests |-> overdue[j] /\ j \notin retried]
  /\ Goto(w, "claim")
  /\ UNCHANGED <<api, kind, offered, schedules, announced, wjob, outcome, reaped, approval>>

\* Mutant of ReapStuckJobs: a retry is not counted as an attempt.
ReapUncounted(w) ==
  /\ wpc[w] = "reap"
  /\ \A j \in Stuck : ~Locked(j)
  /\ status' = [j \in Requests |-> IF j \in Stuck THEN "queued" ELSE status[j]]
  /\ overdue' = [j \in Requests |-> overdue[j] /\ j \notin Stuck]
  /\ Goto(w, "claim")
  /\ UNCHANGED <<api, kind, attempts, offered, schedules, announced, wjob, outcome, reaped,
                 approval>>

\* Both statements of the sweep, committed before any failure is announced.
ReapStuckJobs(w) ==
  LET retried == {j \in Stuck : ~Exhausted(j)}
      failed  == Stuck \ retried
  IN /\ wpc[w] = "reap"
     /\ \A j \in Stuck : ~Locked(j)
     /\ status' = [j \in Requests |-> CASE j \in retried -> "queued"
                                        [] j \in failed  -> "failed"
                                        [] OTHER         -> status[j]]
     /\ attempts' = [j \in Requests |-> IF j \in retried THEN attempts[j] + 1 ELSE attempts[j]]
     /\ overdue' = [j \in Requests |-> overdue[j] /\ j \notin retried]
     /\ reaped' = [reaped EXCEPT ![w] = failed]
     /\ Goto(w, IF failed = {} THEN "claim" ELSE "publish")
     /\ UNCHANGED <<api, kind, offered, schedules, announced, wjob, outcome, approval>>

PublishReaped(w, j) ==
  /\ wpc[w] = "publish"
  /\ j \in reaped[w]
  /\ reaped' = [reaped EXCEPT ![w] = @ \ {j}]
  /\ announced' = [announced EXCEPT ![j] = @ \cup {"failed"}]
  /\ Goto(w, IF reaped[w] = {j} THEN "claim" ELSE "publish")
  /\ UNCHANGED <<api, row, schedules, wjob, outcome, approval>>

(***************************************************************************)
(* Claiming and executing.                                                 *)
(***************************************************************************)
\* FOR UPDATE SKIP LOCKED.
Claimable ==
  {j \in Requests :
     /\ status[j] = "queued"
     /\ kind[j] # "submit" \/ j \in HasPayload
     /\ ~Locked(j)}

\* The oldest of them; an idle worker sleeps and starts its loop again.
ClaimNextJob(w) ==
  /\ wpc[w] = "claim"
  /\ \/ /\ Claimable = {}
        /\ Goto(w, "reap")
        /\ UNCHANGED <<status, overdue, wjob>>
     \/ \E j \in Claimable :
          /\ \A k \in Claimable : requestedAt[j] <= requestedAt[k]
          /\ status' = [status EXCEPT ![j] = "solving"]
          /\ overdue' = [overdue EXCEPT ![j] = FALSE]
          /\ wjob' = [wjob EXCEPT ![w] = j]
          /\ Goto(w, "load")
  /\ UNCHANGED <<api, kind, attempts, offered, schedules, announced, outcome, reaped,
                 approval>>

LoadJob(w) ==
  /\ wpc[w] = "load"
  /\ Goto(w, IF kind[wjob[w]] = "relaxation_approval" THEN "reproof" ELSE "solve")
  /\ UNCHANGED <<api, row, schedules, announced, wjob, outcome, reaped, approval>>

\* Mutant of Solve: the transaction commits and the event is left for afterwards.
SolveThenCommit(w) ==
  /\ wpc[w] \in {"solve", "reproof"}
  /\ \E o \in Terminal :
       /\ o = "infeasible" => wpc[w] = "solve"
       /\ o = "completed" => ~Locked(wjob[w])
       /\ outcome' = [outcome EXCEPT ![w] = o]
  /\ Goto(w, "commit")
  /\ UNCHANGED <<api, row, schedules, announced, wjob, reaped, approval>>

\* What the solver makes of it.  An approved relaxation that proves infeasible is a
\* failure, and so is a solve that runs out of time or an input that is refused.
Solve(w) ==
  /\ wpc[w] \in {"solve", "reproof"}
  /\ \E o \in Terminal :
       /\ o = "infeasible" => wpc[w] = "solve"
       /\ o = "completed" => ~Locked(wjob[w])
       /\ outcome' = [outcome EXCEPT ![w] = o]
  /\ Goto(w, "announce")
  /\ UNCHANGED <<api, row, schedules, announced, wjob, reaped, approval>>

\* Inside the transaction, which a failed publish rolls back.
Publish(w) ==
  /\ wpc[w] = "announce"
  /\ announced' = [announced EXCEPT ![wjob[w]] = @ \cup {outcome[w]}]
  /\ Goto(w, "commit")
  /\ UNCHANGED <<api, row, schedules, wjob, outcome, reaped, approval>>

\* The job's UPDATE names its id only: it replaces whatever status the row has.
Commit(w) ==
  LET j == wjob[w] IN
  /\ wpc[w] = "commit"
  /\ outcome[w] = "completed" \/ ~Locked(j)
  /\ status' = [status EXCEPT ![j] = outcome[w]]
  /\ schedules' = IF outcome[w] = "completed"
                    THEN [schedules EXCEPT ![j] = @ + 1] ELSE schedules
  /\ IF outcome[w] = "infeasible"
       THEN \E feasible \in BOOLEAN : offered' = [offered EXCEPT ![j] = feasible]
       ELSE UNCHANGED offered
  /\ wjob' = [wjob EXCEPT ![w] = None]
  /\ outcome' = [outcome EXCEPT ![w] = "none"]
  /\ Goto(w, "reap")
  /\ UNCHANGED <<api, kind, attempts, overdue, announced, reaped, approval>>

\* An exception or a crash: the transaction rolls back, and what was published
\* stays published.
Abandon(w) ==
  /\ wpc[w] \in Executing \/ reaped[w] # {}
  /\ wjob' = [wjob EXCEPT ![w] = None]
  /\ outcome' = [outcome EXCEPT ![w] = "none"]
  /\ reaped' = [reaped EXCEPT ![w] = {}]
  /\ Goto(w, "reap")
  /\ UNCHANGED <<api, row, schedules, announced, approval>>

(***************************************************************************)
(* The specification.                                                      *)
(***************************************************************************)
Work(w) ==
  \/ ReapStuckJobs(w)
  \/ \E j \in Requests : PublishReaped(w, j)
  \/ ClaimNextJob(w)
  \/ LoadJob(w)
  \/ Solve(w)
  \/ Publish(w)
  \/ Commit(w)

Next ==
  \/ \E r \in Requests : FindExistingJob(r) \/ RefuseReoptimize(r) \/ InsertJob(r)
  \/ \E a \in Approvals : EnqueueRelaxationApproval(a)
                          \/ \E j \in Requests : ReadInfeasibleJob(a, j)
  \/ \E j \in Requests : GetsOverdue(j)
  \/ \E w \in Workers : Work(w) \/ Abandon(w)

\* A worker's loop goes on, and time passes.
Fairness ==
  /\ \A w \in Workers : WF_vars(Work(w))
  /\ \A j \in Requests : WF_vars(GetsOverdue(j))

Spec == Init /\ [][Next]_vars /\ Fairness

(***************************************************************************)
(* Properties.                                                             *)
(***************************************************************************)
\* Concurrent submissions with one idempotency key create one job between them.
OneJobPerKey ==
  \A r, q \in Requests :
    KeyOf[r] = KeyOf[q] /\ status[r] # "none" /\ status[q] # "none" => r = q

\* A schedule that exists was announced as completed, even when its worker died or
\* another worker solved the job as well; and a job shown as completed has one.
ScheduleIsAnnounced ==
  \A j \in Requests :
    /\ schedules[j] > 0 => "completed" \in announced[j]
    /\ status[j] = "completed" => schedules[j] > 0

\* Claims, reaper and retries never produce two schedules for one job.
OneSchedulePerJob == \A j \in Requests : schedules[j] <= 1

\* The approvals that have queued job j again.
Requeued(j) == {a \in Approvals : apc[a] = "done" /\ ajob[a] = j}

\* Even when a solve outlasts the reaper's threshold and two workers solve one job,
\* every schedule beyond the first is paid for by an attempt or by an approval.
SchedulesAreBounded ==
  \A j \in Requests : schedules[j] <= 1 + attempts[j] + Cardinality(Requeued(j))

\* A job that has completed or failed stays so: no worker or reaper reopens it.
OutcomeIsKept ==
  [][\A j \in Requests :
       status[j] \in {"completed", "failed"} => status'[j] = status[j]]_vars

\* A job as its submitter sees it: who holds its claim does not show.
JobState == [j \in Requests |-> IF status[j] \in {"queued", "solving"} THEN "open" ELSE status[j]]

Board == INSTANCE JobBoard WITH Jobs <- Requests, state <- JobState, told <- announced

\* Reaper, retries and dying workers do not show on the outside: a job settles once,
\* yields a schedule exactly when it completes, only after its event was published,
\* and no other outcome of it is published once it has settled.
JobsAreSettled == Board!Spec

\* A job that can be claimed ends, however often its workers fail.
JobEnds ==
  \A j \in Requests :
    (j \in Claimable \/ status[j] = "solving") ~> status[j] \in Terminal
================================================================================
