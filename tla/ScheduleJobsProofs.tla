--------------------------- MODULE ScheduleJobsProofs ---------------------------
(***************************************************************************)
(* Theorems about ScheduleJobs, for any number of requests, keys, workers  *)
(* and approvals.                                                          *)
(***************************************************************************)
EXTENDS ScheduleJobs, FiniteSetTheorems, TLAPS

(***************************************************************************)
(* Type correctness.                                                       *)
(***************************************************************************)
LEMMA InitType == Init => TypeOK
  BY JobAssumption DEF Init, TypeOK, Status, Kind, Executing

LEMMA ApiType ==
  ASSUME TypeOK, NEW r \in Requests,
         FindExistingJob(r) \/ RefuseReoptimize(r) \/ InsertJob(r)
  PROVE  TypeOK'
  <1>1. CASE FindExistingJob(r)
    BY <1>1, JobAssumption DEF TypeOK, FindExistingJob, row, worker, approval
  <1>2. CASE RefuseReoptimize(r)
    BY <1>2, JobAssumption DEF TypeOK, RefuseReoptimize, row, worker, approval
  <1>3. CASE InsertJob(r)
    BY <1>3, JobAssumption DEF TypeOK, InsertJob, worker, approval, Status
  <1> QED
    BY <1>1, <1>2, <1>3

LEMMA ApprovalType ==
  ASSUME TypeOK, NEW a \in Approvals,
         EnqueueRelaxationApproval(a) \/ \E j \in Requests : ReadInfeasibleJob(a, j)
  PROVE  TypeOK'
  <1>1. CASE EnqueueRelaxationApproval(a)
    BY <1>1, JobAssumption DEF TypeOK, EnqueueRelaxationApproval, api, worker, Status, Kind
  <1>2. ASSUME NEW j \in Requests, ReadInfeasibleJob(a, j) PROVE TypeOK'
    BY <1>2, JobAssumption DEF TypeOK, ReadInfeasibleJob, api, row, worker
  <1> QED
    BY <1>1, <1>2

LEMMA ReapType ==
  ASSUME TypeOK, NEW w \in Workers,
         ReapStuckJobs(w) \/ \E j \in Requests : PublishReaped(w, j)
  PROVE  TypeOK'
  <1>1. CASE ReapStuckJobs(w)
    <2>1. status' \in [Requests -> Status] /\ overdue' \in [Requests -> BOOLEAN]
      BY <1>1 DEF ReapStuckJobs, TypeOK, Status, Terminal
    <2>2. attempts' \in [Requests -> 0..MaxAttempts]
      BY <1>1, JobAssumption DEF ReapStuckJobs, TypeOK, Exhausted
    <2>3. reaped' \in [Workers -> SUBSET Requests]
      BY <1>1 DEF ReapStuckJobs, TypeOK, Stuck
    <2>4. /\ wpc' \in [Workers -> {"reap", "publish", "claim"} \cup Executing]
          /\ \A v \in Workers : wpc'[v] \in Executing => wpc[v] \in Executing
          /\ \A v \in Workers :
               wpc'[v] \in {"announce", "commit"} => wpc[v] \in {"announce", "commit"}
      BY <1>1 DEF ReapStuckJobs, TypeOK, Goto, Executing
    <2> QED
      BY <1>1, <2>1, <2>2, <2>3, <2>4 DEF ReapStuckJobs, TypeOK, api, approval
  <1>2. ASSUME NEW j \in Requests, PublishReaped(w, j) PROVE TypeOK'
    BY <1>2 DEF PublishReaped, TypeOK, Goto, Executing, Terminal, api, row, approval
  <1> QED
    BY <1>1, <1>2

LEMMA ExecuteType ==
  ASSUME TypeOK, NEW w \in Workers,
         ClaimNextJob(w) \/ LoadJob(w) \/ Solve(w) \/ Publish(w) \/ Commit(w) \/ Abandon(w)
  PROVE  TypeOK'
  <1>1. CASE ClaimNextJob(w)
    <2>1. CASE Goto(w, "reap") /\ UNCHANGED <<status, overdue, wjob>>
      BY <1>1, <2>1 DEF ClaimNextJob, TypeOK, Goto, Executing, api, approval
    <2>2. ASSUME NEW j \in Claimable,
                 status' = [status EXCEPT ![j] = "solving"],
                 overdue' = [overdue EXCEPT ![j] = FALSE],
                 wjob' = [wjob EXCEPT ![w] = j],
                 Goto(w, "load")
          PROVE  TypeOK'
      <3>1. j \in Requests
        BY DEF Claimable
      <3> QED
        BY <1>1, <2>2, <3>1 DEF ClaimNextJob, TypeOK, Goto, Executing, Status, api, approval
    <2> QED
      BY <1>1, <2>1, <2>2 DEF ClaimNextJob
  <1>2. CASE LoadJob(w)
    BY <1>2 DEF LoadJob, TypeOK, Goto, Executing, api, row, approval
  <1>3. CASE Solve(w)
    BY <1>3 DEF Solve, TypeOK, Goto, Executing, api, row, approval
  <1>4. CASE Publish(w)
    BY <1>4 DEF Publish, TypeOK, Goto, Executing, api, row, approval
  <1>5. CASE Commit(w)
    BY <1>5, JobAssumption DEF Commit, TypeOK, Goto, Executing, Status, api, approval
  <1>6. CASE Abandon(w)
    BY <1>6 DEF Abandon, TypeOK, Goto, Executing, api, row, approval
  <1> QED
    BY <1>1, <1>2, <1>3, <1>4, <1>5, <1>6

LEMMA TypeStep == TypeOK /\ [Next]_vars => TypeOK'
  <1> SUFFICES ASSUME TypeOK, [Next]_vars PROVE TypeOK'
    OBVIOUS
  <1>1. CASE \E r \in Requests : FindExistingJob(r) \/ RefuseReoptimize(r) \/ InsertJob(r)
    BY <1>1, ApiType
  <1>2. CASE \E a \in Approvals : EnqueueRelaxationApproval(a)
                                  \/ \E j \in Requests : ReadInfeasibleJob(a, j)
    BY <1>2, ApprovalType
  <1>3. CASE \E j \in Requests : GetsOverdue(j)
    BY <1>3 DEF GetsOverdue, TypeOK, api, worker, approval
  <1>4. CASE \E w \in Workers : Work(w) \/ Abandon(w)
    BY <1>4, ReapType, ExecuteType DEF Work
  <1>5. CASE UNCHANGED vars
    BY <1>5 DEF vars, TypeOK
  <1> QED
    BY <1>1, <1>2, <1>3, <1>4, <1>5 DEF Next

\* The rows, workers and calls of the queue keep their types, attempt_count within
\* worker_reaper_max_attempts among them.
THEOREM JobsTypeCorrect == Spec => []TypeOK
  BY InitType, TypeStep, PTL DEF Spec

(***************************************************************************)
(* What holds even when solves outlast the reaper's threshold.  The key of *)
(* an inserted job names it, and whoever is about to write a row has found *)
(* it inserted; an outcome is published before it is committed.            *)
(***************************************************************************)
KeyIsUsed == \A r \in Requests : status[r] # "none" => keyJob[KeyOf[r]] = r

UnfinishedIsNew == \A r \in Requests : rpc[r] # "done" => status[r] = "none"

WrittenIsInserted ==
  /\ \A w \in Workers : wpc[w] \in Executing => status[wjob[w]] # "none"
  /\ \A a \in Approvals : apc[a] = "flush" => status[ajob[a]] # "none"

PublishedFirst ==
  \A w \in Workers : wpc[w] = "commit" => outcome[w] \in announced[wjob[w]]

Inv ==
  /\ TypeOK
  /\ KeyIsUsed
  /\ UnfinishedIsNew
  /\ WrittenIsInserted
  /\ PublishedFirst
  /\ ScheduleIsAnnounced

LEMMA InitInv == Init => Inv
  BY InitType, JobAssumption
  DEF Init, Inv, TypeOK, KeyIsUsed, UnfinishedIsNew, WrittenIsInserted, PublishedFirst,
      ScheduleIsAnnounced, Executing

LEMMA ApiInv ==
  ASSUME Inv, TypeOK', NEW r \in Requests,
         FindExistingJob(r) \/ RefuseReoptimize(r) \/ InsertJob(r)
  PROVE  Inv'
  <1> USE DEF Inv
  <1>1. CASE FindExistingJob(r) \/ RefuseReoptimize(r)
    BY <1>1 DEF FindExistingJob, RefuseReoptimize, row, worker, approval, TypeOK, KeyIsUsed,
                UnfinishedIsNew, WrittenIsInserted, PublishedFirst, ScheduleIsAnnounced
  <1>2. CASE InsertJob(r)
    <2>1. KeyIsUsed'
      <3> SUFFICES ASSUME NEW q \in Requests, status'[q] # "none"
                   PROVE  keyJob'[KeyOf[q]] = q
        BY DEF KeyIsUsed
      <3>1. KeyOf[q] \in Keys /\ KeyOf[r] \in Keys
        BY JobAssumption
      <3>2. CASE keyJob[KeyOf[r]] = None
        <4>1. /\ keyJob' = [keyJob EXCEPT ![KeyOf[r]] = r]
              /\ status' = [status EXCEPT ![r] = "queued"]
          BY <1>2, <3>2 DEF InsertJob
        <4>2. CASE q = r
          BY <3>1, <4>1, <4>2 DEF TypeOK
        <4>3. CASE q # r
          <5>1. keyJob[KeyOf[q]] = q
            BY <4>1, <4>3 DEF TypeOK, KeyIsUsed
          <5>2. KeyOf[q] # KeyOf[r]
            BY <3>2, <5>1, JobAssumption
          <5> QED
            BY <3>1, <4>1, <5>1, <5>2 DEF TypeOK
        <4> QED
          BY <4>2, <4>3
      <3>3. CASE keyJob[KeyOf[r]] # None
        BY <1>2, <3>3 DEF InsertJob, KeyIsUsed
      <3> QED
        BY <3>2, <3>3
    <2>2. \A j \in Requests : status'[j] = status[j] \/ status'[j] = "queued"
      BY <1>2 DEF InsertJob, TypeOK
    <2>5. UnfinishedIsNew'
      BY <1>2 DEF InsertJob, TypeOK, UnfinishedIsNew
    <2>3. WrittenIsInserted'
      BY <1>2, <2>2 DEF InsertJob, worker, approval, TypeOK, WrittenIsInserted
    <2>4. PublishedFirst' /\ ScheduleIsAnnounced'
      BY <1>2, <2>2 DEF InsertJob, worker, PublishedFirst, ScheduleIsAnnounced
    <2> QED
      BY <2>1, <2>3, <2>4, <2>5
  <1> QED
    BY <1>1, <1>2

\* A step of the queue after a job's insertion: no row appears or disappears, and
\* no schedule is written.
LEMMA QueueStep ==
  ASSUME Inv, TypeOK',
         UNCHANGED <<keyJob, rpc, schedules>>,
         \A j \in Requests : status'[j] = "none" <=> status[j] = "none",
         \A j \in Requests : status'[j] = "completed" => status[j] = "completed",
         \A j \in Requests : announced[j] \subseteq announced'[j]
  PROVE  KeyIsUsed' /\ UnfinishedIsNew' /\ ScheduleIsAnnounced'
  BY DEF Inv, TypeOK, KeyIsUsed, UnfinishedIsNew, ScheduleIsAnnounced

LEMMA ApprovalInv ==
  ASSUME Inv, TypeOK', NEW a \in Approvals,
         EnqueueRelaxationApproval(a) \/ \E j \in Requests : ReadInfeasibleJob(a, j)
  PROVE  Inv'
  <1>1. CASE EnqueueRelaxationApproval(a)
    <2>1. /\ \A j \in Requests : status'[j] = "none" <=> status[j] = "none"
          /\ \A j \in Requests : status'[j] = "completed" => status[j] = "completed"
      BY <1>1 DEF EnqueueRelaxationApproval, Inv, TypeOK, WrittenIsInserted
    <2>2. KeyIsUsed' /\ UnfinishedIsNew' /\ ScheduleIsAnnounced'
      BY <1>1, <2>1, QueueStep DEF EnqueueRelaxationApproval, api
    <2>3. WrittenIsInserted' /\ PublishedFirst'
      BY <1>1, <2>1
      DEF EnqueueRelaxationApproval, worker, Inv, TypeOK, WrittenIsInserted, PublishedFirst
    <2> QED
      BY <2>2, <2>3 DEF Inv
  <1>2. ASSUME NEW j \in Requests, ReadInfeasibleJob(a, j) PROVE Inv'
    <2>1. KeyIsUsed' /\ UnfinishedIsNew' /\ ScheduleIsAnnounced'
      BY <1>2 DEF ReadInfeasibleJob, api, row, Inv, KeyIsUsed, UnfinishedIsNew,
             ScheduleIsAnnounced
    <2>2. WrittenIsInserted' /\ PublishedFirst'
      BY <1>2
      DEF ReadInfeasibleJob, row, worker, Inv, TypeOK, WrittenIsInserted, PublishedFirst
    <2> QED
      BY <2>1, <2>2 DEF Inv
  <1> QED
    BY <1>1, <1>2

LEMMA OverdueInv ==
  ASSUME Inv, TypeOK', NEW j \in Requests, GetsOverdue(j)
  PROVE  Inv'
  BY DEF GetsOverdue, api, worker, approval, Inv, KeyIsUsed, UnfinishedIsNew,
         WrittenIsInserted, PublishedFirst, ScheduleIsAnnounced

LEMMA ReapInv ==
  ASSUME Inv, TypeOK', NEW w \in Workers,
         ReapStuckJobs(w) \/ \E j \in Requests : PublishReaped(w, j)
  PROVE  Inv'
  <1>1. CASE ReapStuckJobs(w)
    <2>1. /\ \A j \in Requests : status'[j] = "none" <=> status[j] = "none"
          /\ \A j \in Requests : status'[j] = "completed" => status[j] = "completed"
      BY <1>1 DEF ReapStuckJobs, Stuck
    <2>2. KeyIsUsed' /\ UnfinishedIsNew' /\ ScheduleIsAnnounced'
      BY <1>1, <2>1, QueueStep DEF ReapStuckJobs, api
    <2>3. \A v \in Workers : wpc'[v] \in Executing => wpc'[v] = wpc[v]
      BY <1>1 DEF ReapStuckJobs, Goto, Inv, TypeOK, Executing
    <2>4. WrittenIsInserted'
      BY <1>1, <2>1, <2>3 DEF ReapStuckJobs, approval, Inv, TypeOK, WrittenIsInserted
    <2>5. PublishedFirst'
      BY <1>1, <2>3 DEF ReapStuckJobs, Inv, PublishedFirst, Executing
    <2> QED
      BY <2>2, <2>4, <2>5 DEF Inv
  <1>2. ASSUME NEW j \in Requests, PublishReaped(w, j) PROVE Inv'
    <2>1. \A k \in Requests : announced[k] \subseteq announced'[k]
      BY <1>2 DEF PublishReaped, Inv, TypeOK
    <2>2. KeyIsUsed' /\ UnfinishedIsNew' /\ ScheduleIsAnnounced'
      BY <1>2, <2>1 DEF PublishReaped, api, row, Inv, KeyIsUsed, UnfinishedIsNew,
             ScheduleIsAnnounced
    <2>3. \A v \in Workers : wpc'[v] \in Executing => wpc'[v] = wpc[v]
      BY <1>2 DEF PublishReaped, Goto, Inv, TypeOK, Executing
    <2>4. WrittenIsInserted'
      BY <1>2, <2>3 DEF PublishReaped, row, approval, Inv, WrittenIsInserted
    <2>5. PublishedFirst'
      BY <1>2, <2>1, <2>3 DEF PublishReaped, Inv, TypeOK, PublishedFirst, Executing
    <2> QED
      BY <2>2, <2>4, <2>5 DEF Inv
  <1> QED
    BY <1>1, <1>2

LEMMA ClaimInv ==
  ASSUME Inv, TypeOK', NEW w \in Workers, ClaimNextJob(w)
  PROVE  Inv'
  <1>1. /\ \A j \in Requests : status'[j] = "none" <=> status[j] = "none"
        /\ \A j \in Requests : status'[j] = "completed" => status[j] = "completed"
    BY DEF ClaimNextJob, Claimable, Inv, TypeOK
  <1>2. KeyIsUsed' /\ UnfinishedIsNew' /\ ScheduleIsAnnounced'
    BY <1>1, QueueStep DEF ClaimNextJob, api
  <1>3. \A v \in Workers \ {w} : wpc'[v] = wpc[v] /\ wjob'[v] = wjob[v]
    BY DEF ClaimNextJob, Goto, Inv, TypeOK
  <1>4. wpc'[w] \in Executing => status[wjob'[w]] = "queued" /\ wjob'[w] \in Requests
    BY DEF ClaimNextJob, Claimable, Goto, Inv, TypeOK, Executing
  <1>5. WrittenIsInserted'
    BY <1>1, <1>3, <1>4 DEF ClaimNextJob, approval, Inv, TypeOK, WrittenIsInserted
  <1>6. wpc'[w] # "commit"
    BY DEF ClaimNextJob, Goto, Inv, TypeOK
  <1>7. PublishedFirst'
    BY <1>3, <1>6 DEF ClaimNextJob, Inv, PublishedFirst
  <1> QED
    BY <1>2, <1>5, <1>7 DEF Inv

LEMMA ExecuteInv ==
  ASSUME Inv, TypeOK', NEW w \in Workers,
         LoadJob(w) \/ Solve(w) \/ Publish(w) \/ Abandon(w)
  PROVE  Inv'
  <1>1. UNCHANGED <<keyJob, rpc, row, schedules, approval>>
    BY DEF LoadJob, Solve, Publish, Abandon, api
  <1>2. \A j \in Requests : announced[j] \subseteq announced'[j]
    <2>1. CASE UNCHANGED announced
      BY <2>1
    <2>2. CASE Publish(w)
      BY <2>2 DEF Publish, Inv, TypeOK
    <2> QED
      BY <2>1, <2>2 DEF LoadJob, Solve, Abandon
  <1>3. KeyIsUsed' /\ UnfinishedIsNew' /\ ScheduleIsAnnounced'
    BY <1>1, <1>2, QueueStep DEF row
  <1>4. \A v \in Workers : v # w => /\ wpc'[v] = wpc[v] /\ wjob'[v] = wjob[v]
                                    /\ outcome'[v] = outcome[v]
    BY DEF LoadJob, Solve, Publish, Abandon, Goto, Inv, TypeOK
  <1>5. wpc'[w] \in Executing => wpc[w] \in Executing /\ wjob'[w] = wjob[w]
    BY DEF LoadJob, Solve, Publish, Abandon, Goto, Inv, TypeOK, Executing
  <1>6. WrittenIsInserted'
    BY <1>1, <1>4, <1>5 DEF row, approval, Inv, WrittenIsInserted
  <1>7. wpc'[w] = "commit" => outcome'[w] \in announced'[wjob'[w]]
    BY DEF LoadJob, Solve, Publish, Abandon, Goto, Inv, TypeOK, Executing
  <1>8. PublishedFirst'
    BY <1>2, <1>4, <1>7 DEF Inv, TypeOK, PublishedFirst, Executing
  <1> QED
    BY <1>3, <1>6, <1>8 DEF Inv

LEMMA CommitInv ==
  ASSUME Inv, TypeOK', NEW w \in Workers, Commit(w)
  PROVE  Inv'
  <1> DEFINE j == wjob[w]
  <1>1. /\ j \in Requests /\ status[j] # "none"
        /\ outcome[w] \in Terminal /\ outcome[w] \in announced[j]
    BY DEF Commit, Inv, TypeOK, WrittenIsInserted, PublishedFirst, Executing
  <1>2. /\ status'[j] = outcome[w]
        /\ \A k \in Requests \ {j} : status'[k] = status[k] /\ schedules'[k] = schedules[k]
        /\ outcome[w] # "completed" => schedules'[j] = schedules[j]
        /\ outcome[w] = "completed" => schedules'[j] = schedules[j] + 1
    BY <1>1 DEF Commit, Inv, TypeOK
  <1>3. \A k \in Requests : status'[k] = "none" <=> status[k] = "none"
    BY <1>1, <1>2 DEF Terminal
  <1>4. KeyIsUsed' /\ UnfinishedIsNew'
    BY <1>3 DEF Commit, api, Inv, KeyIsUsed, UnfinishedIsNew
  <1>5. ScheduleIsAnnounced'
    BY <1>1, <1>2 DEF Commit, Inv, TypeOK, ScheduleIsAnnounced
  <1>6. /\ \A v \in Workers : v # w => /\ wpc'[v] = wpc[v] /\ wjob'[v] = wjob[v]
                                       /\ outcome'[v] = outcome[v]
        /\ wpc'[w] = "reap"
    BY DEF Commit, Goto, Inv, TypeOK
  <1>7. WrittenIsInserted'
    BY <1>3, <1>6 DEF Commit, approval, Inv, TypeOK, WrittenIsInserted, Executing
  <1>8. PublishedFirst'
    BY <1>6 DEF Commit, Inv, PublishedFirst
  <1> QED
    BY <1>4, <1>5, <1>7, <1>8 DEF Inv

LEMMA InvStep == Inv /\ [Next]_vars => Inv'
  <1> SUFFICES ASSUME Inv, [Next]_vars PROVE Inv'
    OBVIOUS
  <1>0. TypeOK'
    BY TypeStep DEF Inv
  <1>1. CASE \E r \in Requests : FindExistingJob(r) \/ RefuseReoptimize(r) \/ InsertJob(r)
    BY <1>0, <1>1, ApiInv
  <1>2. CASE \E a \in Approvals : EnqueueRelaxationApproval(a)
                                  \/ \E j \in Requests : ReadInfeasibleJob(a, j)
    BY <1>0, <1>2, ApprovalInv
  <1>3. CASE \E j \in Requests : GetsOverdue(j)
    BY <1>0, <1>3, OverdueInv
  <1>4. CASE \E w \in Workers : Work(w) \/ Abandon(w)
    BY <1>0, <1>4, ReapInv, ClaimInv, ExecuteInv, CommitInv DEF Work
  <1>5. CASE UNCHANGED vars
    BY <1>5 DEF vars, Inv, TypeOK, KeyIsUsed, UnfinishedIsNew, WrittenIsInserted, PublishedFirst,
                ScheduleIsAnnounced
  <1> QED
    BY <1>1, <1>2, <1>3, <1>4, <1>5 DEF Next

\* Requests that share an idempotency key never both insert a job, however their
\* lookups and inserts interleave.
THEOREM OneJobPerKeyHolds == Spec => []OneJobPerKey
  <1>1. Inv => OneJobPerKey
    BY DEF Inv, KeyIsUsed, OneJobPerKey
  <1> QED
    BY <1>1, InitInv, InvStep, PTL DEF Spec

\* No crash, retry or second worker leaves a schedule unannounced, or a completed job
\* without one.
THEOREM ScheduleIsAnnouncedHolds == Spec => []ScheduleIsAnnounced
  <1>1. Inv => ScheduleIsAnnounced
    BY DEF Inv
  <1> QED
    BY <1>1, InitInv, InvStep, PTL DEF Spec

(***************************************************************************)
(* What holds when no solve outlasts the reaper's threshold and a job's    *)
(* relaxation is approved by one call only: a job in a worker's hands is   *)
(* solving, too young for the reaper, and in nobody else's hands.          *)
(***************************************************************************)
Orderly == ~SlowSolves /\ \A a, b \in Approvals : a = b

ExecutedIsClaimed ==
  \A w \in Workers :
    wpc[w] \in Executing => status[wjob[w]] = "solving" /\ ~overdue[wjob[w]]

OneExecutor ==
  \A v, w \in Workers :
    wpc[v] \in Executing /\ wpc[w] \in Executing /\ wjob[v] = wjob[w] => v = w

ReadIsInfeasible ==
  \A a \in Approvals : apc[a] = "flush" => status[ajob[a]] = "infeasible"

ScheduledIsCompleted ==
  \A j \in Requests : schedules[j] > 0 => status[j] = "completed"

OrderlyInv ==
  /\ TypeOK
  /\ ExecutedIsClaimed
  /\ OneExecutor
  /\ ReadIsInfeasible
  /\ ScheduledIsCompleted
  /\ OneSchedulePerJob

LEMMA InitOrderly == Init => OrderlyInv
  BY InitType
  DEF Init, OrderlyInv, TypeOK, ExecutedIsClaimed, OneExecutor, ReadIsInfeasible,
      ScheduledIsCompleted, OneSchedulePerJob, Executing

\* A step that changes no job that is in a worker's hands, read by an approval or
\* completed, and puts no job in a worker's hands.
LEMMA DistantStep ==
  ASSUME OrderlyInv, TypeOK', UNCHANGED schedules,
         \A w \in Workers : wpc'[w] \in Executing => wpc[w] \in Executing /\ wjob'[w] = wjob[w],
         \A j \in Requests :
           status[j] = "solving" /\ ~overdue[j]
             => \/ status'[j] = "solving" /\ ~overdue'[j]
                \/ \A w \in Workers : ~Executes(w, j),
         \A j \in Requests : status[j] = "completed" => status'[j] = "completed",
         \A a \in Approvals : apc'[a] = "flush" => status'[ajob'[a]] = "infeasible"
  PROVE  OrderlyInv'
  <1>1. ExecutedIsClaimed'
    BY DEF OrderlyInv, TypeOK, ExecutedIsClaimed, Executes
  <1>2. OneExecutor'
    BY DEF OrderlyInv, OneExecutor
  <1>3. ReadIsInfeasible'
    BY DEF ReadIsInfeasible
  <1>4. ScheduledIsCompleted' /\ OneSchedulePerJob'
    BY DEF OrderlyInv, ScheduledIsCompleted, OneSchedulePerJob
  <1> QED
    BY <1>1, <1>2, <1>3, <1>4 DEF OrderlyInv

LEMMA ApiOrderly ==
  ASSUME OrderlyInv, TypeOK', NEW r \in Requests,
         FindExistingJob(r) \/ RefuseReoptimize(r) \/ InsertJob(r),
         UnfinishedIsNew
  PROVE  OrderlyInv'
  <1>1. UNCHANGED <<schedules, overdue, worker, approval>>
    BY DEF FindExistingJob, RefuseReoptimize, InsertJob, row
  <1>2. \A j \in Requests : status[j] # "none" => status'[j] = status[j]
    BY DEF FindExistingJob, RefuseReoptimize, InsertJob, row, OrderlyInv, TypeOK,
           UnfinishedIsNew
  <1>3. \A a \in Approvals : apc'[a] = "flush" => status'[ajob'[a]] = "infeasible"
    BY <1>1, <1>2 DEF approval, OrderlyInv, TypeOK, ReadIsInfeasible
  <1> QED
    BY <1>1, <1>2, <1>3, DistantStep DEF worker

LEMMA ApprovalOrderly ==
  ASSUME OrderlyInv, TypeOK', Orderly, NEW a \in Approvals,
         EnqueueRelaxationApproval(a) \/ \E j \in Requests : ReadInfeasibleJob(a, j)
  PROVE  OrderlyInv'
  <1>1. CASE EnqueueRelaxationApproval(a)
    <2>1. ajob[a] \in Requests /\ status[ajob[a]] = "infeasible"
      BY <1>1 DEF EnqueueRelaxationApproval, OrderlyInv, TypeOK, ReadIsInfeasible
    <2>2. /\ \A j \in Requests : j # ajob[a] => status'[j] = status[j] /\ overdue'[j] = overdue[j]
          /\ UNCHANGED <<schedules, worker>>
      BY <1>1 DEF EnqueueRelaxationApproval, OrderlyInv, TypeOK
    <2>3. \A b \in Approvals : apc'[b] # "flush"
      BY <1>1 DEF EnqueueRelaxationApproval, OrderlyInv, TypeOK, Orderly
    <2> QED
      BY <2>1, <2>2, <2>3, DistantStep DEF worker
  <1>2. ASSUME NEW j \in Requests, ReadInfeasibleJob(a, j) PROVE OrderlyInv'
    <2>1. \A b \in Approvals : apc'[b] = "flush" => status'[ajob'[b]] = "infeasible"
      <3>1. status' = status
            /\ (apc'[a] = "flush" => status[j] = "infeasible" /\ ajob'[a] = j)
        BY <1>2 DEF ReadInfeasibleJob, row, OrderlyInv, TypeOK
      <3>2. \A b \in Approvals : b # a => apc'[b] = apc[b] /\ ajob'[b] = ajob[b]
        BY <1>2 DEF ReadInfeasibleJob, OrderlyInv, TypeOK
      <3> QED
        BY <3>1, <3>2 DEF OrderlyInv, ReadIsInfeasible
    <2> QED
      BY <1>2, <2>1, DistantStep DEF ReadInfeasibleJob, row, worker
  <1> QED
    BY <1>1, <1>2

LEMMA OverdueOrderly ==
  ASSUME OrderlyInv, TypeOK', Orderly, NEW j \in Requests, GetsOverdue(j)
  PROVE  OrderlyInv'
  <1>1. /\ \A w \in Workers : ~Executes(w, j)
        /\ \A k \in Requests : k # j => overdue'[k] = overdue[k]
        /\ UNCHANGED <<status, schedules, worker, approval>>
    BY DEF GetsOverdue, Orderly, OrderlyInv, TypeOK
  <1> QED
    BY <1>1, DistantStep DEF worker, approval, OrderlyInv, ReadIsInfeasible

LEMMA ReapOrderly ==
  ASSUME OrderlyInv, TypeOK', NEW w \in Workers,
         ReapStuckJobs(w) \/ (\E j \in Requests : PublishReaped(w, j))
  PROVE  OrderlyInv'
  <1>1. UNCHANGED <<schedules, wjob, approval>>
    BY DEF ReapStuckJobs, PublishReaped
  <1>2. \A v \in Workers : wpc'[v] \in Executing => wpc[v] \in Executing
    BY DEF ReapStuckJobs, PublishReaped, Goto, Executing, OrderlyInv, TypeOK
  <1>3. \A j \in Requests :
          /\ ~(status[j] = "solving" /\ overdue[j]) => status'[j] = status[j]
          /\ ~overdue[j] => ~overdue'[j]
    BY DEF ReapStuckJobs, PublishReaped, Stuck, row
  <1>4. \A a \in Approvals : apc'[a] = "flush" => status'[ajob'[a]] = "infeasible"
    BY <1>1, <1>3 DEF approval, OrderlyInv, TypeOK, ReadIsInfeasible
  <1> QED
    BY <1>1, <1>2, <1>3, <1>4, DistantStep

LEMMA ExecuteOrderly ==
  ASSUME OrderlyInv, TypeOK', NEW w \in Workers,
         LoadJob(w) \/ Solve(w) \/ Publish(w) \/ Abandon(w)
  PROVE  OrderlyInv'
  <1>1. UNCHANGED <<row, schedules, approval>>
    BY DEF LoadJob, Solve, Publish, Abandon
  <1>2. \A v \in Workers : wpc'[v] \in Executing => wpc[v] \in Executing /\ wjob'[v] = wjob[v]
    BY DEF LoadJob, Solve, Publish, Abandon, Goto, Executing, OrderlyInv, TypeOK
  <1> QED
    BY <1>1, <1>2, DistantStep DEF row, approval, OrderlyInv, ReadIsInfeasible

LEMMA ClaimOrderly ==
  ASSUME OrderlyInv, TypeOK', NEW w \in Workers, ClaimNextJob(w)
  PROVE  OrderlyInv'
  <1>1. UNCHANGED <<schedules, approval>>
    BY DEF ClaimNextJob
  <1>2. CASE Goto(w, "reap") /\ UNCHANGED <<status, overdue, wjob>>
    <2>1. \A v \in Workers : wpc'[v] \in Executing => wpc[v] \in Executing
      BY <1>2 DEF Goto, Executing, OrderlyInv, TypeOK
    <2> QED
      BY <1>1, <1>2, <2>1, DistantStep DEF approval, OrderlyInv, ReadIsInfeasible
  <1>3. ASSUME NEW j \in Claimable,
               status' = [status EXCEPT ![j] = "solving"],
               overdue' = [overdue EXCEPT ![j] = FALSE],
               wjob' = [wjob EXCEPT ![w] = j],
               Goto(w, "load")
        PROVE  OrderlyInv'
    <2>1. j \in Requests /\ status[j] = "queued"
      BY DEF Claimable
    <2>2. /\ wjob'[w] = j /\ status'[j] = "solving" /\ ~overdue'[j]
          /\ \A v \in Workers : v # w => wpc'[v] = wpc[v] /\ wjob'[v] = wjob[v]
          /\ \A k \in Requests : k # j => status'[k] = status[k] /\ overdue'[k] = overdue[k]
      BY <1>3, <2>1 DEF Goto, OrderlyInv, TypeOK
    <2>3. \A v \in Workers : v # w /\ wpc[v] \in Executing => wjob[v] # j /\ wjob[v] \in Requests
      BY <2>1 DEF OrderlyInv, TypeOK, ExecutedIsClaimed
    <2>4. ExecutedIsClaimed' /\ OneExecutor'
      BY <2>2, <2>3 DEF OrderlyInv, ExecutedIsClaimed, OneExecutor
    <2>5. ReadIsInfeasible'
      BY <1>1, <2>1, <2>2 DEF approval, OrderlyInv, TypeOK, ReadIsInfeasible
    <2>6. ScheduledIsCompleted' /\ OneSchedulePerJob'
      BY <1>1, <2>1, <2>2 DEF OrderlyInv, ScheduledIsCompleted, OneSchedulePerJob
    <2> QED
      BY <2>4, <2>5, <2>6 DEF OrderlyInv
  <1> QED
    BY <1>2, <1>3 DEF ClaimNextJob

LEMMA CommitOrderly ==
  ASSUME OrderlyInv, TypeOK', NEW w \in Workers, Commit(w)
  PROVE  OrderlyInv'
  <1> DEFINE j == wjob[w]
  <1>1. wpc[w] \in Executing /\ j \in Requests /\ status[j] = "solving"
    BY DEF Commit, OrderlyInv, TypeOK, ExecutedIsClaimed, Executing
  <1>2. schedules[j] = 0
    <2>1. schedules[j] \in Nat /\ ~(schedules[j] > 0)
      BY <1>1 DEF OrderlyInv, TypeOK, ScheduledIsCompleted
    <2> HIDE DEF j
    <2> QED
      BY <2>1
  <1>3. /\ status'[j] = outcome[w]
        /\ \A k \in Requests \ {j} : status'[k] = status[k] /\ schedules'[k] = schedules[k]
        /\ outcome[w] # "completed" => schedules'[j] = 0
        /\ outcome[w] = "completed" => schedules'[j] = 1
        /\ UNCHANGED <<overdue, approval>>
    BY <1>1, <1>2 DEF Commit, OrderlyInv, TypeOK
  <1>4. /\ \A v \in Workers : v # w => wpc'[v] = wpc[v] /\ wjob'[v] = wjob[v]
        /\ wpc'[w] \notin Executing
    BY DEF Commit, Goto, OrderlyInv, TypeOK, Executing
  <1>5. \A v \in Workers : wpc'[v] \in Executing => wjob[v] # j /\ wjob[v] \in Requests
    BY <1>1, <1>4 DEF OrderlyInv, TypeOK, OneExecutor
  <1>6. ExecutedIsClaimed' /\ OneExecutor'
    BY <1>3, <1>4, <1>5 DEF OrderlyInv, ExecutedIsClaimed, OneExecutor
  <1>7. ReadIsInfeasible'
    BY <1>1, <1>3 DEF approval, OrderlyInv, TypeOK, ReadIsInfeasible
  <1>8. ScheduledIsCompleted' /\ OneSchedulePerJob'
    <2> SUFFICES ASSUME NEW k \in Requests
                 PROVE  /\ schedules'[k] > 0 => status'[k] = "completed"
                        /\ schedules'[k] <= 1
      BY DEF ScheduledIsCompleted, OneSchedulePerJob
    <2>1. CASE k = j
      <3> HIDE DEF j
      <3> QED
        BY <1>3, <2>1
    <2>2. CASE k # j
      BY <1>3, <2>2 DEF OrderlyInv, ScheduledIsCompleted, OneSchedulePerJob
    <2> QED
      BY <2>1, <2>2
  <1> QED
    BY <1>6, <1>7, <1>8 DEF OrderlyInv

LEMMA OrderlyStep ==
  ASSUME Orderly, Inv, OrderlyInv, [Next]_vars
  PROVE  OrderlyInv'
  <1>0. TypeOK' /\ UnfinishedIsNew
    BY TypeStep DEF Inv
  <1>1. CASE \E r \in Requests : FindExistingJob(r) \/ RefuseReoptimize(r) \/ InsertJob(r)
    BY <1>0, <1>1, ApiOrderly
  <1>2. CASE \E a \in Approvals : EnqueueRelaxationApproval(a)
                                  \/ \E j \in Requests : ReadInfeasibleJob(a, j)
    BY <1>0, <1>2, ApprovalOrderly
  <1>3. CASE \E j \in Requests : GetsOverdue(j)
    BY <1>0, <1>3, OverdueOrderly
  <1>4. CASE \E w \in Workers : Work(w) \/ Abandon(w)
    BY <1>0, <1>4, ReapOrderly, ClaimOrderly, ExecuteOrderly, CommitOrderly DEF Work
  <1>5. CASE UNCHANGED vars
    BY <1>5 DEF vars, OrderlyInv, TypeOK, ExecutedIsClaimed, OneExecutor, ReadIsInfeasible,
                ScheduledIsCompleted, OneSchedulePerJob
  <1> QED
    BY <1>1, <1>2, <1>3, <1>4, <1>5 DEF Next

\* Claims, reaper and retries never give one job two schedules, provided no solve
\* outlasts the reaper's threshold and approvals do not race.
THEOREM OneSchedulePerJobHolds == Orderly /\ Spec => []OneSchedulePerJob
  <1> SUFFICES ASSUME Orderly PROVE Spec => []OneSchedulePerJob
    OBVIOUS
  <1>1. Init => Inv /\ OrderlyInv
    BY InitInv, InitOrderly
  <1>2. Inv /\ OrderlyInv /\ [Next]_vars => (Inv /\ OrderlyInv)'
    BY InvStep, OrderlyStep
  <1>3. OrderlyInv => OneSchedulePerJob
    BY DEF OrderlyInv
  <1> QED
    BY <1>1, <1>2, <1>3, PTL DEF Spec

\* Every write of a status finds the row unfinished.
LEMMA OutcomeStep ==
  ASSUME Orderly, Inv, OrderlyInv, [Next]_vars, NEW j \in Requests,
         status[j] \in {"completed", "failed"}
  PROVE  status'[j] = status[j]
  <1>1. ASSUME NEW r \in Requests,
               FindExistingJob(r) \/ RefuseReoptimize(r) \/ InsertJob(r)
        PROVE  status'[j] = status[j]
    BY <1>1 DEF FindExistingJob, RefuseReoptimize, InsertJob, row, Inv, TypeOK, UnfinishedIsNew
  <1>2. ASSUME NEW a \in Approvals, EnqueueRelaxationApproval(a)
        PROVE  status'[j] = status[j]
    BY <1>2 DEF EnqueueRelaxationApproval, OrderlyInv, TypeOK, ReadIsInfeasible
  <1>3. ASSUME NEW w \in Workers, ReapStuckJobs(w)
        PROVE  status'[j] = status[j]
    BY <1>3 DEF ReapStuckJobs, Stuck
  <1>4. ASSUME NEW w \in Workers, ClaimNextJob(w)
        PROVE  status'[j] = status[j]
    BY <1>4 DEF ClaimNextJob, Claimable, OrderlyInv, TypeOK
  <1>5. ASSUME NEW w \in Workers, Commit(w)
        PROVE  status'[j] = status[j]
    BY <1>5 DEF Commit, OrderlyInv, TypeOK, ExecutedIsClaimed, Executing
  <1>6. ASSUME UNCHANGED row PROVE status'[j] = status[j]
    BY <1>6 DEF row
  <1>7. ASSUME NEW w \in Workers,
               (\E k \in Requests : PublishReaped(w, k)) \/ LoadJob(w) \/ Solve(w)
               \/ Publish(w) \/ Abandon(w)
        PROVE  UNCHANGED row
    BY <1>7 DEF PublishReaped, LoadJob, Solve, Publish, Abandon
  <1>8. ASSUME NEW a \in Approvals, NEW k \in Requests, ReadInfeasibleJob(a, k)
        PROVE  UNCHANGED row
    BY <1>8 DEF ReadInfeasibleJob
  <1>9. ASSUME NEW k \in Requests, GetsOverdue(k) PROVE status'[j] = status[j]
    BY <1>9 DEF GetsOverdue
  <1>10. ASSUME UNCHANGED vars PROVE status'[j] = status[j]
    BY <1>10 DEF vars
  <1> QED
    BY <1>1, <1>2, <1>3, <1>4, <1>5, <1>6, <1>7, <1>8, <1>9, <1>10 DEF Next, Work

\* No worker, reaper or approval reopens a completed or failed job, under the same
\* two conditions.
THEOREM OutcomeIsKeptHolds == Orderly /\ Spec => OutcomeIsKept
  <1> SUFFICES ASSUME Orderly PROVE Spec => OutcomeIsKept
    OBVIOUS
  <1> DEFINE Kept == \A j \in Requests :
                       status[j] \in {"completed", "failed"} => status'[j] = status[j]
  <1>1. Init => Inv /\ OrderlyInv
    BY InitInv, InitOrderly
  <1>2. Inv /\ OrderlyInv /\ [Next]_vars => (Inv /\ OrderlyInv)'
    BY InvStep, OrderlyStep
  <1>3. Inv /\ OrderlyInv /\ [Next]_vars => [Kept]_vars
    BY OutcomeStep
  <1> QED
    BY <1>1, <1>2, <1>3, PTL DEF Spec, OutcomeIsKept

(***************************************************************************)
(* The queue implements JobBoard, under the same two conditions.  What is  *)
(* still to be announced by a reaper has failed and stays failed.          *)
(***************************************************************************)
ReapedIsFailed == \A w \in Workers : \A j \in reaped[w] : status[j] = "failed"

BoardInv == Inv /\ OrderlyInv /\ ReapedIsFailed

LEMMA InitBoardInv == Orderly /\ Init => BoardInv
  <1>1. Init => ReapedIsFailed
    BY DEF Init, ReapedIsFailed
  <1> QED
    BY <1>1, InitInv, InitOrderly DEF BoardInv

LEMMA ReapedStep ==
  ASSUME Orderly, BoardInv, [Next]_vars
  PROVE  ReapedIsFailed'
  <1> SUFFICES ASSUME NEW w \in Workers, NEW j \in reaped'[w] PROVE status'[j] = "failed"
    BY DEF ReapedIsFailed
  <1>1. ASSUME j \in reaped[w] PROVE status'[j] = "failed"
    BY <1>1, OutcomeStep DEF BoardInv, ReapedIsFailed, Inv, TypeOK
  <1>2. CASE \E v \in Workers : ReapStuckJobs(v)
    <2>1. PICK v \in Workers : ReapStuckJobs(v)
      BY <1>2
    <2>2. CASE v = w
      BY <2>1, <2>2 DEF ReapStuckJobs, Stuck, BoardInv, Inv, TypeOK
    <2>3. CASE v # w
      BY <1>1, <2>1, <2>3 DEF ReapStuckJobs, BoardInv, Inv, TypeOK
    <2> QED
      BY <2>2, <2>3
  <1>3. CASE \E v \in Workers : (\E k \in Requests : PublishReaped(v, k)) \/ Abandon(v)
    BY <1>1, <1>3 DEF PublishReaped, Abandon, BoardInv, Inv, TypeOK
  <1>4. CASE UNCHANGED reaped
    BY <1>1, <1>4
  <1>5. ASSUME NEW r \in Requests,
               FindExistingJob(r) \/ RefuseReoptimize(r) \/ InsertJob(r) \/ GetsOverdue(r)
        PROVE  UNCHANGED reaped
    BY <1>5 DEF FindExistingJob, RefuseReoptimize, InsertJob, GetsOverdue, worker
  <1>6. ASSUME NEW a \in Approvals,
               EnqueueRelaxationApproval(a) \/ \E k \in Requests : ReadInfeasibleJob(a, k)
        PROVE  UNCHANGED reaped
    BY <1>6 DEF EnqueueRelaxationApproval, ReadInfeasibleJob, worker
  <1>7. ASSUME NEW v \in Workers,
               ClaimNextJob(v) \/ LoadJob(v) \/ Solve(v) \/ Publish(v) \/ Commit(v)
        PROVE  UNCHANGED reaped
    BY <1>7 DEF ClaimNextJob, LoadJob, Solve, Publish, Commit
  <1> QED
    BY <1>2, <1>3, <1>4, <1>5, <1>6, <1>7 DEF Next, Work, vars

LEMMA BoardInvStep ==
  ASSUME Orderly, BoardInv, [Next]_vars
  PROVE  BoardInv'
  BY InvStep, OrderlyStep, ReapedStep DEF BoardInv

BoardStep == [Board!Next]_(Board!vars)

\* What a step that settles, opens and tells of no job leaves alone.
LEMMA BoardStays ==
  ASSUME UNCHANGED <<announced, schedules>>, \A j \in Requests : JobState'[j] = JobState[j]
  PROVE  BoardStep
  BY DEF BoardStep, Board!vars, JobState

LEMMA BoardOpens ==
  ASSUME BoardInv, NEW j \in Requests, status[j] \in {"none", "infeasible"},
         status' = [status EXCEPT ![j] = "queued"], UNCHANGED <<announced, schedules>>
  PROVE  BoardStep
  <1>1. JobState[j] = status[j] /\ JobState' = [JobState EXCEPT ![j] = "open"]
    BY DEF JobState, BoardInv, Inv, TypeOK
  <1>2. Board!Open(j)
    BY <1>1 DEF Board!Open
  <1> QED
    BY <1>2 DEF BoardStep, Board!Next

LEMMA BoardTells ==
  ASSUME BoardInv, NEW j \in Requests, NEW o \in Terminal, JobState[j] \in {"open", o},
         announced' = [announced EXCEPT ![j] = @ \cup {o}], UNCHANGED <<status, schedules>>
  PROVE  BoardStep
  <1>1. Board!Tell(j, o)
    BY DEF Board!Tell, JobState
  <1> QED
    BY <1>1 DEF BoardStep, Board!Next, Board!Outcome, Terminal

LEMMA ReapIsGivingUp ==
  ASSUME BoardInv, NEW w \in Workers, ReapStuckJobs(w)
  PROVE  BoardStep
  <1> DEFINE lost == {j \in Stuck : Exhausted(j)}
  <1>1. lost \subseteq Requests /\ \A j \in lost : JobState[j] = "open"
    BY DEF Stuck, JobState
  <1>2. \A j \in Requests : status'[j] = IF j \in lost THEN "failed"
                                         ELSE IF j \in Stuck THEN "queued" ELSE status[j]
    BY DEF ReapStuckJobs
  <1>3. JobState' = [j \in Requests |-> IF j \in lost THEN "failed" ELSE JobState[j]]
    BY <1>2 DEF JobState, Stuck
  <1>4. Board!GiveUp(lost)
    BY <1>1, <1>3 DEF Board!GiveUp, ReapStuckJobs
  <1> QED
    BY <1>1, <1>4 DEF BoardStep, Board!Next

LEMMA CommitIsSettling ==
  ASSUME BoardInv, NEW w \in Workers, Commit(w)
  PROVE  BoardStep
  <1> PICK j \in Requests : j = wjob[w]
    BY DEF Commit, BoardInv, Inv, TypeOK, Executing
  <1> PICK o \in Terminal : o = outcome[w]
    BY DEF Commit, BoardInv, Inv, TypeOK
  <1>1. status[j] = "solving" /\ o \in announced[j]
    BY DEF Commit, BoardInv, Inv, OrderlyInv, ExecutedIsClaimed, PublishedFirst, Executing
  <1>2. schedules[j] = 0
    <2>1. schedules[j] \in Nat /\ ~(schedules[j] > 0)
      BY <1>1 DEF BoardInv, OrderlyInv, TypeOK, ScheduledIsCompleted
    <2> QED
      BY <2>1
  <1>3. status' = [status EXCEPT ![j] = o] /\ UNCHANGED announced
    BY DEF Commit
  <1>4. schedules' = IF o = "completed" THEN [schedules EXCEPT ![j] = 1] ELSE schedules
    BY <1>2 DEF Commit
  <1>5. JobState[j] = "open" /\ JobState' = [JobState EXCEPT ![j] = o]
    BY <1>1, <1>3 DEF JobState, BoardInv, Inv, TypeOK, Terminal
  <1>6. Board!Settle(j, o)
    BY <1>1, <1>3, <1>4, <1>5 DEF Board!Settle
  <1> QED
    BY <1>6 DEF BoardStep, Board!Next, Board!Outcome, Terminal

\* Every step of the queue opens, tells of, settles or gives up jobs, or does not show.
LEMMA NextSettles ==
  ASSUME Orderly, BoardInv, [Next]_vars
  PROVE  BoardStep
  <1>1. ASSUME UNCHANGED <<status, announced, schedules>> PROVE BoardStep
    BY <1>1, BoardStays DEF JobState
  <1>2. ASSUME NEW r \in Requests, InsertJob(r) PROVE BoardStep
    <2>1. status[r] = "none"
      BY <1>2 DEF InsertJob, BoardInv, Inv, UnfinishedIsNew
    <2> QED
      BY <1>1, <1>2, <2>1, BoardOpens DEF InsertJob
  <1>3. ASSUME NEW a \in Approvals, EnqueueRelaxationApproval(a) PROVE BoardStep
    <2>1. ajob[a] \in Requests /\ status[ajob[a]] = "infeasible"
      BY <1>3 DEF EnqueueRelaxationApproval, BoardInv, OrderlyInv, TypeOK, ReadIsInfeasible
    <2> QED
      BY <1>3, <2>1, BoardOpens DEF EnqueueRelaxationApproval
  <1>4. ASSUME NEW w \in Workers, NEW j \in Requests, PublishReaped(w, j) PROVE BoardStep
    <2>1. JobState[j] = "failed" /\ "failed" \in Terminal
      BY <1>4 DEF PublishReaped, BoardInv, ReapedIsFailed, JobState, Terminal
    <2> QED
      BY <1>4, <2>1, BoardTells DEF PublishReaped, row
  <1>5. ASSUME NEW w \in Workers, ClaimNextJob(w) PROVE BoardStep
    <2>1. \A j \in Requests : JobState'[j] = JobState[j]
      BY <1>5 DEF ClaimNextJob, Claimable, JobState, BoardInv, Inv, TypeOK
    <2> QED
      BY <1>5, <2>1, BoardStays DEF ClaimNextJob
  <1>6. ASSUME NEW w \in Workers, Publish(w) PROVE BoardStep
    <2>1. wjob[w] \in Requests /\ outcome[w] \in Terminal /\ status[wjob[w]] = "solving"
      BY <1>6 DEF Publish, BoardInv, OrderlyInv, TypeOK, ExecutedIsClaimed, Executing
    <2>2. JobState[wjob[w]] = "open"
      BY <2>1 DEF JobState
    <2> QED
      BY <1>6, <2>1, <2>2, BoardTells DEF Publish, row
  <1>7. ASSUME NEW r \in Requests, FindExistingJob(r) \/ RefuseReoptimize(r) \/ GetsOverdue(r)
        PROVE  BoardStep
    BY <1>1, <1>7 DEF FindExistingJob, RefuseReoptimize, GetsOverdue, row
  <1>8. ASSUME NEW a \in Approvals, NEW j \in Requests, ReadInfeasibleJob(a, j)
        PROVE  BoardStep
    BY <1>1, <1>8 DEF ReadInfeasibleJob, row
  <1>9. ASSUME NEW w \in Workers, LoadJob(w) \/ Solve(w) \/ Abandon(w) PROVE BoardStep
    BY <1>1, <1>9 DEF LoadJob, Solve, Abandon, row
  <1>10. CASE UNCHANGED vars
    BY <1>1, <1>10 DEF vars
  <1> QED
    BY <1>2, <1>3, <1>4, <1>5, <1>6, <1>7, <1>8, <1>9, <1>10, ReapIsGivingUp,
       CommitIsSettling DEF Next, Work

LEMMA InitBoard == Init => Board!Init
  BY DEF Init, Board!Init, JobState

\* For any number of jobs and workers, claims, sweeps, retries and crashes show on
\* the outside as jobs that settle once, with one schedule if they complete.
THEOREM QueueSettles == Orderly /\ Spec => JobsAreSettled
  <1> SUFFICES ASSUME Orderly PROVE Spec => JobsAreSettled
    OBVIOUS
  <1>1. BoardInv /\ [Next]_vars => BoardInv' /\ BoardStep
    BY BoardInvStep, NextSettles
  <1>2. Init => BoardInv
    BY InitBoardInv
  <1> QED
    BY <1>1, <1>2, InitBoard, PTL DEF Spec, JobsAreSettled, Board!Spec, BoardStep

(***************************************************************************)
(* How many schedules a job may get when nothing keeps the reaper from a   *)
(* job that is being solved.  Every time a job is queued is paid for by    *)
(* its insertion, by an attempt or by an approval; a claim turns that into *)
(* an executor and a commit the executor into a schedule.                  *)
(***************************************************************************)
Executors(j) == {w \in Workers : Executes(w, j)}

Waiting(j) == IF status[j] = "queued" THEN 1 ELSE 0

Inserted(j) == IF status[j] = "none" THEN 0 ELSE 1

Paid(j) ==
  /\ IsFiniteSet(Executors(j))
  /\ IsFiniteSet(Requeued(j))
  /\ schedules[j] + Cardinality(Executors(j)) + Waiting(j)
       <= Inserted(j) + attempts[j] + Cardinality(Requeued(j))

PaidInv == \A j \in Requests : Paid(j)

LEMMA InitPaid == Init => PaidInv
  <1> SUFFICES ASSUME Init, NEW j \in Requests PROVE Paid(j)
    BY DEF PaidInv
  <1>1. Executors(j) = {} /\ Requeued(j) = {}
    BY DEF Init, Executors, Executes, Executing, Requeued
  <1>2. schedules[j] = 0 /\ attempts[j] = 0 /\ Waiting(j) = 0 /\ Inserted(j) = 0
    BY DEF Init, Waiting, Inserted
  <1> QED
    BY <1>1, <1>2, FS_EmptySet DEF Paid

\* The numbers that the proof is about.
LEMMA Counts ==
  ASSUME TypeOK, NEW j \in Requests, Paid(j)
  PROVE  /\ schedules[j] \in Nat /\ attempts[j] \in Nat
         /\ Cardinality(Executors(j)) \in Nat /\ Cardinality(Requeued(j)) \in Nat
         /\ Waiting(j) \in {0, 1} /\ Inserted(j) \in {0, 1}
  <1>1. Cardinality(Executors(j)) \in Nat /\ Cardinality(Requeued(j)) \in Nat
    BY FS_CardinalityType DEF Paid
  <1> QED
    BY <1>1, JobAssumption DEF TypeOK, Waiting, Inserted

\* A step that neither starts nor ends an execution of job j and queues it only
\* against an insertion or an attempt.
LEMMA PaidByRow ==
  ASSUME TypeOK, TypeOK', NEW j \in Requests, Paid(j),
         Executors(j)' = Executors(j), Requeued(j)' = Requeued(j),
         schedules'[j] = schedules[j],
         Waiting(j)' + Inserted(j) + attempts[j] <= Waiting(j) + Inserted(j)' + attempts'[j]
  PROVE  Paid(j)'
  <1>1. Waiting(j)' \in {0, 1} /\ Inserted(j)' \in {0, 1} /\ attempts'[j] \in Nat
    BY JobAssumption DEF Waiting, Inserted, TypeOK
  <1> QED
    BY <1>1, Counts DEF Paid

LEMMA PaidSame ==
  ASSUME TypeOK, TypeOK', NEW j \in Requests, Paid(j),
         Executors(j)' = Executors(j), Requeued(j)' = Requeued(j),
         schedules'[j] = schedules[j], attempts'[j] = attempts[j], status'[j] = status[j]
  PROVE  Paid(j)'
  <1>1. Waiting(j)' = Waiting(j) /\ Inserted(j)' = Inserted(j)
    BY DEF Waiting, Inserted
  <1> QED
    BY <1>1, PaidByRow, Counts

LEMMA ApiPaid ==
  ASSUME Inv, TypeOK', NEW r \in Requests,
         FindExistingJob(r) \/ RefuseReoptimize(r) \/ InsertJob(r),
         NEW j \in Requests, Paid(j)
  PROVE  Paid(j)'
  <1>1. /\ Executors(j)' = Executors(j) /\ Requeued(j)' = Requeued(j)
        /\ UNCHANGED <<schedules, attempts>>
    BY DEF FindExistingJob, RefuseReoptimize, InsertJob, row, worker, approval, Executors,
           Executes, Requeued
  <1>2. CASE status'[j] = status[j]
    BY <1>1, <1>2, PaidSame DEF Inv
  <1>3. CASE status'[j] # status[j]
    <2>1. status[j] = "none" /\ status'[j] = "queued"
      BY <1>3 DEF FindExistingJob, RefuseReoptimize, InsertJob, row, Inv, TypeOK,
                  UnfinishedIsNew
    <2>2. Waiting(j) = 0 /\ Inserted(j) = 0 /\ Waiting(j)' = 1 /\ Inserted(j)' = 1
      BY <2>1 DEF Waiting, Inserted
    <2> QED
      BY <1>1, <2>2, PaidByRow, Counts DEF Inv
  <1> QED
    BY <1>2, <1>3

\* A flush queues the job whatever it has become, and counts as one approval.
LEMMA ApprovalPaid ==
  ASSUME Inv, TypeOK', NEW a \in Approvals,
         EnqueueRelaxationApproval(a) \/ \E k \in Requests : ReadInfeasibleJob(a, k),
         NEW j \in Requests, Paid(j)
  PROVE  Paid(j)'
  <1>1. UNCHANGED <<schedules, attempts>> /\ Executors(j)' = Executors(j)
    BY DEF EnqueueRelaxationApproval, ReadInfeasibleJob, row, worker, Executors, Executes
  <1>2. CASE Requeued(j)' = Requeued(j) /\ status'[j] = status[j]
    BY <1>1, <1>2, PaidSame DEF Inv
  <1>3. CASE Requeued(j)' = Requeued(j) \cup {a} /\ a \notin Requeued(j) /\ Inserted(j)' = Inserted(j)
    <2>1. /\ IsFiniteSet(Requeued(j)')
          /\ Cardinality(Requeued(j)') = Cardinality(Requeued(j)) + 1
      BY <1>3, FS_AddElement DEF Paid
    <2>2. Waiting(j)' \in {0, 1}
      BY DEF Waiting
    <2> QED
      BY <1>1, <1>3, <2>1, <2>2, Counts DEF Paid, Inv
  <1>4. CASE EnqueueRelaxationApproval(a)
    <2>1. CASE ajob[a] = j
      <3>1. status[j] # "none" /\ status'[j] = "queued"
        BY <1>4, <2>1 DEF EnqueueRelaxationApproval, Inv, TypeOK, WrittenIsInserted
      <3> QED
        BY <1>3, <1>4, <2>1, <3>1 DEF EnqueueRelaxationApproval, Requeued, Inserted, Inv, TypeOK
    <2>2. CASE ajob[a] # j
      BY <1>2, <1>4, <2>2 DEF EnqueueRelaxationApproval, Requeued, Inv, TypeOK
    <2> QED
      BY <2>1, <2>2
  <1>5. ASSUME NEW k \in Requests, ReadInfeasibleJob(a, k) PROVE Paid(j)'
    <2>1. apc[a] = "idle" /\ UNCHANGED status
      BY <1>5 DEF ReadInfeasibleJob, row
    <2>2. Requeued(j)' \in {Requeued(j), Requeued(j) \cup {a}} /\ a \notin Requeued(j)
      BY <1>5, <2>1 DEF ReadInfeasibleJob, Requeued, Inv, TypeOK
    <2> QED
      BY <1>2, <1>3, <2>1, <2>2 DEF Inserted
  <1> QED
    BY <1>4, <1>5

LEMMA ReapPaid ==
  ASSUME TypeOK, TypeOK', NEW w \in Workers, ReapStuckJobs(w), NEW j \in Requests, Paid(j)
  PROVE  Paid(j)'
  <1>1. Executors(j)' = Executors(j)
    BY DEF ReapStuckJobs, Goto, Executors, Executes, Executing, TypeOK
  <1>2. Requeued(j)' = Requeued(j) /\ UNCHANGED schedules
    BY DEF ReapStuckJobs, approval, Requeued
  <1>3. CASE j \notin Stuck
    BY <1>1, <1>2, <1>3, PaidSame DEF ReapStuckJobs
  <1>4. CASE j \in Stuck
    <2>1. Waiting(j) = 0 /\ Inserted(j) = 1
      BY <1>4 DEF Stuck, Waiting, Inserted
    <2>2. \/ status'[j] = "queued" /\ attempts'[j] = attempts[j] + 1
          \/ status'[j] = "failed" /\ attempts'[j] = attempts[j]
      BY <1>4 DEF ReapStuckJobs
    <2>3. \/ Waiting(j)' = 1 /\ Inserted(j)' = 1 /\ attempts'[j] = attempts[j] + 1
          \/ Waiting(j)' = 0 /\ Inserted(j)' = 1 /\ attempts'[j] = attempts[j]
      BY <2>2 DEF Waiting, Inserted
    <2> QED
      BY <1>1, <1>2, <2>1, <2>3, PaidByRow, Counts
  <1> QED
    BY <1>3, <1>4

LEMMA ClaimPaid ==
  ASSUME TypeOK, TypeOK', NEW w \in Workers, ClaimNextJob(w), NEW j \in Requests, Paid(j)
  PROVE  Paid(j)'
  <1>1. Requeued(j)' = Requeued(j) /\ UNCHANGED <<schedules, attempts>>
    BY DEF ClaimNextJob, approval, Requeued
  <1>2. w \notin Executors(j)
    BY DEF ClaimNextJob, Executors, Executes, Executing
  <1>3. CASE Executors(j)' = Executors(j) /\ status'[j] = status[j]
    BY <1>1, <1>3, PaidSame
  <1>4. CASE Executors(j)' = Executors(j) \cup {w} /\ status[j] = "queued" /\ status'[j] = "solving"
    <2>1. /\ IsFiniteSet(Executors(j)')
          /\ Cardinality(Executors(j)') = Cardinality(Executors(j)) + 1
      BY <1>2, <1>4, FS_AddElement DEF Paid
    <2>2. Waiting(j) = 1 /\ Inserted(j) = 1 /\ Waiting(j)' = 0 /\ Inserted(j)' = 1
      BY <1>4 DEF Waiting, Inserted
    <2> QED
      BY <1>1, <2>1, <2>2, Counts DEF Paid
  <1>5. CASE Goto(w, "reap") /\ UNCHANGED <<status, overdue, wjob>>
    BY <1>2, <1>3, <1>5 DEF Goto, Executors, Executes, Executing, TypeOK
  <1>6. ASSUME NEW k \in Claimable,
               status' = [status EXCEPT ![k] = "solving"],
               wjob' = [wjob EXCEPT ![w] = k],
               Goto(w, "load")
        PROVE  Paid(j)'
    <2>1. k \in Requests /\ status[k] = "queued"
      BY DEF Claimable
    <2>2. \A v \in Workers : v # w => (Executes(v, j)' <=> Executes(v, j))
      BY <1>6 DEF Goto, Executes, TypeOK
    <2>3. Executes(w, j)' <=> k = j
      BY <1>6 DEF Goto, Executes, Executing, TypeOK
    <2>4. CASE k = j
      BY <1>4, <1>6, <2>1, <2>2, <2>3, <2>4 DEF Executors, TypeOK
    <2>5. CASE k # j
      <3>1. Executors(j)' = Executors(j)
        BY <1>2, <2>2, <2>3, <2>5 DEF Executors
      <3> QED
        BY <1>3, <1>6, <2>5, <3>1 DEF TypeOK
    <2> QED
      BY <2>4, <2>5
  <1> QED
    BY <1>5, <1>6 DEF ClaimNextJob

\* An executor leaves, and what it committed, if anything, is one schedule.
LEMMA ExecutorLeaves ==
  ASSUME TypeOK, TypeOK', NEW w \in Workers, NEW j \in Requests, Paid(j),
         w \in Executors(j), Executors(j)' = Executors(j) \ {w}, Requeued(j)' = Requeued(j),
         attempts'[j] = attempts[j], schedules'[j] <= schedules[j] + 1,
         Waiting(j)' <= Waiting(j), Inserted(j)' >= Inserted(j)
  PROVE  Paid(j)'
  <1>1. /\ IsFiniteSet(Executors(j)')
        /\ Cardinality(Executors(j)') = Cardinality(Executors(j)) - 1
    BY FS_RemoveElement DEF Paid
  <1>2. Waiting(j)' \in {0, 1} /\ Inserted(j)' \in {0, 1} /\ schedules'[j] \in Nat
    BY DEF Waiting, Inserted, TypeOK
  <1> QED
    BY <1>1, <1>2, Counts DEF Paid

LEMMA CommitPaid ==
  ASSUME Inv, TypeOK', NEW w \in Workers, Commit(w), NEW j \in Requests, Paid(j)
  PROVE  Paid(j)'
  <1>1. Requeued(j)' = Requeued(j) /\ UNCHANGED attempts
    BY DEF Commit, approval, Requeued
  <1>2. /\ \A v \in Workers : v # w => (Executes(v, j)' <=> Executes(v, j))
        /\ ~Executes(w, j)'
    BY DEF Commit, Goto, Executes, Executing, Inv, TypeOK
  <1>3. CASE wjob[w] = j
    <2>1. w \in Executors(j) /\ Executors(j)' = Executors(j) \ {w}
      BY <1>2, <1>3 DEF Commit, Executors, Executes, Executing
    <2>2. status'[j] \in Terminal /\ schedules'[j] <= schedules[j] + 1
      BY <1>3 DEF Commit, Inv, TypeOK
    <2>3. Waiting(j)' = 0 /\ Inserted(j)' = 1
      BY <2>2 DEF Waiting, Inserted, Terminal
    <2> QED
      BY <1>1, <2>1, <2>2, <2>3, ExecutorLeaves, Counts DEF Inv
  <1>4. CASE wjob[w] # j
    <2>1. Executors(j)' = Executors(j)
      BY <1>2, <1>4 DEF Executors, Executes
    <2>2. status'[j] = status[j] /\ schedules'[j] = schedules[j]
      BY <1>4 DEF Commit, Inv, TypeOK, Executing
    <2> QED
      BY <1>1, <2>1, <2>2, PaidSame DEF Inv
  <1> QED
    BY <1>3, <1>4

LEMMA AbandonPaid ==
  ASSUME TypeOK, TypeOK', NEW w \in Workers, Abandon(w), NEW j \in Requests, Paid(j)
  PROVE  Paid(j)'
  <1>1. Requeued(j)' = Requeued(j) /\ UNCHANGED <<attempts, schedules, status>>
    BY DEF Abandon, row, approval, Requeued
  <1>2. Waiting(j)' = Waiting(j) /\ Inserted(j)' = Inserted(j)
    BY <1>1 DEF Waiting, Inserted
  <1>3. /\ \A v \in Workers : v # w => (Executes(v, j)' <=> Executes(v, j))
        /\ ~Executes(w, j)'
    BY DEF Abandon, Goto, Executes, Executing, TypeOK
  <1>4. Executors(j)' = Executors(j) \ {w}
    BY <1>3 DEF Executors
  <1>5. CASE w \in Executors(j)
    BY <1>1, <1>2, <1>4, <1>5, ExecutorLeaves, Counts
  <1>6. CASE w \notin Executors(j)
    BY <1>1, <1>4, <1>6, PaidSame
  <1> QED
    BY <1>5, <1>6

LEMMA PaidStep == Inv /\ PaidInv /\ [Next]_vars => PaidInv'
  <1> SUFFICES ASSUME Inv, PaidInv, [Next]_vars, NEW j \in Requests PROVE Paid(j)'
    BY DEF PaidInv
  <1>0. TypeOK /\ TypeOK' /\ Paid(j)
    BY TypeStep DEF Inv, PaidInv
  <1>1. ASSUME UNCHANGED <<status, attempts, schedules, approval>>,
               \A v \in Workers : Executes(v, j)' <=> Executes(v, j)
        PROVE  Paid(j)'
    <2>1. Executors(j)' = Executors(j) /\ Requeued(j)' = Requeued(j)
      BY <1>1 DEF Executors, Requeued, approval
    <2> QED
      BY <1>0, <1>1, <2>1, PaidSame
  <1>2. ASSUME NEW w \in Workers,
               (\E k \in Requests : PublishReaped(w, k)) \/ LoadJob(w) \/ Solve(w) \/ Publish(w)
        PROVE  Paid(j)'
    <2>1. UNCHANGED <<status, attempts, schedules, approval>>
      BY <1>2 DEF PublishReaped, LoadJob, Solve, Publish, row
    <2>2. \A v \in Workers : Executes(v, j)' <=> Executes(v, j)
      BY <1>0, <1>2
      DEF PublishReaped, LoadJob, Solve, Publish, Goto, Executes, Executing, TypeOK
    <2> QED
      BY <1>1, <2>1, <2>2
  <1>3. ASSUME NEW k \in Requests, GetsOverdue(k) PROVE Paid(j)'
    BY <1>1, <1>3 DEF GetsOverdue, worker, Executes
  <1>4. CASE UNCHANGED vars
    BY <1>1, <1>4 DEF vars, approval, Executes
  <1> QED
    BY <1>0, <1>2, <1>3, <1>4, ApiPaid, ApprovalPaid, ReapPaid, ClaimPaid, CommitPaid,
       AbandonPaid DEF Next, Work

\* However long a solve takes, and however approvals race: the schedules of a job
\* beyond its first are no more than its counted attempts and its approvals.
THEOREM SchedulesAreBoundedHolds == Spec => []SchedulesAreBounded
  <1>1. Init => Inv /\ PaidInv
    BY InitInv, InitPaid
  <1>2. Inv /\ PaidInv /\ [Next]_vars => (Inv /\ PaidInv)'
    BY InvStep, PaidStep
  <1>3. Inv /\ PaidInv => SchedulesAreBounded
    <2> SUFFICES ASSUME Inv, PaidInv, NEW j \in Requests
                 PROVE  schedules[j] <= 1 + attempts[j] + Cardinality(Requeued(j))
      BY DEF SchedulesAreBounded
    <2>1. Paid(j)
      BY DEF PaidInv
    <2> QED
      BY <2>1, Counts DEF Inv, Paid
  <1> QED
    BY <1>1, <1>2, <1>3, PTL DEF Spec
================================================================================
