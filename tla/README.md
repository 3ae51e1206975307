# A TLA+ verification project for WFM-RD

WFM-RD is a workforce-management suite: a multi-tenant platform core and a dozen
services around it (scheduling, shift marketplace, leave, mobile, intraday, ...),
which share PostgreSQL, Redis and NATS JetStream. This directory models the parts
of it whose correctness depends on the order in which concurrent calls, crashes,
timeouts and retries happen. Paths below are relative to the repository, which is
mounted as `src/`; the repository has a `src/` directory of its own, the platform
core, hence paths such as `src/src/modules/auth`.

* [Inventory](#inventory)
* [Plan](#plan)
* [How the modules model the code](#how-the-modules-model-the-code)
* [The runs](#the-runs)
* [The proofs](#the-proofs)
* [Where code and text disagree](#where-code-and-text-disagree)
* [What is not modelled](#what-is-not-modelled)

## Inventory

| Component | State | Operations | What is hard | What makes it correct |
|---|---|---|---|---|
| **Open-shift market** (`shift-marketplace-service/src/marketplace`: claim-open-shift, bid, claim-attempt-rate-limiter, approve-marketplace-action; `src/redis`) | `marketplace_post`, `marketplace_claim` with a partial unique index, a Redis lock per post, an attempt counter per employee | claim, convert a winning bid, approve, reject | the lock is advisory and may expire before its holder has finished; two transactions per claim with a remote call in between; supervisors read, check and save without a condition | one live claim and one award per post; nothing approved without its hand-off; a lock is removed by its holder only and is always freed |
| **Swaps** (swap-request, approve-marketplace-action) | `swap_request` rows, a Redis lock per swap | propose, accept, decline, approve, reject | as above; an open swap is *resolved* to a responder before it is validated; declining takes no lock | the target never changes; what is executed names it; one execution by an accept |
| **Bids** (bid.service, bid-close-sweep, bid-ranking) | bidding windows, bids | submit, close (by hand or by the sweep), rank, convert | sweep against manual close, bids that arrive while a window closes | one winner per window, deterministic ranking |
| **Engagement ledger** (engagement-rewards) | ledger rows, points, badges | award after a commit | runs after the commit, may fail or be lost | points only for what was granted |
| **Marketplace outbox** (marketplace-outbox-publisher, nats-client) | outbox rows with a lease | insert in the deciding transaction, drain, mark | a publisher dies between publishing and marking; a lease expires | at least once, never lost |
| **Scheduling's consumer** (`scheduling-service/app/nats/marketplace_consumer.py`, `schedule_service.py`) | assignments, versions, conflicts | apply a claim, apply a swap, dead-letter | duplicates and reordering; an assignment that changed meanwhile | applying an event twice is applying it once |
| **Schedule jobs** (`scheduling-service/app`: job_service, queue_service, worker) | `schedule_jobs`, `idempotency_keys`, schedules, completion events | enqueue, claim (`SKIP LOCKED`), reap, solve, publish, approve a relaxation | a worker dies in a long transaction; the reaper requeues what may still be running; publish inside the transaction; unconditional updates | one job per key, one schedule per job, no finished job reopened, every job ends |
| **Constraint solver** (`scheduling-service/app/solver`) | none | build and solve CP-SAT models, decompose | numeric optimisation | feasibility of the roster |
| **Leave** (`attendance-leave-service/src/leave`) | leave requests, balances, reminders | provision, request, backdate, decide, accrue, roll over, expire | two requests on one balance; two decisions on one request; nightly statements that read one row and write another | a balance agrees with its requests; nothing is reserved that was not granted; expiry takes back what was carried over and no more |
| **Attendance ingestion** (`attendance-leave-service/src/attendance`) | attendance records, an ingestion ledger | ingest a clock-in or clock-out | repeated events; a look-up and an update in two transactions; a CHECK that refuses a clock-out before its clock-in | an event counts once |
| **Adherence, intraday** | adherence scores, live state, alerts, reallocations | evaluate, alert, approve | one transaction or one row lock each | not modelled |
| **Mobile offline queue and sync** (`mobile-app/src/offlineQueue`, `mobile-ess-service/src/mobile-sync`) | the device's encrypted queue, sync log | enqueue, sync a batch, process an action | a lost answer and a repeated batch; actions queued during a sync | each action takes effect once, none is lost |
| **Sessions** (`src/src/modules/auth`) | authorization codes, refresh-token families, a Redis cache | exchange a code, rotate, revoke a family or a user's sessions | two rotations of one token; a revocation whose UPDATE misses a row that is just being inserted; a stale cache | one session per code, one live token per family, a revoked session is over unless a rotation overtook the revocation |
| **Idempotent requests** (`src/src/common/http/idempotency.interceptor.ts`) | one record per key | begin, store the answer, replay | every Redis call fails open | best effort by its own comment; not modelled |
| **Core eventing, audit, webhooks** (`src/src/modules/core-eventing`, `audit`, `webhook`) | pending audit events, audit log, outbox, deliveries | enqueue, flush, drain, fan out, post, retry, bury | two instances of a loop; leases that end before the batch; attempt counts read when the batch was taken; the failure path fails | nothing is dropped silently, every hop ends, no delivery is given up early |
| **LLM circuit breaker** (`ai-layer-service`) | closed, open, half-open | call, trip, probe | concurrent probes | at most one probe; synchronous code, not modelled |
| **Identity, RBAC, tenant, SSO, SCIM, WebAuthn, employees, skills, calendars, work rules** | rows | CRUD | one transaction each | out of scope |
| **Forecasting, analytics, integration hub, ACD collector, consoles** | models, read models, connectors, screens | | numeric or pure I/O | out of scope |

How they interact: the marketplace asks scheduling-service for eligibility over
gRPC (synchronously, while it holds a lock) and tells it about awards through the
outbox and NATS; the scheduling API and its workers meet only in the database; the
mobile service calls leave and marketplace on behalf of a device that may repeat
itself; the platform core issues the tokens every service accepts.

## Plan

The order follows the damage a wrong interleaving does: first who works a shift,
then what the schedule is, then balances, sessions and devices.

| # | Module | What it covers | State |
|---|---|---|---|
| 1 | `Marketplace` | claims, bid conversion, supervisors, lock, limiter; implements `ShiftAward` | checked, proved |
| 2 | `Swap` | proposals, responses, supervisors; implements `ShiftAward` | checked, proved |
| 3 | `ScheduleJobs` | queue, workers, reaper, approvals; implements `JobBoard` | checked, proved |
| 4 | `Handoff` | the outbox of 1 and 2, JetStream, and scheduling's consumer with overrides, composed; implements `Relay` | checked, proved |
| 5 | `Leave` | requests, decisions, balances, the nightly jobs; implements `LeaveBook` | checked, proved |
| 6 | `Sessions` | codes, token families, revocation, cache; implements `TokenChain` | checked, proved |
| 7 | `MobileSync` | device, mobile service and owning services, composed; implements `Relay` | checked, proved |
| 8 | `Eventing` | audit queue, core outbox, webhooks; its first two hops implement `Relay` | checked, proved |

What would come next: bidding windows (submission, closing, ranking as a function)
and the integration hub's batch runner with its rate limiter.

## How the modules model the code

Common conventions. One *call* of a service method is a member of a constant set,
and its program counter (`pc`, `dpc`, `rpc`, `apc`, `wpc`) names the statement it
runs next. An action is what the database or Redis does in one step as seen by the
others: a transaction, or a single statement where a transaction reads a row and
writes it later without having locked it (PostgreSQL's READ COMMITTED). A call
inserts at most one row, which is named by the call. A crash may occur between any
two steps; a statement that throws runs the call's `finally` block and nothing
else. Tenants are left out: every query is confined to one, and the models are of
one. Texts, notifications and metrics are left out.

### Marketplace

| Model | Code |
|---|---|
| `post`, `claim`, `events` | `marketplace_post.status`, `marketplace_claim.status`, `ShiftClaimApproved` rows of the outbox |
| `lock`, `AcquireClaimLock`, `ReleaseClaimLock`, `ExpireLock` | `SET key token NX EX` and compare-and-delete in `redis.service.ts` |
| `attempts`, `lapsed`, `AssertNotRateLimited`, `RecordFailedAttempt`, `WindowLapses` | claim-attempt-rate-limiter |
| `ReadPost`, `InsertClaim`, `CheckEligibility`, `CommitEligibleClaim`, `CommitRefusedClaim` | `ClaimOpenShiftService.claim` and `processClaim` |
| `CommitBid` | `BidService.convertWinningBidToClaim` |
| `IndexAdmits` | the partial unique index of migration 1700004000000 |
| `ReadPendingClaim`, `ApproveClaim`, `RejectClaim`, `EngageApproved` | `ApproveMarketplaceActionService` |
| `RedisUnavailable`, `ReleaseFails`, `StatementFails`, `CrashRequest`, `CrashDecision` | `catch` and `finally` blocks, and their absence |

The guardrail is a nondeterministic answer: eligible, ineligible, stale (the shift
is over or gone) or unavailable. Auto-approval is configured per instance, so the
set `AutoApproved` names calls and not tenants: two instances may disagree while a
configuration is rolled out.

### Swap

The row keeps the status, the target and the requested shift; `entity` is the copy
a call has in memory. `Save` models TypeORM's `save()`, which compares the entity
with the row it finds and writes the columns that differ: the outcome is either the
entity or the row, with the new status. `Resolve` and `Decide` are the two
conditional UPDATEs of `processAccept`. `RecordEngagement` covers the two award
transactions, either of which may fail. The statuses `cancelled` and `superseded`
exist in the enum and are written by nothing.

### ScheduleJobs

`FindExistingJob`, `RefuseReoptimize` and `InsertJob` are the two enqueue functions
of `job_service.py`, `ReadInfeasibleJob` and `EnqueueRelaxationApproval` the two
halves of `enqueue_relaxation_approval`. The remaining actions are the worker's
loop: `ReapStuckJobs` and `PublishReaped`, `ClaimNextJob`, then `LoadJob`, `Solve`,
`Publish` and `Commit`, which are one transaction with an event published inside
it. `Locked` is the row lock that a completed job's flushed UPDATE holds until the
commit. `Abandon` is both an exception in the loop and the death of the process,
after which it starts again at its head. The solver is a choice of
outcome. Time is one bit per job: `GetsOverdue` says that `solving_started_at` has
passed the reaper's threshold. The constant `SlowSolves` says whether this can
happen to a job that a worker is still solving: `app/config.py` demands that the
threshold exceed the real p99 of solve times, which makes it unlikely and not
impossible, so both cases are checked.

### Handoff

Two services and the broker between them. `row`, `leased`, `batch` and `published`
are the marketplace's outbox and what a publisher has in hand; `stream`,
`remembered` and `delivery` are JetStream's message log, its duplicate window and
its durable consumer (external: modelled from how both sides use them); `held`,
`job`, `tpc` and `seen` are a consumer replica and its transaction; `holder`,
`conflicts` and `told` are the schedule, its conflict rows and what
`assignment_changed` has announced.

| Model | Code |
|---|---|
| `InsertWithinTransaction`, `FindUnpublishedBatch`, `MarkPublished`, `LeaseExpires` | marketplace-outbox-events.repository |
| `Publish`, `RecordFailure`, `Drain`, `PublisherDies` | marketplace-outbox-publisher, nats-client |
| `Fetch`, `HandleMessage`, `Ack`, `Nak`, `TerminateToDlq` | `marketplace_consumer.py` |
| `LoadAssignment`, `Flush`, `Commit`, `StartOverride`, `OverrideFails` | `schedule_service.py`: `apply_marketplace_claim`, `apply_marketplace_swap`, `override_assignment` |

A transaction is three steps: it loads the rows without a lock, flushes its UPDATEs
(which take the row locks, and write only the columns that differ from what was
loaded), and commits. What the flush announces is published before the commit.

### Leave

One employee, whose balances are rows `accrued`, `used`, `pending`, `carried`.
`LockBalance` and `Reserve` are the two halves of `reserveAndSubmit`, between which
it holds the balance's row lock; `LockRequest` and `ApplyDecision` those of
`applyDecision`. Days are calendar dates, as `inclusiveDayCount` counts them, and
`Overlaps` is the exclusion constraint on active ranges. Accrual is one UPDATE
whose conditions are all on the row it writes. Rollover and expiry compute from
other rows or from a subquery, so each is two steps: the snapshot, and the write,
which waits for locks and re-evaluates only the conditions on the written row, as
PostgreSQL does under READ COMMITTED. `StatementFails` is the `catch` of either.
`ComesDue` lets a row accrue again and again, up to its cap, and `NonNegative` is the
table's `leave_balance_non_negative_check`: a clawback that would take `accrued_days`
below zero fails the statement, which ends in that `catch`.

### Sessions

A row of `refresh_tokens` is a member of `Tokens`; its family is named after its
first row. `Consume` is the conditional UPDATE that spends a code. A rotation is
`Rotate` (the lookup, which believes the cache), `InsertNext` and `Swap` (one
transaction: the successor is inserted, and the presented row is replaced if it is
still active), then the cache writes, each its own step, each allowed to fail.
`StartUpdate` and `RevokeRows` split the UPDATE that revokes a family or a user's
sessions into its snapshot and its writes: it misses a row that commits in between.
Where that is the row of a rotation that lost, it is of no use to anybody, as it was
never handed out. Where the rotation won, the revocation reaches only the token that
was replaced, and the new one goes on working: `TokenChain` therefore has a revocation
look before it ends, and `SessionsAreChains` says that being overtaken in this way is
all that saves a login from a revocation that is carried out. `Die` is a crash at any
await.

### MobileSync

The device (`queue`, `conflicts`, `writing`), one request per pass in
mobile-ess-service (`spc`, `todo`, `row`), and the owning services reduced to what
they accept (`ledger`, `open`, `granted`). The stores are read and written back
whole: `BeginOperation` remembers the index it read and `FinishEnqueue` or
`FinishRemove` write it, under the mutex. Nothing keeps two passes of
`syncPendingActions` apart, and a pass that gives up leaves its request running.
`ProcessAction` looks for an action's row; `InsertRow` is the `repo.save` after a miss,
which inserts the row, overwrites the one another request has put there since, or fails
on the unique key and goes on with that one.

The attendance service is modelled where its order of checks is the point. A clock-in
is one transaction. A clock-out is two: `FindOpenRecord` picks the latest open record,
`CommitClockOut` closes it under the condition that it is still open. `UpdateResult` has
the outcomes: a conflict if somebody closed it meanwhile, an error (500, *failed* for the
device) if the record was opened after the clock-out, which the table's CHECK refuses,
and otherwise the ledger decides whether the event is new. When the caller has gone the
service goes on all the same (`Abandon`, `CommitLate`). Exception detection, badges and
manual entries are left out. Leave requests and claims are accepted once or refused.

### Eventing

The same three steps (take a batch, work on an item, mark it) in three loops, so
one set of actions serves flushers, publishers and dispatchers, told apart where
they differ: flushers take rows without a lease, publishers fan out after marking,
dispatchers post to an endpoint. A batch is taken with the `attempts` it read, and
`Exhausted` uses those, not the column; `Limit` is five for dispatchers and three for the
other loops, in the code. `HandleFailureThrows` is the dispatcher's `handleFailure`
throwing inside the `try`, before or after its write has taken effect, whereupon the
`catch` runs it again: `recounts` counts the posts that were counted twice.

### The abstract specifications

Each component's promise to the others is a specification of its own, with a handful
of actions and no locks, leases, caches, retries or crashes. The detailed
specification implements it under a mapping that is written with the properties at
the end of its module; the runs check the implementation and the proofs establish it
for all constants.

| Promise | Says | Kept by | Mapping |
|---|---|---|---|
| `ShiftAward` | a shift is handed over to one claim, repeatedly perhaps, and never taken back | `Marketplace` (`AwardsOnce`), `Swap` (`TradedWithOne`) | the claims in the outbox; the pairs of swap and employee in it |
| `JobBoard` | a job settles once, only an infeasible one opens again, a schedule comes with completion and the outcome is told first | `ScheduleJobs` (`JobsAreSettled`) | *queued* and *solving* are both *open* |
| `Relay` | what was sent is owed until it has arrived or is set aside; nothing arrives that was not sent | `Handoff` (`DecisionsAreRelayed`), `MobileSync` (`ActionsAreRelayed`), `Eventing` twice (`EventsAreRelayed`) | owed: unpublished or in transit on the stream; in the queue store; pending, or not marked published. Set aside: terminated messages; conflicts, dismissed ones included; dead letters |
| `LeaveBook` | leave is booked on free days that the account is worth at that moment, is decided once by somebody who may, and no lapse undoes it | `Leave` (`LeaveIsBooked`) | the statuses of the requests, `accrued` as worth, `clawed` as lapsed |
| `TokenChain` | a login is one chain of tokens of which at most the last works; a revocation ends the chains it was asked to end, but for tokens replaced between its look and its write; an ended chain stays ended | `Sessions` (`SessionsAreChains`) | per code, the issued rows that are active and those that are not; per request, the logins it is to revoke and the live rows in its snapshot |

### Fairness

* `Marketplace`: a request that is alive takes its next step (the event loop goes
  on, and the eligibility call has a timeout), and Redis expires keys. A request may
  crash at every step, and supervisors need never act.
* `ScheduleJobs`: every worker's loop goes on, and time passes. An exception in a
  job is caught and logged (`Worker._execute_claim`); one in the reaper or in the
  claim ends the process, and that the deployment starts it again is an assumption
  about the orchestrator, which the repository does not configure for the worker.
  `JobEnds` needs it: without workers the queue stands still. No fairness is assumed
  for the API, for approvals, or against failures: a worker may fail each time.
* `Handoff` and `Eventing`: the timers keep firing, a transaction that was begun
  ends, leases and acknowledgement waits run out (weak fairness each). Crashes and
  lost answers are limited by `MaxFaults`; beyond it the environment is kind, since
  no outbox delivers to a broker that never answers. For scheduling's consumer weak
  fairness assumes more than the code gives: it is an asyncio task that nothing
  restarts (`app/main.py` creates it once and awaits it only at shutdown), and a
  `pull_subscribe` that fails at start, or a `nak()` or `term()` that raises, ends it
  for good while the process lives on. `EventSettles` therefore assumes that the
  connection to NATS is not closed for good, or that a process without its consumer
  is restarted from outside. In `Eventing` an endpoint, an
  audit write or a publish may refuse without limit: the attempt counter bounds it.
* `MobileSync`: the app comes to the foreground again and again, and the service
  goes on. A pass has strong fairness, because it waits for the store's mutex and
  the mutex is a FIFO chain of promises: whoever waits is served, although the
  mutex is not continuously free.
* `Swap`, `Leave` and `Sessions` assume none, and claim no liveness.

## The runs

| Run | Configuration | Checks | Result |
|---|---|---|---|
| `market` | one post; an auto-approved claim and a bid conversion; two approvals, a rejection; limit 1 | `TypeOK`, `OneLiveClaim`, `QueuedClaimHoldsPost`, `ApprovedIsHandedOff`, `SecondAwardIsSecondApproval`, `AwardsOnce`, `OnlyHolderReleases`, `LockIsFreed` | holds, 74,146 states |
| `market_reject_race` | a claim, an approval, a rejection | `RejectedIsNotGranted` | violated |
| `swap_responses` | one open swap; three accepts by two employees, of whom one offers a shift, one accept auto-approved; a decline, two approvals, a rejection | `TypeOK`, `AcceptExecutesAlone`, `ExecutedForTarget`, `AcceptedIsHandedOff`, `TargetIsStable`, `TradedWithOne` | holds, 1,692,337 states |
| `job_queue` | a submission and a reoptimization, two workers, one approval, one retry, no slow solve | `JobsAreSettled`, `JobEnds` | holds, 213,572 states |
| `job_slow_solves` | two requests with one key, two workers, two approvals, slow solves | `TypeOK`, `OneJobPerKey`, `ScheduleIsAnnounced`, `SchedulesAreBounded` | holds, 239,140 states |
| `handoff` | a swap, an event for an unknown assignment, an override; one publisher, one consumer, one fault, two messages per event | `TypeOK`, `DecisionsAreRelayed`, `ChangeIsAnnounced`, `EventSettles` | holds, 199,997 states |
| `leave` | three overlapping requests (one backdated, one needing no approval) on the balances of two periods, three decisions, one job | `TypeOK`, `BalanceMatchesRequests`, `ClawedAtMostCarried`, `LeaveIsBooked` | holds, 730,760 states |
| `leave_clawback` | the same with two jobs | `ClawedAtMostCarried` | violated |
| `mobile` | up to two of: a clock-out, possibly refused by the fence, a second clock-in, a leave request, after a first clock-in that was synchronised; two passes, one fault | `TypeOK`, `SyncedIsAccepted`, `ActionsAreRelayed`, `ActionSettles` | holds, 418,752 states |
| `mobile_clock_retry` | a clock-in and a clock-out, one pass, one fault | `ConflictIsReal` | violated |
| `sessions` | one login, four rows, two requests at once, logout everywhere | `TypeOK`, `OneSessionPerCode`, `SessionsAreChains` | holds, 342,312 states |
| `eventing` | one event, one subscription, a flusher, a publisher, two dispatchers, two attempts at the event and three at its delivery, one fault | `TypeOK`, `NoEarlyGiveUp`, `EventsAreRelayed`, `EventSettles`, `DeliveryEnds` | holds, 407,904 states |

Why these bounds are enough to be interesting: every property is about one contested
row, and posts, swaps and jobs meet only through the attempt counter (one employee
makes all requests) and through the order of the queue (two jobs). The races
in question are between two calls; a third is there for what happens after the
first two, and the locks expire at any time. `MaxAttempts = 1` already reaches a
retry, exhaustion and failure of a job; `Limit = 1` reaches the refusal of a call
and, by `WindowLapses`, its readmission. In `handoff` one fault may fall on any
step of the chain, and leases, acknowledgement waits and the duplicate window end
without spending it, so an event is published twice and applied twice. In `mobile`
the two passes send overlapping batches while a request of a pass that gave up is
still running. `MaxTaps = 2` lets the employee queue any two of the three actions in
the order of their times: a clock-out and a clock-in after it are what a blocked
clock-out takes, and the run reaches it, as it does the race of two clock-outs for one
record and the overwriting of a *synced* row. Three attempts in `eventing` are the least
with which counting one post twice gives a delivery up early. In `eventing` one outbox row per event and one fan-out suffice for
every step of a chain with two dispatchers on one delivery; with `MaxRows = 2` and
one dispatcher, where a flush that failed after its commit writes the event again,
the properties hold too (323,192 states), as those of `mobile` do with a claim in
place of the leave request (287,819 states). The run has one flusher and one publisher:
two that race for a row are in the theorems only. Four rows in `sessions` are a login and
three rotations, or rotations that race and lose. The supervisors
who approve a swap are interchangeable, as tokens, requests and codes are in
`sessions`: no definition tells two of them apart, and both runs check safety only, so
symmetry is sound in them. No state constraint is used: what is
unbounded in the code is bounded by a named constant in a guard. `TypeOK` and the
safety properties listed below are proved without bounds.

Each checked property is paired in `PROJECT.json` with a mutant: a definition
altered as a plausible bug would (the index missing, a plain `DEL` of the lock, an
UPDATE without its condition, a plain SELECT for a locking one, the hand-off
published after the commit, a store without its mutex, an exhausted event dropped).
TLC finds every one of them through its property. The mutated definitions sit next
to the originals, marked *Mutant of*.

## The proofs

TLAPS proves, for every value of the constants: any number of calls, workers,
instances, rows and faults.

| Module | Theorems | From |
|---|---|---|
| `MarketplaceProofs` | `TypeCorrect`, `OneLiveClaimHolds`, `QueuedClaimHoldsPostHolds`, `ApprovedIsHandedOffHolds`, `AwardPathsDoNotOverlap`, `OnlyHolderReleasesHolds`; `MarketAwardsOnce`: the refinement of `ShiftAward`; `OnlySupervisorsRace`; and, if supervisors only approve or only reject, `RejectedIsNotGrantedHolds` | `RequestAssumption`: the sets of calls are disjoint and the parameters are functions on them |
| `SwapProofs` | `SwapTypeCorrect`, `ExecutedForTargetHolds`, `AcceptExecutesAloneHolds`, `AcceptedIsHandedOffHolds`, `TargetIsStableHolds`; `SwapTradesWithOne`: the refinement of `ShiftAward` | `SwapAssumption`, of the same kind |
| `ScheduleJobsProofs` | `JobsTypeCorrect`, `OneJobPerKeyHolds`, `ScheduleIsAnnouncedHolds`, `SchedulesAreBoundedHolds`; and, if `Orderly`, `OneSchedulePerJobHolds`, `OutcomeIsKeptHolds` and `QueueSettles`: the refinement of `JobBoard` | `JobAssumption`; `Orderly` says that no solve outlasts the threshold and that there is at most one approval |
| `HandoffProofs` | `HandoffTypeCorrect`, `NothingIsLostHolds`, `ChangeIsAnnouncedHolds`; `HandoffRelays`: the refinement of `Relay` | `HandoffAssumption`: events, overrides and replicas are told apart, changes name assignments and employees |
| `LeaveProofs` | `LeaveTypeCorrect`, `BalanceMatchesRequestsHolds`, `GrantsCoverRequestsHolds`; `LeaveImplementsBook`: the refinement of `LeaveBook`; and, if `OneJob`, `ClawedAtMostCarriedHolds` | `LeaveAssumption`: finitely many dates per request, natural amounts; `OneJob` says that one instance runs the carryover job |
| `SessionsProofs` | `SessionsTypeCorrect`, `CodeStartsOneSession`, `FamilyHasOneLiveToken`, `RevocationIsFinal`; `LoginsAreChains`: the refinement of `TokenChain` | `SessionsAssumption`: codes have owners |
| `MobileSyncProofs` | `MobileTypeCorrect`, `SyncedIsTrue`, `NothingIsDroppedHolds`; `MobileRelays`: the refinement of `Relay`; and, if `Undisturbed`, `UndisturbedConflictIsReal` | `MobileAssumption`: actions are made at distinct times; `Undisturbed` says that no call or answer is lost, nothing dies and passes do not overlap |
| `EventingProofs` | `EventingTypeCorrect`, `NoEventIsDropped`, `NoWebhookIsGivenUpEarly`; `EventingRelays`: the refinement of `Relay`, twice | `EventingAssumption`: the loops and the items are told apart, finitely many dispatchers |

A refinement has three facts: `Init` maps to the abstract `Init`; under the inductive
invariant each step maps to an abstract step or leaves the mapped state alone, shown
action by action; and the invariant holds. The plain invariants `OneLiveToken`,
`RevokedSessionIsOver`, `NothingIsLost`, `NothingIsDropped`, `EventIsKept`,
`OneSchedulePerJob`, `OutcomeIsKept` and `GrantsCoverRequests` are proved on their own;
the runs check the refinements in their place. A refinement says more: an abstract step names what may happen next, so it also excludes
a token that is replaced by another session, an event that arrives without having been
sent, or a job that completes unannounced.

The three properties that fail on a run have a theorem on the other side, which says
how far what the text promises is true: `RejectedIsNotGranted` unless an approval and a
rejection race, `ClawedAtMostCarried` with one job, `ConflictIsReal` while undisturbed.

The arguments:

* **Marketplace.** None of the invariants is inductive. Call a claim *passed*
  once it has won its post. The invariant `Inv` adds that a request between its two
  transactions owns a live row of its own (`OwnRow`), so that the index has no other
  on the post; that the post of a passed claim is not open (`PassedPostIsTaken`), so
  the condition of the UPDATE lets nobody else win it; that at most one claim per
  post has passed (`OnePassed`); and that supervisors hold only passed claims
  (`ReadClaim`). The blind write to `expired` is harmless since its writer owns the
  only live row of the post. Nothing in the argument mentions the lock: the two
  database conditions suffice without Redis. The refinement follows from
  `OnePassed`, for only passed claims have events. For the ledger, `Backed` counts
  the awards written together with those still owed by the request that won and by
  the supervisors between their commit and their award: a crash drops a debt and
  nothing creates one but an approval. `PathInv` adds where events come from: the claim
  of an auto-approved request is never pending, so no supervisor reads it and it has one
  event at most; every other event was written by an approval, and two of them by two.
  For rejected grants, `RaceInv`: a claim that is
  not decided has no event, the request of a claim that a supervisor has read is over,
  and once a claim has been read only an approval that read it grants it. A rejected
  claim with an event was therefore read by one of each.
* **Swap.** `Inv` says that a decided swap has a target, that the entity of a call
  past `Resolve` has the target of the row, that supervisors hold only swaps that
  were queued for them, and that where an accept has executed a swap no supervisor
  holds it. The two conditional UPDATEs give the first and the last, and every save
  of an entity keeps the target since the entity has it already. The refinement adds
  nothing to `Inv`: whoever executes a swap holds its target, which is the one every
  earlier execution named.
* **ScheduleJobs.** `Inv`: a job exists only under its key (`KeyIsUsed`), and what
  is about to be committed as completed was published (`PublishedFirst`). For one
  schedule per job, `OrderlyInv`: an executed job is `solving` and not overdue
  (`ExecutedIsClaimed`), nobody else executes it (`OneExecutor`), a job an approval
  has read is still infeasible (`ReadIsInfeasible`), and a schedule means
  `completed` (`ScheduledIsCompleted`). Each half of `Orderly` is used once, and
  without the second the theorem is false (see below). The refinement needs one more
  fact, `ReapedIsFailed`: what a reaper has still to announce has failed and stays so.
  `SchedulesAreBoundedHolds` needs neither half. `Paid` counts for each job: its
  schedules, the workers executing it and a place in the queue are together no more
  than its insertion, the attempts the reaper has counted and the approvals that
  queued it again. A claim turns a place into an executor and a commit an executor into
  a schedule; only the reaper and an approval make a new place, and both pay for it.
* **Handoff.** `Streamed`: what a publisher is about to mark, and what the duplicate
  window remembers, is on the stream. `Answered`: an acknowledged message was applied
  and a terminated one is poison. Together an event can leave the outbox only for the
  stream, and the stream only for the schedule. `Announced` says that a flushed
  transaction has announced what it will commit, and `Alone` that no other has flushed
  the same row: the row lock taken by the flush is what makes the last announcement
  the committed one. For `Relay`: all that is published or handled was recorded by the
  marketplace (`Recorded`), a drain marks one row at a time (`OneAtATime`), and no
  transaction applies what will be terminated (`Clean`).
* **Leave.** The books balance because each call that moves days holds the row lock it
  needs when it reads: `Reserving` and `Deciding` say what such a call has read and
  that it is still true. Reserved days of a balance are counted as a set of dates, so
  `DaysDiffer` (active requests never share a date, the exclusion constraint) is part
  of the invariant. `Targeted` says that a job writes only the rows of its snapshot.
  For the clawback, `Carried` relates the snapshot of the expiry to the row it will
  write; a second job would invalidate it, hence `OneJob`. For `LeaveBook`, `Entitled`
  says that a decision about to be applied was allowed when it locked its request, and
  `Provisioned` that only rows that exist are worth anything; that a booking is covered
  at its own moment is what the row lock on the balance gives.
* **Sessions.** A family is a chain: rows are linked to the next generation
  (`Linked`), start at the row the family is named after (`Rooted`), and there is one
  issued row per generation, all but the last replaced (`Chain`). The row of a rotation
  that loses the conditional UPDATE is committed all the same, but it replaces nothing
  and so is not issued: no generation has two issued rows. A live token is therefore
  the last of its chain, and a revoked last token ends it. `Spent` gives one family per
  code. In the refinement the rows that were never issued do not show, and `RInv` says
  what the rest rests on: what a request presents was issued, a snapshot holds committed
  rows and is kept until the UPDATE writes, and the rows of a family have one login. A
  rotation that wins moves a chain on and takes the old token out of what any revocation
  has found; taking the snapshot is `Look`, for the live rows in its scope are the live
  tokens of the chains it was asked to end; the write is `End`. Nothing makes a chain
  end that a winning rotation has moved past the snapshot, and `TokenChain` says so.
* **MobileSync.** The mutex makes what a writer has read equal to what the store holds
  (`WriterIsAlone`), so that writing the whole index back loses nothing; what is
  removed from the queue is already kept elsewhere (`RemovedIsKept`); a request that
  is about to save *synced* has been accepted (`SavedIsAccepted`). That two passes
  overlap matters to neither. For `Relay`, `RInv` says that whatever is stored, sent,
  answered or removed was queued by the employee. For `UndisturbedConflictIsReal`: what
  is forwarded has no terminal row (`AtHandIsNew`), what is recorded has a *synced* row
  or is about to get one (`RecordedIsSynced`), and what is shown as a conflict has a
  *conflict* row (`ConflictIsSaved`). One lost answer breaks the second, and so does a
  second pass without any fault.
* **Eventing.** `InHand` gives the order within a loop: logged or on the bus before it
  is marked, a dead letter before it is removed. For webhooks, `Counted`: the attempts
  recorded and the dispatchers that have posted but not yet recorded are no more than
  the posts and the recounts, and the attempts a dispatcher read are not ahead of the
  row. Stale counts therefore cost further posts; only a recount, a `recordFailure` that
  fails after its commit and is repeated by the catch, costs one too few. `InHand` is also what the two
  refinements of `Relay` rest on.

What is only model-checked: liveness (`LockIsFreed`, `JobEnds`, `ActionSettles`,
`DeliveryEnds`, and `EventSettles` of `Handoff` and of `Eventing`), since reasoning
from fairness is out of the prover's reach. Every other property that holds on a run
is a theorem, with the conditions named above where it has any.

## Where code and text disagree

Three runs are expected to fail: each states what a comment or document of the
repository says, and TLC's trace shows what the code does. `findings` in
`PROJECT.json` quotes the lines.

1. *Rejected after it was granted* (`market_reject_race`). `approveClaim` and
   `rejectClaim` check the status of an entity and save it later. If both read
   first and the rejection commits last, a rejected claim has been handed over.
2. *Carryover clawed back twice* (`leave_clawback`). `EXPIRY_SQL` has no condition
   on the row it writes. Two instances that run it together both subtract, provided
   the row holds at least twice the clawback: the table's CHECK refuses a negative
   balance, and `expiryTick` catches that.
3. *A recorded clock-out shown as a conflict* (`mobile_clock_retry`). `ingest`
   looks for an open record before it looks at the ledger, so a repeated clock-out
   is refused, not recognised.

Other behaviours the models contain, each against a text of the repository, that no
run states because each is of the same kind as one above or follows by reading:

* A request that dies before its second transaction leaves a `pending_validation`
  row that nothing ends, and the unique index refuses all later claims of the post;
  the lock's TTL, which contention-lock.constants.ts relies on, frees the key only.
* `rejectClaim` leaves the post `claimed`, and no operation reopens it, while
  migration 1700004000000 calls such a post claimable again.
* Declining a swap takes no lock and saves without a condition, so it may overwrite
  an accept that is already in the outbox (swap-request.service.ts:278-282 says only
  the first decision lands).
* The responder's second accept may replace the offered shift between the
  guardrail's answer to the first and its decision.
* With two approvals of one infeasible job (`Approvals = {a1, a2}` in
  `JobQueue.cfg`) `JobsAreSettled` fails: both see the job as infeasible, and it gets
  two schedules, within what `SchedulesAreBounded` allows.
* Two schedule transactions that give one employee overlapping assignments each run
  the double-booking query before the other commits: no conflict row is written.
* A leave request that was granted and repeated is refused as overlapping itself;
  the mobile client does not count that as a conflict, so it is retried for ever.
  `ActionSettles` is therefore about clock events.
* A clock-out that is retried while a later clock-in is open finds that record, and
  the CHECK of migration 1700000600000:48-49 refuses to close it at an earlier time. The
  answer is a 500, which the client retries on every pass until somebody closes the
  later record. `ActionSettles` excepts exactly this case (`Blocked`).
* `mobile-sync.service.ts` looks for the row of an action in one transaction and saves a
  new one in another (76-78, 95-114). Of two passes that both found none, the later
  save may turn a *synced* row into *pending_sync*, and the action is forwarded again.
* Two supervisors who both read a claim as pending both hand it over and both award
  points. claim-open-shift.service.ts:317-322 calls an award "never double-fired for the
  same claim" and approve-marketplace-action.service.ts:76-78 says that the two paths
  never overlap: the latter is true and proved (`AwardPathsDoNotOverlap`), the former
  only of the two paths against each other. The same holds of `approveSwap` and
  swap-request.service.ts:324-328.
* A revocation whose snapshot precedes the commit of a winning rotation revokes the old
  token only. The new one is active and goes on working, though ADR-0025:17-20,
  runbook.md:130 and refresh-tokens.repository.ts:87 have the entire family revoked.
  `TokenChain` describes this as what it is: `End` ends what `Look` has found.
* When `recordFailure` throws after its commit, the catch of
  webhook-delivery-dispatcher.service.ts:87-89 counts the same post again, and a delivery
  may be dead-lettered after fewer than five posts. `NoEarlyGiveUp` counts such
  repetitions and allows nothing else.
* An exception out of `nak()`, `term()` or `pull_subscribe` (marketplace_consumer.py:66,
  111, 115) ends the consumer's task, and main.py:115 does not start another before the
  process restarts. Until then nothing is applied.
* When the platform core dies between marking an outbox row and fanning it out, its
  webhooks are never told.

## What is not modelled

* The solver, its decomposition, forecasting and analytics: numeric code, whose
  outcomes are choices here.
* CRUD of the platform core and of the services (tenants, employees, skills,
  calendars, work rules, policies): one transaction per request, no protocol between
  them. With migrations, seeds, DTOs, GraphQL and REST plumbing and the user
  interfaces they are the bulk of the repository's lines, which is why the map
  covers a small share of it: it covers the code whose correctness depends on the
  order of events.
* SSO, SCIM, WebAuthn, Envoy, NATS and Redis themselves: third-party protocols,
  present only through what the code relies on (a lock that expires, a row lock, a
  unique index, a duplicate window).
* Bidding windows beyond the conversion of the winner, the idempotency interceptor,
  the LLM circuit breaker, intraday management and the integration hub: `components`
  gives the reason for each, and `hazards` the lines where they can go wrong.
* Points, levels and badges, notification texts, metrics, screens; expiry of tokens
  and codes, which only refuses; signatures and back-off times of webhooks.
