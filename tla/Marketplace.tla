------------------------------ MODULE Marketplace ------------------------------
(***************************************************************************)
(* The open-shift market of shift-marketplace-service: employees' claims   *)
(* and the conversion of winning bids race for posts, supervisors approve  *)
(* or reject what won.                                                     *)
(*                                                                         *)
(* A request is one call of ClaimOpenShiftService.claim or of              *)
(* BidService.convertWinningBidToClaim.  It runs concurrently with every   *)
(* other call, on any instance of the service, and may crash between any   *)
(* two of its steps.  Each action is one statement, or one transaction,    *)
(* that another call can observe: the transactions run at READ COMMITTED   *)
(* and lock no row they only read, so a status that is read and then       *)
(* written is two actions.  A request inserts at most one claim row, which *)
(* is therefore named by the request.                                      *)
(***************************************************************************)
EXTENDS Naturals

CONSTANTS
  Posts,          \* rows of marketplace_post
  Employees,      \* claimants
  ClaimRequests,  \* calls of ClaimOpenShiftService.claim
  BidRequests,    \* calls of BidService.convertWinningBidToClaim
  Approvals,      \* calls of ApproveMarketplaceActionService.approveClaim
  Rejections,     \* calls of ApproveMarketplaceActionService.rejectClaim
  PostOf,         \* the post each request names
  EmployeeOf,     \* the employee each request acts for
  AutoApproved,   \* requests run by an instance that has the tenant opted in to auto-approval
  Limit,          \* MARKETPLACE_CLAIM_ATTEMPT_LIMIT
  Free            \* the value of a lock nobody holds

Requests  == ClaimRequests \cup BidRequests
Decisions == Approvals \cup Rejections

ASSUME RequestAssumption ==
  /\ ClaimRequests \cap BidRequests = {}
  /\ Approvals \cap Rejections = {}
  /\ PostOf \in [Requests -> Posts]
  /\ EmployeeOf \in [Requests -> Employees]
  /\ AutoApproved \subseteq Requests
  /\ Limit \in Nat
  /\ Free \notin Requests

VARIABLES
  post,      \* status of each post
  claim,     \* status of the claim row of each request, "none" before INSERT
  lock,      \* Redis: the request whose token the post's lock key holds
  pc,        \* where each request is
  attempts,  \* claim_attempt_count_window of each employee
  lapsed,    \* whether that employee's window has run out (or never began)
  events,    \* ShiftClaimApproved rows in the outbox, per claim
  engaged,   \* CLAIM_APPROVED rows in the engagement ledger, per claim
  dpc,       \* where each supervisor's call is
  dclaim     \* the claim that call has read

rows == <<post, claim, events>>
limiter == <<attempts, lapsed>>
supervisors == <<dpc, dclaim>>
vars == <<post, claim, lock, pc, attempts, lapsed, events, engaged, dpc, dclaim>>

PostStatus  == {"open", "claimed", "expired"}
ClaimStatus == {"pending_validation", "pending_approval", "approved", "rejected"}
LiveStatus  == {"pending_validation", "pending_approval", "approved"}

\* Validated requests are told apart by the guardrail's answer.
Answered == {"eligible", "ineligible", "stale", "unavailable"}
InFlight == {"lock", "read", "insert", "validate", "engage", "penalise", "release"}
              \cup Answered
Ended    == {"done", "crashed"}

TypeOK ==
  /\ post \in [Posts -> PostStatus]
  /\ claim \in [Requests -> ClaimStatus \cup {"none"}]
  /\ lock \in [Posts -> Requests \cup {Free}]
  /\ pc \in [Requests -> {"idle"} \cup InFlight \cup Ended]
  /\ attempts \in [Employees -> Nat]
  /\ lapsed \in [Employees -> BOOLEAN]
  /\ events \in [Requests -> Nat]
  /\ engaged \in [Requests -> Nat]
  /\ dpc \in [Decisions -> {"idle", "write", "engage"} \cup Ended]
  /\ dclaim \in [Decisions -> Requests \cup {Free}]

Init ==
  /\ post = [p \in Posts |-> "open"]
  /\ claim = [r \in Requests |-> "none"]
  /\ lock = [p \in Posts |-> Free]
  /\ pc = [r \in Requests |-> "idle"]
  /\ attempts = [e \in Employees |-> 0]
  /\ lapsed = [e \in Employees |-> TRUE]
  /\ events = [r \in Requests |-> 0]
  /\ engaged = [r \in Requests |-> 0]
  /\ dpc = [d \in Decisions |-> "idle"]
  /\ dclaim = [d \in Decisions |-> Free]

Goto(r, place) == pc' = [pc EXCEPT ![r] = place]

\* Mutant of IndexAdmits: the schema before migration 1700004000000.
NoIndex(r) == TRUE

\* uq_marketplace_claim_one_live_per_post: whether row r may hold a live status.
IndexAdmits(r) ==
  \A q \in Requests \ {r} :
    PostOf[q] = PostOf[r] => claim[q] \notin LiveStatus

(***************************************************************************)
(* The contention lock.                                                    *)
(***************************************************************************)
\* A claim is refused while its employee has spent the window's attempts; a
\* bid's conversion is not limited.
AssertNotRateLimited(r) ==
  /\ pc[r] = "idle"
  /\ IF /\ r \in ClaimRequests
        /\ ~lapsed[EmployeeOf[r]]
        /\ attempts[EmployeeOf[r]] >= Limit
       THEN Goto(r, "done")
       ELSE Goto(r, "lock")
  /\ UNCHANGED <<rows, lock, limiter, engaged, supervisors>>

\* SET key token NX EX: the loser of a claim is counted, the loser of a bid
\* conversion gives up.
AcquireClaimLock(r) ==
  LET p == PostOf[r] IN
  /\ pc[r] = "lock"
  /\ IF lock[p] = Free
       THEN lock' = [lock EXCEPT ![p] = r] /\ Goto(r, "read")
       ELSE /\ Goto(r, IF r \in ClaimRequests THEN "penalise" ELSE "done")
            /\ UNCHANGED lock
  /\ UNCHANGED <<rows, limiter, engaged, supervisors>>

\* Redis unreachable: fail closed, uncounted.
RedisUnavailable(r) ==
  /\ pc[r] = "lock"
  /\ Goto(r, "done")
  /\ UNCHANGED <<rows, lock, limiter, engaged, supervisors>>

\* Mutant of ReleaseClaimLock: a plain DEL of the key.
DeleteLock(r) ==
  /\ pc[r] = "release"
  /\ lock' = [lock EXCEPT ![PostOf[r]] = Free]
  /\ Goto(r, "done")
  /\ UNCHANGED <<rows, limiter, engaged, supervisors>>

\* Compare-and-delete by token, in the caller's finally block.
ReleaseClaimLock(r) ==
  LET p == PostOf[r] IN
  /\ pc[r] = "release"
  /\ lock' = IF lock[p] = r THEN [lock EXCEPT ![p] = Free] ELSE lock
  /\ Goto(r, "done")
  /\ UNCHANGED <<rows, limiter, engaged, supervisors>>

\* A failed release is logged and swallowed; the TTL is left to clean up.
ReleaseFails(r) ==
  /\ pc[r] = "release"
  /\ Goto(r, "done")
  /\ UNCHANGED <<rows, lock, limiter, engaged, supervisors>>

\* Mutant of ExpireLock: SET NX without EX.
NoExpiry(p) == lock[p] # lock[p] /\ UNCHANGED vars

\* The key's TTL runs out, whatever its holder is doing.
ExpireLock(p) ==
  /\ lock[p] # Free
  /\ lock' = [lock EXCEPT ![p] = Free]
  /\ UNCHANGED <<rows, pc, limiter, engaged, supervisors>>

(***************************************************************************)
(* processClaim and convertWinningBidToClaim, up to the guardrail call.    *)
(***************************************************************************)
ReadPost(r) ==
  /\ pc[r] = "read"
  /\ IF post[PostOf[r]] = "open"
       THEN Goto(r, IF r \in ClaimRequests THEN "insert" ELSE "validate")
       ELSE Goto(r, IF r \in ClaimRequests THEN "penalise" ELSE "release")
  /\ UNCHANGED <<rows, lock, limiter, engaged, supervisors>>

\* The pending_validation row, refused by the index if another is live.
InsertClaim(r) ==
  /\ pc[r] = "insert"
  /\ IF IndexAdmits(r)
       THEN /\ claim' = [claim EXCEPT ![r] = "pending_validation"]
            /\ Goto(r, "validate")
       ELSE Goto(r, "penalise") /\ UNCHANGED claim
  /\ UNCHANGED <<post, events, lock, limiter, engaged, supervisors>>

\* Scheduling's answer, or its failure to answer.  A bid that is not plainly
\* eligible is not converted and has no row to mark.
CheckEligibility(r, answer) ==
  /\ pc[r] = "validate"
  /\ Goto(r, IF r \in BidRequests /\ answer # "eligible" THEN "release" ELSE answer)
  /\ UNCHANGED <<rows, lock, limiter, engaged, supervisors>>

(***************************************************************************)
(* The transaction that decides the claim.                                 *)
(***************************************************************************)
\* Post open -> claimed, claim granted or left for a supervisor, and the
\* outbox row of a granted claim, in one transaction.
Win(r) ==
  LET p    == PostOf[r]
      auto == r \in AutoApproved
  IN /\ post' = [post EXCEPT ![p] = "claimed"]
     /\ claim' = [claim EXCEPT ![r] = IF auto THEN "approved" ELSE "pending_approval"]
     /\ events' = IF auto THEN [events EXCEPT ![r] = @ + 1] ELSE events
     /\ Goto(r, IF auto THEN "engage" ELSE "release")

\* Mutant of CommitEligibleClaim: UPDATE without "AND status = 'open'".
CommitUnconditionally(r) ==
  /\ pc[r] = "eligible"
  /\ r \in ClaimRequests
  /\ Win(r)
  /\ UNCHANGED <<lock, limiter, engaged, supervisors>>

CommitEligibleClaim(r) ==
  /\ pc[r] = "eligible"
  /\ r \in ClaimRequests
  /\ IF post[PostOf[r]] = "open"
       THEN Win(r)
       ELSE /\ claim' = [claim EXCEPT ![r] = "rejected"]
            /\ Goto(r, "penalise")
            /\ UNCHANGED <<post, events>>
  /\ UNCHANGED <<lock, limiter, engaged, supervisors>>

\* A stale post is written to expired without looking at what it is now.
CommitRefusedClaim(r) ==
  /\ pc[r] \in {"ineligible", "stale", "unavailable"}
  /\ claim' = [claim EXCEPT ![r] = "rejected"]
  /\ post' = IF pc[r] = "stale" THEN [post EXCEPT ![PostOf[r]] = "expired"] ELSE post
  /\ Goto(r, IF pc[r] = "unavailable" THEN "release" ELSE "penalise")
  /\ UNCHANGED <<events, lock, limiter, engaged, supervisors>>

\* INSERT of a live row, refused by the index or taken back when the post is
\* no longer open: either way nothing remains of it.
CommitBid(r) ==
  /\ pc[r] = "eligible"
  /\ r \in BidRequests
  /\ IF IndexAdmits(r) /\ post[PostOf[r]] = "open"
       THEN Win(r)
       ELSE Goto(r, "release") /\ UNCHANGED rows
  /\ UNCHANGED <<lock, limiter, engaged, supervisors>>

(***************************************************************************)
(* After the commit: the engagement ledger, the attempt counter, the lock. *)
(***************************************************************************)
RecordEngagement(r) ==
  /\ pc[r] = "engage"
  /\ engaged' = [engaged EXCEPT ![r] = @ + 1]
  /\ Goto(r, "release")
  /\ UNCHANGED <<rows, lock, limiter, supervisors>>

\* One atomic upsert.  The loser of the lock holds none to release.
RecordFailedAttempt(r) ==
  LET e == EmployeeOf[r] IN
  /\ pc[r] = "penalise"
  /\ attempts' = [attempts EXCEPT ![e] = IF lapsed[e] THEN 1 ELSE @ + 1]
  /\ lapsed' = [lapsed EXCEPT ![e] = FALSE]
  /\ Goto(r, "release")
  /\ UNCHANGED <<rows, lock, engaged, supervisors>>

WindowLapses(e) ==
  /\ ~lapsed[e]
  /\ lapsed' = [lapsed EXCEPT ![e] = TRUE]
  /\ UNCHANGED <<rows, lock, pc, attempts, engaged, supervisors>>

\* A statement throws after the lock was taken: nothing is counted, nothing is
\* undone, the finally block still releases the lock.
StatementFails(r) ==
  /\ pc[r] \in {"read", "insert", "engage", "penalise"} \cup Answered
  /\ Goto(r, "release")
  /\ UNCHANGED <<rows, lock, limiter, engaged, supervisors>>

CrashRequest(r) ==
  /\ pc[r] \in InFlight
  /\ Goto(r, "crashed")
  /\ UNCHANGED <<rows, lock, limiter, engaged, supervisors>>

(***************************************************************************)
(* Supervisors.  approveClaim and rejectClaim read the row, check that it  *)
(* is pending_approval, and save it: two calls may both pass the check.    *)
(***************************************************************************)
\* Mutant of ReadPendingClaim: the status is not checked.
ReadAnyClaim(d, r) ==
  /\ dpc[d] = "idle"
  /\ claim[r] # "none"
  /\ dpc' = [dpc EXCEPT ![d] = "write"]
  /\ dclaim' = [dclaim EXCEPT ![d] = r]
  /\ UNCHANGED <<rows, lock, pc, limiter, engaged>>

ReadPendingClaim(d, r) ==
  /\ dpc[d] = "idle"
  /\ claim[r] # "none"
  /\ IF claim[r] = "pending_approval"
       THEN /\ dpc' = [dpc EXCEPT ![d] = "write"]
            /\ dclaim' = [dclaim EXCEPT ![d] = r]
       ELSE dpc' = [dpc EXCEPT ![d] = "done"] /\ UNCHANGED dclaim
  /\ UNCHANGED <<rows, lock, pc, limiter, engaged>>

\* Mutant of ApproveClaim: the hand-off is left to a publish after the commit.
ApproveThenPublish(d) ==
  /\ dpc[d] = "write"
  /\ d \in Approvals
  /\ claim' = [claim EXCEPT ![dclaim[d]] = "approved"]
  /\ dpc' = [dpc EXCEPT ![d] = "engage"]
  /\ UNCHANGED <<post, events, lock, pc, limiter, engaged, dclaim>>

\* The UPDATE fails, and with it the transaction, if the index refuses it.
ApproveClaim(d) ==
  LET r == dclaim[d] IN
  /\ dpc[d] = "write"
  /\ d \in Approvals
  /\ IF IndexAdmits(r)
       THEN /\ claim' = [claim EXCEPT ![r] = "approved"]
            /\ events' = [events EXCEPT ![r] = @ + 1]
            /\ dpc' = [dpc EXCEPT ![d] = "engage"]
       ELSE /\ dpc' = [dpc EXCEPT ![d] = "done"]
            /\ UNCHANGED <<claim, events>>
  /\ UNCHANGED <<post, lock, pc, limiter, engaged, dclaim>>

\* Mutant of RejectClaim: the row is left in the status no code handles.
RejectAsSuperseded(d) ==
  /\ dpc[d] = "write"
  /\ d \in Rejections
  /\ claim' = [claim EXCEPT ![dclaim[d]] = "superseded"]
  /\ dpc' = [dpc EXCEPT ![d] = "done"]
  /\ UNCHANGED <<post, events, lock, pc, limiter, engaged, dclaim>>

RejectClaim(d) ==
  /\ dpc[d] = "write"
  /\ d \in Rejections
  /\ claim' = [claim EXCEPT ![dclaim[d]] = "rejected"]
  /\ dpc' = [dpc EXCEPT ![d] = "done"]
  /\ UNCHANGED <<post, events, lock, pc, limiter, engaged, dclaim>>

EngageApproved(d) ==
  /\ dpc[d] = "engage"
  /\ engaged' = [engaged EXCEPT ![dclaim[d]] = @ + 1]
  /\ dpc' = [dpc EXCEPT ![d] = "done"]
  /\ UNCHANGED <<rows, lock, pc, limiter, dclaim>>

CrashDecision(d) ==
  /\ dpc[d] \in {"write", "engage"}
  /\ dpc' = [dpc EXCEPT ![d] = "crashed"]
  /\ UNCHANGED <<rows, lock, pc, limiter, engaged, dclaim>>

(***************************************************************************)
(* The specification.                                                      *)
(***************************************************************************)
\* What a request does next when it neither crashes nor finds Redis down.
Progress(r) ==
  \/ AssertNotRateLimited(r)
  \/ AcquireClaimLock(r)
  \/ ReadPost(r)
  \/ InsertClaim(r)
  \/ \E answer \in Answered : CheckEligibility(r, answer)
  \/ CommitEligibleClaim(r)
  \/ CommitRefusedClaim(r)
  \/ CommitBid(r)
  \/ RecordEngagement(r)
  \/ RecordFailedAttempt(r)
  \/ ReleaseClaimLock(r)

Fault(r) ==
  \/ RedisUnavailable(r)
  \/ ReleaseFails(r)
  \/ StatementFails(r)
  \/ CrashRequest(r)

Decide(d) ==
  \/ \E r \in Requests : ReadPendingClaim(d, r)
  \/ ApproveClaim(d)
  \/ RejectClaim(d)
  \/ EngageApproved(d)

\* Every call has ended: nothing is left to do.
Quiescent ==
  /\ \A r \in Requests : pc[r] \in Ended
  /\ UNCHANGED vars

Next ==
  \/ \E r \in Requests : Progress(r) \/ Fault(r)
  \/ \E d \in Decisions : Decide(d) \/ CrashDecision(d)
  \/ \E p \in Posts : ExpireLock(p)
  \/ \E e \in Employees : WindowLapses(e)
  \/ Quiescent

\* A process that is alive keeps running, and Redis expires keys.
Fairness ==
  /\ \A r \in Requests : WF_vars(Progress(r))
  /\ \A p \in Posts : WF_vars(ExpireLock(p))

Spec == Init /\ [][Next]_vars /\ Fairness

(***************************************************************************)
(* Properties.                                                             *)
(***************************************************************************)
\* A post has at most one live claim, whichever of the two services wrote it
\* and whatever became of the lock (uq_marketplace_claim_one_live_per_post).
OneLiveClaim ==
  \A q, r \in Requests :
    /\ PostOf[q] = PostOf[r]
    /\ claim[q] \in LiveStatus
    /\ claim[r] \in LiveStatus
    => q = r

\* A claim in a supervisor's queue is for a post that is held for it: the blind
\* write to expired never hits a post that someone else has won.
QueuedClaimHoldsPost ==
  \A r \in Requests : claim[r] = "pending_approval" => post[PostOf[r]] = "claimed"

\* An approved claim always has its hand-off to scheduling in the outbox, even
\* if the process died right after the approval committed.
ApprovedIsHandedOff ==
  \A r \in Requests : claim[r] = "approved" => events[r] > 0

\* Auto-approval and supervisors never both award one claim, whatever crashes or
\* races: points and hand-offs are repeated only where two supervisors approved the
\* claim, having both read it as pending.  There they are: "never double-fired for
\* the same claim" (claim-open-shift.service.ts) holds between the two paths, not
\* within the second.
SecondAwardIsSecondApproval ==
  \A r \in Requests :
    /\ engaged[r] <= events[r]
    /\ events[r] > 1 =>
         /\ r \notin AutoApproved
         /\ \E a, b \in Approvals : a # b /\ dclaim[a] = r /\ dclaim[b] = r

\* A lock that did not expire is removed by its holder only: a slow request
\* whose lock expired does not delete the lock of the request that followed.
OnlyHolderReleases ==
  [][\A p \in Posts :
       lock[p] # Free /\ lock'[p] = Free /\ ~ExpireLock(p)
         => pc[lock[p]] = "release"]_vars

\* A request keeps its post's lock for a bounded time even if it dies with it
\* or its release fails.
LockIsFreed ==
  \A p \in Posts : \A r \in Requests : lock[p] = r ~> lock[p] # r

\* rejectClaim: "nothing was granted, so there is nothing for scheduling-service
\* or the engagement ledger to react to".  Fails: an approval that read the row
\* before the rejection wrote it records its hand-off all the same.
RejectedIsNotGranted ==
  \A r \in Requests : claim[r] = "rejected" => events[r] = 0

\* The hand-offs recorded for each post.
HandedOff ==
  [p \in Posts |-> {r \in Requests : PostOf[r] = p /\ events[r] > 0}]

Award == INSTANCE ShiftAward
           WITH Shifts <- Posts, Claims <- Requests, ShiftOf <- PostOf,
                awarded <- HandedOff

\* The market implements its promise: one winner per post.
AwardsOnce == Award!Spec
================================================================================
