--------------------------- MODULE MarketplaceProofs ---------------------------
(***************************************************************************)
(* Theorems about Marketplace, for any number of posts, requests and       *)
(* supervisors.                                                            *)
(***************************************************************************)
EXTENDS Marketplace, FiniteSetTheorems, TLAPS

(***************************************************************************)
(* The inductive invariant.  Between its INSERT and its second transaction *)
(* a claim's row is pending_validation and only its own request writes it. *)
(* A claim has passed once the conditional UPDATE of its post succeeded;   *)
(* a supervisor that has read it keeps it passed, whatever the row says.   *)
(***************************************************************************)
Passed(r) ==
  \/ claim[r] \in {"pending_approval", "approved"}
  \/ events[r] > 0
  \/ \E d \in Decisions : dpc[d] = "write" /\ dclaim[d] = r

OwnRow ==
  \A r \in Requests :
    /\ pc[r] \in {"insert", "ineligible", "stale", "unavailable"} => r \in ClaimRequests
    /\ r \in ClaimRequests /\ pc[r] \in {"validate"} \cup Answered
         => claim[r] = "pending_validation"

ReadClaim ==
  \A d \in Decisions : dpc[d] \in {"write", "engage"} => dclaim[d] \in Requests

PassedRequestIsOver ==
  \A r \in Requests :
    Passed(r) => pc[r] \in {"engage", "release", "done", "crashed"}

PassedPostIsTaken ==
  \A r \in Requests : Passed(r) => post[PostOf[r]] # "open"

OnePassed ==
  \A q, r \in Requests :
    Passed(q) /\ Passed(r) /\ PostOf[q] = PostOf[r] => q = r

Inv ==
  /\ TypeOK
  /\ OwnRow
  /\ ReadClaim
  /\ PassedRequestIsOver
  /\ PassedPostIsTaken
  /\ OnePassed
  /\ OneLiveClaim
  /\ QueuedClaimHoldsPost
  /\ ApprovedIsHandedOff

(***************************************************************************)
(* Type correctness.                                                       *)
(***************************************************************************)
LEMMA InitType == Init => TypeOK
  BY RequestAssumption DEF Init, TypeOK, PostStatus, ClaimStatus, InFlight, Ended

LEMMA StepType == TypeOK /\ [Next]_vars => TypeOK'
  <1> SUFFICES ASSUME TypeOK, [Next]_vars PROVE TypeOK'
    OBVIOUS
  <1> USE RequestAssumption
      DEF TypeOK, PostStatus, ClaimStatus, InFlight, Answered, Ended, Goto,
          rows, limiter, supervisors
  <1>1. ASSUME NEW r \in Requests, Progress(r) PROVE TypeOK'
    <2>1. CASE AssertNotRateLimited(r)
      BY <2>1 DEF AssertNotRateLimited
    <2>2. CASE AcquireClaimLock(r)
      BY <2>2 DEF AcquireClaimLock
    <2>3. CASE ReadPost(r)
      BY <2>3 DEF ReadPost
    <2>4. CASE InsertClaim(r)
      BY <2>4 DEF InsertClaim
    <2>5. ASSUME NEW answer \in Answered, CheckEligibility(r, answer) PROVE TypeOK'
      BY <2>5 DEF CheckEligibility
    <2>6. CASE CommitEligibleClaim(r)
      BY <2>6 DEF CommitEligibleClaim, Win
    <2>7. CASE CommitRefusedClaim(r)
      BY <2>7 DEF CommitRefusedClaim
    <2>8. CASE CommitBid(r)
      BY <2>8 DEF CommitBid, Win
    <2>9. CASE RecordEngagement(r)
      BY <2>9 DEF RecordEngagement
    <2>10. CASE RecordFailedAttempt(r)
      BY <2>10 DEF RecordFailedAttempt
    <2>11. CASE ReleaseClaimLock(r)
      BY <2>11 DEF ReleaseClaimLock
    <2> QED
      BY <1>1, <2>1, <2>2, <2>3, <2>4, <2>5, <2>6, <2>7, <2>8, <2>9, <2>10, <2>11
      DEF Progress
  <1>2. ASSUME NEW r \in Requests, Fault(r) PROVE TypeOK'
    BY <1>2 DEF Fault, RedisUnavailable, ReleaseFails, StatementFails, CrashRequest
  <1>3. ASSUME NEW d \in Decisions, Decide(d) PROVE TypeOK'
    BY <1>3 DEF Decide, ReadPendingClaim, ApproveClaim, RejectClaim, EngageApproved
  <1>4. ASSUME NEW d \in Decisions, CrashDecision(d) PROVE TypeOK'
    BY <1>4 DEF CrashDecision
  <1>5. ASSUME NEW p \in Posts, ExpireLock(p) PROVE TypeOK'
    BY <1>5 DEF ExpireLock
  <1>6. ASSUME NEW e \in Employees, WindowLapses(e) PROVE TypeOK'
    BY <1>6 DEF WindowLapses
  <1>7. CASE UNCHANGED vars
    BY <1>7 DEF vars
  <1> QED
    BY <1>1, <1>2, <1>3, <1>4, <1>5, <1>6, <1>7 DEF Next, Quiescent

\* Every value written by any interleaving of calls, faults and expiries is one
\* the schema and the services know.
THEOREM TypeCorrect == Spec => []TypeOK
  <1>1. Init => TypeOK
    BY InitType
  <1>2. TypeOK /\ [Next]_vars => TypeOK'
    BY StepType
  <1> QED
    BY <1>1, <1>2, PTL DEF Spec

(***************************************************************************)
(* Safety.                                                                 *)
(***************************************************************************)
LEMMA InitInv == Init => Inv
  <1> SUFFICES ASSUME Init PROVE Inv
    OBVIOUS
  <1>1. TypeOK
    BY InitType
  <1>2. \A r \in Requests : ~Passed(r)
    BY DEF Init, Passed
  <1> QED
    BY <1>1, <1>2
    DEF Init, Inv, OwnRow, ReadClaim, PassedRequestIsOver, PassedPostIsTaken, OnePassed,
        OneLiveClaim, QueuedClaimHoldsPost, ApprovedIsHandedOff, LiveStatus, Answered

\* A step that touches no row, event or supervisor and moves no request into a
\* phase that owns a row it did not already own keeps the invariant.
LEMMA QuietStep ==
  ASSUME Inv, TypeOK', UNCHANGED <<post, claim, events, dpc, dclaim>>, OwnRow',
         \A r \in Requests :
           pc[r] \in {"engage", "release", "done", "crashed"}
             => pc'[r] \in {"engage", "release", "done", "crashed"}
  PROVE  Inv'
  <1>1. \A r \in Requests : Passed(r)' <=> Passed(r)
    BY DEF Passed
  <1> QED
    BY <1>1 DEF Inv, ReadClaim, PassedRequestIsOver, PassedPostIsTaken, OnePassed,
                OneLiveClaim, QueuedClaimHoldsPost, ApprovedIsHandedOff

\* Winning a post: it was open, so no claim on it had passed.
LEMMA WinStep ==
  ASSUME Inv, TypeOK', NEW r \in Requests, pc[r] = "eligible", Win(r),
         post[PostOf[r]] = "open", IndexAdmits(r), UNCHANGED <<dpc, dclaim>>
  PROVE  Inv'
  <1> USE RequestAssumption DEF Win, Goto
  <1> DEFINE p == PostOf[r]
  <1>1. \A q \in Requests : PostOf[q] = p => ~Passed(q)
    BY DEF Inv, PassedPostIsTaken
  <1>2. \A q \in Requests \ {r} : Passed(q)' <=> Passed(q)
    BY DEF Inv, TypeOK, Passed
  <1>3. OwnRow'
    BY DEF Inv, TypeOK, OwnRow, Answered
  <1>4. ReadClaim'
    BY DEF Inv, ReadClaim
  <1>5. PassedRequestIsOver'
    BY <1>2 DEF Inv, TypeOK, PassedRequestIsOver
  <1>6. PassedPostIsTaken'
    BY <1>2 DEF Inv, TypeOK, PassedPostIsTaken
  <1>7. OnePassed'
    BY <1>1, <1>2 DEF Inv, OnePassed
  <1>8. OneLiveClaim'
    BY DEF Inv, TypeOK, OneLiveClaim, IndexAdmits
  <1>9. QueuedClaimHoldsPost'
    BY DEF Inv, TypeOK, QueuedClaimHoldsPost
  <1>10. ApprovedIsHandedOff'
    BY DEF Inv, TypeOK, ApprovedIsHandedOff
  <1> QED
    BY <1>3, <1>4, <1>5, <1>6, <1>7, <1>8, <1>9, <1>10 DEF Inv

\* A request that owns its live row finds no other live row on the post.
LEMMA OwnerIsAlone ==
  ASSUME Inv, NEW r \in ClaimRequests, pc[r] \in Answered
  PROVE  IndexAdmits(r)
  BY RequestAssumption DEF Inv, OwnRow, OneLiveClaim, IndexAdmits, LiveStatus, Requests

\* A request rejecting its own row, which has not passed.
LEMMA GiveUpStep ==
  ASSUME Inv, TypeOK', NEW r \in ClaimRequests, pc[r] \in Answered,
         claim' = [claim EXCEPT ![r] = "rejected"],
         pc' = [pc EXCEPT ![r] = "penalise"] \/ pc' = [pc EXCEPT ![r] = "release"],
         post' = post \/ post' = [post EXCEPT ![PostOf[r]] = "expired"],
         UNCHANGED <<events, dpc, dclaim>>
  PROVE  Inv'
  <1>0. r \in Requests
    BY DEF Requests
  <1>1. IndexAdmits(r)
    BY OwnerIsAlone
  <1>2. ~Passed(r) /\ ~Passed(r)'
    BY <1>0 DEF Inv, TypeOK, PassedRequestIsOver, Passed, Answered
  <1>3. \A q \in Requests \ {r} : Passed(q)' <=> Passed(q)
    BY DEF Inv, TypeOK, Passed
  <1>4. OwnRow'
    BY <1>0 DEF Inv, TypeOK, OwnRow, Answered
  <1>5. ReadClaim'
    BY DEF Inv, ReadClaim
  <1>6. PassedRequestIsOver'
    BY <1>2, <1>3 DEF Inv, TypeOK, PassedRequestIsOver
  <1>7. PassedPostIsTaken'
    BY <1>0, <1>2, <1>3, RequestAssumption DEF Inv, TypeOK, PassedPostIsTaken
  <1>8. OnePassed'
    BY <1>2, <1>3 DEF Inv, OnePassed
  <1>9. OneLiveClaim'
    BY <1>0 DEF Inv, TypeOK, OneLiveClaim, LiveStatus
  <1>10. QueuedClaimHoldsPost'
    <2> SUFFICES ASSUME NEW q \in Requests, claim'[q] = "pending_approval"
                 PROVE  post'[PostOf[q]] = "claimed"
      BY DEF QueuedClaimHoldsPost
    <2>1. q # r /\ claim[q] = "pending_approval"
      BY <1>0 DEF Inv, TypeOK
    <2>2. post[PostOf[q]] = "claimed"
      BY <2>1 DEF Inv, QueuedClaimHoldsPost
    <2>3. PostOf[q] # PostOf[r]
      BY <1>1, <2>1 DEF IndexAdmits, LiveStatus
    <2>4. PostOf[q] \in Posts /\ PostOf[r] \in Posts
      BY <1>0, RequestAssumption
    <2> QED
      BY <2>2, <2>3, <2>4 DEF Inv, TypeOK
  <1>11. ApprovedIsHandedOff'
    BY <1>0 DEF Inv, TypeOK, ApprovedIsHandedOff
  <1> QED
    BY <1>4, <1>5, <1>6, <1>7, <1>8, <1>9, <1>10, <1>11 DEF Inv

\* A supervisor's write: the claim had passed, so its post is taken and no other
\* claim on it has passed.
LEMMA DecideStep ==
  ASSUME Inv, TypeOK', NEW d \in Decisions, Decide(d)
  PROVE  Inv'
  <1> USE RequestAssumption DEF rows, limiter
  <1>1. ASSUME NEW r \in Requests, ReadPendingClaim(d, r) PROVE Inv'
    <2> USE <1>1 DEF ReadPendingClaim
    <2>1. \A q \in Requests : Passed(q)' => Passed(q)
      BY DEF Inv, TypeOK, Passed
    <2> QED
      BY <2>1 DEF Inv, TypeOK, OwnRow, ReadClaim, PassedRequestIsOver, PassedPostIsTaken,
                  OnePassed, OneLiveClaim, QueuedClaimHoldsPost, ApprovedIsHandedOff
  <1>2. CASE ApproveClaim(d)
    <2> USE <1>2 DEF ApproveClaim
    <2> DEFINE r == dclaim[d]
    <2>1. r \in Requests /\ Passed(r)
      BY DEF Inv, ReadClaim, Passed
    <2>2. \A q \in Requests : Passed(q)' => Passed(q)
      BY <2>1 DEF Inv, TypeOK, Passed
    <2>3. OwnRow'
      BY <2>1 DEF Inv, TypeOK, OwnRow, PassedRequestIsOver, Answered
    <2>4. OneLiveClaim'
      BY <2>1 DEF Inv, TypeOK, OneLiveClaim, IndexAdmits
    <2>5. QueuedClaimHoldsPost' /\ ApprovedIsHandedOff'
      BY <2>1 DEF Inv, TypeOK, QueuedClaimHoldsPost, ApprovedIsHandedOff
    <2>6. ReadClaim'
      BY DEF Inv, TypeOK, ReadClaim
    <2> QED
      BY <2>2, <2>3, <2>4, <2>5, <2>6
      DEF Inv, PassedRequestIsOver, PassedPostIsTaken, OnePassed
  <1>3. CASE RejectClaim(d)
    <2> USE <1>3 DEF RejectClaim
    <2> DEFINE r == dclaim[d]
    <2>1. r \in Requests /\ Passed(r)
      BY DEF Inv, ReadClaim, Passed
    <2>2. \A q \in Requests : Passed(q)' => Passed(q)
      BY <2>1 DEF Inv, TypeOK, Passed
    <2>3. OwnRow'
      BY <2>1 DEF Inv, TypeOK, OwnRow, PassedRequestIsOver, Answered
    <2>4. OneLiveClaim' /\ QueuedClaimHoldsPost' /\ ApprovedIsHandedOff'
      BY <2>1 DEF Inv, TypeOK, OneLiveClaim, QueuedClaimHoldsPost, ApprovedIsHandedOff,
                  LiveStatus
    <2>5. ReadClaim'
      BY DEF Inv, TypeOK, ReadClaim
    <2> QED
      BY <2>2, <2>3, <2>4, <2>5
      DEF Inv, PassedRequestIsOver, PassedPostIsTaken, OnePassed
  <1>4. CASE EngageApproved(d)
    <2> USE <1>4 DEF EngageApproved
    <2>1. \A q \in Requests : Passed(q)' => Passed(q)
      BY DEF Inv, TypeOK, Passed
    <2> QED
      BY <2>1 DEF Inv, TypeOK, OwnRow, ReadClaim, PassedRequestIsOver, PassedPostIsTaken,
                  OnePassed, OneLiveClaim, QueuedClaimHoldsPost, ApprovedIsHandedOff
  <1> QED
    BY <1>1, <1>2, <1>3, <1>4 DEF Decide

LEMMA StepInv == Inv /\ [Next]_vars => Inv'
  <1> SUFFICES ASSUME Inv, [Next]_vars PROVE Inv'
    OBVIOUS
  <1>0. TypeOK'
    BY StepType DEF Inv
  <1> USE RequestAssumption DEF rows, limiter, supervisors, Goto
  <1>1. ASSUME NEW r \in Requests, Progress(r) PROVE Inv'
    <2>1. CASE AssertNotRateLimited(r)
      <3>1. OwnRow'
        BY <2>1 DEF AssertNotRateLimited, Inv, TypeOK, OwnRow, Answered
      <3> QED
        BY <1>0, <2>1, <3>1, QuietStep DEF AssertNotRateLimited, Inv, TypeOK
    <2>2. CASE AcquireClaimLock(r)
      <3>1. OwnRow'
        BY <2>2 DEF AcquireClaimLock, Inv, TypeOK, OwnRow, Answered
      <3> QED
        BY <1>0, <2>2, <3>1, QuietStep DEF AcquireClaimLock, Inv, TypeOK
    <2>3. CASE ReadPost(r)
      <3>1. OwnRow'
        BY <2>3 DEF ReadPost, Inv, TypeOK, OwnRow, Answered, Requests
      <3> QED
        BY <1>0, <2>3, <3>1, QuietStep DEF ReadPost, Inv, TypeOK
    <2>4. CASE InsertClaim(r)
      <3> USE <2>4 DEF InsertClaim
      <3>1. \A q \in Requests : Passed(q)' => Passed(q)
        BY DEF Inv, TypeOK, Passed
      <3>2. ~Passed(r)
        BY DEF Inv, PassedRequestIsOver
      <3>3. OwnRow'
        BY DEF Inv, TypeOK, OwnRow, Answered
      <3>4. PassedRequestIsOver'
        BY <3>1, <3>2 DEF Inv, TypeOK, PassedRequestIsOver
      <3>5. PassedPostIsTaken' /\ OnePassed' /\ ReadClaim'
        BY <3>1 DEF Inv, PassedPostIsTaken, OnePassed, ReadClaim
      <3>6. OneLiveClaim'
        BY DEF Inv, TypeOK, OneLiveClaim, IndexAdmits
      <3>7. QueuedClaimHoldsPost' /\ ApprovedIsHandedOff'
        BY DEF Inv, TypeOK, QueuedClaimHoldsPost, ApprovedIsHandedOff
      <3> QED
        BY <1>0, <3>3, <3>4, <3>5, <3>6, <3>7 DEF Inv
    <2>5. ASSUME NEW answer \in Answered, CheckEligibility(r, answer) PROVE Inv'
      <3>1. OwnRow'
        BY <2>5 DEF CheckEligibility, Inv, TypeOK, OwnRow, Answered, Requests
      <3> QED
        BY <1>0, <2>5, <3>1, QuietStep DEF CheckEligibility, Inv, TypeOK
    <2>6. CASE CommitEligibleClaim(r)
      <3> USE <2>6 DEF CommitEligibleClaim
      <3>1. IndexAdmits(r)
        BY OwnerIsAlone DEF Answered
      <3>2. CASE post[PostOf[r]] = "open"
        BY <1>0, <3>1, <3>2, WinStep
      <3>3. CASE post[PostOf[r]] # "open"
        BY <1>0, <3>3, GiveUpStep DEF Answered
      <3> QED
        BY <3>2, <3>3
    <2>7. CASE CommitRefusedClaim(r)
      <3>1. r \in ClaimRequests
        BY <2>7 DEF CommitRefusedClaim, Inv, OwnRow
      <3> QED
        BY <1>0, <2>7, <3>1, GiveUpStep DEF CommitRefusedClaim, Answered
    <2>8. CASE CommitBid(r)
      <3> USE <2>8 DEF CommitBid
      <3>1. CASE IndexAdmits(r) /\ post[PostOf[r]] = "open"
        BY <1>0, <3>1, WinStep
      <3>2. CASE ~(IndexAdmits(r) /\ post[PostOf[r]] = "open")
        <4>1. OwnRow'
          BY <3>2 DEF Inv, TypeOK, OwnRow, Answered
        <4> QED
          BY <1>0, <3>2, <4>1, QuietStep DEF Inv, TypeOK
      <3> QED
        BY <3>1, <3>2
    <2>9. CASE RecordEngagement(r)
      <3>1. OwnRow'
        BY <2>9 DEF RecordEngagement, Inv, TypeOK, OwnRow, Answered
      <3> QED
        BY <1>0, <2>9, <3>1, QuietStep DEF RecordEngagement, Inv, TypeOK
    <2>10. CASE RecordFailedAttempt(r)
      <3>1. OwnRow'
        BY <2>10 DEF RecordFailedAttempt, Inv, TypeOK, OwnRow, Answered
      <3> QED
        BY <1>0, <2>10, <3>1, QuietStep DEF RecordFailedAttempt, Inv, TypeOK
    <2>11. CASE ReleaseClaimLock(r)
      <3>1. OwnRow'
        BY <2>11 DEF ReleaseClaimLock, Inv, TypeOK, OwnRow, Answered
      <3> QED
        BY <1>0, <2>11, <3>1, QuietStep DEF ReleaseClaimLock, Inv, TypeOK
    <2> QED
      BY <1>1, <2>1, <2>2, <2>3, <2>4, <2>5, <2>6, <2>7, <2>8, <2>9, <2>10, <2>11
      DEF Progress
  <1>2. ASSUME NEW r \in Requests, Fault(r) PROVE Inv'
    <2> USE <1>2 DEF Fault, RedisUnavailable, ReleaseFails, StatementFails, CrashRequest
    <2>1. OwnRow'
      BY DEF Inv, TypeOK, OwnRow, Answered
    <2> QED
      BY <1>0, <2>1, QuietStep DEF Inv, TypeOK
  <1>3. ASSUME NEW d \in Decisions, Decide(d) PROVE Inv'
    BY <1>0, <1>3, DecideStep
  <1>4. ASSUME NEW d \in Decisions, CrashDecision(d) PROVE Inv'
    <2> USE <1>4 DEF CrashDecision
    <2>1. \A q \in Requests : Passed(q)' => Passed(q)
      BY DEF Inv, TypeOK, Passed
    <2> QED
      BY <1>0, <2>1
      DEF Inv, TypeOK, OwnRow, ReadClaim, PassedRequestIsOver, PassedPostIsTaken,
          OnePassed, OneLiveClaim, QueuedClaimHoldsPost, ApprovedIsHandedOff
  <1>5. ASSUME NEW p \in Posts, ExpireLock(p) PROVE Inv'
    BY <1>0, <1>5, QuietStep DEF ExpireLock, Inv, OwnRow
  <1>6. ASSUME NEW e \in Employees, WindowLapses(e) PROVE Inv'
    BY <1>0, <1>6, QuietStep DEF WindowLapses, Inv, OwnRow
  <1>7. CASE UNCHANGED vars
    BY <1>0, <1>7, QuietStep DEF vars, Inv, OwnRow
  <1> QED
    BY <1>1, <1>2, <1>3, <1>4, <1>5, <1>6, <1>7 DEF Next, Quiescent

LEMMA InvHolds == Spec => []Inv
  BY InitInv, StepInv, PTL DEF Spec

\* The unique index leaves a post at most one live claim, however many requests
\* hold, lose or outlive the Redis lock.
THEOREM OneLiveClaimHolds == Spec => []OneLiveClaim
  BY InvHolds, PTL DEF Inv

\* A claim a supervisor can see is always for a post held for it.
THEOREM QueuedClaimHoldsPostHolds == Spec => []QueuedClaimHoldsPost
  BY InvHolds, PTL DEF Inv

\* No claim is approved without its hand-off: GAP-02 stays closed on all paths.
THEOREM ApprovedIsHandedOffHolds == Spec => []ApprovedIsHandedOff
  BY InvHolds, PTL DEF Inv

LEMMA StepReleases ==
  ASSUME TypeOK, [Next]_vars, NEW p \in Posts,
         lock[p] # Free, lock'[p] = Free, ~ExpireLock(p)
  PROVE  pc[lock[p]] = "release"
  <1>1. lock' # lock
    OBVIOUS
  <1>2. ASSUME NEW r \in Requests, AcquireClaimLock(r) PROVE FALSE
    BY <1>2, RequestAssumption DEF AcquireClaimLock, TypeOK
  <1>3. ASSUME NEW r \in Requests, ReleaseClaimLock(r) PROVE pc[lock[p]] = "release"
    BY <1>3, RequestAssumption DEF ReleaseClaimLock, TypeOK
  <1>4. ASSUME NEW q \in Posts, ExpireLock(q) PROVE FALSE
    BY <1>4 DEF ExpireLock, TypeOK
  <1> QED
    BY <1>1, <1>2, <1>3, <1>4
    DEF Next, Progress, Fault, Decide, Quiescent, vars, AssertNotRateLimited, ReadPost,
        InsertClaim, CheckEligibility, CommitEligibleClaim, CommitRefusedClaim, CommitBid,
        RecordEngagement, RecordFailedAttempt, RedisUnavailable, ReleaseFails,
        StatementFails, CrashRequest, ReadPendingClaim, ApproveClaim, RejectClaim,
        EngageApproved, CrashDecision, WindowLapses

\* The compare-and-delete never removes a lock its caller no longer holds.
THEOREM OnlyHolderReleasesHolds == Spec => OnlyHolderReleases
  <1>1. TypeOK /\ [Next]_vars
          => [\A p \in Posts :
                lock[p] # Free /\ lock'[p] = Free /\ ~ExpireLock(p)
                  => pc[lock[p]] = "release"]_vars
    BY StepReleases
  <1> QED
    BY <1>1, TypeCorrect, PTL DEF Spec, OnlyHolderReleases

(***************************************************************************)
(* The market implements ShiftAward.                                       *)
(***************************************************************************)
LEMMA AwardInit == Init => Award!Init
  BY DEF Init, Award!Init, HandedOff

\* Recording one more hand-off of a claim that has passed is an Award step.
LEMMA AwardStep ==
  ASSUME Inv, Inv', NEW r \in Requests, events' = [events EXCEPT ![r] = @ + 1]
  PROVE  Award!Next
  <1> USE RequestAssumption DEF Inv, TypeOK
  <1>1. events'[r] > 0
    OBVIOUS
  <1>2. \A q \in Requests : PostOf[q] = PostOf[r] /\ events'[q] > 0 => q = r
    BY <1>1 DEF OnePassed, Passed
  <1>3. \A q \in Requests : events'[q] > 0 /\ q # r <=> events[q] > 0 /\ q # r
    OBVIOUS
  <1>4. HandedOff[PostOf[r]] \subseteq {r}
    BY <1>2, <1>3 DEF HandedOff
  <1>5. HandedOff' = [HandedOff EXCEPT ![PostOf[r]] = {r}]
    <2> DEFINE after(p) == {q \in Requests : PostOf[q] = p /\ events'[q] > 0}
               before(p) == {q \in Requests : PostOf[q] = p /\ events[q] > 0}
    <2>1. after(PostOf[r]) = {r}
      BY <1>1, <1>2
    <2>2. \A p \in Posts \ {PostOf[r]} : after(p) = before(p)
      BY <1>3
    <2>3. HandedOff' = [p \in Posts |-> after(p)] /\ HandedOff = [p \in Posts |-> before(p)]
      BY DEF HandedOff
    <2> HIDE DEF after, before
    <2> QED
      BY <2>1, <2>2, <2>3
  <1> QED
    BY <1>4, <1>5 DEF Award!Next, Award!Award

LEMMA NextAwards == Inv /\ Inv' /\ [Next]_vars => [Award!Next]_HandedOff
  <1> SUFFICES ASSUME Inv, Inv', [Next]_vars
               PROVE  Award!Next \/ UNCHANGED HandedOff
    OBVIOUS
  <1>1. \/ UNCHANGED events
        \/ \E r \in Requests : events' = [events EXCEPT ![r] = @ + 1]
    <2>1. ASSUME NEW d \in Decisions, ApproveClaim(d)
          PROVE  \/ UNCHANGED events
                 \/ \E r \in Requests : events' = [events EXCEPT ![r] = @ + 1]
      BY <2>1 DEF ApproveClaim, Inv, ReadClaim
    <2> QED
      BY <2>1
      DEF Next, Progress, Fault, Decide, Quiescent, vars, rows,
          AssertNotRateLimited, AcquireClaimLock, ReadPost, InsertClaim, CheckEligibility,
          CommitEligibleClaim, CommitRefusedClaim, CommitBid, Win, RecordEngagement,
          RecordFailedAttempt, ReleaseClaimLock, RedisUnavailable, ReleaseFails,
          StatementFails, CrashRequest, ReadPendingClaim, RejectClaim, EngageApproved,
          CrashDecision, ExpireLock, WindowLapses
  <1>2. CASE UNCHANGED events
    BY <1>2 DEF HandedOff
  <1> QED
    BY <1>1, <1>2, AwardStep

\* Whatever the interleaving, a post is handed over to one claim at most.
THEOREM MarketAwardsOnce == Spec => AwardsOnce
  BY AwardInit, NextAwards, InvHolds, PTL DEF Spec, AwardsOnce, Award!Spec

(***************************************************************************)
(* The engagement ledger.  An approval that has committed and not yet been *)
(* written to the ledger is owed by the request that won the post, or by   *)
(* the supervisor's call that wrote it: what is written and what is owed   *)
(* never exceeds the approvals.                                            *)
(***************************************************************************)
Owing(r) == {d \in Decisions : dpc[d] = "engage" /\ dclaim[d] = r}

DueNow(r) == IF pc[r] = "engage" THEN 1 ELSE 0

BackedRequest(r) ==
  /\ IsFiniteSet(Owing(r))
  /\ engaged[r] + Cardinality(Owing(r)) + DueNow(r) <= events[r]

Backed == \A r \in Requests : BackedRequest(r)

\* A request no supervisor comes to owe more, and whose own debt grows no faster
\* than its approvals, stays backed.
LEMMA OwesNoMore ==
  ASSUME TypeOK, TypeOK', NEW r \in Requests, BackedRequest(r),
         Owing(r)' \subseteq Owing(r),
         engaged'[r] + DueNow(r)' + events[r] <= engaged[r] + DueNow(r) + events'[r]
  PROVE  BackedRequest(r)'
  <1>1. /\ IsFiniteSet(Owing(r)')
        /\ Cardinality(Owing(r)') <= Cardinality(Owing(r))
        /\ Cardinality(Owing(r)) \in Nat
    BY FS_Subset, FS_CardinalityType DEF BackedRequest
  <1>2. Cardinality(Owing(r)') \in Nat
    BY <1>1, FS_CardinalityType
  <1>3. /\ engaged[r] \in Nat /\ engaged'[r] \in Nat
        /\ events[r] \in Nat /\ events'[r] \in Nat
        /\ DueNow(r) \in Nat /\ DueNow(r)' \in Nat
    BY DEF TypeOK, DueNow
  <1>4. engaged[r] + Cardinality(Owing(r)) + DueNow(r) <= events[r]
    BY DEF BackedRequest
  <1>5. engaged'[r] + Cardinality(Owing(r)') + DueNow(r)' <= events'[r]
    BY <1>1, <1>2, <1>3, <1>4
  <1> QED
    BY <1>1, <1>5 DEF BackedRequest

\* A step of a request leaves every supervisor as it is.
LEMMA RequestBacked ==
  ASSUME TypeOK, TypeOK', Backed, NEW r \in Requests, Progress(r) \/ Fault(r)
  PROVE  Backed'
  <1> USE RequestAssumption DEF rows, limiter, supervisors, Goto
  <1>1. UNCHANGED <<dpc, dclaim>>
    BY DEF Progress, Fault, AssertNotRateLimited, AcquireClaimLock, ReadPost, InsertClaim,
           CheckEligibility, CommitEligibleClaim, CommitRefusedClaim, CommitBid,
           RecordEngagement, RecordFailedAttempt, ReleaseClaimLock, RedisUnavailable,
           ReleaseFails, StatementFails, CrashRequest
  <1>2. \A q \in Requests : Owing(q)' = Owing(q)
    BY <1>1 DEF Owing
  <1> DEFINE Slower(q) == engaged'[q] + DueNow(q)' + events[q]
                            <= engaged[q] + DueNow(q) + events'[q]
  <1>3. ASSUME NEW q \in Requests PROVE Slower(q)
    <2> USE DEF TypeOK, DueNow
    <2>1. CASE Fault(r)
      BY <2>1 DEF Fault, RedisUnavailable, ReleaseFails, StatementFails, CrashRequest
    <2>2. CASE AssertNotRateLimited(r) \/ AcquireClaimLock(r) \/ ReadPost(r) \/ InsertClaim(r)
      BY <2>2 DEF AssertNotRateLimited, AcquireClaimLock, ReadPost, InsertClaim
    <2>3. ASSUME NEW answer \in Answered, CheckEligibility(r, answer) PROVE Slower(q)
      BY <2>3 DEF CheckEligibility, Answered
    <2>4. CASE CommitEligibleClaim(r)
      BY <2>4 DEF CommitEligibleClaim, Win
    <2>5. CASE CommitBid(r)
      BY <2>5 DEF CommitBid, Win
    <2>6. CASE CommitRefusedClaim(r) \/ RecordFailedAttempt(r) \/ ReleaseClaimLock(r)
      BY <2>6 DEF CommitRefusedClaim, RecordFailedAttempt, ReleaseClaimLock
    <2>7. CASE RecordEngagement(r)
      BY <2>7 DEF RecordEngagement
    <2> QED
      BY <2>1, <2>2, <2>3, <2>4, <2>5, <2>6, <2>7 DEF Progress
  <1> QED
    BY <1>2, <1>3, OwesNoMore DEF Backed

\* A supervisor's call owes exactly the approval it has just committed, until it
\* is written.
LEMMA DecisionBacked ==
  ASSUME Inv, TypeOK', Backed, NEW d \in Decisions, Decide(d) \/ CrashDecision(d)
  PROVE  Backed'
  <1>0. TypeOK
    BY DEF Inv
  <1> USE RequestAssumption DEF rows, limiter
  <1>1. CASE \/ \E r \in Requests : ReadPendingClaim(d, r)
             \/ RejectClaim(d)
             \/ CrashDecision(d)
    <2>1. /\ UNCHANGED <<pc, engaged, events>>
          /\ \A q \in Requests : Owing(q)' \subseteq Owing(q)
      BY <1>0, <1>1 DEF ReadPendingClaim, RejectClaim, CrashDecision, Owing, TypeOK
    <2>2. \A q \in Requests : engaged'[q] + DueNow(q)' + events[q]
                                <= engaged[q] + DueNow(q) + events'[q]
      BY <1>0, <2>1 DEF TypeOK, DueNow
    <2> QED
      BY <1>0, <2>1, <2>2, OwesNoMore DEF Backed
  <1>2. CASE ApproveClaim(d)
    <2>0. PICK r \in Requests :
            r = dclaim[d] /\ dpc[d] = "write" /\ UNCHANGED <<pc, engaged, dclaim>>
      BY <1>2 DEF ApproveClaim, Inv, ReadClaim
    <2>1. ASSUME NEW q \in Requests, q # r \/ ~IndexAdmits(r) PROVE BackedRequest(q)'
      <3>1. Owing(q)' \subseteq Owing(q) /\ events'[q] = events[q]
        BY <1>0, <1>2, <2>0, <2>1 DEF ApproveClaim, Owing, TypeOK
      <3>2. engaged'[q] + DueNow(q)' + events[q] <= engaged[q] + DueNow(q) + events'[q]
        BY <1>0, <2>0, <3>1 DEF TypeOK, DueNow
      <3> QED
        BY <1>0, <3>1, <3>2, OwesNoMore DEF Backed
    <2>2. ASSUME IndexAdmits(r) PROVE BackedRequest(r)'
      <3>1. /\ Owing(r)' = Owing(r) \cup {d}
            /\ d \notin Owing(r)
            /\ events'[r] = events[r] + 1
        BY <1>0, <1>2, <2>0, <2>2 DEF ApproveClaim, Owing, TypeOK
      <3>2. /\ IsFiniteSet(Owing(r)) /\ Cardinality(Owing(r)) \in Nat
            /\ engaged[r] + Cardinality(Owing(r)) + DueNow(r) <= events[r]
        BY <2>0, FS_CardinalityType DEF Backed, BackedRequest
      <3>3. /\ IsFiniteSet(Owing(r)')
            /\ Cardinality(Owing(r)') = Cardinality(Owing(r)) + 1
        BY <3>1, <3>2, FS_AddElement
      <3>4. /\ engaged[r] \in Nat /\ events[r] \in Nat /\ DueNow(r) \in Nat
            /\ engaged'[r] = engaged[r] /\ DueNow(r)' = DueNow(r)
        BY <1>0, <2>0 DEF TypeOK, DueNow
      <3>5. engaged'[r] + Cardinality(Owing(r)') + DueNow(r)' <= events'[r]
        BY <3>1, <3>2, <3>3, <3>4
      <3> QED
        BY <3>3, <3>5 DEF BackedRequest
    <2> QED
      BY <2>1, <2>2 DEF Backed
  <1>3. CASE EngageApproved(d)
    <2>0. PICK r \in Requests :
            r = dclaim[d] /\ dpc[d] = "engage" /\ UNCHANGED <<pc, events, dclaim>>
      BY <1>3 DEF EngageApproved, Inv, ReadClaim
    <2>1. ASSUME NEW q \in Requests, q # r PROVE BackedRequest(q)'
      <3>1. Owing(q)' \subseteq Owing(q) /\ engaged'[q] = engaged[q]
        BY <1>0, <1>3, <2>0, <2>1 DEF EngageApproved, Owing, TypeOK
      <3>2. engaged'[q] + DueNow(q)' + events[q] <= engaged[q] + DueNow(q) + events'[q]
        BY <1>0, <2>0, <3>1 DEF TypeOK, DueNow
      <3> QED
        BY <1>0, <3>1, <3>2, OwesNoMore DEF Backed
    <2>2. BackedRequest(r)'
      <3>1. /\ Owing(r)' = Owing(r) \ {d}
            /\ d \in Owing(r)
            /\ engaged'[r] = engaged[r] + 1
        BY <1>0, <1>3, <2>0 DEF EngageApproved, Owing, TypeOK
      <3>2. /\ IsFiniteSet(Owing(r)) /\ Cardinality(Owing(r)) \in Nat
            /\ engaged[r] + Cardinality(Owing(r)) + DueNow(r) <= events[r]
        BY <2>0, FS_CardinalityType DEF Backed, BackedRequest
      <3>3. /\ IsFiniteSet(Owing(r)')
            /\ Cardinality(Owing(r)') = Cardinality(Owing(r)) - 1
        BY <3>1, <3>2, FS_RemoveElement
      <3>4. /\ engaged[r] \in Nat /\ events[r] \in Nat /\ DueNow(r) \in Nat
            /\ events'[r] = events[r] /\ DueNow(r)' = DueNow(r)
        BY <1>0, <2>0 DEF TypeOK, DueNow
      <3>5. engaged'[r] + Cardinality(Owing(r)') + DueNow(r)' <= events'[r]
        BY <3>1, <3>2, <3>3, <3>4
      <3> QED
        BY <3>3, <3>5 DEF BackedRequest
    <2> QED
      BY <2>1, <2>2 DEF Backed
  <1> QED
    BY <1>1, <1>2, <1>3 DEF Decide

LEMMA StepBacked == Inv /\ Backed /\ [Next]_vars => Backed'
  <1> SUFFICES ASSUME Inv, Backed, [Next]_vars PROVE Backed'
    OBVIOUS
  <1>0. TypeOK /\ TypeOK'
    BY StepType DEF Inv
  <1>1. ASSUME NEW r \in Requests, Progress(r) \/ Fault(r) PROVE Backed'
    BY <1>0, <1>1, RequestBacked
  <1>2. ASSUME NEW d \in Decisions, Decide(d) \/ CrashDecision(d) PROVE Backed'
    BY <1>0, <1>2, DecisionBacked
  <1>3. ASSUME UNCHANGED <<pc, events, engaged, dpc, dclaim>> PROVE Backed'
    BY <1>3 DEF Backed, BackedRequest, Owing, DueNow
  <1>4. ASSUME NEW p \in Posts, ExpireLock(p) PROVE Backed'
    BY <1>3, <1>4 DEF ExpireLock, rows, limiter, supervisors
  <1>5. ASSUME NEW e \in Employees, WindowLapses(e) PROVE Backed'
    BY <1>3, <1>5 DEF WindowLapses, rows, limiter, supervisors
  <1>6. CASE UNCHANGED vars
    BY <1>3, <1>6 DEF vars
  <1> QED
    BY <1>1, <1>2, <1>4, <1>5, <1>6 DEF Next, Quiescent

LEMMA InitBacked == Init => Backed
  <1> SUFFICES ASSUME Init, NEW r \in Requests PROVE BackedRequest(r)
    BY DEF Backed
  <1>1. Owing(r) = {}
    BY DEF Init, Owing
  <1>2. IsFiniteSet(Owing(r)) /\ Cardinality(Owing(r)) = 0
    BY <1>1, FS_EmptySet
  <1>3. engaged[r] = 0 /\ DueNow(r) = 0 /\ events[r] = 0
    BY DEF Init, DueNow
  <1> QED
    BY <1>2, <1>3 DEF BackedRequest

LEMMA BackedBounds ==
  ASSUME TypeOK, Backed, NEW r \in Requests
  PROVE  engaged[r] <= events[r]
  <1>1. Cardinality(Owing(r)) \in Nat
    BY FS_CardinalityType DEF Backed, BackedRequest
  <1>2. engaged[r] \in Nat /\ events[r] \in Nat /\ DueNow(r) \in Nat
    BY DEF TypeOK, DueNow
  <1> QED
    BY <1>1, <1>2 DEF Backed, BackedRequest

(***************************************************************************)
(* Repeated awards.  A claim is granted by its own request, once, or by    *)
(* the approvals that have read and written it.                            *)
(***************************************************************************)
IdleHasReadNothing == \A d \in Decisions : dpc[d] = "idle" => dclaim[d] = Free

Wrote(a, r) == dclaim[a] = r /\ dpc[a] \notin {"idle", "write"}

SupervisedIsNotAuto ==
  \A r \in AutoApproved :
    claim[r] # "pending_approval" /\ \A d \in Decisions : dclaim[d] # r

AutoIsGrantedOnce == \A r \in AutoApproved : events[r] <= 1

GrantsAreWritten ==
  \A r \in Requests \ AutoApproved :
    /\ events[r] > 0 => \E a \in Approvals : Wrote(a, r)
    /\ events[r] > 1 => \E a, b \in Approvals : a # b /\ Wrote(a, r) /\ Wrote(b, r)

PathInv == SupervisedIsNotAuto /\ AutoIsGrantedOnce /\ GrantsAreWritten

LEMMA InitPaths == Init => PathInv
  BY RequestAssumption DEF Init, PathInv, SupervisedIsNotAuto, AutoIsGrantedOnce, GrantsAreWritten

\* A step that grants nothing, queues nothing and takes no written approval back.
LEMMA PathsStay ==
  ASSUME PathInv, UNCHANGED <<events, dclaim>>,
         \A r \in AutoApproved : claim'[r] = "pending_approval" => claim[r] = "pending_approval",
         \A d \in Decisions : dpc[d] \notin {"idle", "write"} => dpc'[d] \notin {"idle", "write"}
  PROVE  PathInv'
  <1>1. SupervisedIsNotAuto' /\ AutoIsGrantedOnce'
    BY DEF PathInv, SupervisedIsNotAuto, AutoIsGrantedOnce
  <1>2. \A r \in Requests, a \in Approvals : Wrote(a, r) => Wrote(a, r)'
    BY DEF Wrote, Decisions
  <1>3. GrantsAreWritten'
    BY <1>2 DEF PathInv, GrantsAreWritten
  <1> QED
    BY <1>1, <1>3 DEF PathInv

\* The transaction that wins a post grants the claim of an auto-approved request, which
\* no supervisor has seen, and leaves every other one to them.
LEMMA WinPaths ==
  ASSUME Inv, PathInv, NEW r \in Requests, Win(r), UNCHANGED supervisors, pc[r] = "eligible"
  PROVE  PathInv'
  <1>1. UNCHANGED <<dpc, dclaim>>
    BY DEF supervisors
  <1>2. events[r] = 0
    <2>1. ~(events[r] > 0)
      BY DEF Inv, PassedRequestIsOver, Passed
    <2> QED
      BY <2>1 DEF Inv, TypeOK
  <1>3. CASE r \in AutoApproved
    <2>1. claim' = [claim EXCEPT ![r] = "approved"] /\ events' = [events EXCEPT ![r] = @ + 1]
      BY <1>3 DEF Win
    <2>2. SupervisedIsNotAuto' /\ AutoIsGrantedOnce'
      BY <1>1, <1>2, <2>1, RequestAssumption
      DEF Inv, TypeOK, PathInv, SupervisedIsNotAuto, AutoIsGrantedOnce
    <2>3. GrantsAreWritten'
      BY <1>1, <1>3, <2>1 DEF Inv, TypeOK, PathInv, GrantsAreWritten, Wrote
    <2> QED
      BY <2>2, <2>3 DEF PathInv
  <1>4. CASE r \notin AutoApproved
    <2>1. claim' = [claim EXCEPT ![r] = "pending_approval"] /\ UNCHANGED events
      BY <1>4 DEF Win
    <2>2. \A q \in AutoApproved : claim'[q] = claim[q]
      BY <1>4, <2>1, RequestAssumption DEF Inv, TypeOK
    <2> QED
      BY <1>1, <2>1, <2>2, PathsStay
  <1> QED
    BY <1>3, <1>4

LEMMA RequestPaths ==
  ASSUME Inv, PathInv, NEW r \in Requests, Progress(r) \/ Fault(r)
  PROVE  PathInv'
  <1> USE DEF Inv, TypeOK, Goto
  <1>1. UNCHANGED supervisors
    BY DEF Progress, Fault, AssertNotRateLimited, AcquireClaimLock, ReadPost, InsertClaim,
           CheckEligibility, CommitEligibleClaim, CommitRefusedClaim, CommitBid,
           RecordEngagement, RecordFailedAttempt, ReleaseClaimLock, RedisUnavailable,
           ReleaseFails, StatementFails, CrashRequest
  <1>2. UNCHANGED <<dpc, dclaim>>
    BY <1>1 DEF supervisors
  <1>3. CASE Win(r) /\ pc[r] = "eligible"
    BY <1>1, <1>3, WinPaths
  <1>4. CASE UNCHANGED rows
    BY <1>2, <1>4, PathsStay DEF rows
  <1>5. CASE UNCHANGED events /\ \E s \in {"rejected", "pending_validation"} :
               claim' = [claim EXCEPT ![r] = s]
    <2>1. \A q \in Requests : claim'[q] = "pending_approval" => claim[q] = "pending_approval"
      BY <1>5
    <2> QED
      BY <1>2, <1>5, <2>1, PathsStay, RequestAssumption
  <1>6. CASE CommitEligibleClaim(r) \/ CommitBid(r)
    BY <1>3, <1>4, <1>5, <1>6 DEF CommitEligibleClaim, CommitBid
  <1>7. CASE CommitRefusedClaim(r) \/ InsertClaim(r)
    BY <1>4, <1>5, <1>7 DEF CommitRefusedClaim, InsertClaim, rows
  <1>8. CASE \/ AssertNotRateLimited(r) \/ AcquireClaimLock(r) \/ ReadPost(r) \/ RedisUnavailable(r)
             \/ RecordEngagement(r) \/ RecordFailedAttempt(r) \/ ReleaseClaimLock(r)
             \/ ReleaseFails(r) \/ StatementFails(r) \/ CrashRequest(r)
             \/ \E answer \in Answered : CheckEligibility(r, answer)
    BY <1>4, <1>8
    DEF AssertNotRateLimited, AcquireClaimLock, ReadPost, RedisUnavailable, RecordEngagement,
        RecordFailedAttempt, ReleaseClaimLock, ReleaseFails, StatementFails, CrashRequest,
        CheckEligibility
  <1> QED
    BY <1>6, <1>7, <1>8 DEF Progress, Fault

LEMMA DecisionPaths ==
  ASSUME Inv, PathInv, IdleHasReadNothing, NEW d \in Decisions, Decide(d) \/ CrashDecision(d)
  PROVE  PathInv'
  <1> USE DEF Inv, TypeOK
  <1>1. ASSUME NEW r \in Requests, ReadPendingClaim(d, r) PROVE PathInv'
    <2>1. UNCHANGED <<claim, events>> /\ dpc[d] = "idle" /\ dclaim[d] = Free
      BY <1>1 DEF ReadPendingClaim, rows, IdleHasReadNothing
    <2>2. CASE dclaim' = dclaim /\ dpc' = [dpc EXCEPT ![d] = "done"]
      BY <2>1, <2>2, PathsStay
    <2>3. CASE /\ claim[r] = "pending_approval"
               /\ dclaim' = [dclaim EXCEPT ![d] = r] /\ dpc' = [dpc EXCEPT ![d] = "write"]
      <3>1. SupervisedIsNotAuto' /\ AutoIsGrantedOnce'
        BY <2>1, <2>3 DEF PathInv, SupervisedIsNotAuto, AutoIsGrantedOnce
      <3>2. \A q \in Requests, a \in Approvals : Wrote(a, q) => Wrote(a, q)'
        BY <2>1, <2>3 DEF Wrote, Decisions
      <3>3. GrantsAreWritten'
        BY <2>1, <3>2 DEF PathInv, GrantsAreWritten
      <3> QED
        BY <3>1, <3>3 DEF PathInv
    <2> QED
      BY <1>1, <2>2, <2>3 DEF ReadPendingClaim
  <1>2. CASE ApproveClaim(d)
    <2>1. /\ dpc[d] = "write" /\ d \in Approvals /\ dclaim[d] \in Requests
          /\ UNCHANGED dclaim
      BY <1>2 DEF ApproveClaim, ReadClaim
    <2>2. PICK r \in Requests : r = dclaim[d]
      BY <2>1
    <2>3. r \notin AutoApproved
      BY <2>2 DEF PathInv, SupervisedIsNotAuto
    <2>4. CASE UNCHANGED <<claim, events>> /\ dpc' = [dpc EXCEPT ![d] = "done"]
      BY <2>1, <2>4, PathsStay
    <2>5. CASE /\ claim' = [claim EXCEPT ![r] = "approved"]
               /\ events' = [events EXCEPT ![r] = @ + 1]
               /\ dpc' = [dpc EXCEPT ![d] = "engage"]
      <3>1. SupervisedIsNotAuto' /\ AutoIsGrantedOnce'
        BY <2>1, <2>3, <2>5, RequestAssumption DEF PathInv, SupervisedIsNotAuto, AutoIsGrantedOnce
      <3>2. /\ \A q \in Requests, a \in Approvals : Wrote(a, q) => Wrote(a, q)'
            /\ Wrote(d, r)' /\ ~Wrote(d, r)
        BY <2>1, <2>2, <2>5 DEF Wrote, Decisions
      <3>3. ASSUME NEW q \in Requests \ AutoApproved
            PROVE  /\ events'[q] > 0 => \E a \in Approvals : Wrote(a, q)'
                   /\ events'[q] > 1 =>
                        \E a, b \in Approvals : a # b /\ Wrote(a, q)' /\ Wrote(b, q)'
        <4>1. CASE q = r
          <5>1. events'[r] = events[r] + 1 /\ events[r] \in Nat
            BY <2>5
          <5>2. events[r] > 0 => \E a \in Approvals : Wrote(a, r)
            BY <2>3 DEF PathInv, GrantsAreWritten
          <5>3. events'[r] > 1 => \E a \in Approvals : a # d /\ Wrote(a, r)'
            BY <3>2, <5>1, <5>2
          <5> QED
            BY <2>1, <3>2, <4>1, <5>3
        <4>2. CASE q # r
          <5>1. events'[q] = events[q]
            BY <2>5, <4>2
          <5> QED
            BY <3>2, <5>1 DEF PathInv, GrantsAreWritten
        <4> QED
          BY <4>1, <4>2
      <3> QED
        BY <3>1, <3>3 DEF PathInv, GrantsAreWritten
    <2> QED
      BY <1>2, <2>2, <2>4, <2>5 DEF ApproveClaim
  <1>3. CASE RejectClaim(d) \/ EngageApproved(d) \/ CrashDecision(d)
    <2>1. /\ UNCHANGED <<events, dclaim>>
          /\ \E place \in {"done", "crashed"} : dpc' = [dpc EXCEPT ![d] = place]
          /\ UNCHANGED claim \/ claim' = [claim EXCEPT ![dclaim[d]] = "rejected"]
      BY <1>3 DEF RejectClaim, EngageApproved, CrashDecision, rows
    <2>2. \A r \in Requests : claim'[r] = "pending_approval" => claim[r] = "pending_approval"
      BY <2>1
    <2>3. \A e \in Decisions : dpc[e] \notin {"idle", "write"} => dpc'[e] \notin {"idle", "write"}
      BY <2>1
    <2> QED
      BY <2>1, <2>2, <2>3, PathsStay, RequestAssumption
  <1> QED
    BY <1>1, <1>2, <1>3 DEF Decide

(***************************************************************************)
(* Granted and rejected.  That a rejected claim was not granted fails when *)
(* an approval and a rejection have both read it; it fails in no other     *)
(* way.  No grant without a supervisor can be rejected, because a request  *)
(* whose claim a supervisor has read is over.                              *)
(***************************************************************************)
Over == {"engage", "release", "done", "crashed"}

RejectedGrantWasRaced ==
  \A r \in Requests :
    claim[r] = "rejected" /\ events[r] > 0
      => \E a \in Approvals, x \in Rejections : dclaim[a] = r /\ dclaim[x] = r

UngrantedHasNoEvent ==
  \A r \in Requests :
    claim[r] \in {"none", "pending_validation", "pending_approval"} => events[r] = 0

ReadRequestIsOver ==
  \A r \in Requests : \A d \in Decisions : dclaim[d] = r => pc[r] \in Over

GrantAfterReadIsApproval ==
  \A r \in Requests :
    events[r] > 0 /\ (\E d \in Decisions : dclaim[d] = r)
      => \E a \in Approvals : dclaim[a] = r

RaceInv ==
  /\ IdleHasReadNothing
  /\ UngrantedHasNoEvent
  /\ ReadRequestIsOver
  /\ GrantAfterReadIsApproval
  /\ RejectedGrantWasRaced

LEMMA InitRace == Init => RaceInv
  BY RequestAssumption
  DEF Init, RaceInv, IdleHasReadNothing, UngrantedHasNoEvent, ReadRequestIsOver,
      GrantAfterReadIsApproval, RejectedGrantWasRaced

\* A step of a request writes its own claim and no supervisor's call.
LEMMA RequestRaces ==
  ASSUME Inv, RaceInv, TypeOK', NEW r \in Requests, UNCHANGED supervisors,
         \A q \in Requests \ {r} :
           pc'[q] = pc[q] /\ claim'[q] = claim[q] /\ events'[q] = events[q],
         pc[r] \in Over => pc'[r] \in Over /\ claim'[r] = claim[r] /\ events'[r] = events[r],
         claim'[r] \in {"none", "pending_validation", "pending_approval"} => events'[r] = events[r],
         claim'[r] = "rejected" => events'[r] = events[r]
  PROVE  RaceInv'
  <1>1. UNCHANGED <<dpc, dclaim>>
    BY DEF supervisors
  <1>2. IdleHasReadNothing' /\ ReadRequestIsOver'
    BY <1>1 DEF RaceInv, IdleHasReadNothing, ReadRequestIsOver
  <1>3. pc[r] \notin Over => events[r] = 0
    <2>1. pc[r] \notin Over => ~(events[r] > 0)
      BY DEF Inv, PassedRequestIsOver, Passed, Over
    <2> QED
      BY <2>1 DEF Inv, TypeOK
  <1>4. UngrantedHasNoEvent'
    BY <1>3 DEF RaceInv, UngrantedHasNoEvent
  <1>5. pc[r] \notin Over => \A d \in Decisions : dclaim[d] # r
    BY DEF RaceInv, ReadRequestIsOver
  <1>6. GrantAfterReadIsApproval'
    BY <1>1, <1>5 DEF RaceInv, GrantAfterReadIsApproval
  <1>7. ASSUME NEW q \in Requests, claim'[q] = "rejected", events'[q] > 0
        PROVE  claim[q] = "rejected" /\ events[q] > 0
    BY <1>3, <1>7
  <1>8. RejectedGrantWasRaced'
    BY <1>1, <1>7 DEF RaceInv, RejectedGrantWasRaced
  <1> QED
    BY <1>2, <1>4, <1>6, <1>8 DEF RaceInv

LEMMA ProgressRaces ==
  ASSUME Inv, RaceInv, TypeOK', NEW r \in Requests, Progress(r) \/ Fault(r)
  PROVE  RaceInv'
  <1> USE DEF Inv, TypeOK, Goto, Over
  <1>1. UNCHANGED supervisors
    BY DEF Progress, Fault, AssertNotRateLimited, AcquireClaimLock, ReadPost, InsertClaim,
           CheckEligibility, CommitEligibleClaim, CommitRefusedClaim, CommitBid,
           RecordEngagement, RecordFailedAttempt, ReleaseClaimLock, RedisUnavailable,
           ReleaseFails, StatementFails, CrashRequest
  <1>2. CASE CommitEligibleClaim(r) \/ CommitBid(r)
    BY <1>1, <1>2, RequestRaces DEF CommitEligibleClaim, CommitBid, Win, rows
  <1>3. CASE CommitRefusedClaim(r) \/ InsertClaim(r)
    BY <1>1, <1>3, RequestRaces DEF CommitRefusedClaim, InsertClaim
  <1>4. CASE /\ UNCHANGED rows
             /\ \E place : pc' = [pc EXCEPT ![r] = place] /\ (pc[r] \in Over => place \in Over)
    BY <1>1, <1>4, RequestRaces DEF rows
  <1>5. CASE AssertNotRateLimited(r) \/ AcquireClaimLock(r) \/ ReadPost(r) \/ RedisUnavailable(r)
    BY <1>4, <1>5 DEF AssertNotRateLimited, AcquireClaimLock, ReadPost, RedisUnavailable
  <1>6. CASE RecordEngagement(r) \/ RecordFailedAttempt(r) \/ ReleaseClaimLock(r)
             \/ ReleaseFails(r) \/ StatementFails(r) \/ CrashRequest(r)
    BY <1>4, <1>6
    DEF RecordEngagement, RecordFailedAttempt, ReleaseClaimLock, ReleaseFails,
        StatementFails, CrashRequest
  <1>7. ASSUME NEW answer \in Answered, CheckEligibility(r, answer) PROVE RaceInv'
    BY <1>4, <1>7 DEF CheckEligibility
  <1> QED
    BY <1>2, <1>3, <1>5, <1>6, <1>7 DEF Progress, Fault

LEMMA ReadRaces ==
  ASSUME Inv, RaceInv, TypeOK', NEW d \in Decisions, NEW r \in Requests, ReadPendingClaim(d, r)
  PROVE  RaceInv'
  <1>1. UNCHANGED <<claim, events, pc>>
    BY DEF ReadPendingClaim, rows
  <1>2. CASE dclaim' = dclaim
    BY <1>1, <1>2
    DEF ReadPendingClaim, Inv, TypeOK, RaceInv, IdleHasReadNothing, UngrantedHasNoEvent,
        ReadRequestIsOver, GrantAfterReadIsApproval, RejectedGrantWasRaced
  <1>3. CASE claim[r] = "pending_approval" /\ dclaim' = [dclaim EXCEPT ![d] = r]
             /\ dpc' = [dpc EXCEPT ![d] = "write"]
    <2>1. pc[r] \in Over /\ events[r] = 0 /\ dclaim[d] = Free
      BY <1>3
      DEF ReadPendingClaim, Inv, PassedRequestIsOver, Passed, Over, RaceInv,
          UngrantedHasNoEvent, IdleHasReadNothing
    <2>2. \A q \in Requests : \A e \in Decisions : dclaim[e] = q => dclaim'[e] = q
      BY <1>3, <2>1, RequestAssumption DEF Inv, TypeOK
    <2>3. \A q \in Requests : q # r => \A e \in Decisions : dclaim'[e] = q => dclaim[e] = q
      BY <1>3 DEF Inv, TypeOK
    <2>4. IdleHasReadNothing' /\ ReadRequestIsOver'
      BY <1>1, <1>3, <2>1, <2>3 DEF Inv, TypeOK, RaceInv, IdleHasReadNothing, ReadRequestIsOver
    <2>5. UngrantedHasNoEvent'
      BY <1>1 DEF RaceInv, UngrantedHasNoEvent
    <2>6. GrantAfterReadIsApproval'
      BY <1>1, <2>1, <2>2, <2>3, RequestAssumption
      DEF RaceInv, GrantAfterReadIsApproval, Decisions
    <2>7. RejectedGrantWasRaced'
      BY <1>1, <2>2 DEF RaceInv, RejectedGrantWasRaced, Decisions
    <2> QED
      BY <2>4, <2>5, <2>6, <2>7 DEF RaceInv
  <1> QED
    BY <1>2, <1>3 DEF ReadPendingClaim

\* A supervisor's call writes the claim it has read.
LEMMA WriteRaces ==
  ASSUME Inv, RaceInv, TypeOK', NEW d \in Decisions,
         ApproveClaim(d) \/ RejectClaim(d) \/ EngageApproved(d) \/ CrashDecision(d)
  PROVE  RaceInv'
  <1>1. UNCHANGED <<pc, dclaim>>
    BY DEF ApproveClaim, RejectClaim, EngageApproved, CrashDecision
  <1>2. IdleHasReadNothing' /\ ReadRequestIsOver'
    <2>1. \A e \in Decisions : dpc'[e] = "idle" => dpc[e] = "idle"
      BY DEF ApproveClaim, RejectClaim, EngageApproved, CrashDecision, Inv, TypeOK
    <2> QED
      BY <1>1, <2>1 DEF RaceInv, IdleHasReadNothing, ReadRequestIsOver
  <1>3. CASE UNCHANGED <<claim, events>>
    BY <1>1, <1>2, <1>3
    DEF RaceInv, UngrantedHasNoEvent, GrantAfterReadIsApproval, RejectedGrantWasRaced
  <1>4. ASSUME NEW r \in Requests, r = dclaim[d], d \in Approvals,
               claim' = [claim EXCEPT ![r] = "approved"],
               events' = [events EXCEPT ![r] = @ + 1]
        PROVE  RaceInv'
    <2>1. UngrantedHasNoEvent' /\ RejectedGrantWasRaced'
      BY <1>1, <1>4 DEF Inv, TypeOK, RaceInv, UngrantedHasNoEvent, RejectedGrantWasRaced
    <2>2. GrantAfterReadIsApproval'
      BY <1>1, <1>4 DEF Inv, TypeOK, RaceInv, GrantAfterReadIsApproval
    <2> QED
      BY <1>2, <2>1, <2>2 DEF RaceInv
  <1>5. ASSUME NEW r \in Requests, r = dclaim[d], d \in Rejections,
               claim' = [claim EXCEPT ![r] = "rejected"], UNCHANGED events
        PROVE  RaceInv'
    <2>1. UngrantedHasNoEvent' /\ GrantAfterReadIsApproval'
      BY <1>1, <1>5 DEF Inv, TypeOK, RaceInv, UngrantedHasNoEvent, GrantAfterReadIsApproval
    <2>2. events[r] > 0 => \E a \in Approvals : dclaim[a] = r
      BY <1>5 DEF RaceInv, GrantAfterReadIsApproval
    <2>3. RejectedGrantWasRaced'
      BY <1>1, <1>5, <2>2 DEF Inv, TypeOK, RaceInv, RejectedGrantWasRaced
    <2> QED
      BY <1>2, <2>1, <2>3 DEF RaceInv
  <1>6. CASE ApproveClaim(d)
    BY <1>3, <1>4, <1>6 DEF ApproveClaim, Inv, ReadClaim
  <1>7. CASE RejectClaim(d)
    BY <1>5, <1>7 DEF RejectClaim, Inv, ReadClaim
  <1>8. CASE EngageApproved(d) \/ CrashDecision(d)
    BY <1>3, <1>8 DEF EngageApproved, CrashDecision, rows
  <1> QED
    BY <1>6, <1>7, <1>8

LEMMA StepRaces == Inv /\ RaceInv /\ [Next]_vars => RaceInv'
  <1> SUFFICES ASSUME Inv, RaceInv, [Next]_vars PROVE RaceInv'
    OBVIOUS
  <1>0. TypeOK'
    BY StepType DEF Inv
  <1>1. CASE UNCHANGED <<claim, events, pc, dpc, dclaim>>
    BY <1>1
    DEF RaceInv, IdleHasReadNothing, UngrantedHasNoEvent, ReadRequestIsOver,
        GrantAfterReadIsApproval, RejectedGrantWasRaced
  <1>2. ASSUME NEW p \in Posts, ExpireLock(p) PROVE RaceInv'
    BY <1>1, <1>2 DEF ExpireLock, rows, supervisors
  <1>3. ASSUME NEW e \in Employees, WindowLapses(e) PROVE RaceInv'
    BY <1>1, <1>3 DEF WindowLapses, rows, supervisors
  <1>4. CASE UNCHANGED vars
    BY <1>1, <1>4 DEF vars
  <1> QED
    BY <1>0, <1>2, <1>3, <1>4, ProgressRaces, ReadRaces, WriteRaces
    DEF Next, Decide, Quiescent

LEMMA StepPaths == Inv /\ IdleHasReadNothing /\ PathInv /\ [Next]_vars => PathInv'
  <1> SUFFICES ASSUME Inv, IdleHasReadNothing, PathInv, [Next]_vars PROVE PathInv'
    OBVIOUS
  <1>1. CASE UNCHANGED <<claim, events, dpc, dclaim>>
    BY <1>1, PathsStay
  <1>2. ASSUME NEW p \in Posts, ExpireLock(p) PROVE PathInv'
    BY <1>1, <1>2 DEF ExpireLock, rows, supervisors
  <1>3. ASSUME NEW e \in Employees, WindowLapses(e) PROVE PathInv'
    BY <1>1, <1>3 DEF WindowLapses, rows, supervisors
  <1>4. CASE UNCHANGED vars
    BY <1>1, <1>4 DEF vars
  <1> QED
    BY <1>2, <1>3, <1>4, RequestPaths, DecisionPaths DEF Next, Quiescent

\* Points and hand-offs of one claim are repeated only by a second approval: the
\* auto-approval of processClaim and approveClaim never both award it.
THEOREM AwardPathsDoNotOverlap == Spec => []SecondAwardIsSecondApproval
  <1>1. RaceInv => IdleHasReadNothing
    BY DEF RaceInv
  <1>2. Inv /\ Backed /\ PathInv => SecondAwardIsSecondApproval
    <2> SUFFICES ASSUME Inv, Backed, PathInv, NEW r \in Requests
                 PROVE  /\ engaged[r] <= events[r]
                        /\ events[r] > 1 =>
                             /\ r \notin AutoApproved
                             /\ \E a, b \in Approvals : a # b /\ dclaim[a] = r /\ dclaim[b] = r
      BY DEF SecondAwardIsSecondApproval
    <2>1. events[r] \in Nat /\ engaged[r] <= events[r]
      BY BackedBounds DEF Inv, TypeOK
    <2> QED
      BY <2>1 DEF PathInv, AutoIsGrantedOnce, GrantsAreWritten, Wrote
  <1> QED
    BY <1>1, <1>2, InitBacked, StepBacked, InitRace, StepRaces, InitPaths, StepPaths,
       InitInv, StepInv, PTL DEF Spec

\* A claim ends up rejected and handed over to scheduling only if an approval and a
\* rejection both read it: approveClaim and rejectClaim racing is the only cause.
THEOREM OnlySupervisorsRace == Spec => []RejectedGrantWasRaced
  <1>1. RaceInv => RejectedGrantWasRaced
    BY DEF RaceInv
  <1> QED
    BY <1>1, InitRace, InitInv, StepInv, StepRaces, PTL DEF Spec

\* So rejectClaim's "nothing was granted" is true wherever supervisors only approve
\* or only reject.
THEOREM RejectedIsNotGrantedHolds ==
  ASSUME Approvals = {} \/ Rejections = {}
  PROVE  Spec => []RejectedIsNotGranted
  <1>1. TypeOK /\ RejectedGrantWasRaced => RejectedIsNotGranted
    BY DEF TypeOK, RejectedGrantWasRaced, RejectedIsNotGranted
  <1> QED
    BY <1>1, TypeCorrect, OnlySupervisorsRace, PTL
================================================================================
