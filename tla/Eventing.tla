---------------------------------- MODULE Eventing ----------------------------------
(***************************************************************************)
(* The way of an audit event through the platform core: queued in          *)
(* pending_audit_events, flushed to the audit log together with an outbox  *)
(* row, published to the bus from the outbox, fanned out to the webhook    *)
(* subscriptions, and posted to each of them.                              *)
(*                                                                         *)
(* Three loops move it on, each on a timer in every instance of the        *)
(* service, and each guarded against itself only.  The publishers and the  *)
(* dispatchers lease the rows they take; the flushers do not.  A loop      *)
(* takes a batch and then works through it, with the attempt counts it     *)
(* read when it took the batch.                                            *)
(***************************************************************************)
EXTENDS Naturals, FiniteSets

CONSTANTS
  Events,
  Subscriptions, \* webhook subscriptions to the event's subject
  Flushers, Publishers, Dispatchers, \* the three loops of each instance
  MaxRetries,    \* FLUSH_MAX_RETRIES, MAX_ATTEMPTS_BEFORE_DLQ
  MaxAttempts,   \* MAX_ATTEMPTS_BEFORE_DEAD_LETTER
  MaxRows,       \* bound: outbox rows one event can lead to
  MaxFanOuts,    \* bound: times one outbox row can be fanned out
  MaxFaults,     \* bound: crashes, and database or bus calls that fail after the effect
  None

Loops == Flushers \cup Publishers \cup Dispatchers
Rows == {<<e, k>> : e \in Events, k \in 1..MaxRows}
Deliveries == {<<o, s, k>> : o \in Rows, s \in Subscriptions, k \in 1..MaxFanOuts}
Items == Events \cup Rows \cup Deliveries

ASSUME EventingAssumption ==
  /\ MaxRetries \in Nat \ {0}
  /\ MaxAttempts \in Nat \ {0}
  /\ MaxRows \in Nat \ {0}
  /\ MaxFanOuts \in Nat \ {0}
  /\ MaxFaults \in Nat
  /\ Flushers \cap Publishers = {}
  /\ Dispatchers \cap (Flushers \cup Publishers) = {}
  /\ IsFiniteSet(Dispatchers)
  /\ Events \cap (Rows \cup Deliveries) = {}
  /\ None \notin Items \X Nat

VARIABLES
  accepted,  \* events whose enqueue has committed
  queue,     \* pending_audit_events
  logged,    \* audit_log, and its rows in outbox_events
  published, \* outbox rows with published_at
  bus,       \* outbox rows on their subject
  dlq,       \* events and outbox rows on the dead-letter subject
  delivery,  \* webhook_deliveries.status, with the reason of a dead letter
  posts,     \* how often a delivery was posted
  recounts,  \* how often one post of it was counted as two attempts
  active,    \* active subscriptions
  attempts,  \* the attempts column of each row
  leased,    \* rows claimed less than a lease ago
  batch,     \* what each loop has yet to handle, with the attempts it read
  cur, at,   \* the item it is handling, and how far it is
  faults

vars == <<accepted, queue, logged, published, bus, dlq, delivery, posts, recounts, active,
          attempts, leased, batch, cur, at, faults>>
loop == <<batch, cur, at>>

TypeOK ==
  /\ accepted \subseteq Events
  /\ queue \subseteq accepted
  /\ logged \subseteq Rows
  /\ published \subseteq logged
  /\ bus \subseteq logged
  /\ dlq \subseteq accepted \cup logged
  /\ delivery \in [Deliveries -> {"none", "pending", "delivered", "dead", "dropped"}]
  /\ \A d \in Deliveries : delivery[d] # "none" => d[1] \in published
  /\ posts \in [Deliveries -> Nat]
  /\ recounts \in [Deliveries -> Nat]
  /\ active \subseteq Subscriptions
  /\ attempts \in [Items -> Nat]
  /\ leased \subseteq Rows \cup Deliveries
  /\ batch \in [Loops -> SUBSET (Items \X Nat)]
  /\ cur \in [Loops -> (Items \X Nat) \cup {None}]
  /\ at \in [Loops -> {"idle", "do", "mark", "fanout", "fail", "caught", "buried", "drop"}]
  /\ faults \in 0..MaxFaults

Init ==
  /\ accepted = {} /\ queue = {} /\ logged = {} /\ published = {} /\ bus = {} /\ dlq = {}
  /\ delivery = [d \in Deliveries |-> "none"]
  /\ posts = [d \in Deliveries |-> 0]
  /\ recounts = [d \in Deliveries |-> 0]
  /\ active = Subscriptions
  /\ attempts = [x \in Items |-> 0]
  /\ leased = {}
  /\ batch = [w \in Loops |-> {}]
  /\ cur = [w \in Loops |-> None]
  /\ at = [w \in Loops |-> "idle"]
  /\ faults = 0

Fault == faults < MaxFaults /\ faults' = faults + 1
Goto(w, step) == at' = [at EXCEPT ![w] = step] /\ UNCHANGED <<batch, cur>>

NextItem(w) ==
  /\ cur' = [cur EXCEPT ![w] = None]
  /\ at' = [at EXCEPT ![w] = IF batch[w] = {} THEN "idle" ELSE "do"]
  /\ UNCHANGED batch

Begin(w, x, step) ==
  /\ at[w] = "do"
  /\ \E b \in batch[w] :
       /\ b[1] = x
       /\ batch' = [batch EXCEPT ![w] = @ \ {b}]
       /\ cur' = [cur EXCEPT ![w] = b]
  /\ at' = [at EXCEPT ![w] = step]

Item(w) == cur[w][1]

(***************************************************************************)
(* The batches.                                                            *)
(***************************************************************************)
Enqueue(e) ==
  /\ e \notin accepted
  /\ accepted' = accepted \cup {e}
  /\ queue' = queue \cup {e}
  /\ UNCHANGED <<logged, published, bus, dlq, delivery, posts, recounts, active, attempts,
                 leased, loop, faults>>

Due(w) ==
  CASE w \in Flushers -> queue
    [] w \in Publishers -> (logged \ published) \ leased
    [] w \in Dispatchers -> {d \in Deliveries : delivery[d] = "pending"} \ leased

\* findBatch, findUnpublishedBatch and findPendingBatch: a batch is larger
\* than what is ever due here.
FindBatch(w) ==
  /\ at[w] = "idle"
  /\ Due(w) # {}
  /\ batch' = [batch EXCEPT ![w] = {<<x, attempts[x]>> : x \in Due(w)}]
  /\ leased' = IF w \in Flushers THEN leased ELSE leased \cup Due(w)
  /\ at' = [at EXCEPT ![w] = "do"]
  /\ UNCHANGED <<accepted, queue, logged, published, bus, dlq, delivery, posts, recounts, active,
                 attempts, cur, faults>>

\* Mutant of LeaseExpires: a claim is for ever.
LeaseIsForever(x) == x \in leased /\ UNCHANGED vars

\* A lease ends whether or not its holder is done with the batch.
LeaseExpires(x) ==
  /\ x \in leased
  /\ leased' = leased \ {x}
  /\ UNCHANGED <<accepted, queue, logged, published, bus, dlq, delivery, posts, recounts, active,
                 attempts, loop, faults>>

(***************************************************************************)
(* One item: what each loop does with it.                                  *)
(***************************************************************************)
\* The audit row and its outbox row commit together, or the write fails.
Record(w, e) ==
  /\ w \in Flushers
  /\ \/ /\ \E k \in 1..MaxRows :
             /\ <<e, k>> \notin logged
             /\ \A j \in 1..(k - 1) : <<e, j>> \in logged
             /\ logged' = logged \cup {<<e, k>>}
        /\ Begin(w, e, "mark")
     \/ Begin(w, e, "fail") /\ UNCHANGED logged
  /\ UNCHANGED <<accepted, queue, published, bus, dlq, delivery, posts, recounts, active, attempts,
                 leased, faults>>

\* The bus keeps one copy per message id; the acknowledgement may be lost.
Publish(w, o) ==
  /\ w \in Publishers
  /\ \/ bus' = bus \cup {o} /\ Begin(w, o, "mark") /\ UNCHANGED faults
     \/ bus' = bus /\ Begin(w, o, "fail") /\ UNCHANGED faults
     \/ bus' = bus \cup {o} /\ Begin(w, o, "fail") /\ Fault
  /\ UNCHANGED <<accepted, queue, logged, published, dlq, delivery, posts, recounts, active,
                 attempts, leased>>

\* The endpoint accepts, refuses, or does not answer; a delivery whose
\* subscription is gone is not posted.  A refusal is handled inside the try,
\* a request that failed in the catch.
AttemptDelivery(w, d) ==
  /\ w \in Dispatchers
  /\ \/ /\ d[2] \in active
        /\ posts' = [posts EXCEPT ![d] = @ + 1]
        /\ Begin(w, d, "mark") \/ Begin(w, d, "fail") \/ Begin(w, d, "caught")
     \/ /\ d[2] \notin active
        /\ Begin(w, d, "drop")
        /\ UNCHANGED posts
  /\ UNCHANGED <<accepted, queue, logged, published, bus, dlq, delivery, recounts, active,
                 attempts, leased, faults>>

(***************************************************************************)
(* Success: the event is deleted, the row marked, the delivery delivered.  *)
(* A failure of that write, before or after its effect, is a failure of    *)
(* the item.                                                               *)
(***************************************************************************)
Settle(w) ==
  /\ queue' = queue \ {Item(w)}
  /\ published' = IF w \in Publishers THEN published \cup {Item(w)} ELSE published
  /\ delivery' = IF w \in Dispatchers THEN [delivery EXCEPT ![Item(w)] = "delivered"] ELSE delivery

\* Mutant of Mark: the webhooks are told before the row is marked.
FanOutFirst(w) ==
  /\ at[w] = "mark"
  /\ \/ /\ w \in Publishers
        /\ delivery' = [d \in Deliveries |->
             IF d[1] = Item(w) /\ d[2] \in active /\ delivery[d] = "none" THEN "pending"
             ELSE delivery[d]]
        /\ Goto(w, "buried")
        /\ UNCHANGED <<queue, published>>
     \/ w \notin Publishers /\ Settle(w) /\ NextItem(w)
  /\ UNCHANGED <<accepted, logged, bus, dlq, posts, recounts, active, attempts, leased, faults>>

Mark(w) ==
  /\ at[w] = "mark"
  /\ \/ /\ Settle(w)
        /\ IF w \in Publishers THEN Goto(w, "fanout") ELSE NextItem(w)
        /\ UNCHANGED faults
     \/ /\ Goto(w, IF w \in Dispatchers THEN "caught" ELSE "fail")
        /\ Fault
        /\ Settle(w) \/ UNCHANGED <<queue, published, delivery>>
  /\ UNCHANGED <<accepted, logged, bus, dlq, posts, recounts, active, attempts, leased>>

\* One delivery for each active subscription, up to the first insert that
\* fails; nobody is told of the rest.
FanOut(w) ==
  /\ at[w] = "fanout"
  /\ \E told \in SUBSET active :
       delivery' = [d \in Deliveries |->
         IF /\ d[1] = Item(w) /\ d[2] \in told /\ delivery[d] = "none"
            /\ \A k \in 1..(d[3] - 1) : delivery[<<d[1], d[2], k>>] # "none"
         THEN "pending" ELSE delivery[d]]
  /\ NextItem(w)
  /\ UNCHANGED <<accepted, queue, logged, published, bus, dlq, posts, recounts, active, attempts,
                 leased, faults>>

(***************************************************************************)
(* Failure.                                                                *)
(***************************************************************************)
Limit(w) == IF w \in Dispatchers THEN MaxAttempts ELSE MaxRetries

\* Mutant of Exhausted: the count already includes this attempt.
ExhaustedEarly(w) == cur[w][2] + 2 >= Limit(w)

Exhausted(w) == cur[w][2] + 1 >= Limit(w)

\* recordFailure: no row matches once the event is deleted.
RecordFailure(w) ==
  /\ attempts' = IF w \in Flushers /\ Item(w) \notin queue
                 THEN attempts ELSE [attempts EXCEPT ![Item(w)] = @ + 1]
  /\ NextItem(w)

\* Mutant of HandleFailure: what is exhausted is dropped.
GiveUp(w) ==
  /\ at[w] \in {"fail", "caught"}
  /\ \/ ~Exhausted(w) /\ RecordFailure(w) /\ UNCHANGED <<queue, published, delivery>>
     \/ Exhausted(w) /\ Settle(w) /\ NextItem(w) /\ UNCHANGED attempts
  /\ UNCHANGED <<accepted, logged, bus, dlq, posts, recounts, active, leased, faults>>

\* A retry later, or the dead letter: a message for events and outbox rows,
\* a status for deliveries.
HandleFailure(w) ==
  /\ at[w] \in {"fail", "caught"}
  /\ \/ /\ ~Exhausted(w)
        /\ RecordFailure(w)
        /\ UNCHANGED <<dlq, delivery, faults>>
     \/ /\ Exhausted(w) /\ w \in Dispatchers
        /\ delivery' = [delivery EXCEPT ![Item(w)] = "dead"]
        /\ NextItem(w)
        /\ UNCHANGED <<dlq, attempts, faults>>
     \/ /\ Exhausted(w) /\ w \notin Dispatchers
        /\ \/ dlq' = dlq \cup {Item(w)} /\ Goto(w, "buried") /\ UNCHANGED <<attempts, faults>>
           \/ Fault /\ RecordFailure(w) /\ UNCHANGED dlq
        /\ UNCHANGED delivery
  /\ UNCHANGED <<accepted, queue, logged, published, bus, posts, recounts, active, leased>>

\* The dispatcher's handleFailure throws inside the try, before or after the
\* effect of its write, and the catch runs it again for the same post.
HandleFailureThrows(w) ==
  /\ w \in Dispatchers
  /\ at[w] = "fail"
  /\ Fault
  /\ \/ UNCHANGED <<attempts, recounts, delivery>>
     \/ /\ ~Exhausted(w)
        /\ attempts' = [attempts EXCEPT ![Item(w)] = @ + 1]
        /\ recounts' = [recounts EXCEPT ![Item(w)] = @ + 1]
        /\ UNCHANGED delivery
     \/ /\ Exhausted(w)
        /\ delivery' = [delivery EXCEPT ![Item(w)] = "dead"]
        /\ UNCHANGED <<attempts, recounts>>
  /\ Goto(w, "caught")
  /\ UNCHANGED <<accepted, queue, logged, published, bus, dlq, posts, active, leased>>

\* The item of a dead letter is deleted or marked; if that fails it stays.
AfterDeadLetter(w) ==
  /\ at[w] = "buried"
  /\ \/ Settle(w) /\ NextItem(w) /\ UNCHANGED <<attempts, faults>>
     \/ Fault /\ RecordFailure(w) /\ UNCHANGED <<queue, published, delivery>>
  /\ UNCHANGED <<accepted, logged, bus, dlq, posts, recounts, active, leased>>

Drop(w) ==
  /\ at[w] = "drop"
  /\ delivery' = [delivery EXCEPT ![Item(w)] = "dropped"]
  /\ NextItem(w)
  /\ UNCHANGED <<accepted, queue, logged, published, bus, dlq, posts, recounts, active, attempts,
                 leased, faults>>

\* The process dies, or a write of the failure path throws out of the batch.
Abort(w) ==
  /\ at[w] # "idle"
  /\ Fault
  /\ batch' = [batch EXCEPT ![w] = {}]
  /\ cur' = [cur EXCEPT ![w] = None]
  /\ at' = [at EXCEPT ![w] = "idle"]
  /\ UNCHANGED <<accepted, queue, logged, published, bus, dlq, delivery, posts, recounts, active,
                 attempts, leased>>

\* PUT and DELETE of a subscription.
SetActive(s) ==
  /\ \/ s \in active /\ active' = active \ {s}
     \/ s \notin active /\ active' = active \cup {s}
  /\ UNCHANGED <<accepted, queue, logged, published, bus, dlq, delivery, posts, recounts,
                 attempts, leased, loop, faults>>

Work(w) ==
  \/ FindBatch(w)
  \/ \E e \in Events : Record(w, e)
  \/ \E o \in Rows : Publish(w, o)
  \/ \E d \in Deliveries : AttemptDelivery(w, d)
  \/ Mark(w) \/ FanOut(w) \/ HandleFailure(w) \/ AfterDeadLetter(w) \/ Drop(w)

Next ==
  \/ \E e \in Events : Enqueue(e)
  \/ \E x \in Rows \cup Deliveries : LeaseExpires(x)
  \/ \E w \in Loops : Work(w) \/ HandleFailureThrows(w) \/ Abort(w)
  \/ \E s \in Subscriptions : SetActive(s)

\* The timers keep firing, calls end, and leases run out.
Fairness ==
  /\ \A w \in Loops : WF_vars(Work(w))
  /\ \A x \in Rows \cup Deliveries : WF_vars(LeaseExpires(x))

Spec == Init /\ [][Next]_vars /\ Fairness

(***************************************************************************)
(* Properties.                                                             *)
(***************************************************************************)
RowsOf(e) == {o \in logged : o[1] = e}

\* No audit event is silently dropped: it is queued, or logged, or a dead
\* letter; and what is logged is still to be published, or on the bus, or a
\* dead letter.
EventIsKept ==
  /\ \A e \in accepted : e \in queue \/ RowsOf(e) # {} \/ e \in dlq
  /\ \A o \in logged : o \notin published \/ o \in bus \/ o \in dlq

\* The audit queue and the outbox keep what a relay promises: nothing is taken
\* off the queue before it is logged or a dead letter, nothing is marked
\* published before it is on the bus or a dead letter, and neither the log nor
\* the bus gets what was not handed over.
Audit == INSTANCE Relay WITH
  Items <- Events, sent <- accepted, owed <- queue,
  arrived <- {e \in Events : RowsOf(e) # {}}, buried <- dlq \cap Events
Outbox == INSTANCE Relay WITH
  Items <- Rows, sent <- logged, owed <- logged \ published,
  arrived <- bus, buried <- dlq \cap Rows

EventsAreRelayed == Audit!Spec /\ Outbox!Spec

\* A webhook is given up only after MaxAttempts posts, less one for each post
\* that was counted twice because the answer to recordFailure was lost; two
\* dispatchers that hold one delivery and count from stale attempts lose no post.
NoEarlyGiveUp ==
  \A d \in Deliveries : delivery[d] = "dead" => posts[d] + recounts[d] >= MaxAttempts

\* Every accepted event reaches the bus or the dead-letter subject.
EventSettles ==
  \A e \in Events : e \in accepted ~> e \in dlq \/ \E o \in RowsOf(e) : o \in bus \cup dlq

\* Every webhook delivery is delivered or given up.
DeliveryEnds ==
  \A d \in Deliveries : delivery[d] = "pending" ~> delivery[d] # "pending"

================================================================================
