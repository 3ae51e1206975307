--------------------------------- MODULE Handoff ---------------------------------
(***************************************************************************)
(* How an approved claim or an executed swap reaches the schedule.  The    *)
(* marketplace records it in its outbox; publisher instances lease rows    *)
(* and publish them to JetStream, which drops a message id it has seen     *)
(* within its duplicate window; replicas of scheduling-service share one   *)
(* durable consumer and apply each message in a transaction of their own,  *)
(* next to the supervisors' overrides of the same assignments.             *)
(*                                                                         *)
(* A transaction loads the rows without locking them, sets the attributes, *)
(* flushes (which locks the rows), announces the new holders and commits.  *)
(* SQLAlchemy writes only the attributes that differ from what was loaded. *)
(***************************************************************************)
EXTENDS Naturals, Sequences, FiniteSets

CONSTANTS
  Events,        \* outbox events
  Poison,        \* those whose assignment scheduling-service does not know
  Overrides,     \* calls of override_assignment
  Assignments,
  Employees,
  Changes,       \* what each event or override makes of the schedule: the new
                 \* holder of each assignment it names
  FirstHolder,   \* the schedule as it was published
  Publishers,    \* instances of the marketplace's outbox publisher
  Consumers,     \* replicas running the marketplace consumer
  MaxFaults,     \* bound: crashes, lost acknowledgements and transient errors
  MaxCopies      \* bound: stream messages of one event

ASSUME HandoffAssumption ==
  /\ Poison \subseteq Events
  /\ Events \cap Overrides = {}
  /\ Consumers \cap Overrides = {}
  /\ DOMAIN Changes = Events \cup Overrides
  /\ \A x \in Events \cup Overrides : DOMAIN Changes[x] \subseteq Assignments
  /\ \A x \in Events \cup Overrides : \A a \in DOMAIN Changes[x] : Changes[x][a] \in Employees
  /\ FirstHolder \in [Assignments -> Employees]
  /\ MaxFaults \in Nat
  /\ MaxCopies \in Nat

VARIABLES
  row,        \* the outbox row of each event
  leased,     \* whether its claimed_at is younger than OUTBOX_CLAIM_LEASE_SECONDS
  batch,      \* rows a publisher's drain has yet to handle
  published,  \* rows it has published and is about to mark
  stream,     \* AGNO_MARKETPLACE_EVENTS
  remembered, \* message ids inside the stream's duplicate window
  delivery,   \* what the durable consumer knows of each message
  held,       \* messages a replica has fetched and not finished
  tpc,        \* where the transaction of each replica or override is
  job,        \* the message a replica is applying
  seen,       \* the holders a transaction loaded
  holder,     \* shift_assignments.employee_id, committed
  conflicts,  \* employees with a double_booking row in schedule_conflicts
  flagged,    \* those a transaction is about to add
  told,       \* the holder last announced by assignment_changed
  applied,    \* events whose transaction has committed
  faults

outbox == <<row, leased, batch, published>>
broker == <<stream, remembered>>
schedule == <<holder, conflicts, applied>>
tx == <<tpc, job, seen, flagged>>
vars == <<row, leased, batch, published, stream, remembered, delivery, held, tpc, job,
          seen, holder, conflicts, flagged, told, applied, faults>>

Actors == Consumers \cup Overrides
Messages == DOMAIN stream

TypeOK ==
  /\ row \in [Events -> {"none", "unpublished", "published"}]
  /\ leased \in [Events -> BOOLEAN]
  /\ batch \in [Publishers -> SUBSET Events]
  /\ published \in [Publishers -> SUBSET Events]
  /\ stream \in Seq(Events)
  /\ remembered \subseteq Events
  /\ delivery \in [Messages -> {"waiting", "pending", "acked", "terminated"}]
  /\ held \in [Consumers -> SUBSET Messages]
  /\ tpc \in [Actors -> {"idle", "flush", "commit", "ack", "done"}]
  /\ job \in [Consumers -> Nat]
  /\ \A c \in Consumers : tpc[c] # "idle" => job[c] \in Messages
  /\ seen \in [Actors -> [Assignments -> Employees]]
  /\ holder \in [Assignments -> Employees]
  /\ conflicts \subseteq Employees
  /\ flagged \in [Actors -> SUBSET Employees]
  /\ told \in [Assignments -> Employees]
  /\ applied \subseteq Events
  /\ faults \in 0..MaxFaults

Init ==
  /\ row = [e \in Events |-> "none"]
  /\ leased = [e \in Events |-> FALSE]
  /\ batch = [p \in Publishers |-> {}]
  /\ published = [p \in Publishers |-> {}]
  /\ stream = <<>>
  /\ remembered = {}
  /\ delivery = <<>>
  /\ held = [c \in Consumers |-> {}]
  /\ tpc = [t \in Actors |-> "idle"]
  /\ job = [c \in Consumers |-> 0]
  /\ seen = [t \in Actors |-> FirstHolder]
  /\ holder = FirstHolder
  /\ conflicts = {}
  /\ flagged = [t \in Actors |-> {}]
  /\ told = FirstHolder
  /\ applied = {}
  /\ faults = 0

Fault == faults < MaxFaults /\ faults' = faults + 1

(***************************************************************************)
(* The marketplace's side.                                                 *)
(***************************************************************************)
InsertWithinTransaction(e) ==
  /\ row[e] = "none"
  /\ row' = [row EXCEPT ![e] = "unpublished"]
  /\ UNCHANGED <<leased, batch, published, broker, delivery, held, tx, schedule, told, faults>>

\* A tick that finds the last one still draining returns at once.
FindUnpublishedBatch(p) ==
  LET due == {e \in Events : row[e] = "unpublished" /\ ~leased[e]} IN
  /\ batch[p] = {} /\ published[p] = {}
  /\ due # {}
  /\ batch' = [batch EXCEPT ![p] = due]
  /\ leased' = [e \in Events |-> leased[e] \/ e \in due]
  /\ UNCHANGED <<row, published, broker, delivery, held, tx, schedule, told, faults>>

\* Mutant of LeaseExpires: the batch query takes only rows nobody has claimed.
LeaseIsForever(e) == e \notin Events /\ UNCHANGED vars

LeaseExpires(e) ==
  /\ row[e] = "unpublished" /\ leased[e]
  /\ leased' = [leased EXCEPT ![e] = FALSE]
  /\ UNCHANGED <<row, batch, published, broker, delivery, held, tx, schedule, told, faults>>

\* JetStream's side of a publish.
Store(e) ==
  IF e \in remembered
    THEN UNCHANGED <<stream, remembered, delivery>>
    ELSE /\ stream' = Append(stream, e)
         /\ remembered' = remembered \cup {e}
         /\ delivery' = Append(delivery, "waiting")

\* Mutant of Publish: the row counts as published whether or not NATS answered.
PublishBestEffort(p, e) ==
  /\ e \in batch[p] /\ published[p] = {}
  /\ \/ Store(e) /\ UNCHANGED faults
     \/ Fault /\ UNCHANGED <<stream, remembered, delivery>>
  /\ batch' = [batch EXCEPT ![p] = @ \ {e}]
  /\ published' = [published EXCEPT ![p] = {e}]
  /\ UNCHANGED <<row, leased, held, tx, schedule, told>>

Publish(p, e) ==
  /\ e \in batch[p] /\ published[p] = {}
  /\ Store(e)
  /\ batch' = [batch EXCEPT ![p] = @ \ {e}]
  /\ published' = [published EXCEPT ![p] = {e}]
  /\ UNCHANGED <<row, leased, held, tx, schedule, told, faults>>

\* NATS cannot be reached, or its acknowledgement is lost: recordFailure leaves the
\* lease as it is, and the drain goes on with the next row.
RecordFailure(p, e) ==
  /\ e \in batch[p] /\ published[p] = {}
  /\ Fault
  /\ Store(e) \/ UNCHANGED <<stream, remembered, delivery>>
  /\ batch' = [batch EXCEPT ![p] = @ \ {e}]
  /\ UNCHANGED <<row, leased, published, held, tx, schedule, told>>

MarkPublished(p) ==
  /\ published[p] # {}
  /\ row' = [e \in Events |-> IF e \in published[p] THEN "published" ELSE row[e]]
  /\ published' = [published EXCEPT ![p] = {}]
  /\ UNCHANGED <<leased, batch, broker, delivery, held, tx, schedule, told, faults>>

PublisherDies(p) ==
  /\ batch[p] # {} \/ published[p] # {}
  /\ Fault
  /\ batch' = [batch EXCEPT ![p] = {}]
  /\ published' = [published EXCEPT ![p] = {}]
  /\ UNCHANGED <<row, leased, broker, delivery, held, tx, schedule, told>>

\* The duplicate window passes while somebody may still publish the event again.
DuplicateWindowPasses(e) ==
  /\ e \in remembered
  /\ row[e] = "unpublished" \/ \E p \in Publishers : e \in batch[p]
  /\ Cardinality({n \in Messages : stream[n] = e}) < MaxCopies
  /\ remembered' = remembered \ {e}
  /\ UNCHANGED <<outbox, stream, delivery, held, tx, schedule, told, faults>>

(***************************************************************************)
(* The schedule's transactions, of replicas and overrides alike.           *)
(***************************************************************************)
Change(t) == Changes[IF t \in Overrides THEN t ELSE stream[job[t]]]

\* The row lock a flush takes and the commit releases.
LockedBy(t, a) == tpc[t] = "commit" /\ a \in DOMAIN Change(t)

\* The holder a flushed transaction leaves behind.
NewHolder(t, a) ==
  IF a \in DOMAIN Change(t) /\ Change(t)[a] # seen[t][a] THEN Change(t)[a] ELSE holder[a]

\* Employees the transaction gives an assignment to, who hold another one of the
\* schedule, all of which overlap here.
DoubleBooked(t) ==
  {Change(t)[a] : a \in {b \in DOMAIN Change(t) :
     \E c \in Assignments \ {b} : NewHolder(t, c) = Change(t)[b]}}

LoadAssignment(t) ==
  /\ tpc[t] = "idle"
  /\ tpc' = [tpc EXCEPT ![t] = "flush"]
  /\ seen' = [seen EXCEPT ![t] = holder]
  /\ UNCHANGED <<outbox, broker, delivery, held, flagged, schedule, told, faults>>

StartOverride(o) == LoadAssignment(o) /\ UNCHANGED job

\* Mutant of Flush: the holders are announced before the rows are locked.
AnnounceBeforeLock(t) ==
  /\ tpc[t] = "flush"
  /\ tpc' = [tpc EXCEPT ![t] = "commit"]
  /\ flagged' = [flagged EXCEPT ![t] = DoubleBooked(t)]
  /\ told' = [a \in Assignments |-> IF a \in DOMAIN Change(t) THEN NewHolder(t, a) ELSE told[a]]
  /\ UNCHANGED <<outbox, broker, delivery, held, job, seen, schedule, faults>>

\* The double-booking query flushes first and reads what others have committed; the
\* refreshed rows are announced before the commit.
Flush(t) ==
  /\ tpc[t] = "flush"
  /\ \A a \in DOMAIN Change(t) : \A u \in Actors \ {t} : ~LockedBy(u, a)
  /\ tpc' = [tpc EXCEPT ![t] = "commit"]
  /\ flagged' = [flagged EXCEPT ![t] = DoubleBooked(t)]
  /\ told' = [a \in Assignments |-> IF a \in DOMAIN Change(t) THEN NewHolder(t, a) ELSE told[a]]
  /\ UNCHANGED <<outbox, broker, delivery, held, job, seen, schedule, faults>>

Commit(t) ==
  /\ tpc[t] = "commit"
  /\ tpc' = [tpc EXCEPT ![t] = IF t \in Overrides THEN "done" ELSE "ack"]
  /\ holder' = [a \in Assignments |-> NewHolder(t, a)]
  /\ conflicts' = conflicts \cup flagged[t]
  /\ flagged' = [flagged EXCEPT ![t] = {}]
  /\ applied' = IF t \in Overrides THEN applied ELSE applied \cup {stream[job[t]]}
  /\ UNCHANGED <<outbox, broker, delivery, held, job, seen, told, faults>>

\* An exception rolls an override back: a missing or archived schedule, or an error.
OverrideFails(t) ==
  /\ tpc[t] \in {"idle", "flush", "commit"}
  /\ Fault
  /\ tpc' = [tpc EXCEPT ![t] = "done"]
  /\ flagged' = [flagged EXCEPT ![t] = {}]
  /\ UNCHANGED <<outbox, broker, delivery, held, job, seen, schedule, told>>

(***************************************************************************)
(* The marketplace consumer.                                               *)
(***************************************************************************)
Fetch(c) ==
  LET waiting == {n \in Messages : delivery[n] = "waiting"} IN
  /\ held[c] = {}
  /\ waiting # {}
  /\ held' = [held EXCEPT ![c] = waiting]
  /\ delivery' = [n \in Messages |-> IF n \in waiting THEN "pending" ELSE delivery[n]]
  /\ UNCHANGED <<outbox, broker, tx, schedule, told, faults>>

\* Mutant of HandleMessage: the message at hand is not the one recorded.
HandleWithoutMessage(c, n) ==
  /\ n \in held[c] /\ stream[n] \notin Poison
  /\ UNCHANGED job
  /\ LoadAssignment(c)

\* One message after the other; a redelivered one may come before or after the rest.
HandleMessage(c, n) ==
  /\ n \in held[c] /\ stream[n] \notin Poison
  /\ job' = [job EXCEPT ![c] = n]
  /\ LoadAssignment(c)

Finish(c) ==
  /\ tpc' = [tpc EXCEPT ![c] = "idle"]
  /\ flagged' = [flagged EXCEPT ![c] = {}]
  /\ held' = [held EXCEPT ![c] = @ \ {job[c]}]
  /\ job' = [job EXCEPT ![c] = 0]
  /\ seen' = [seen EXCEPT ![c] = FirstHolder]
  /\ UNCHANGED <<outbox, broker, schedule, told>>

Ack(c) ==
  /\ tpc[c] = "ack"
  /\ delivery' = [delivery EXCEPT ![job[c]] = "acked"]
  /\ Finish(c)
  /\ UNCHANGED faults

\* A DomainError, KeyError or ValueError: term() stops the redelivery.
TerminateToDlq(c, n) ==
  /\ tpc[c] = "idle"
  /\ n \in held[c] /\ stream[n] \in Poison
  /\ delivery' = [delivery EXCEPT ![n] = "terminated"]
  /\ held' = [held EXCEPT ![c] = @ \ {n}]
  /\ UNCHANGED <<outbox, broker, tx, schedule, told, faults>>

\* Any other exception, the failure of the acknowledgement itself included.
Nak(c) ==
  /\ job[c] # 0
  /\ Fault
  /\ delivery' = IF delivery[job[c]] = "pending"
                   THEN [delivery EXCEPT ![job[c]] = "waiting"] ELSE delivery
  /\ Finish(c)

\* The acknowledgement wait ends, whether its replica has died or is still at work.
Redeliver(n) ==
  /\ delivery[n] = "pending"
  /\ delivery' = [delivery EXCEPT ![n] = "waiting"]
  /\ UNCHANGED <<outbox, broker, held, tx, schedule, told, faults>>

\* The process dies in the middle of a batch, and its successor starts the loop again
\* with nothing in hand.  A nak() or term() that raises ends the task too, and there
\* the process lives on without its consumer, for nothing starts the task again: that
\* an operator or the orchestrator restarts such a process is part of Fairness.
ConsumerDies(c) ==
  /\ held[c] # {}
  /\ Fault
  /\ tpc' = [tpc EXCEPT ![c] = "idle"]
  /\ flagged' = [flagged EXCEPT ![c] = {}]
  /\ held' = [held EXCEPT ![c] = {}]
  /\ job' = [job EXCEPT ![c] = 0]
  /\ seen' = [seen EXCEPT ![c] = FirstHolder]
  /\ UNCHANGED <<outbox, broker, delivery, schedule, told>>

(***************************************************************************)
(* The specification.                                                      *)
(***************************************************************************)
Drain(p) ==
  \/ FindUnpublishedBatch(p)
  \/ \E e \in Events : Publish(p, e)
  \/ MarkPublished(p)

Consume(c) ==
  \/ Fetch(c)
  \/ \E n \in Messages : HandleMessage(c, n) \/ TerminateToDlq(c, n)
  \/ Ack(c)

Next ==
  \/ \E e \in Events :
       \/ InsertWithinTransaction(e)
       \/ LeaseExpires(e)
       \/ DuplicateWindowPasses(e)
       \/ \E p \in Publishers : RecordFailure(p, e)
  \/ \E p \in Publishers : Drain(p) \/ PublisherDies(p)
  \/ \E t \in Actors : Flush(t) \/ Commit(t)
  \/ \E o \in Overrides : StartOverride(o) \/ OverrideFails(o)
  \/ \E c \in Consumers : Consume(c) \/ Nak(c) \/ ConsumerDies(c)
  \/ \E n \in Messages : Redeliver(n)

\* Both loops go on, leases and acknowledgement waits end, transactions run to their
\* end; an override may never be made.  That the consumer's loop goes on supposes that
\* the connection to NATS is not closed for good while the process lives.
Fairness ==
  /\ \A p \in Publishers : WF_vars(Drain(p))
  /\ \A c \in Consumers : WF_vars(Consume(c))
  /\ \A t \in Actors : WF_vars(Flush(t) \/ Commit(t))
  /\ \A e \in Events : WF_vars(LeaseExpires(e))
  /\ WF_vars(\E n \in Messages : Redeliver(n))

Spec == Init /\ [][Next]_vars /\ Fairness

(***************************************************************************)
(* Properties.                                                             *)
(***************************************************************************)
\* Nothing is lost between the two databases: an event whose row is marked published
\* is in the schedule, or some message of it will still be delivered, or it was
\* terminated as poison.
NothingIsLost ==
  \A e \in Events : row[e] = "published" =>
    \/ e \in applied
    \/ \E n \in Messages : stream[n] = e /\ delivery[n] \in {"waiting", "pending"}
    \/ e \in Poison

\* Outbox, stream and consumer together relay what the marketplace has decided:
\* a row is marked, and a message answered, only once the event is in the
\* schedule, is still to be delivered, or was terminated; and nothing is
\* published or applied that no transaction of the marketplace has recorded.
InTransit(e) == \E n \in Messages : stream[n] = e /\ delivery[n] \in {"waiting", "pending"}
Terminated(e) == \E n \in Messages : stream[n] = e /\ delivery[n] = "terminated"

Relayed == INSTANCE Relay WITH
  Items <- Events,
  sent <- {e \in Events : row[e] # "none"},
  owed <- {e \in Events : row[e] = "unpublished" \/ InTransit(e)},
  arrived <- applied,
  buried <- {e \in Events : Terminated(e)}

DecisionsAreRelayed == Relayed!Spec

\* However events, redeliveries and overrides interleave, the last announcement made
\* of an assignment before its holder changes names the new holder.
ChangeIsAnnounced ==
  [][\A a \in Assignments : holder'[a] # holder[a] => told[a] = holder'[a]]_vars

\* Every approval recorded in the outbox reaches the schedule, or is terminated.
EventSettles ==
  \A e \in Events :
    row[e] = "unpublished" ~>
      e \in applied \/ \E n \in Messages : stream[n] = e /\ delivery[n] = "terminated"
================================================================================
