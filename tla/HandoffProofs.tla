-------------------------------- MODULE HandoffProofs --------------------------------
(***************************************************************************)
(* Nothing is lost between the marketplace's outbox and the schedule, and  *)
(* every change of a holder was announced, for any number of events,       *)
(* overrides, instances, faults and copies.                                *)
(***************************************************************************)
EXTENDS Handoff, SequenceTheorems, TLAPS

OnStream(e) == \E n \in Messages : stream[n] = e

\* What is remembered, about to be marked, or marked is on the stream.
Streamed ==
  \A e \in Events :
    e \in remembered \/ row[e] = "published" \/ (\E p \in Publishers : e \in published[p])
      => OnStream(e)

\* A message is acknowledged after its transaction, and terminated only as poison.
Answered ==
  /\ \A n \in Messages :
       /\ delivery[n] = "acked" => stream[n] \in applied
       /\ delivery[n] = "terminated" => stream[n] \in Poison
  /\ \A c \in Consumers : tpc[c] = "ack" => stream[job[c]] \in applied

\* A replica has a message at hand only while it applies it.
Working == \A c \in Consumers : job[c] # 0 => tpc[c] # "idle"

\* A flushed transaction has announced what it will commit,
Announced ==
  \A t \in Actors : tpc[t] = "commit" => \A a \in DOMAIN Change(t) : told[a] = NewHolder(t, a)

\* and has its rows to itself.
Alone ==
  \A t \in Actors : \A u \in Actors \ {t} : \A a \in Assignments :
    ~(LockedBy(t, a) /\ LockedBy(u, a))

IInv == TypeOK /\ Streamed /\ Answered /\ Working /\ Announced /\ Alone

(***************************************************************************)
(* The transactions.                                                       *)
(***************************************************************************)
LEMMA ActorsDiffer ==
  /\ \A t \in Overrides : t \in Actors /\ t \notin Consumers
  /\ \A t \in Consumers : t \in Actors /\ t \notin Overrides
  /\ \A t \in Actors : t \in Overrides \/ t \in Consumers
  BY HandoffAssumption DEF Actors

LEMMA ChangeType ==
  ASSUME TypeOK, NEW t \in Actors, tpc[t] # "idle"
  PROVE  /\ DOMAIN Change(t) \subseteq Assignments
         /\ \A a \in DOMAIN Change(t) : Change(t)[a] \in Employees
<1>1. CASE t \in Overrides
  BY <1>1, HandoffAssumption DEF Change
<1>2. CASE t \notin Overrides
  <2>1. t \in Consumers
    BY <1>2, ActorsDiffer
  <2>2. job[t] \in DOMAIN stream /\ stream \in Seq(Events)
    BY <2>1 DEF TypeOK, Messages
  <2>3. stream[job[t]] \in Events
    BY <2>2
  <2> QED BY <1>2, <2>3, HandoffAssumption DEF Change
<1> QED BY <1>1, <1>2

LEMMA NewHolderType ==
  ASSUME TypeOK, NEW t \in Actors, tpc[t] # "idle", NEW a \in Assignments
  PROVE  /\ NewHolder(t, a) \in Employees
         /\ NewHolder(t, a) # holder[a] => a \in DOMAIN Change(t)
<1>1. holder[a] \in Employees
  BY DEF TypeOK
<1> QED BY <1>1, ChangeType DEF NewHolder

\* The stream only grows at its end.
Extends ==
  /\ Messages \subseteq Messages'
  /\ \A n \in Messages : stream'[n] = stream[n]

\* Nobody enters a transaction's last part, and the rows stay as they are.
Quiet ==
  /\ \A t \in Actors :
       tpc'[t] = "commit" =>
         /\ tpc[t] = "commit"
         /\ t \in Consumers => job'[t] = job[t]
         /\ seen'[t] = seen[t]
  /\ holder' = holder
  /\ told' = told

LEMMA SameChange ==
  ASSUME TypeOK, Extends, NEW t \in Actors, tpc[t] # "idle",
         t \in Consumers => job'[t] = job[t]
  PROVE  Change(t)' = Change(t)
<1>1. CASE t \in Overrides
  BY <1>1 DEF Change
<1>2. CASE t \notin Overrides
  <2>1. t \in Consumers
    BY <1>2, ActorsDiffer
  <2>2. job[t] \in Messages
    BY <2>1 DEF TypeOK
  <2>3. stream'[job'[t]] = stream[job[t]]
    BY <2>1, <2>2 DEF Extends
  <2> QED BY <1>2, <2>3 DEF Change
<1> QED BY <1>1, <1>2

LEMMA QuietStep ==
  ASSUME IInv, Extends, Quiet
  PROVE  Announced' /\ Alone'
<1>1. ASSUME NEW t \in Actors, tpc'[t] = "commit"
      PROVE  /\ tpc[t] = "commit" /\ Change(t)' = Change(t)
             /\ \A a : NewHolder(t, a)' = NewHolder(t, a)
  <2>1. tpc[t] = "commit" /\ seen'[t] = seen[t] /\ holder' = holder
    BY <1>1 DEF Quiet
  <2>2. Change(t)' = Change(t)
    BY <1>1, <2>1, SameChange DEF Quiet, IInv
  <2> QED BY <2>1, <2>2 DEF NewHolder
<1>2. Announced'
  BY <1>1 DEF Announced, IInv, Quiet
<1>3. \A t \in Actors : \A a \in Assignments : LockedBy(t, a)' => LockedBy(t, a)
  BY <1>1 DEF LockedBy
<1>4. Alone'
  BY <1>3 DEF Alone, IInv
<1> QED BY <1>2, <1>4

LEMMA FlushStep ==
  ASSUME IInv, NEW t \in Actors, Flush(t)
  PROVE  Announced' /\ Alone'
<1>1. /\ tpc[t] = "flush"
      /\ \A a \in DOMAIN Change(t) : \A u \in Actors \ {t} : ~LockedBy(u, a)
      /\ tpc' = [tpc EXCEPT ![t] = "commit"]
      /\ told' = [a \in Assignments |->
                    IF a \in DOMAIN Change(t) THEN NewHolder(t, a) ELSE told[a]]
      /\ job' = job /\ seen' = seen /\ holder' = holder /\ stream' = stream
  BY DEF Flush, outbox, broker, schedule
<1>2. tpc'[t] = "commit" /\ \A u \in Actors \ {t} : tpc'[u] = tpc[u]
  BY <1>1 DEF IInv, TypeOK
<1>3. \A u : Change(u)' = Change(u) /\ \A a : NewHolder(u, a)' = NewHolder(u, a)
  BY <1>1 DEF Change, NewHolder
<1>4. \A u \in Actors \ {t} : \A a : LockedBy(u, a)' <=> LockedBy(u, a)
  BY <1>2, <1>3 DEF LockedBy
<1>5. Announced'
  <2> SUFFICES ASSUME NEW u \in Actors, tpc'[u] = "commit", NEW a \in DOMAIN Change(u)
               PROVE  told'[a] = NewHolder(u, a)
    BY <1>3 DEF Announced
  <2>1. CASE u = t
    <3>1. a \in Assignments
      BY <1>1, <2>1, ChangeType DEF IInv
    <3> QED BY <1>1, <2>1, <3>1
  <2>2. CASE u # t
    <3>1. tpc[u] = "commit"
      BY <1>2, <2>2
    <3>2. a \in Assignments
      BY <3>1, ChangeType DEF IInv
    <3>3. a \notin DOMAIN Change(t)
      BY <1>1, <2>2, <3>1 DEF LockedBy
    <3> QED BY <1>1, <3>1, <3>2, <3>3 DEF Announced, IInv
  <2> QED BY <2>1, <2>2
<1>6. \A a \in Assignments : LockedBy(t, a)' => \A u \in Actors \ {t} : ~LockedBy(u, a)
  BY <1>1, <1>3 DEF LockedBy
<1>7. Alone'
  BY <1>4, <1>6 DEF Alone, IInv
<1> QED BY <1>5, <1>7

LEMMA CommitStep ==
  ASSUME IInv, NEW t \in Actors, Commit(t)
  PROVE  /\ Announced' /\ Alone'
         /\ holder' \in [Assignments -> Employees]
         /\ \A a \in Assignments : holder'[a] # holder[a] => told[a] = holder'[a]
<1>1. /\ tpc[t] = "commit"
      /\ tpc' = [tpc EXCEPT ![t] = IF t \in Overrides THEN "done" ELSE "ack"]
      /\ holder' = [a \in Assignments |-> NewHolder(t, a)]
      /\ told' = told /\ job' = job /\ seen' = seen /\ stream' = stream
  BY DEF Commit, broker
<1>2. tpc'[t] # "commit" /\ \A u \in Actors \ {t} : tpc'[u] = tpc[u]
  BY <1>1 DEF IInv, TypeOK
<1>3. holder' \in [Assignments -> Employees]
  BY <1>1, NewHolderType DEF IInv
<1>4. \A a \in Assignments : holder'[a] # holder[a] => a \in DOMAIN Change(t)
  BY <1>1, NewHolderType DEF IInv
<1>5. \A a \in Assignments : holder'[a] # holder[a] => told[a] = holder'[a]
  BY <1>1, <1>4 DEF IInv, Announced
<1>6. \A u : Change(u)' = Change(u)
  BY <1>1 DEF Change
<1>7. \A u \in Actors : \A a : LockedBy(u, a)' => LockedBy(u, a) /\ u # t
  BY <1>2, <1>6 DEF LockedBy
<1>8. Alone'
  BY <1>7 DEF Alone, IInv
<1>9. Announced'
  <2> SUFFICES ASSUME NEW u \in Actors, tpc'[u] = "commit", NEW a \in DOMAIN Change(u)
               PROVE  told'[a] = NewHolder(u, a)'
    BY <1>6 DEF Announced
  <2>1. u # t /\ tpc[u] = "commit"
    BY <1>2
  <2>2. a \in Assignments
    BY <2>1, ChangeType DEF IInv
  <2>3. a \notin DOMAIN Change(t)
    BY <1>1, <2>1, <2>2 DEF IInv, Alone, LockedBy
  <2>4. holder'[a] = holder[a]
    BY <1>4, <2>2, <2>3
  <2>5. NewHolder(u, a)' = NewHolder(u, a)
    BY <1>1, <1>6, <2>4 DEF NewHolder
  <2> QED BY <1>1, <2>1, <2>5 DEF IInv, Announced
<1> QED BY <1>3, <1>5, <1>8, <1>9

(***************************************************************************)
(* The stream.                                                             *)
(***************************************************************************)
Marks == {"waiting", "pending", "acked", "terminated"}

LEMMA FunctionIsSeq ==
  ASSUME NEW S, NEW n \in Nat, NEW f \in [1..n -> S]
  PROVE  f \in Seq(S) /\ Len(f) = n
<1>1. f \in Seq(S)
  BY SeqDef
<1> QED BY <1>1, LenProperties

LEMMA StoreStep ==
  ASSUME TypeOK, NEW e \in Events, Store(e)
  PROVE  /\ stream' \in Seq(Events)
         /\ remembered' \subseteq Events
         /\ delivery' \in [Messages' -> Marks]
         /\ Extends
         /\ \A n \in Messages' :
              (n \in Messages /\ delivery'[n] = delivery[n]) \/ delivery'[n] = "waiting"
         /\ e \in remembered \/ OnStream(e)'
         /\ \A x \in remembered' : x \in remembered \/ OnStream(x)'
<1>1. CASE e \in remembered
  BY <1>1 DEF Store, TypeOK, Messages, Marks, Extends
<1>2. CASE e \notin remembered
  <2>1. /\ stream' = Append(stream, e) /\ delivery' = Append(delivery, "waiting")
        /\ remembered' = remembered \cup {e}
    BY <1>2 DEF Store
  <2>2. stream \in Seq(Events) /\ Len(stream) \in Nat /\ Messages = 1..Len(stream)
    BY DEF TypeOK, Messages
  <2>3. /\ stream' \in Seq(Events) /\ Len(stream') = Len(stream) + 1
        /\ Messages' = 1..(Len(stream) + 1)
        /\ stream'[Len(stream) + 1] = e
        /\ \A n \in Messages : stream'[n] = stream[n]
    BY <2>1, <2>2 DEF Messages
  <2>4. delivery \in Seq(Marks) /\ Len(delivery) = Len(stream) /\ "waiting" \in Marks
    <3>1. delivery \in [1..Len(stream) -> Marks] /\ "waiting" \in Marks
      BY <2>2 DEF TypeOK, Marks
    <3> HIDE DEF Marks
    <3> QED BY <2>2, <3>1, FunctionIsSeq
  <2>5. /\ Append(delivery, "waiting") \in Seq(Marks)
        /\ Len(Append(delivery, "waiting")) = Len(stream) + 1
        /\ Append(delivery, "waiting")[Len(stream) + 1] = "waiting"
        /\ \A n \in Messages : Append(delivery, "waiting")[n] = delivery[n]
    BY <2>2, <2>4
  <2>10. /\ delivery' \in [1..(Len(stream) + 1) -> Marks]
         /\ delivery'[Len(stream) + 1] = "waiting"
         /\ \A n \in Messages : delivery'[n] = delivery[n]
    BY <2>1, <2>5, LenProperties
  <2>6. OnStream(e)'
    BY <2>2, <2>3 DEF OnStream
  <2>7. Extends
    BY <2>2, <2>3 DEF Extends
  <2>8. \A n \in Messages' :
          (n \in Messages /\ delivery'[n] = delivery[n]) \/ delivery'[n] = "waiting"
    BY <2>2, <2>3, <2>10
  <2>9. remembered' \subseteq Events /\ \A x \in remembered' : x \in remembered \/ OnStream(x)'
    BY <2>1, <2>6 DEF TypeOK
  <2> QED BY <2>3, <2>10, <2>6, <2>7, <2>8, <2>9
<1> QED BY <1>1, <1>2

LEMMA StillOnStream ==
  ASSUME Extends
  PROVE  \A e : OnStream(e) => OnStream(e)'
  BY DEF Extends, OnStream

LEMMA SameStream ==
  ASSUME UNCHANGED stream
  PROVE  Extends /\ Messages' = Messages
  BY DEF Extends, Messages

(***************************************************************************)
(* The steps.                                                              *)
(***************************************************************************)
LEMMA InitHolds == Init => IInv
<1> SUFFICES ASSUME Init PROVE IInv
  OBVIOUS
<1>1. stream = <<>> /\ delivery = <<>> /\ Messages = {} /\ stream \in Seq(Events)
  BY DEF Init, Messages
<1>2. delivery \in [Messages -> Marks]
  <2>1. <<>> \in Seq(Marks) /\ Len(<<>>) = 0 /\ <<>> \in [1..0 -> Marks]
    BY EmptySeq, LenProperties
  <2>2. 1..0 = {}
    OBVIOUS
  <2> QED BY <1>1, <2>1, <2>2
<1>3. TypeOK
  BY <1>1, <1>2, HandoffAssumption DEF Init, TypeOK, Actors, Marks
<1>4. Streamed
  BY DEF Init, Streamed
<1>5. Answered /\ Working
  BY <1>1, ActorsDiffer DEF Init, Answered, Working
<1>6. Announced /\ Alone
  BY DEF Init, Announced, Alone, LockedBy
<1> QED BY <1>3, <1>4, <1>5, <1>6 DEF IInv

\* Steps of the outbox that leave the stream as it is.
LEMMA OutboxStep ==
  ASSUME IInv,
         UNCHANGED <<stream, delivery, held, tx, schedule, told>>,
         row' \in [Events -> {"none", "unpublished", "published"}],
         leased' \in [Events -> BOOLEAN],
         batch' \in [Publishers -> SUBSET Events],
         published' \in [Publishers -> SUBSET Events],
         remembered' \subseteq remembered,
         faults' \in 0..MaxFaults,
         \A e \in Events :
           row'[e] = "published" => row[e] = "published" \/ \E p \in Publishers : e \in published[p],
         \A p \in Publishers : published'[p] \subseteq published[p]
  PROVE  IInv'
<1>1. /\ stream' = stream /\ delivery' = delivery /\ held' = held
      /\ tpc' = tpc /\ job' = job /\ seen' = seen /\ flagged' = flagged
      /\ holder' = holder /\ conflicts' = conflicts /\ applied' = applied /\ told' = told
  BY DEF tx, schedule
<1>2. Extends /\ Messages' = Messages
  BY <1>1, SameStream
<1>3. TypeOK'
  BY <1>1, <1>2 DEF IInv, TypeOK
<1>4. \A e : OnStream(e)' <=> OnStream(e)
  BY <1>1, <1>2 DEF OnStream
<1>5. Streamed'
  BY <1>4 DEF IInv, Streamed
<1>6. Answered' /\ Working'
  BY <1>1, <1>2 DEF IInv, Answered, Working
<1>7. Quiet
  BY <1>1 DEF Quiet
<1>8. Announced' /\ Alone'
  BY <1>2, <1>7, QuietStep
<1> QED BY <1>3, <1>5, <1>6, <1>8 DEF IInv

LEMMA MarketplaceKeeps ==
  ASSUME IInv,
         \/ \E e \in Events :
              InsertWithinTransaction(e) \/ LeaseExpires(e) \/ DuplicateWindowPasses(e)
         \/ \E p \in Publishers :
              FindUnpublishedBatch(p) \/ MarkPublished(p) \/ PublisherDies(p)
  PROVE  IInv'
<1> USE DEF IInv, TypeOK
<1>1. ASSUME NEW e \in Events, InsertWithinTransaction(e) PROVE IInv'
  <2>1. UNCHANGED <<stream, delivery, held, tx, schedule, told, leased, batch, published, remembered, faults>>
    BY <1>1 DEF InsertWithinTransaction, broker
  <2>2. /\ row' \in [Events -> {"none", "unpublished", "published"}]
        /\ \A x \in Events : row'[x] = "published" => row[x] = "published"
    BY <1>1 DEF InsertWithinTransaction
  <2> QED BY <2>1, <2>2, OutboxStep
<1>2. ASSUME NEW e \in Events, LeaseExpires(e) PROVE IInv'
  <2>1. UNCHANGED <<stream, delivery, held, tx, schedule, told, row, batch, published, remembered, faults>>
    BY <1>2 DEF LeaseExpires, broker
  <2>2. leased' \in [Events -> BOOLEAN]
    BY <1>2 DEF LeaseExpires
  <2> QED BY <2>1, <2>2, OutboxStep
<1>3. ASSUME NEW e \in Events, DuplicateWindowPasses(e) PROVE IInv'
  <2>1. UNCHANGED <<stream, delivery, held, tx, schedule, told, row, leased, batch, published, faults>>
    BY <1>3 DEF DuplicateWindowPasses, outbox
  <2>2. remembered' \subseteq remembered
    BY <1>3 DEF DuplicateWindowPasses
  <2> QED BY <2>1, <2>2, OutboxStep
<1>4. ASSUME NEW p \in Publishers, FindUnpublishedBatch(p) PROVE IInv'
  <2>1. UNCHANGED <<stream, delivery, held, tx, schedule, told, row, published, remembered, faults>>
    BY <1>4 DEF FindUnpublishedBatch, broker
  <2>2. /\ batch' \in [Publishers -> SUBSET Events]
        /\ leased' \in [Events -> BOOLEAN]
    BY <1>4 DEF FindUnpublishedBatch
  <2> QED BY <2>1, <2>2, OutboxStep
<1>5. ASSUME NEW p \in Publishers, MarkPublished(p) PROVE IInv'
  <2>1. UNCHANGED <<stream, delivery, held, tx, schedule, told, leased, batch, remembered, faults>>
    BY <1>5 DEF MarkPublished, broker
  <2>2. /\ row' \in [Events -> {"none", "unpublished", "published"}]
        /\ \A e \in Events : row'[e] = "published" =>
             row[e] = "published" \/ \E q \in Publishers : e \in published[q]
    BY <1>5 DEF MarkPublished
  <2>3. /\ published' \in [Publishers -> SUBSET Events]
        /\ \A q \in Publishers : published'[q] \subseteq published[q]
    BY <1>5 DEF MarkPublished
  <2> QED BY <2>1, <2>2, <2>3, OutboxStep
<1>6. ASSUME NEW p \in Publishers, PublisherDies(p) PROVE IInv'
  <2>1. UNCHANGED <<stream, delivery, held, tx, schedule, told, row, leased, remembered>>
    BY <1>6 DEF PublisherDies, broker
  <2>2. /\ batch' \in [Publishers -> SUBSET Events]
        /\ published' \in [Publishers -> SUBSET Events]
        /\ \A q \in Publishers : published'[q] \subseteq published[q]
    BY <1>6 DEF PublisherDies
  <2>3. faults' \in 0..MaxFaults
    BY <1>6, HandoffAssumption DEF PublisherDies, Fault
  <2> QED BY <2>1, <2>2, <2>3, OutboxStep
<1> QED BY <1>1, <1>2, <1>3, <1>4, <1>5, <1>6

\* A publish, answered or not: what is about to be marked is on the stream.
LEMMA PublishKeeps ==
  ASSUME IInv, NEW p \in Publishers, NEW e \in Events,
         Publish(p, e) \/ RecordFailure(p, e)
  PROVE  IInv'
<1> USE DEF IInv
<1>1. /\ row' = row /\ leased' = leased /\ held' = held
      /\ tpc' = tpc /\ job' = job /\ seen' = seen /\ flagged' = flagged
      /\ holder' = holder /\ conflicts' = conflicts /\ applied' = applied /\ told' = told
  BY DEF Publish, RecordFailure, tx, schedule
<1>2. /\ batch' \in [Publishers -> SUBSET Events]
      /\ faults' \in 0..MaxFaults
  <2>1. batch' = [batch EXCEPT ![p] = @ \ {e}] /\ (Fault \/ UNCHANGED faults)
    BY DEF Publish, RecordFailure
  <2> QED BY <2>1, HandoffAssumption DEF Fault, TypeOK
<1>3. /\ stream' \in Seq(Events)
      /\ remembered' \subseteq Events
      /\ delivery' \in [Messages' -> Marks]
      /\ Extends
      /\ \A n \in Messages' :
           (n \in Messages /\ delivery'[n] = delivery[n]) \/ delivery'[n] = "waiting"
      /\ \A x \in remembered' : x \in remembered \/ OnStream(x)'
  <2>1. CASE Store(e)
    BY <2>1, StoreStep
  <2>2. CASE UNCHANGED <<stream, remembered, delivery>>
    BY <2>2, SameStream DEF TypeOK, Marks
  <2> QED BY <2>1, <2>2 DEF Publish, RecordFailure
<1>4. /\ published' \in [Publishers -> SUBSET Events]
      /\ \A q \in Publishers : \A x \in published'[q] :
           x \in published[q] \/ OnStream(x) \/ OnStream(x)'
  <2>1. CASE Publish(p, e)
    <3>1. e \in remembered \/ OnStream(e)'
      BY <2>1, StoreStep DEF Publish
    <3>2. OnStream(e) \/ OnStream(e)'
      BY <3>1 DEF Streamed
    <3> QED BY <2>1, <3>2 DEF Publish, TypeOK
  <2>2. CASE RecordFailure(p, e)
    BY <2>2 DEF RecordFailure, TypeOK
  <2> QED BY <2>1, <2>2
<1>5. TypeOK'
  <2>1. \A c \in Consumers : tpc'[c] # "idle" => job'[c] \in Messages'
    BY <1>1, <1>3 DEF TypeOK, Extends
  <2>2. held' \in [Consumers -> SUBSET Messages']
    BY <1>1, <1>3 DEF TypeOK, Extends
  <2> QED BY <1>1, <1>2, <1>3, <1>4, <2>1, <2>2 DEF TypeOK, Marks
<1>6. Streamed'
  BY <1>1, <1>3, <1>4, StillOnStream DEF Streamed
<1>7. Answered'
  <2>1. \A c \in Consumers : tpc[c] = "ack" => stream'[job[c]] = stream[job[c]]
    BY <1>3 DEF TypeOK, Extends
  <2>2. \A n \in Messages' :
          delivery'[n] \in {"acked", "terminated"} =>
            n \in Messages /\ delivery'[n] = delivery[n] /\ stream'[n] = stream[n]
    BY <1>3 DEF Extends
  <2> QED BY <1>1, <2>1, <2>2 DEF Answered
<1>8. Working'
  BY <1>1 DEF Working
<1>9. Announced' /\ Alone'
  BY <1>1, <1>3, QuietStep DEF Quiet
<1> QED BY <1>5, <1>6, <1>7, <1>8, <1>9

\* Steps of the schedule and of its consumers: the outbox and the stream stay.
LEMMA ScheduleStep ==
  ASSUME IInv, UNCHANGED <<outbox, broker>>, applied \subseteq applied', TypeOK',
         Answered', Working', Announced' /\ Alone'
  PROVE  IInv'
<1>1. row' = row /\ published' = published /\ stream' = stream /\ remembered' = remembered
  BY DEF outbox, broker
<1>2. Streamed'
  BY <1>1 DEF IInv, Streamed, OnStream, Messages
<1> QED BY <1>2 DEF IInv

LEMMA LoadKeeps ==
  ASSUME IInv, NEW t \in Actors, LoadAssignment(t),
         t \in Consumers => \E n \in Messages : job' = [job EXCEPT ![t] = n],
         t \in Overrides => job' = job
  PROVE  IInv'
<1> USE DEF IInv
<1>1. /\ tpc[t] = "idle"
      /\ tpc' = [tpc EXCEPT ![t] = "flush"]
      /\ seen' = [seen EXCEPT ![t] = holder]
      /\ UNCHANGED <<outbox, broker, delivery, held, flagged, schedule, told, faults>>
  BY DEF LoadAssignment
<1>2. UNCHANGED <<row, leased, batch, published, stream, remembered, delivery, held, flagged,
                  holder, conflicts, applied, told, faults>>
  BY <1>1 DEF outbox, broker, schedule
<1>3. Messages' = Messages /\ Extends
  BY <1>2, SameStream
<1>4. /\ tpc' \in [Actors -> {"idle", "flush", "commit", "ack", "done"}]
      /\ tpc'[t] = "flush"
      /\ \A u \in Actors \ {t} : tpc'[u] = tpc[u]
      /\ seen' \in [Actors -> [Assignments -> Employees]]
      /\ \A u \in Actors \ {t} : seen'[u] = seen[u]
  BY <1>1 DEF TypeOK
<1>5. Messages \subseteq Nat
  BY DEF TypeOK, Messages
<1>6. /\ job' \in [Consumers -> Nat]
      /\ \A c \in Consumers \ {t} : job'[c] = job[c]
      /\ t \in Consumers => job'[t] \in Messages
  BY <1>5, ActorsDiffer DEF TypeOK
<1>7. TypeOK'
  <2>1. \A c \in Consumers : tpc'[c] # "idle" => job'[c] \in Messages'
    BY <1>3, <1>4, <1>6, ActorsDiffer DEF TypeOK
  <2> QED BY <1>2, <1>3, <1>4, <1>6, <2>1 DEF TypeOK
<1>8. Answered' /\ Working'
  BY <1>2, <1>3, <1>4, <1>6, ActorsDiffer DEF Answered, Working
<1>9. Quiet
  BY <1>2, <1>4, <1>6 DEF Quiet
<1>10. Announced' /\ Alone'
  BY <1>3, <1>9, QuietStep
<1> QED BY <1>1, <1>2, <1>7, <1>8, <1>10, ScheduleStep

LEMMA FlushKeeps ==
  ASSUME IInv, NEW t \in Actors, Flush(t)
  PROVE  IInv'
<1> USE DEF IInv
<1>1. /\ tpc[t] = "flush"
      /\ tpc' = [tpc EXCEPT ![t] = "commit"]
      /\ flagged' = [flagged EXCEPT ![t] = DoubleBooked(t)]
      /\ told' = [a \in Assignments |->
                    IF a \in DOMAIN Change(t) THEN NewHolder(t, a) ELSE told[a]]
      /\ UNCHANGED <<outbox, broker>>
  BY DEF Flush
<1>2. UNCHANGED <<row, leased, batch, published, stream, remembered, delivery, held, job, seen,
                  holder, conflicts, applied, faults>>
  BY DEF Flush, outbox, broker, schedule
<1>3. Messages' = Messages
  BY <1>2, SameStream
<1>4. /\ tpc' \in [Actors -> {"idle", "flush", "commit", "ack", "done"}]
      /\ tpc'[t] = "commit"
      /\ \A u \in Actors \ {t} : tpc'[u] = tpc[u]
  BY <1>1 DEF TypeOK
<1>5. told' \in [Assignments -> Employees]
  BY <1>1, NewHolderType DEF TypeOK
<1>6. flagged' \in [Actors -> SUBSET Employees]
  <2>1. DoubleBooked(t) \in SUBSET Employees
    BY <1>1, ChangeType DEF DoubleBooked
  <2> QED BY <1>1, <2>1 DEF TypeOK
<1>7. TypeOK'
  <2>1. \A c \in Consumers : tpc'[c] # "idle" => job'[c] \in Messages'
    BY <1>1, <1>2, <1>3, <1>4, ActorsDiffer DEF TypeOK
  <2> QED BY <1>2, <1>3, <1>4, <1>5, <1>6, <2>1 DEF TypeOK
<1>8. Answered' /\ Working'
  BY <1>2, <1>3, <1>4, ActorsDiffer DEF Answered, Working
<1>9. Announced' /\ Alone'
  BY FlushStep
<1> QED BY <1>1, <1>2, <1>7, <1>8, <1>9, ScheduleStep

LEMMA CommitKeeps ==
  ASSUME IInv, NEW t \in Actors, Commit(t)
  PROVE  IInv'
<1> USE DEF IInv
<1>1. /\ tpc[t] = "commit"
      /\ tpc' = [tpc EXCEPT ![t] = IF t \in Overrides THEN "done" ELSE "ack"]
      /\ conflicts' = conflicts \cup flagged[t]
      /\ flagged' = [flagged EXCEPT ![t] = {}]
      /\ applied' = IF t \in Overrides THEN applied ELSE applied \cup {stream[job[t]]}
      /\ UNCHANGED <<outbox, broker>>
  BY DEF Commit
<1>2. UNCHANGED <<row, leased, batch, published, stream, remembered, delivery, held, job, seen,
                  told, faults>>
  BY DEF Commit, outbox, broker
<1>3. Messages' = Messages
  BY <1>2, SameStream
<1>4. /\ tpc' \in [Actors -> {"idle", "flush", "commit", "ack", "done"}]
      /\ tpc'[t] = (IF t \in Overrides THEN "done" ELSE "ack")
      /\ \A u \in Actors \ {t} : tpc'[u] = tpc[u]
  BY <1>1 DEF TypeOK
<1>5. applied \subseteq applied' /\ applied' \subseteq Events
  <2>1. CASE t \in Overrides
    BY <1>1, <2>1 DEF TypeOK
  <2>2. CASE t \notin Overrides
    <3>1. job[t] \in DOMAIN stream /\ stream \in Seq(Events)
      BY <1>1, <2>2, ActorsDiffer DEF TypeOK, Messages
    <3> QED BY <1>1, <2>2, <3>1 DEF TypeOK
  <2> QED BY <2>1, <2>2
<1>6. conflicts' \subseteq Employees /\ flagged' \in [Actors -> SUBSET Employees]
  BY <1>1 DEF TypeOK
<1>7. holder' \in [Assignments -> Employees] /\ Announced' /\ Alone'
  BY CommitStep
<1>8. TypeOK'
  <2>1. \A c \in Consumers : tpc'[c] # "idle" => job'[c] \in Messages'
    BY <1>1, <1>2, <1>3, <1>4, ActorsDiffer DEF TypeOK
  <2> QED BY <1>2, <1>3, <1>4, <1>5, <1>6, <1>7, <2>1 DEF TypeOK
<1>9. Answered'
  <2>1. ASSUME NEW c \in Consumers, tpc'[c] = "ack" PROVE stream'[job'[c]] \in applied'
    <3>1. CASE c = t
      BY <1>1, <1>2, <3>1, ActorsDiffer
    <3>2. CASE c # t
      BY <1>2, <1>4, <1>5, <2>1, <3>2, ActorsDiffer DEF Answered
    <3> QED BY <3>1, <3>2
  <2> QED BY <1>2, <1>3, <1>5, <2>1 DEF Answered
<1>10. Working'
  BY <1>1, <1>2, <1>4, ActorsDiffer DEF Working
<1> QED BY <1>1, <1>5, <1>7, <1>8, <1>9, <1>10, ScheduleStep

LEMMA OverrideFailsKeeps ==
  ASSUME IInv, NEW t \in Overrides, OverrideFails(t)
  PROVE  IInv'
<1> USE DEF IInv
<1>1. /\ tpc' = [tpc EXCEPT ![t] = "done"]
      /\ flagged' = [flagged EXCEPT ![t] = {}]
      /\ Fault
      /\ UNCHANGED <<outbox, broker>>
  BY DEF OverrideFails
<1>2. UNCHANGED <<row, leased, batch, published, stream, remembered, delivery, held, job, seen,
                  holder, conflicts, applied, told>>
  BY DEF OverrideFails, outbox, broker, schedule
<1>3. Messages' = Messages /\ Extends
  BY <1>2, SameStream
<1>4. /\ tpc' \in [Actors -> {"idle", "flush", "commit", "ack", "done"}]
      /\ tpc'[t] = "done"
      /\ \A u \in Actors \ {t} : tpc'[u] = tpc[u]
      /\ flagged' \in [Actors -> SUBSET Employees]
  BY <1>1, ActorsDiffer DEF TypeOK
<1>5. faults' \in 0..MaxFaults
  BY <1>1, HandoffAssumption DEF Fault, TypeOK
<1>6. TypeOK'
  <2>1. \A c \in Consumers : tpc'[c] # "idle" => job'[c] \in Messages'
    BY <1>2, <1>3, <1>4, ActorsDiffer DEF TypeOK
  <2> QED BY <1>2, <1>3, <1>4, <1>5, <2>1 DEF TypeOK
<1>7. Answered' /\ Working'
  BY <1>2, <1>3, <1>4, ActorsDiffer DEF Answered, Working
<1>8. Announced' /\ Alone'
  BY <1>2, <1>3, <1>4, QuietStep DEF Quiet
<1> QED BY <1>1, <1>2, <1>6, <1>7, <1>8, ScheduleStep

\* Steps of the consumer between its transactions.
LEMMA MessageStep ==
  ASSUME IInv, UNCHANGED <<outbox, broker, tx, schedule, told, faults>>,
         held' \in [Consumers -> SUBSET Messages],
         delivery' \in [Messages -> Marks],
         \A n \in Messages :
           /\ delivery'[n] = "acked" => delivery[n] = "acked"
           /\ delivery'[n] = "terminated" => delivery[n] = "terminated" \/ stream[n] \in Poison
  PROVE  IInv'
<1> USE DEF IInv
<1>1. UNCHANGED <<row, leased, batch, published, stream, remembered, tpc, job, seen, flagged,
                  holder, conflicts, applied, told, faults>>
  BY DEF outbox, broker, tx, schedule
<1>2. Messages' = Messages /\ Extends
  BY <1>1, SameStream
<1>3. TypeOK'
  BY <1>1, <1>2 DEF TypeOK, Marks
<1>4. Answered' /\ Working'
  BY <1>1, <1>2 DEF Answered, Working
<1>5. Announced' /\ Alone'
  BY <1>1, <1>2, QuietStep DEF Quiet
<1> QED BY <1>1, <1>3, <1>4, <1>5, ScheduleStep

LEMMA FetchKeeps ==
  ASSUME IInv, NEW c \in Consumers, Fetch(c)
  PROVE  IInv'
<1> DEFINE waiting == {n \in Messages : delivery[n] = "waiting"}
<1>1. /\ held' = [held EXCEPT ![c] = waiting]
      /\ delivery' = [n \in Messages |-> IF n \in waiting THEN "pending" ELSE delivery[n]]
      /\ UNCHANGED <<outbox, broker, tx, schedule, told, faults>>
  BY DEF Fetch
<1>2. waiting \in SUBSET Messages
  OBVIOUS
<1> HIDE DEF waiting
<1>3. held' \in [Consumers -> SUBSET Messages]
  BY <1>1, <1>2 DEF IInv, TypeOK
<1>4. /\ delivery' \in [Messages -> Marks]
      /\ \A n \in Messages :
           /\ delivery'[n] = "acked" => delivery[n] = "acked"
           /\ delivery'[n] = "terminated" => delivery[n] = "terminated"
  BY <1>1 DEF IInv, TypeOK, Marks
<1> QED BY <1>1, <1>3, <1>4, MessageStep

LEMMA TerminateKeeps ==
  ASSUME IInv, NEW c \in Consumers, NEW n \in Messages, TerminateToDlq(c, n)
  PROVE  IInv'
<1>1. /\ stream[n] \in Poison
      /\ held' = [held EXCEPT ![c] = @ \ {n}]
      /\ delivery' = [delivery EXCEPT ![n] = "terminated"]
      /\ UNCHANGED <<outbox, broker, tx, schedule, told, faults>>
  BY DEF TerminateToDlq
<1>2. held' \in [Consumers -> SUBSET Messages]
  BY <1>1 DEF IInv, TypeOK
<1>3. /\ delivery' \in [Messages -> Marks]
      /\ \A m \in Messages :
           /\ delivery'[m] = "acked" => delivery[m] = "acked"
           /\ delivery'[m] = "terminated" => delivery[m] = "terminated" \/ stream[m] \in Poison
  BY <1>1 DEF IInv, TypeOK, Marks
<1> QED BY <1>1, <1>2, <1>3, MessageStep

LEMMA RedeliverKeeps ==
  ASSUME IInv, NEW n \in Messages, Redeliver(n)
  PROVE  IInv'
<1>1. /\ delivery' = [delivery EXCEPT ![n] = "waiting"]
      /\ held' = held
      /\ UNCHANGED <<outbox, broker, tx, schedule, told, faults>>
  BY DEF Redeliver
<1>2. /\ delivery' \in [Messages -> Marks]
      /\ \A m \in Messages :
           /\ delivery'[m] = "acked" => delivery[m] = "acked"
           /\ delivery'[m] = "terminated" => delivery[m] = "terminated"
  BY <1>1 DEF IInv, TypeOK, Marks
<1>3. held' \in [Consumers -> SUBSET Messages]
  BY <1>1 DEF IInv, TypeOK
<1> QED BY <1>1, <1>2, <1>3, MessageStep

\* A replica ends its transaction: answered, refused, or dead.
LEMMA ReleaseStep ==
  ASSUME IInv, NEW c \in Consumers,
         tpc' = [tpc EXCEPT ![c] = "idle"],
         flagged' = [flagged EXCEPT ![c] = {}],
         held' \in [Consumers -> SUBSET Messages],
         job' = [job EXCEPT ![c] = 0],
         seen' = [seen EXCEPT ![c] = FirstHolder],
         UNCHANGED <<outbox, broker, schedule, told>>,
         faults' \in 0..MaxFaults,
         delivery' \in [Messages -> Marks],
         \A n \in Messages :
           /\ delivery'[n] = "acked" => delivery[n] = "acked" \/ stream[n] \in applied
           /\ delivery'[n] = "terminated" => delivery[n] = "terminated"
  PROVE  IInv'
<1> USE DEF IInv
<1>1. UNCHANGED <<row, leased, batch, published, stream, remembered, holder, conflicts,
                  applied, told>>
  BY DEF outbox, broker, schedule
<1>2. Messages' = Messages /\ Extends
  BY <1>1, SameStream
<1>3. c \in Actors
  BY ActorsDiffer
<1>4. /\ tpc' \in [Actors -> {"idle", "flush", "commit", "ack", "done"}]
      /\ tpc'[c] = "idle"
      /\ \A u \in Actors \ {c} : tpc'[u] = tpc[u]
      /\ flagged' \in [Actors -> SUBSET Employees]
  BY <1>3 DEF TypeOK
<1>5. /\ seen' \in [Actors -> [Assignments -> Employees]]
      /\ \A u \in Actors \ {c} : seen'[u] = seen[u]
  BY <1>3, HandoffAssumption DEF TypeOK
<1>6. /\ job' \in [Consumers -> Nat]
      /\ job'[c] = 0
      /\ \A d \in Consumers \ {c} : job'[d] = job[d]
  BY DEF TypeOK
<1>7. TypeOK'
  <2>1. \A d \in Consumers : tpc'[d] # "idle" => job'[d] \in Messages'
    BY <1>2, <1>4, <1>6, ActorsDiffer DEF TypeOK
  <2> QED BY <1>1, <1>2, <1>4, <1>5, <1>6, <2>1 DEF TypeOK, Marks
<1>8. Answered' /\ Working'
  BY <1>1, <1>2, <1>4, <1>6, ActorsDiffer DEF Answered, Working
<1>9. Quiet
  BY <1>1, <1>4, <1>5, <1>6 DEF Quiet
<1>10. Announced' /\ Alone'
  BY <1>2, <1>9, QuietStep
<1> QED BY <1>1, <1>7, <1>8, <1>10, ScheduleStep

LEMMA AckKeeps ==
  ASSUME IInv, NEW c \in Consumers, Ack(c)
  PROVE  IInv'
<1>1. /\ tpc[c] = "ack" /\ Finish(c) /\ faults' = faults
      /\ delivery' = [delivery EXCEPT ![job[c]] = "acked"]
  BY DEF Ack
<1>2. job[c] \in Messages /\ stream[job[c]] \in applied
  BY <1>1 DEF IInv, TypeOK, Answered
<1>3. /\ delivery' \in [Messages -> Marks]
      /\ \A n \in Messages :
           /\ delivery'[n] = "acked" => delivery[n] = "acked" \/ stream[n] \in applied
           /\ delivery'[n] = "terminated" => delivery[n] = "terminated"
  BY <1>1, <1>2 DEF IInv, TypeOK, Marks
<1>4. held' \in [Consumers -> SUBSET Messages] /\ faults' \in 0..MaxFaults
  BY <1>1 DEF Finish, IInv, TypeOK
<1> QED BY <1>1, <1>3, <1>4, ReleaseStep DEF Finish

LEMMA NakKeeps ==
  ASSUME IInv, NEW c \in Consumers, Nak(c)
  PROVE  IInv'
<1>1. job[c] # 0 /\ Finish(c) /\ Fault
  BY DEF Nak
<1>2. job[c] \in Messages
  BY <1>1 DEF IInv, TypeOK, Working
<1>3. /\ delivery' \in [Messages -> Marks]
      /\ \A n \in Messages :
           /\ delivery'[n] = "acked" => delivery[n] = "acked"
           /\ delivery'[n] = "terminated" => delivery[n] = "terminated"
  BY <1>2 DEF Nak, IInv, TypeOK, Marks
<1>4. held' \in [Consumers -> SUBSET Messages]
  BY <1>1 DEF Finish, IInv, TypeOK
<1>5. faults' \in 0..MaxFaults
  BY <1>1, HandoffAssumption DEF Fault, IInv, TypeOK
<1> QED BY <1>1, <1>3, <1>4, <1>5, ReleaseStep DEF Finish

LEMMA ConsumerDiesKeeps ==
  ASSUME IInv, NEW c \in Consumers, ConsumerDies(c)
  PROVE  IInv'
<1>1. /\ tpc' = [tpc EXCEPT ![c] = "idle"]
      /\ flagged' = [flagged EXCEPT ![c] = {}]
      /\ held' = [held EXCEPT ![c] = {}]
      /\ job' = [job EXCEPT ![c] = 0]
      /\ seen' = [seen EXCEPT ![c] = FirstHolder]
      /\ UNCHANGED <<outbox, broker, schedule, told>>
      /\ delivery' = delivery
      /\ Fault
  BY DEF ConsumerDies
<1>2. held' \in [Consumers -> SUBSET Messages] /\ delivery' \in [Messages -> Marks]
  BY <1>1 DEF IInv, TypeOK, Marks
<1>3. faults' \in 0..MaxFaults
  BY <1>1, HandoffAssumption DEF Fault, IInv, TypeOK
<1> QED BY <1>1, <1>2, <1>3, ReleaseStep

LEMMA NextKeeps == IInv /\ [Next]_vars => IInv'
<1> SUFFICES ASSUME IInv, [Next]_vars PROVE IInv'
  OBVIOUS
<1>1. ASSUME NEW e \in Events,
             \/ InsertWithinTransaction(e) \/ LeaseExpires(e) \/ DuplicateWindowPasses(e)
             \/ \E p \in Publishers : RecordFailure(p, e)
      PROVE  IInv'
  BY <1>1, MarketplaceKeeps, PublishKeeps
<1>2. ASSUME NEW p \in Publishers, Drain(p) \/ PublisherDies(p) PROVE IInv'
  BY <1>2, MarketplaceKeeps, PublishKeeps DEF Drain
<1>3. ASSUME NEW t \in Actors, Flush(t) \/ Commit(t) PROVE IInv'
  BY <1>3, FlushKeeps, CommitKeeps
<1>4. ASSUME NEW o \in Overrides, StartOverride(o) \/ OverrideFails(o) PROVE IInv'
  BY <1>4, LoadKeeps, OverrideFailsKeeps, ActorsDiffer DEF StartOverride
<1>5. ASSUME NEW c \in Consumers, Consume(c) \/ Nak(c) \/ ConsumerDies(c) PROVE IInv'
  <2>1. ASSUME NEW n \in Messages, HandleMessage(c, n) PROVE IInv'
    BY <2>1, LoadKeeps, ActorsDiffer DEF HandleMessage
  <2> QED BY <1>5, <2>1, FetchKeeps, TerminateKeeps, AckKeeps, NakKeeps, ConsumerDiesKeeps
          DEF Consume
<1>6. ASSUME NEW n \in Messages, Redeliver(n) PROVE IInv'
  BY <1>6, RedeliverKeeps
<1>7. CASE UNCHANGED vars
  <2>1. UNCHANGED <<stream, delivery, held, tx, schedule, told, row, leased, batch, published,
                    remembered, faults>>
    BY <1>7 DEF vars, tx, schedule
  <2> QED BY <2>1, OutboxStep DEF IInv, TypeOK
<1> QED BY <1>1, <1>2, <1>3, <1>4, <1>5, <1>6, <1>7 DEF Next

LEMMA Inductive == Spec => []IInv
  BY InitHolds, NextKeeps, PTL DEF Spec

(***************************************************************************)
(* The theorems.                                                           *)
(***************************************************************************)
\* Every variable of the outbox, the stream, the consumer and the schedule keeps
\* its type, and a replica that applies a message has one.
THEOREM HandoffTypeCorrect == Spec => []TypeOK
<1>1. IInv => TypeOK
  BY DEF IInv
<1> QED BY <1>1, Inductive, PTL

\* However publishers and replicas die, and however often an event is published and
\* delivered, an event the outbox has marked is in the schedule, on its way, or poison.
THEOREM NothingIsLostHolds == Spec => []NothingIsLost
<1>1. IInv => NothingIsLost
  <2> SUFFICES ASSUME IInv, NEW e \in Events, row[e] = "published", e \notin applied,
                      e \notin Poison
               PROVE  \E n \in Messages : stream[n] = e /\ delivery[n] \in {"waiting", "pending"}
    BY DEF NothingIsLost
  <2>1. PICK n \in Messages : stream[n] = e
    BY DEF IInv, Streamed, OnStream
  <2>2. delivery[n] \in {"waiting", "pending"}
    BY <2>1 DEF IInv, TypeOK, Answered
  <2> QED BY <2>1, <2>2
<1> QED BY <1>1, Inductive, PTL

\* Whatever transactions of replicas and overrides interleave, and whichever of them
\* roll back after they have announced, a committed change of a holder is the one
\* that assignment_changed announced last.
THEOREM ChangeIsAnnouncedHolds == Spec => ChangeIsAnnounced
<1> DEFINE Told == \A a \in Assignments : holder'[a] # holder[a] => told[a] = holder'[a]
<1>1. IInv /\ [Next]_vars => Told \/ UNCHANGED vars
  <2> SUFFICES ASSUME IInv, Next PROVE Told
    OBVIOUS
  <2>1. ASSUME NEW t \in Actors, Commit(t) PROVE Told
    BY <2>1, CommitStep
  <2>2. ASSUME holder' = holder PROVE Told
    BY <2>2
  <2>3. ASSUME NEW e \in Events,
               \/ InsertWithinTransaction(e) \/ LeaseExpires(e) \/ DuplicateWindowPasses(e)
               \/ \E p \in Publishers : RecordFailure(p, e)
        PROVE  holder' = holder
    BY <2>3 DEF InsertWithinTransaction, LeaseExpires, DuplicateWindowPasses, RecordFailure,
                schedule
  <2>4. ASSUME NEW p \in Publishers, Drain(p) \/ PublisherDies(p) PROVE holder' = holder
    BY <2>4 DEF Drain, FindUnpublishedBatch, Publish, MarkPublished, PublisherDies, schedule
  <2>5. ASSUME NEW t \in Actors, Flush(t) PROVE holder' = holder
    BY <2>5 DEF Flush, schedule
  <2>6. ASSUME NEW o \in Overrides, StartOverride(o) \/ OverrideFails(o) PROVE holder' = holder
    BY <2>6 DEF StartOverride, LoadAssignment, OverrideFails, schedule
  <2>7. ASSUME NEW c \in Consumers, Consume(c) \/ Nak(c) \/ ConsumerDies(c)
        PROVE  holder' = holder
    BY <2>7 DEF Consume, Fetch, HandleMessage, LoadAssignment, TerminateToDlq, Ack, Nak,
                Finish, ConsumerDies, schedule
  <2>8. ASSUME NEW n \in Messages, Redeliver(n) PROVE holder' = holder
    BY <2>8 DEF Redeliver, schedule
  <2> QED BY <2>1, <2>2, <2>3, <2>4, <2>5, <2>6, <2>7, <2>8 DEF Next
<1>2. Spec => [][Told]_vars
  BY <1>1, Inductive, PTL DEF Spec
<1> QED BY <1>2 DEF ChangeIsAnnounced

(***************************************************************************)
(* Outbox, stream and consumer are a relay.                                *)
(***************************************************************************)
\* Whatever is handled was recorded by a transaction of the marketplace.
Recorded ==
  /\ \A p \in Publishers : \A e \in batch[p] \cup published[p] : row[e] # "none"
  /\ \A n \in Messages : row[stream[n]] # "none"

\* A drain marks one row at a time.
OneAtATime == \A p \in Publishers : published[p] = {} \/ \E e \in Events : published[p] = {e}

\* No transaction applies what will be terminated.
Clean == \A c \in Consumers : tpc[c] # "idle" => stream[job[c]] \notin Poison

RInv == Recorded /\ OneAtATime /\ Clean

LEMMA StoreAdds ==
  ASSUME TypeOK, NEW e \in Events, e \notin remembered, Store(e)
  PROVE  \E m : /\ Messages' = Messages \cup {m} /\ m \notin Messages
                /\ stream'[m] = e /\ delivery'[m] = "waiting"
                /\ \A n \in Messages : stream'[n] = stream[n] /\ delivery'[n] = delivery[n]
<1>1. /\ stream' = Append(stream, e) /\ delivery' = Append(delivery, "waiting")
  BY DEF Store
<1>2. stream \in Seq(Events) /\ Len(stream) \in Nat /\ Messages = 1..Len(stream)
  BY DEF TypeOK, Messages
<1> DEFINE m == Len(stream) + 1
<1>3. /\ Messages' = 1..m /\ stream'[m] = e
      /\ \A n \in Messages : stream'[n] = stream[n]
  BY <1>1, <1>2 DEF Messages
<1>4. delivery \in Seq(Marks) /\ Len(delivery) = Len(stream) /\ "waiting" \in Marks
  <2>1. delivery \in [1..Len(stream) -> Marks] /\ "waiting" \in Marks
    BY <1>2 DEF TypeOK, Marks
  <2> HIDE DEF Marks
  <2> QED BY <1>2, <2>1, FunctionIsSeq
<1>5. /\ Append(delivery, "waiting")[m] = "waiting"
      /\ \A n \in Messages : Append(delivery, "waiting")[n] = delivery[n]
  BY <1>2, <1>4
<1>6. 1..m = (1..Len(stream)) \cup {m} /\ m \notin 1..Len(stream)
  BY <1>2
<1> QED BY <1>1, <1>2, <1>3, <1>5, <1>6

LEMMA InitRecords == Init => RInv
<1> SUFFICES ASSUME Init PROVE RInv
  OBVIOUS
<1>1. Messages = {}
  BY DEF Init, Messages
<1> QED BY <1>1, ActorsDiffer DEF Init, RInv, Recorded, OneAtATime, Clean

\* Rows stay recorded, and nobody takes what is not.
LEMMA RecordedStep ==
  ASSUME IInv, RInv, UNCHANGED stream,
         \A e \in Events : row[e] # "none" => row'[e] # "none",
         \A p \in Publishers : \A e \in batch'[p] \cup published'[p] :
           e \in batch[p] \cup published[p] \/ (e \in Events /\ row[e] = "unpublished")
  PROVE  Recorded'
<1>1. Messages' = Messages /\ \A n \in Messages : stream[n] \in Events
  BY DEF IInv, TypeOK, Messages
<1>2. \A p \in Publishers : \A e \in batch[p] \cup published[p] : e \in Events
  BY DEF IInv, TypeOK
<1>3. ASSUME NEW p \in Publishers, NEW e \in batch'[p] \cup published'[p] PROVE row'[e] # "none"
  <2>1. e \in Events /\ row[e] # "none"
    BY <1>2 DEF RInv, Recorded
  <2> QED BY <2>1
<1> QED BY <1>1, <1>3 DEF RInv, Recorded

LEMMA OutboxRecords ==
  ASSUME IInv, RInv, NEW p \in Publishers,
         FindUnpublishedBatch(p) \/ MarkPublished(p) \/ PublisherDies(p)
  PROVE  RInv'
<1> USE DEF IInv
<1>1. /\ stream' = stream /\ tpc' = tpc /\ job' = job
      /\ \A f \in Events : row[f] # "none" => row'[f] # "none"
  BY DEF FindUnpublishedBatch, MarkPublished, PublisherDies, broker, tx, TypeOK
<1>2. \A q \in Publishers : published'[q] \in {published[q], {}}
  BY DEF FindUnpublishedBatch, MarkPublished, PublisherDies, TypeOK
<1>3. \A q \in Publishers : \A f \in batch'[q] :
        f \in batch[q] \/ (f \in Events /\ row[f] = "unpublished")
  BY DEF FindUnpublishedBatch, MarkPublished, PublisherDies, TypeOK
<1>4. Recorded'
  BY <1>1, <1>2, <1>3, RecordedStep
<1>5. OneAtATime'
  BY <1>2 DEF RInv, OneAtATime
<1>6. Clean'
  BY <1>1 DEF RInv, Clean
<1> QED BY <1>4, <1>5, <1>6 DEF RInv

LEMMA PublishRecords ==
  ASSUME IInv, RInv, NEW p \in Publishers, NEW e \in Events,
         Publish(p, e) \/ RecordFailure(p, e)
  PROVE  RInv'
<1> USE DEF IInv
<1>1. /\ row' = row /\ tpc' = tpc /\ job' = job
      /\ e \in batch[p] /\ row[e] # "none"
      /\ Store(e) \/ UNCHANGED <<stream, delivery>>
  BY DEF Publish, RecordFailure, tx, RInv, Recorded
<1>2. \A q \in Publishers :
        /\ batch'[q] \subseteq batch[q]
        /\ published'[q] \in {published[q], {e}}
  BY DEF Publish, RecordFailure, TypeOK
<1>3. \A n \in Messages' : (n \in Messages /\ stream'[n] = stream[n]) \/ stream'[n] = e
  <2>1. CASE Store(e) /\ e \notin remembered
    BY <2>1, StoreAdds
  <2>2. CASE UNCHANGED stream
    BY <2>2 DEF Messages
  <2> QED BY <1>1, <2>1, <2>2 DEF Store
<1>4. Extends
  BY <1>1, StoreStep, SameStream
<1>5. Recorded'
  <2>1. \A q \in Publishers : \A f \in batch'[q] \cup published'[q] : row'[f] # "none"
    BY <1>1, <1>2 DEF RInv, Recorded
  <2>2. \A n \in Messages' : row'[stream'[n]] # "none"
    BY <1>1, <1>3 DEF RInv, Recorded
  <2> QED BY <2>1, <2>2 DEF Recorded
<1>6. OneAtATime'
  BY <1>2 DEF RInv, OneAtATime
<1>7. Clean'
  BY <1>1, <1>4 DEF RInv, Clean, TypeOK, Extends
<1> QED BY <1>5, <1>6, <1>7 DEF RInv

LEMMA ScheduleRecords ==
  ASSUME IInv, RInv, UNCHANGED <<outbox, broker>>,
         \A c \in Consumers : tpc'[c] # "idle" =>
           \/ tpc[c] # "idle" /\ job'[c] = job[c]
           \/ stream[job'[c]] \notin Poison
  PROVE  RInv'
<1>1. /\ row' = row /\ batch' = batch /\ published' = published /\ stream' = stream
      /\ Messages' = Messages
  BY DEF outbox, broker, Messages
<1>2. Recorded' /\ OneAtATime'
  BY <1>1 DEF RInv, Recorded, OneAtATime
<1>3. Clean'
  BY <1>1 DEF RInv, Clean
<1> QED BY <1>2, <1>3 DEF RInv

LEMMA NextRecords == IInv /\ RInv /\ [Next]_vars => RInv'
<1> SUFFICES ASSUME IInv, RInv, [Next]_vars PROVE RInv'
  OBVIOUS
<1>1. ASSUME NEW t \in Actors, Flush(t) \/ Commit(t) PROVE RInv'
  <2>1. UNCHANGED <<outbox, broker, job>>
    BY <1>1 DEF Flush, Commit
  <2>2. \A c \in Consumers : tpc'[c] # "idle" => tpc[c] # "idle" /\ job'[c] = job[c]
    BY <1>1, <2>1, ActorsDiffer DEF Flush, Commit, IInv, TypeOK
  <2> QED BY <2>1, <2>2, ScheduleRecords
<1>2. ASSUME NEW o \in Overrides, StartOverride(o) \/ OverrideFails(o) PROVE RInv'
  <2>1. UNCHANGED <<outbox, broker, job>>
    BY <1>2 DEF StartOverride, LoadAssignment, OverrideFails
  <2>2. \A c \in Consumers : tpc'[c] = tpc[c]
    BY <1>2, ActorsDiffer DEF StartOverride, LoadAssignment, OverrideFails, IInv, TypeOK
  <2> QED BY <2>1, <2>2, ScheduleRecords
<1>3. ASSUME NEW c \in Consumers, NEW n \in Messages, HandleMessage(c, n) PROVE RInv'
  <2>1. UNCHANGED <<outbox, broker>>
    BY <1>3 DEF HandleMessage, LoadAssignment
  <2>2. /\ stream[job'[c]] \notin Poison
        /\ \A b \in Consumers \ {c} : tpc'[b] = tpc[b] /\ job'[b] = job[b]
    BY <1>3, ActorsDiffer DEF HandleMessage, LoadAssignment, IInv, TypeOK
  <2> QED BY <2>1, <2>2, ScheduleRecords
<1>4. ASSUME NEW c \in Consumers, Ack(c) \/ Nak(c) \/ ConsumerDies(c) PROVE RInv'
  <2>1. UNCHANGED <<outbox, broker>>
    BY <1>4 DEF Ack, Nak, Finish, ConsumerDies
  <2>2. /\ tpc'[c] = "idle"
        /\ \A b \in Consumers \ {c} : tpc'[b] = tpc[b] /\ job'[b] = job[b]
    BY <1>4, ActorsDiffer DEF Ack, Nak, Finish, ConsumerDies, IInv, TypeOK
  <2> QED BY <2>1, <2>2, ScheduleRecords
<1>5. ASSUME NEW c \in Consumers, NEW n \in Messages, TerminateToDlq(c, n) PROVE RInv'
  BY <1>5, ScheduleRecords DEF TerminateToDlq, tx
<1>6. ASSUME NEW n \in Messages, Redeliver(n) PROVE RInv'
  BY <1>6, ScheduleRecords DEF Redeliver, tx
<1>7. ASSUME NEW c \in Consumers, Fetch(c) PROVE RInv'
  BY <1>7, ScheduleRecords DEF Fetch, tx
<1>8. ASSUME NEW e \in Events,
             InsertWithinTransaction(e) \/ LeaseExpires(e) \/ DuplicateWindowPasses(e)
      PROVE  RInv'
  <2>1. /\ stream' = stream /\ tpc' = tpc /\ job' = job
        /\ batch' = batch /\ published' = published
        /\ \A f \in Events : row[f] # "none" => row'[f] # "none"
    BY <1>8 DEF InsertWithinTransaction, LeaseExpires, DuplicateWindowPasses, outbox, broker,
                tx, IInv, TypeOK
  <2> QED BY <2>1, RecordedStep DEF RInv, OneAtATime, Clean
<1>9. ASSUME NEW p \in Publishers, FindUnpublishedBatch(p) \/ MarkPublished(p) \/ PublisherDies(p)
      PROVE  RInv'
  BY <1>9, OutboxRecords
<1>10. CASE UNCHANGED vars
  BY <1>10, ScheduleRecords DEF vars, outbox, broker
<1> QED BY <1>1, <1>2, <1>3, <1>4, <1>5, <1>6, <1>7, <1>8, <1>9, <1>10, PublishRecords
     DEF Next, Drain, Consume

RStep == [Relayed!Next]_(Relayed!vars)

\* A message that is handed out, or handed back, is still on its way.
LEMMA RelayStays ==
  ASSUME UNCHANGED <<row, stream, applied>>,
         \A n \in Messages :
           /\ delivery'[n] \in {"waiting", "pending"} <=> delivery[n] \in {"waiting", "pending"}
           /\ delivery'[n] = "terminated" <=> delivery[n] = "terminated"
  PROVE  RStep
<1>1. Messages' = Messages
  BY DEF Messages
<1>2. \A e : (InTransit(e)' <=> InTransit(e)) /\ (Terminated(e)' <=> Terminated(e))
  BY <1>1 DEF InTransit, Terminated
<1> QED BY <1>2 DEF RStep, Relayed!vars

LEMMA InitRelays == Init => Relayed!Init
<1> SUFFICES ASSUME Init PROVE Relayed!Init
  OBVIOUS
<1>1. Messages = {}
  BY DEF Init, Messages
<1> QED BY <1>1 DEF Init, Relayed!Init, InTransit, Terminated

LEMMA InsertRelays ==
  ASSUME IInv, NEW e \in Events, InsertWithinTransaction(e)
  PROVE  RStep
<1>1. /\ stream' = stream /\ delivery' = delivery /\ applied' = applied
      /\ row[e] = "none" /\ row' = [row EXCEPT ![e] = "unpublished"]
      /\ row \in [Events -> {"none", "unpublished", "published"}]
  BY DEF InsertWithinTransaction, broker, schedule, IInv, TypeOK
<1>2. \A f : (InTransit(f)' <=> InTransit(f)) /\ (Terminated(f)' <=> Terminated(f))
  BY <1>1 DEF InTransit, Terminated, Messages
<1>3. Relayed!Send(e)
  BY <1>1, <1>2 DEF Relayed!Send
<1> QED BY <1>3 DEF RStep, Relayed!Next

\* A publish is the first, or one more, attempt at what was recorded.
LEMMA PublishRelays ==
  ASSUME IInv, RInv, NEW p \in Publishers, NEW e \in Events,
         Publish(p, e) \/ RecordFailure(p, e)
  PROVE  RStep
<1>1. /\ row' = row /\ applied' = applied /\ row[e] # "none"
      /\ Store(e) \/ UNCHANGED <<stream, delivery>>
  BY DEF Publish, RecordFailure, schedule, RInv, Recorded
<1>2. CASE UNCHANGED <<stream, delivery>>
  BY <1>1, <1>2, RelayStays
<1>3. CASE Store(e) /\ e \notin remembered
  <2>1. PICK m : /\ Messages' = Messages \cup {m} /\ m \notin Messages
                 /\ stream'[m] = e /\ delivery'[m] = "waiting"
                 /\ \A n \in Messages : stream'[n] = stream[n] /\ delivery'[n] = delivery[n]
    BY <1>3, StoreAdds DEF IInv
  <2>2. \A f \in Events : InTransit(f)' <=> InTransit(f) \/ f = e
    BY <2>1 DEF InTransit
  <2>3. \A f \in Events : Terminated(f)' <=> Terminated(f)
    BY <2>1 DEF Terminated
  <2>4. Relayed!Repeat(e)
    BY <1>1, <2>2, <2>3 DEF Relayed!Repeat
  <2> QED BY <2>4 DEF RStep, Relayed!Next
<1> QED BY <1>1, <1>2, <1>3 DEF Store

\* The row is marked once the event is on the stream: whoever looks for it finds it
\* on its way, in the schedule, or terminated.
LEMMA MarkRelays ==
  ASSUME IInv, RInv, NEW p \in Publishers, MarkPublished(p)
  PROVE  RStep
<1>1. PICK e \in Events : published[p] = {e}
  BY DEF MarkPublished, RInv, OneAtATime
<1>2. /\ stream' = stream /\ delivery' = delivery /\ applied' = applied
      /\ row' = [f \in Events |-> IF f = e THEN "published" ELSE row[f]]
      /\ row[e] # "none"
  BY <1>1 DEF MarkPublished, broker, schedule, RInv, Recorded
<1>3. \A f : (InTransit(f)' <=> InTransit(f)) /\ (Terminated(f)' <=> Terminated(f))
  BY <1>2 DEF InTransit, Terminated, Messages
<1>4. {f \in Events : row'[f] # "none"} = {f \in Events : row[f] # "none"}
  BY <1>2
<1>5. CASE InTransit(e)
  <2>1. \A f \in Events : row'[f] = "unpublished" \/ InTransit(f) <=>
                          row[f] = "unpublished" \/ InTransit(f)
    BY <1>2, <1>5
  <2> QED BY <1>2, <1>3, <1>4, <2>1 DEF RStep, Relayed!vars
<1>6. CASE ~InTransit(e)
  <2>1. PICK n \in Messages : stream[n] = e
    BY <1>1 DEF IInv, Streamed, OnStream
  <2>2. e \in applied \/ Terminated(e)
    BY <1>6, <2>1 DEF InTransit, Terminated, IInv, Answered, TypeOK
  <2>3. \A f \in Events : row'[f] = "unpublished" \/ InTransit(f) <=>
                          (row[f] = "unpublished" \/ InTransit(f)) /\ f # e
    BY <1>2, <1>6
  <2>4. Relayed!Forget(e)
    BY <1>2, <1>3, <1>4, <2>2, <2>3 DEF Relayed!Forget
  <2> QED BY <2>4 DEF RStep, Relayed!Next
<1> QED BY <1>5, <1>6

LEMMA CommitRelays ==
  ASSUME IInv, RInv, NEW t \in Actors, Commit(t)
  PROVE  RStep
<1>1. UNCHANGED <<row, stream, delivery>>
  BY DEF Commit, outbox, broker
<1>2. CASE t \in Overrides
  BY <1>1, <1>2, RelayStays DEF Commit
<1>3. CASE t \notin Overrides
  <2> DEFINE e == stream[job[t]]
  <2>1. t \in Consumers /\ job[t] \in Messages
    BY <1>3, ActorsDiffer DEF Commit, IInv, TypeOK
  <2>2. e \in Events /\ row[e] # "none" /\ applied' = applied \cup {e}
    BY <1>3, <2>1 DEF Commit, IInv, TypeOK, Messages, RInv, Recorded
  <2>3. \A f : (InTransit(f)' <=> InTransit(f)) /\ (Terminated(f)' <=> Terminated(f))
    BY <1>1 DEF InTransit, Terminated, Messages
  <2> HIDE DEF e
  <2>4. Relayed!Arrive(e)
    BY <1>1, <2>2, <2>3 DEF Relayed!Arrive
  <2> QED BY <2>2, <2>4 DEF RStep, Relayed!Next
<1> QED BY <1>2, <1>3

\* An acknowledgement comes after the commit, so it may end the attempts.
LEMMA AckRelays ==
  ASSUME IInv, RInv, NEW c \in Consumers, Ack(c)
  PROVE  RStep
<1>1. /\ row' = row /\ stream' = stream /\ applied' = applied /\ tpc[c] = "ack"
      /\ delivery' = [delivery EXCEPT ![job[c]] = "acked"]
  BY DEF Ack, Finish, outbox, broker, schedule
<1>2. PICK m \in Messages : m = job[c]
  BY <1>1 DEF IInv, TypeOK
<1>3. PICK e \in Events : e = stream[m]
  BY <1>2 DEF IInv, TypeOK, Messages
<1>4. /\ Messages' = Messages /\ e \in applied
      /\ delivery' = [delivery EXCEPT ![m] = "acked"]
      /\ delivery \in [Messages -> {"waiting", "pending", "acked", "terminated"}]
  BY <1>1, <1>2, <1>3 DEF IInv, TypeOK, Messages, Answered
<1>5. delivery[m] # "terminated"
  BY <1>1, <1>4, <1>2 DEF RInv, Clean, IInv, Answered
<1>6. \A f : Terminated(f)' <=> Terminated(f)
  BY <1>1, <1>4, <1>5 DEF Terminated
<1>7. \A f : f # e => (InTransit(f)' <=> InTransit(f))
  BY <1>1, <1>4, <1>3 DEF InTransit
<1>8. InTransit(e)' => InTransit(e)
  BY <1>1, <1>4 DEF InTransit
<1>9. CASE row[e] = "unpublished" \/ InTransit(e)' \/ ~InTransit(e)
  <2>1. \A f \in Events : row'[f] = "unpublished" \/ InTransit(f)' <=>
                          row[f] = "unpublished" \/ InTransit(f)
    BY <1>1, <1>7, <1>8, <1>9
  <2> QED BY <1>1, <1>6, <2>1 DEF RStep, Relayed!vars
<1>10. CASE row[e] # "unpublished" /\ ~InTransit(e)'
  <2>1. \A f \in Events : row'[f] = "unpublished" \/ InTransit(f)' <=>
                          (row[f] = "unpublished" \/ InTransit(f)) /\ f # e
    BY <1>1, <1>7, <1>10
  <2>2. Relayed!Forget(e)
    BY <1>1, <1>4, <1>6, <2>1 DEF Relayed!Forget
  <2> QED BY <1>4, <2>2 DEF RStep, Relayed!Next
<1> QED BY <1>9, <1>10

LEMMA TerminateRelays ==
  ASSUME IInv, RInv, NEW c \in Consumers, NEW m \in Messages, TerminateToDlq(c, m)
  PROVE  RStep
<1>1. PICK e \in Events : e = stream[m]
  BY DEF IInv, TypeOK, Messages
<1>2. /\ row' = row /\ stream' = stream /\ applied' = applied
      /\ delivery' = [delivery EXCEPT ![m] = "terminated"]
  BY DEF TerminateToDlq, outbox, broker, schedule
<1>3. /\ Messages' = Messages /\ row[e] # "none"
      /\ delivery \in [Messages -> {"waiting", "pending", "acked", "terminated"}]
  BY <1>2, <1>1 DEF IInv, TypeOK, Messages, RInv, Recorded
<1>4. \A f : Terminated(f)' <=> Terminated(f) \/ f = e
  BY <1>2, <1>3, <1>1 DEF Terminated
<1>5. \A f : f # e => (InTransit(f)' <=> InTransit(f))
  BY <1>2, <1>3, <1>1 DEF InTransit
<1>6. InTransit(e)' => InTransit(e)
  BY <1>2, <1>3 DEF InTransit
<1>7. {f \in Events : Terminated(f)'} = {f \in Events : Terminated(f)} \cup {e}
  BY <1>3, <1>4
<1> DEFINE Owed == {f \in Events : row[f] = "unpublished" \/ InTransit(f)}
           OwedThen == {f \in Events : row'[f] = "unpublished" \/ InTransit(f)'}
<1>8. OwedThen \in {Owed, Owed \ {e}}
  <2>1. CASE row[e] = "unpublished" \/ InTransit(e)' \/ ~InTransit(e)
    BY <1>2, <1>5, <1>6, <2>1
  <2>2. CASE row[e] # "unpublished" /\ ~InTransit(e)'
    BY <1>2, <1>5, <2>2
  <2> QED BY <2>1, <2>2
<1>9. Relayed!Bury(e)
  BY <1>2, <1>3, <1>7, <1>8 DEF Relayed!Bury
<1> QED BY <1>3, <1>9 DEF RStep, Relayed!Next

LEMMA NextRelays == IInv /\ RInv /\ [Next]_vars => RStep
<1> SUFFICES ASSUME IInv, RInv, [Next]_vars PROVE RStep
  OBVIOUS
<1>1. ASSUME UNCHANGED <<row, stream, delivery, applied>> PROVE RStep
  BY <1>1, RelayStays
<1>2. ASSUME NEW e \in Events, LeaseExpires(e) \/ DuplicateWindowPasses(e) PROVE RStep
  BY <1>1, <1>2 DEF LeaseExpires, DuplicateWindowPasses, outbox, broker, schedule
<1>3. ASSUME NEW p \in Publishers, FindUnpublishedBatch(p) \/ PublisherDies(p) PROVE RStep
  BY <1>1, <1>3 DEF FindUnpublishedBatch, PublisherDies, broker, schedule
<1>4. ASSUME NEW t \in Actors, Flush(t) PROVE RStep
  BY <1>1, <1>4 DEF Flush, outbox, broker, schedule
<1>5. ASSUME NEW o \in Overrides, StartOverride(o) \/ OverrideFails(o) PROVE RStep
  BY <1>1, <1>5 DEF StartOverride, LoadAssignment, OverrideFails, outbox, broker, schedule
<1>6. ASSUME NEW c \in Consumers, NEW n \in Messages, HandleMessage(c, n) PROVE RStep
  BY <1>1, <1>6 DEF HandleMessage, LoadAssignment, outbox, broker, schedule
<1>7. ASSUME NEW c \in Consumers, ConsumerDies(c) PROVE RStep
  BY <1>1, <1>7 DEF ConsumerDies, outbox, broker, schedule
<1>8. delivery \in [Messages -> {"waiting", "pending", "acked", "terminated"}]
  BY DEF IInv, TypeOK
<1>9. ASSUME NEW c \in Consumers, Fetch(c) PROVE RStep
  BY <1>8, <1>9, RelayStays DEF Fetch, outbox, broker, schedule
<1>10. ASSUME NEW c \in Consumers, Nak(c) PROVE RStep
  BY <1>8, <1>10, RelayStays DEF Nak, Finish, outbox, broker, schedule
<1>11. ASSUME NEW n \in Messages, Redeliver(n) PROVE RStep
  BY <1>8, <1>11, RelayStays DEF Redeliver, outbox, broker, schedule
<1>12. CASE UNCHANGED vars
  BY <1>1, <1>12 DEF vars
<1> QED BY <1>2, <1>3, <1>4, <1>5, <1>6, <1>7, <1>9, <1>10, <1>11, <1>12, InsertRelays,
     PublishRelays, MarkRelays, CommitRelays, AckRelays, TerminateRelays DEF Next, Drain, Consume

\* The way of a decision from the marketplace's transaction to the schedule is a
\* relay, over lost acknowledgements, redeliveries, duplicates and crashes on both
\* sides: a row is marked and a message acknowledged only when nothing can be lost by
\* it, and only recorded decisions are applied.
THEOREM HandoffRelays == Spec => DecisionsAreRelayed
<1>1. Spec => []RInv
  BY InitRecords, NextRecords, Inductive, PTL DEF Spec
<1>2. IInv /\ RInv /\ [Next]_vars => [Relayed!Next]_(Relayed!vars)
  BY NextRelays DEF RStep
<1> QED BY <1>1, <1>2, InitRelays, Inductive, PTL DEF Spec, DecisionsAreRelayed, Relayed!Spec

================================================================================
