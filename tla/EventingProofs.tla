------------------------------- MODULE EventingProofs -------------------------------
(***************************************************************************)
(* No event is dropped between the audit queue and the bus, and no webhook *)
(* is given up early, for any number of instances, events, subscriptions   *)
(* and faults.                                                             *)
(***************************************************************************)
EXTENDS Eventing, FiniteSetTheorems, TLAPS

\* What a loop may have in its hands.
Handles(w, x) ==
  /\ w \in Flushers => x \in accepted
  /\ w \in Publishers => x \in logged
  /\ w \in Dispatchers => x \in Deliveries /\ delivery[x] # "none"

BatchOK(w) == \A b \in batch[w] : Handles(w, b[1])

\* How far a loop is with an item, and what has happened by then: it is logged or
\* on the bus before it is marked, marked before it is fanned out, and a dead letter
\* before it is removed.
HandOK(w) ==
  /\ at[w] \notin {"idle", "do"} => cur[w] \in Items \X Nat /\ Handles(w, Item(w))
  /\ at[w] = "mark" /\ w \in Flushers => \E o \in logged : o[1] = Item(w)
  /\ at[w] = "mark" /\ w \in Publishers => Item(w) \in bus
  /\ at[w] = "fanout" => w \in Publishers /\ Item(w) \in published
  /\ at[w] = "buried" => w \notin Dispatchers /\ Item(w) \in dlq
  /\ at[w] \in {"drop", "caught"} => w \in Dispatchers

InBatch == \A w \in Loops : BatchOK(w)
InHand == \A w \in Loops : HandOK(w)

Kept == TypeOK /\ InBatch /\ InHand /\ EventIsKept

\* Dispatchers that have posted a delivery and not yet recorded how it went.
Busy(d) == {w \in Dispatchers : at[w] \in {"mark", "fail", "caught"} /\ Item(w) = d}

\* Attempts are posts, counted once or recounted, and what a dispatcher read is not
\* ahead of the row.
Counted ==
  /\ \A d \in Deliveries : attempts[d] + Cardinality(Busy(d)) <= posts[d] + recounts[d]
  /\ \A w \in Dispatchers :
       /\ \A b \in batch[w] : b[2] <= attempts[b[1]]
       /\ at[w] \in {"mark", "fail", "caught"} => cur[w][2] <= attempts[Item(w)]

IInv == Kept /\ Counted /\ NoEarlyGiveUp

(***************************************************************************)
(* Facts about the constants.                                              *)
(***************************************************************************)
LEMMA RowsAreNotDeliveries == Rows \cap Deliveries = {}
  BY DEF Rows, Deliveries

LEMMA KindsDiffer ==
  /\ \A w \in Flushers : w \in Loops /\ w \notin Publishers /\ w \notin Dispatchers
  /\ \A w \in Publishers : w \in Loops /\ w \notin Flushers /\ w \notin Dispatchers
  /\ \A w \in Dispatchers : w \in Loops /\ w \notin Flushers /\ w \notin Publishers
  /\ \A w \in Loops : w \in Flushers \/ w \in Publishers \/ w \in Dispatchers
  BY EventingAssumption DEF Loops

LEMMA ItemsDiffer ==
  /\ \A x \in Events : x \in Items /\ x \notin Rows /\ x \notin Deliveries
  /\ \A x \in Rows : x \in Items /\ x \notin Events /\ x \notin Deliveries
  /\ \A x \in Deliveries : x \in Items /\ x \notin Events /\ x \notin Rows
  BY EventingAssumption, RowsAreNotDeliveries DEF Items

(***************************************************************************)
(* Loops that are not at work keep what they have.                         *)
(***************************************************************************)
Steps == {"idle", "do", "mark", "fanout", "fail", "caught", "buried", "drop"}

Grow ==
  /\ accepted \subseteq accepted' /\ logged \subseteq logged' /\ published \subseteq published'
  /\ bus \subseteq bus' /\ dlq \subseteq dlq'
  /\ \A d \in Deliveries : delivery[d] # "none" => delivery'[d] # "none"

LEMMA BatchKeeps ==
  ASSUME NEW v \in Loops, BatchOK(v), Grow, batch'[v] \subseteq batch[v]
  PROVE  BatchOK(v)'
  BY DEF BatchOK, Handles, Grow

LEMMA HandKeeps ==
  ASSUME NEW v \in Loops, HandOK(v), Grow, cur'[v] = cur[v], at'[v] = at[v]
  PROVE  HandOK(v)'
  BY DEF HandOK, Handles, Item, Grow

LEMMA RestHands ==
  ASSUME NEW v \in Loops, at'[v] \in {"idle", "do"}
  PROVE  HandOK(v)'
  BY DEF HandOK

LEMMA NextItemStep ==
  ASSUME Kept, Grow, NEW w \in Loops, NextItem(w)
  PROVE  /\ InBatch' /\ InHand'
         /\ batch' \in [Loops -> SUBSET (Items \X Nat)]
         /\ cur' \in [Loops -> (Items \X Nat) \cup {None}]
         /\ at' \in [Loops -> Steps]
<1>1. /\ batch' = batch
      /\ cur' \in [Loops -> (Items \X Nat) \cup {None}]
      /\ at' \in [Loops -> Steps]
      /\ at'[w] \in {"idle", "do"}
      /\ \A v \in Loops \ {w} : cur'[v] = cur[v] /\ at'[v] = at[v]
  BY DEF NextItem, Kept, TypeOK, Steps
<1>2. InBatch'
  BY <1>1, BatchKeeps DEF Kept, InBatch
<1>3. InHand'
  BY <1>1, HandKeeps, RestHands DEF Kept, InHand
<1> QED BY <1>1, <1>2, <1>3 DEF Kept, TypeOK

LEMMA GotoStep ==
  ASSUME Kept, Grow, NEW w \in Loops, NEW step \in Steps, Goto(w, step),
         at'[w] = step /\ cur'[w] = cur[w] => HandOK(w)'
  PROVE  /\ InBatch' /\ InHand'
         /\ batch' \in [Loops -> SUBSET (Items \X Nat)]
         /\ cur' \in [Loops -> (Items \X Nat) \cup {None}]
         /\ at' \in [Loops -> Steps]
<1>1. /\ batch' = batch /\ cur' = cur
      /\ at' \in [Loops -> Steps]
      /\ at'[w] = step
      /\ \A v \in Loops \ {w} : at'[v] = at[v]
  BY DEF Goto, Kept, TypeOK, Steps
<1>2. InBatch'
  BY <1>1, BatchKeeps DEF Kept, InBatch
<1>3. InHand'
  BY <1>1, HandKeeps DEF Kept, InHand
<1> QED BY <1>1, <1>2, <1>3 DEF Kept, TypeOK

LEMMA BeginStep ==
  ASSUME Kept, Grow, NEW w \in Loops, NEW x, NEW step \in Steps, Begin(w, x, step),
         at'[w] = step /\ cur'[w] \in Items \X Nat /\ Item(w)' = x /\ Handles(w, x)
           => HandOK(w)'
  PROVE  /\ InBatch' /\ InHand'
         /\ batch' \in [Loops -> SUBSET (Items \X Nat)]
         /\ cur' \in [Loops -> (Items \X Nat) \cup {None}]
         /\ at' \in [Loops -> Steps]
<1>1. PICK b \in batch[w] :
        /\ b[1] = x
        /\ batch' = [batch EXCEPT ![w] = @ \ {b}]
        /\ cur' = [cur EXCEPT ![w] = b]
  BY DEF Begin
<1>2. at' = [at EXCEPT ![w] = step]
  BY DEF Begin
<1>3. b \in Items \X Nat
  BY DEF Kept, TypeOK
<1>4. /\ batch' \in [Loops -> SUBSET (Items \X Nat)]
      /\ \A v \in Loops : batch'[v] \subseteq batch[v]
  BY <1>1 DEF Kept, TypeOK
<1>5. /\ cur' \in [Loops -> (Items \X Nat) \cup {None}]
      /\ cur'[w] = b
      /\ \A v \in Loops \ {w} : cur'[v] = cur[v]
  BY <1>1, <1>3 DEF Kept, TypeOK
<1>6. /\ at' \in [Loops -> Steps]
      /\ at'[w] = step
      /\ \A v \in Loops \ {w} : at'[v] = at[v]
  BY <1>2 DEF Kept, TypeOK, Steps
<1>7. InBatch'
  BY <1>4, BatchKeeps DEF Kept, InBatch
<1>8. Handles(w, x)
  BY <1>1 DEF Kept, InBatch, BatchOK
<1>9. HandOK(w)'
  BY <1>1, <1>3, <1>5, <1>6, <1>8 DEF Item
<1>10. InHand'
  BY <1>5, <1>6, <1>9, HandKeeps DEF Kept, InHand
<1> QED BY <1>4, <1>5, <1>6, <1>7, <1>10

LEMMA LoopsStay ==
  ASSUME Kept, Grow, UNCHANGED loop
  PROVE  InBatch' /\ InHand'
<1>1. batch' = batch /\ cur' = cur /\ at' = at
  BY DEF loop
<1> QED BY <1>1, BatchKeeps, HandKeeps DEF Kept, InBatch, InHand

\* What is settled has been logged, or is on the bus, or is a dead letter.
LEMMA SettleStep ==
  ASSUME Kept, NEW w \in Loops, Settle(w), at[w] \in {"mark", "buried"},
         UNCHANGED <<accepted, logged, bus, dlq>>
  PROVE  /\ Grow /\ EventIsKept'
         /\ queue' \subseteq accepted' /\ published' \subseteq logged'
         /\ delivery' \in [Deliveries -> {"none", "pending", "delivered", "dead", "dropped"}]
         /\ \A d \in Deliveries : delivery'[d] # "none" => d[1] \in published'
<1> USE KindsDiffer
<1>1. HandOK(w)
  BY DEF Kept, InHand
<1>2. cur[w] \in Items \X Nat /\ Handles(w, Item(w))
  BY <1>1 DEF HandOK
<1>3. /\ queue' \subseteq queue
      /\ published \subseteq published' /\ published' \subseteq logged'
  BY <1>2 DEF Settle, Handles, Kept, TypeOK
<1>4. delivery' \in [Deliveries -> {"none", "pending", "delivered", "dead", "dropped"}]
      /\ \A d \in Deliveries : delivery'[d] # "none" <=> delivery[d] # "none"
  BY <1>2 DEF Settle, Handles, Kept, TypeOK
<1>5. Grow
  BY <1>3, <1>4 DEF Grow
<1>6. \A d \in Deliveries : delivery'[d] # "none" => d[1] \in published'
  BY <1>3, <1>4 DEF Kept, TypeOK
<1>7. ASSUME NEW e \in accepted', e \notin queue', e \notin dlq' PROVE RowsOf(e)' # {}
  <2>1. CASE e \in queue
    <3>1. e = Item(w)
      BY <1>7, <2>1 DEF Settle
    <3>2. e \in Events
      BY <2>1 DEF Kept, TypeOK
    <3>3. w \in Flushers
      BY <1>2, <3>1, <3>2, ItemsDiffer DEF Handles, Kept, TypeOK
    <3>4. at[w] = "mark"
      BY <1>1, <1>7, <3>1 DEF HandOK
    <3> QED BY <1>1, <3>1, <3>3, <3>4 DEF HandOK, RowsOf
  <2>2. CASE e \notin queue
    BY <1>7, <2>2 DEF Kept, EventIsKept, RowsOf
  <2> QED BY <2>1, <2>2
<1>8. ASSUME NEW o \in logged', o \in published', o \notin dlq' PROVE o \in bus'
  <2>1. CASE o \in published
    BY <1>8, <2>1 DEF Kept, EventIsKept
  <2>2. CASE o \notin published
    <3>1. w \in Publishers /\ o = Item(w)
      BY <1>8, <2>2 DEF Settle
    <3> QED BY <1>1, <1>8, <3>1 DEF HandOK
  <2> QED BY <2>1, <2>2
<1>9. EventIsKept'
  BY <1>7, <1>8 DEF EventIsKept
<1> QED BY <1>3, <1>4, <1>5, <1>6, <1>9 DEF Kept, TypeOK

(***************************************************************************)
(* The steps.                                                              *)
(***************************************************************************)
LEMMA EnqueueKeeps ==
  ASSUME Kept, NEW e \in Events, Enqueue(e)
  PROVE  Kept'
<1>1. Grow
  BY DEF Grow, Enqueue
<1>2. InBatch' /\ InHand'
  BY <1>1, LoopsStay DEF Enqueue
<1>3. TypeOK'
  BY DEF Kept, TypeOK, Enqueue, loop
<1>4. EventIsKept'
  BY DEF Kept, EventIsKept, RowsOf, Enqueue
<1> QED BY <1>2, <1>3, <1>4 DEF Kept

LEMMA FindBatchKeeps ==
  ASSUME Kept, NEW w \in Loops, FindBatch(w)
  PROVE  Kept'
<1> USE KindsDiffer, ItemsDiffer
<1>1. Grow
  BY DEF Grow, FindBatch
<1>2. \A x \in Due(w) : x \in Items /\ Handles(w, x)
  BY DEF Due, Handles, Kept, TypeOK
<1>3. w \notin Flushers => Due(w) \subseteq Rows \cup Deliveries
  BY DEF Due, Kept, TypeOK
<1> DEFINE taken == {<<x, attempts[x]>> : x \in Due(w)}
<1>4. taken \subseteq Items \X Nat
  BY <1>2 DEF Kept, TypeOK
<1>5. /\ batch' = [batch EXCEPT ![w] = taken]
      /\ cur' = cur
      /\ at' = [at EXCEPT ![w] = "do"]
  BY DEF FindBatch
<1>6. \A b \in taken : Handles(w, b[1])
  BY <1>2
<1> HIDE DEF taken
<1>7. /\ batch' \in [Loops -> SUBSET (Items \X Nat)]
      /\ batch'[w] = taken
      /\ \A v \in Loops \ {w} : batch'[v] = batch[v]
  BY <1>4, <1>5 DEF Kept, TypeOK
<1>8. BatchOK(w)'
  BY <1>6, <1>7 DEF BatchOK, Handles, FindBatch
<1>9. InBatch'
  BY <1>1, <1>7, <1>8, BatchKeeps DEF Kept, InBatch
<1>10. /\ at' \in [Loops -> Steps]
       /\ at'[w] = "do"
       /\ \A v \in Loops \ {w} : at'[v] = at[v]
  BY <1>5 DEF Kept, TypeOK, Steps
<1>11. InHand'
  BY <1>1, <1>5, <1>10, HandKeeps, RestHands DEF Kept, InHand
<1>12. leased' \subseteq Rows \cup Deliveries
  BY <1>3 DEF FindBatch, Kept, TypeOK
<1>13. TypeOK'
  BY <1>5, <1>7, <1>10, <1>12 DEF FindBatch, Kept, TypeOK, Steps
<1>14. EventIsKept'
  BY DEF Kept, EventIsKept, RowsOf, FindBatch
<1> QED BY <1>9, <1>11, <1>13, <1>14 DEF Kept

LEMMA LeaseExpiresKeeps ==
  ASSUME Kept, NEW x, LeaseExpires(x)
  PROVE  Kept'
<1>1. Grow
  BY DEF Grow, LeaseExpires
<1>2. InBatch' /\ InHand'
  BY <1>1, LoopsStay DEF LeaseExpires
<1>3. TypeOK'
  BY DEF Kept, TypeOK, LeaseExpires, loop
<1>4. EventIsKept'
  BY DEF Kept, EventIsKept, RowsOf, LeaseExpires
<1> QED BY <1>2, <1>3, <1>4 DEF Kept

LEMMA SetActiveKeeps ==
  ASSUME Kept, NEW s \in Subscriptions, SetActive(s)
  PROVE  Kept'
<1>1. Grow
  BY DEF Grow, SetActive
<1>2. InBatch' /\ InHand'
  BY <1>1, LoopsStay DEF SetActive
<1>3. TypeOK'
  BY DEF Kept, TypeOK, SetActive, loop
<1>4. EventIsKept'
  BY DEF Kept, EventIsKept, RowsOf, SetActive
<1> QED BY <1>2, <1>3, <1>4 DEF Kept

LEMMA RecordKeeps ==
  ASSUME Kept, NEW w \in Loops, NEW e \in Events, Record(w, e)
  PROVE  Kept'
<1> USE KindsDiffer
<1>1. w \in Flushers
      /\ UNCHANGED <<accepted, queue, published, bus, dlq, delivery, posts, recounts, active, attempts,
                     leased, faults>>
  BY DEF Record
<1>2. /\ logged \subseteq logged' /\ logged' \subseteq Rows
      /\ \/ Begin(w, e, "mark") /\ \E o \in logged' : o[1] = e
         \/ Begin(w, e, "fail")
  <2>1. CASE Begin(w, e, "fail") /\ UNCHANGED logged
    BY <2>1 DEF Kept, TypeOK
  <2>2. ASSUME NEW k \in 1..MaxRows, logged' = logged \cup {<<e, k>>}, Begin(w, e, "mark")
        PROVE  /\ logged \subseteq logged' /\ logged' \subseteq Rows
               /\ Begin(w, e, "mark") /\ \E o \in logged' : o[1] = e
    <3>1. <<e, k>> \in Rows
      BY DEF Rows
    <3>2. \E o \in logged' : o[1] = e
      <4>1. <<e, k>> \in logged' /\ <<e, k>>[1] = e
        BY <2>2
      <4> QED BY <4>1
    <3>3. logged \subseteq logged' /\ logged' \subseteq Rows
      BY <2>2, <3>1 DEF Kept, TypeOK
    <3> QED BY <2>2, <3>2, <3>3
  <2> QED BY <2>1, <2>2 DEF Record
<1>3. Grow
  BY <1>1, <1>2 DEF Grow
<1>4. /\ InBatch' /\ InHand'
      /\ batch' \in [Loops -> SUBSET (Items \X Nat)]
      /\ cur' \in [Loops -> (Items \X Nat) \cup {None}]
      /\ at' \in [Loops -> Steps]
  <2>1. CASE Begin(w, e, "mark") /\ \E o \in logged' : o[1] = e
    <3>1. at'[w] = "mark" /\ cur'[w] \in Items \X Nat /\ Item(w)' = e /\ Handles(w, e)
            => HandOK(w)'
      BY <1>1, <2>1 DEF HandOK, Handles
    <3>2. "mark" \in Steps
      BY DEF Steps
    <3> QED BY <1>3, <2>1, <3>1, <3>2, BeginStep
  <2>2. CASE Begin(w, e, "fail")
    <3>1. at'[w] = "fail" /\ cur'[w] \in Items \X Nat /\ Item(w)' = e /\ Handles(w, e)
            => HandOK(w)'
      BY <1>1 DEF HandOK, Handles
    <3>2. "fail" \in Steps
      BY DEF Steps
    <3> QED BY <1>3, <2>2, <3>1, <3>2, BeginStep
  <2> QED BY <1>2, <2>1, <2>2
<1>5. TypeOK'
  BY <1>1, <1>2, <1>4 DEF Kept, TypeOK, Steps
<1>6. EventIsKept'
  BY <1>1, <1>2 DEF Kept, EventIsKept, RowsOf, TypeOK
<1> QED BY <1>4, <1>5, <1>6 DEF Kept

LEMMA PublishKeeps ==
  ASSUME Kept, NEW w \in Loops, NEW o \in Rows, Publish(w, o)
  PROVE  Kept'
<1> USE KindsDiffer
<1>1. w \in Publishers
      /\ UNCHANGED <<accepted, queue, logged, published, dlq, delivery, posts, recounts, active, attempts,
                     leased>>
  BY DEF Publish
<1>2. /\ bus' \in {bus, bus \cup {o}}
      /\ (Begin(w, o, "mark") /\ o \in bus') \/ Begin(w, o, "fail")
      /\ faults' \in 0..MaxFaults
  BY EventingAssumption DEF Publish, Fault, Kept, TypeOK
<1>3. Grow
  BY <1>1, <1>2 DEF Grow
<1>4. /\ InBatch' /\ InHand'
      /\ batch' \in [Loops -> SUBSET (Items \X Nat)]
      /\ cur' \in [Loops -> (Items \X Nat) \cup {None}]
      /\ at' \in [Loops -> Steps]
  <2>1. CASE Begin(w, o, "mark") /\ o \in bus'
    <3>1. at'[w] = "mark" /\ cur'[w] \in Items \X Nat /\ Item(w)' = o /\ Handles(w, o)
            => HandOK(w)'
      BY <1>1, <2>1 DEF HandOK, Handles
    <3>2. "mark" \in Steps
      BY DEF Steps
    <3> QED BY <1>3, <2>1, <3>1, <3>2, BeginStep
  <2>2. CASE Begin(w, o, "fail")
    <3>1. at'[w] = "fail" /\ cur'[w] \in Items \X Nat /\ Item(w)' = o /\ Handles(w, o)
            => HandOK(w)'
      BY <1>1 DEF HandOK, Handles
    <3>2. "fail" \in Steps
      BY DEF Steps
    <3> QED BY <1>3, <2>2, <3>1, <3>2, BeginStep
  <2> QED BY <1>2, <2>1, <2>2
<1>5. o \in logged
  BY <1>1 DEF Publish, Begin, Kept, InBatch, BatchOK, Handles
<1>6. TypeOK'
  BY <1>1, <1>2, <1>4, <1>5 DEF Kept, TypeOK, Steps
<1>7. EventIsKept'
  BY <1>1, <1>2 DEF Kept, EventIsKept, RowsOf
<1> QED BY <1>4, <1>6, <1>7 DEF Kept

LEMMA DeliveryKeeps ==
  ASSUME Kept, NEW w \in Loops, NEW d \in Deliveries, AttemptDelivery(w, d)
  PROVE  Kept'
<1> USE KindsDiffer
<1>1. w \in Dispatchers
      /\ UNCHANGED <<accepted, queue, logged, published, bus, dlq, delivery, recounts, active,
                     attempts, leased, faults>>
  BY DEF AttemptDelivery
<1>2. PICK step \in {"mark", "fail", "caught", "drop"} : Begin(w, d, step)
  BY DEF AttemptDelivery
<1>3. Grow
  BY <1>1 DEF Grow
<1>4. /\ InBatch' /\ InHand'
      /\ batch' \in [Loops -> SUBSET (Items \X Nat)]
      /\ cur' \in [Loops -> (Items \X Nat) \cup {None}]
      /\ at' \in [Loops -> Steps]
  <2>1. at'[w] = step /\ cur'[w] \in Items \X Nat /\ Item(w)' = d /\ Handles(w, d)
          => HandOK(w)'
    BY <1>1 DEF HandOK, Handles
  <2>2. step \in Steps
    BY DEF Steps
  <2> QED BY <1>2, <1>3, <2>1, <2>2, BeginStep
<1>5. posts' \in [Deliveries -> Nat]
  BY DEF AttemptDelivery, Kept, TypeOK
<1>6. TypeOK'
  BY <1>1, <1>4, <1>5 DEF Kept, TypeOK, Steps
<1>7. EventIsKept'
  BY <1>1 DEF Kept, EventIsKept, RowsOf
<1> QED BY <1>4, <1>6, <1>7 DEF Kept

LEMMA MarkKeeps ==
  ASSUME Kept, NEW w \in Loops, Mark(w)
  PROVE  Kept'
<1> USE KindsDiffer
<1>1. at[w] = "mark" /\ UNCHANGED <<accepted, logged, bus, dlq, posts, recounts, active, attempts, leased>>
  BY DEF Mark
<1>2. HandOK(w)
  BY DEF Kept, InHand
<1>3. CASE Settle(w) /\ UNCHANGED faults
           /\ IF w \in Publishers THEN Goto(w, "fanout") ELSE NextItem(w)
  <2>1. /\ Grow /\ EventIsKept'
        /\ queue' \subseteq accepted' /\ published' \subseteq logged'
        /\ delivery' \in [Deliveries -> {"none", "pending", "delivered", "dead", "dropped"}]
        /\ \A d \in Deliveries : delivery'[d] # "none" => d[1] \in published'
    BY <1>1, <1>3, SettleStep
  <2>2. /\ InBatch' /\ InHand'
        /\ batch' \in [Loops -> SUBSET (Items \X Nat)]
        /\ cur' \in [Loops -> (Items \X Nat) \cup {None}]
        /\ at' \in [Loops -> Steps]
    <3>1. CASE w \in Publishers
      <4>1. Goto(w, "fanout") /\ "fanout" \in Steps
        BY <1>3, <3>1 DEF Steps
      <4>2. Item(w) \in published'
        BY <1>3, <3>1 DEF Settle
      <4>3. at'[w] = "fanout" /\ cur'[w] = cur[w] => HandOK(w)'
        BY <1>1, <1>2, <2>1, <3>1, <4>2 DEF HandOK, Handles, Item
      <4> QED BY <2>1, <4>1, <4>3, GotoStep
    <3>2. CASE w \notin Publishers
      BY <1>3, <2>1, <3>2, NextItemStep
    <3> QED BY <3>1, <3>2
  <2>3. TypeOK'
    BY <1>1, <1>3, <2>1, <2>2 DEF Kept, TypeOK, Steps
  <2> QED BY <2>1, <2>2, <2>3 DEF Kept
<1>4. ASSUME NEW step \in {"fail", "caught"}, step = "caught" => w \in Dispatchers,
             Goto(w, step), Fault, Settle(w) \/ UNCHANGED <<queue, published, delivery>>
      PROVE  Kept'
  <2>1. /\ Grow /\ EventIsKept'
        /\ queue' \subseteq accepted' /\ published' \subseteq logged'
        /\ delivery' \in [Deliveries -> {"none", "pending", "delivered", "dead", "dropped"}]
        /\ \A d \in Deliveries : delivery'[d] # "none" => d[1] \in published'
    <3>1. CASE Settle(w)
      BY <1>1, <3>1, SettleStep
    <3>2. CASE UNCHANGED <<queue, published, delivery>>
      BY <1>1, <3>2 DEF Grow, Kept, TypeOK, EventIsKept, RowsOf
    <3> QED BY <1>4, <3>1, <3>2
  <2>2. at'[w] = step /\ cur'[w] = cur[w] => HandOK(w)'
    BY <1>1, <1>2, <1>4, <2>1 DEF HandOK, Handles, Item, Grow
  <2>3. step \in Steps
    BY DEF Steps
  <2>4. /\ InBatch' /\ InHand'
        /\ batch' \in [Loops -> SUBSET (Items \X Nat)]
        /\ cur' \in [Loops -> (Items \X Nat) \cup {None}]
        /\ at' \in [Loops -> Steps]
    BY <1>4, <2>1, <2>2, <2>3, GotoStep
  <2>5. TypeOK'
    BY <1>1, <1>4, <2>1, <2>4, EventingAssumption DEF Kept, TypeOK, Steps, Fault
  <2> QED BY <2>1, <2>4, <2>5 DEF Kept
<1> QED BY <1>3, <1>4 DEF Mark

LEMMA FanOutKeeps ==
  ASSUME Kept, NEW w \in Loops, FanOut(w)
  PROVE  Kept'
<1>1. at[w] = "fanout" /\ NextItem(w)
      /\ UNCHANGED <<accepted, queue, logged, published, bus, dlq, posts, recounts, active, attempts,
                     leased, faults>>
  BY DEF FanOut
<1>2. Item(w) \in published
  BY <1>1 DEF Kept, InHand, HandOK
<1>3. /\ delivery' \in [Deliveries -> {"none", "pending", "delivered", "dead", "dropped"}]
      /\ \A d \in Deliveries :
           delivery'[d] = delivery[d] \/ (delivery'[d] = "pending" /\ d[1] = Item(w))
  BY DEF FanOut, Kept, TypeOK
<1>4. Grow
  BY <1>1, <1>3 DEF Grow
<1>5. /\ InBatch' /\ InHand'
      /\ batch' \in [Loops -> SUBSET (Items \X Nat)]
      /\ cur' \in [Loops -> (Items \X Nat) \cup {None}]
      /\ at' \in [Loops -> Steps]
  BY <1>1, <1>4, NextItemStep
<1>6. TypeOK'
  BY <1>1, <1>2, <1>3, <1>5 DEF Kept, TypeOK, Steps
<1>7. EventIsKept'
  BY <1>1 DEF Kept, EventIsKept, RowsOf
<1> QED BY <1>5, <1>6, <1>7 DEF Kept

LEMMA RecordFailureType ==
  ASSUME Kept, NEW w \in Loops, at[w] \in {"fail", "caught", "buried"}, RecordFailure(w)
  PROVE  /\ attempts' \in [Items -> Nat]
         /\ NextItem(w)
         /\ \A x \in Items \ {Item(w)} : attempts'[x] = attempts[x]
<1>1. Item(w) \in Items
  BY DEF Kept, InHand, HandOK, Item
<1>2. attempts \in [Items -> Nat]
  BY DEF Kept, TypeOK
<1>3. NextItem(w)
  BY DEF RecordFailure
<1>4. CASE attempts' = attempts
  BY <1>2, <1>3, <1>4
<1>5. CASE attempts' = [attempts EXCEPT ![Item(w)] = @ + 1]
  BY <1>1, <1>2, <1>3, <1>5
<1> QED BY <1>4, <1>5 DEF RecordFailure

LEMMA HandleFailureKeeps ==
  ASSUME Kept, NEW w \in Loops, HandleFailure(w)
  PROVE  Kept'
<1> USE KindsDiffer
<1>1. /\ at[w] \in {"fail", "caught"}
      /\ UNCHANGED <<accepted, queue, logged, published, bus, posts, recounts, active, leased>>
  BY DEF HandleFailure
<1>2. HandOK(w)
  BY DEF Kept, InHand
<1>3. cur[w] \in Items \X Nat /\ Handles(w, Item(w))
  BY <1>1, <1>2 DEF HandOK
<1>4. CASE RecordFailure(w) /\ UNCHANGED <<dlq, delivery>> /\ (Fault \/ UNCHANGED faults)
  <2>1. Grow
    BY <1>1, <1>4 DEF Grow
  <2>2. /\ attempts' \in [Items -> Nat]
        /\ InBatch' /\ InHand'
        /\ batch' \in [Loops -> SUBSET (Items \X Nat)]
        /\ cur' \in [Loops -> (Items \X Nat) \cup {None}]
        /\ at' \in [Loops -> Steps]
    BY <1>1, <1>4, <2>1, RecordFailureType, NextItemStep
  <2>3. faults' \in 0..MaxFaults
    BY <1>4, EventingAssumption DEF Fault, Kept, TypeOK
  <2>4. TypeOK'
    BY <1>1, <1>4, <2>2, <2>3 DEF Kept, TypeOK, Steps
  <2>5. EventIsKept'
    BY <1>1, <1>4 DEF Kept, EventIsKept, RowsOf
  <2> QED BY <2>2, <2>4, <2>5 DEF Kept
<1>5. CASE /\ w \in Dispatchers
           /\ delivery' = [delivery EXCEPT ![Item(w)] = "dead"]
           /\ NextItem(w)
           /\ UNCHANGED <<dlq, attempts, faults>>
  <2>1. /\ delivery' \in [Deliveries -> {"none", "pending", "delivered", "dead", "dropped"}]
        /\ \A d \in Deliveries : delivery'[d] # "none" <=> delivery[d] # "none"
    BY <1>3, <1>5 DEF Handles, Kept, TypeOK
  <2>2. Grow
    BY <1>1, <1>5, <2>1 DEF Grow
  <2>3. /\ InBatch' /\ InHand'
        /\ batch' \in [Loops -> SUBSET (Items \X Nat)]
        /\ cur' \in [Loops -> (Items \X Nat) \cup {None}]
        /\ at' \in [Loops -> Steps]
    BY <1>5, <2>2, NextItemStep
  <2>4. TypeOK'
    BY <1>1, <1>5, <2>1, <2>3 DEF Kept, TypeOK, Steps
  <2>5. EventIsKept'
    BY <1>1, <1>5 DEF Kept, EventIsKept, RowsOf
  <2> QED BY <2>3, <2>4, <2>5 DEF Kept
<1>6. CASE /\ w \notin Dispatchers
           /\ dlq' = dlq \cup {Item(w)} /\ Goto(w, "buried")
           /\ UNCHANGED <<attempts, faults, delivery>>
  <2>1. Grow
    BY <1>1, <1>6 DEF Grow
  <2>2. at'[w] = "buried" /\ cur'[w] = cur[w] => HandOK(w)'
    BY <1>1, <1>3, <1>6 DEF HandOK, Handles, Item
  <2>3. "buried" \in Steps
    BY DEF Steps
  <2>4. /\ InBatch' /\ InHand'
        /\ batch' \in [Loops -> SUBSET (Items \X Nat)]
        /\ cur' \in [Loops -> (Items \X Nat) \cup {None}]
        /\ at' \in [Loops -> Steps]
    BY <1>6, <2>1, <2>2, <2>3, GotoStep
  <2>5. Item(w) \in accepted \cup logged
    BY <1>3, <1>6 DEF Handles
  <2>6. TypeOK'
    BY <1>1, <1>6, <2>4, <2>5 DEF Kept, TypeOK, Steps
  <2>7. EventIsKept'
    BY <1>1, <1>6 DEF Kept, EventIsKept, RowsOf
  <2> QED BY <2>4, <2>6, <2>7 DEF Kept
<1> QED BY <1>4, <1>5, <1>6 DEF HandleFailure

LEMMA ThrowsKeeps ==
  ASSUME Kept, NEW w \in Loops, HandleFailureThrows(w)
  PROVE  Kept'
<1>1. /\ w \in Dispatchers /\ at[w] = "fail" /\ Fault /\ Goto(w, "caught")
      /\ UNCHANGED <<accepted, queue, logged, published, bus, dlq, posts, active, leased>>
  BY DEF HandleFailureThrows
<1>2. HandOK(w)
  BY DEF Kept, InHand
<1>3. /\ Item(w) \in Items /\ Item(w) \in Deliveries /\ delivery[Item(w)] # "none"
      /\ cur[w] \in Items \X Nat
  BY <1>1, <1>2, ItemsDiffer DEF HandOK, Handles
<1>4. /\ attempts' \in [Items -> Nat] /\ recounts' \in [Deliveries -> Nat]
      /\ delivery' \in [Deliveries -> {"none", "pending", "delivered", "dead", "dropped"}]
      /\ \A d \in Deliveries : delivery'[d] # "none" <=> delivery[d] # "none"
  <2>1. /\ attempts \in [Items -> Nat] /\ recounts \in [Deliveries -> Nat]
        /\ delivery \in [Deliveries -> {"none", "pending", "delivered", "dead", "dropped"}]
    BY DEF Kept, TypeOK
  <2>2. attempts' = attempts \/ attempts' = [attempts EXCEPT ![Item(w)] = @ + 1]
    BY DEF HandleFailureThrows
  <2>3. recounts' = recounts \/ recounts' = [recounts EXCEPT ![Item(w)] = @ + 1]
    BY DEF HandleFailureThrows
  <2>4. delivery' = delivery \/ delivery' = [delivery EXCEPT ![Item(w)] = "dead"]
    BY DEF HandleFailureThrows
  <2> QED BY <1>3, <2>1, <2>2, <2>3, <2>4
<1>5. Grow
  BY <1>1, <1>4 DEF Grow
<1>6. at'[w] = "caught" /\ cur'[w] = cur[w] => HandOK(w)'
  BY <1>1, <1>3, <1>4, KindsDiffer DEF HandOK, Handles, Item
<1>7. "caught" \in Steps
  BY DEF Steps
<1>8. /\ InBatch' /\ InHand'
      /\ batch' \in [Loops -> SUBSET (Items \X Nat)]
      /\ cur' \in [Loops -> (Items \X Nat) \cup {None}]
      /\ at' \in [Loops -> Steps]
  BY <1>1, <1>5, <1>6, <1>7, GotoStep
<1>9. TypeOK'
  BY <1>1, <1>4, <1>8, EventingAssumption DEF Kept, TypeOK, Steps, Fault
<1>10. EventIsKept'
  BY <1>1 DEF Kept, EventIsKept, RowsOf
<1> QED BY <1>8, <1>9, <1>10 DEF Kept

LEMMA AfterDeadLetterKeeps ==
  ASSUME Kept, NEW w \in Loops, AfterDeadLetter(w)
  PROVE  Kept'
<1>1. at[w] = "buried" /\ UNCHANGED <<accepted, logged, bus, dlq, posts, recounts, active, leased>>
  BY DEF AfterDeadLetter
<1>2. CASE Settle(w) /\ NextItem(w) /\ UNCHANGED <<attempts, faults>>
  <2>1. /\ Grow /\ EventIsKept'
        /\ queue' \subseteq accepted' /\ published' \subseteq logged'
        /\ delivery' \in [Deliveries -> {"none", "pending", "delivered", "dead", "dropped"}]
        /\ \A d \in Deliveries : delivery'[d] # "none" => d[1] \in published'
    BY <1>1, <1>2, SettleStep
  <2>2. /\ InBatch' /\ InHand'
        /\ batch' \in [Loops -> SUBSET (Items \X Nat)]
        /\ cur' \in [Loops -> (Items \X Nat) \cup {None}]
        /\ at' \in [Loops -> Steps]
    BY <1>2, <2>1, NextItemStep
  <2>3. TypeOK'
    BY <1>1, <1>2, <2>1, <2>2 DEF Kept, TypeOK, Steps
  <2> QED BY <2>1, <2>2, <2>3 DEF Kept
<1>3. CASE Fault /\ RecordFailure(w) /\ UNCHANGED <<queue, published, delivery>>
  <2>1. Grow
    BY <1>1, <1>3 DEF Grow
  <2>2. /\ attempts' \in [Items -> Nat]
        /\ InBatch' /\ InHand'
        /\ batch' \in [Loops -> SUBSET (Items \X Nat)]
        /\ cur' \in [Loops -> (Items \X Nat) \cup {None}]
        /\ at' \in [Loops -> Steps]
    BY <1>1, <1>3, <2>1, RecordFailureType, NextItemStep
  <2>3. faults' \in 0..MaxFaults
    BY <1>3, EventingAssumption DEF Fault, Kept, TypeOK
  <2>4. TypeOK'
    BY <1>1, <1>3, <2>2, <2>3 DEF Kept, TypeOK, Steps
  <2>5. EventIsKept'
    BY <1>1, <1>3 DEF Kept, EventIsKept, RowsOf
  <2> QED BY <2>2, <2>4, <2>5 DEF Kept
<1> QED BY <1>2, <1>3 DEF AfterDeadLetter

LEMMA DropKeeps ==
  ASSUME Kept, NEW w \in Loops, Drop(w)
  PROVE  Kept'
<1>1. at[w] = "drop" /\ NextItem(w)
      /\ delivery' = [delivery EXCEPT ![Item(w)] = "dropped"]
      /\ UNCHANGED <<accepted, queue, logged, published, bus, dlq, posts, recounts, active, attempts,
                     leased, faults>>
  BY DEF Drop
<1>2. Item(w) \in Deliveries /\ delivery[Item(w)] # "none"
  BY <1>1 DEF Kept, InHand, HandOK, Handles
<1>3. /\ delivery' \in [Deliveries -> {"none", "pending", "delivered", "dead", "dropped"}]
      /\ \A d \in Deliveries : delivery'[d] # "none" <=> delivery[d] # "none"
  BY <1>1, <1>2 DEF Kept, TypeOK
<1>4. Grow
  BY <1>1, <1>3 DEF Grow
<1>5. /\ InBatch' /\ InHand'
      /\ batch' \in [Loops -> SUBSET (Items \X Nat)]
      /\ cur' \in [Loops -> (Items \X Nat) \cup {None}]
      /\ at' \in [Loops -> Steps]
  BY <1>1, <1>4, NextItemStep
<1>6. TypeOK'
  BY <1>1, <1>3, <1>5 DEF Kept, TypeOK, Steps
<1>7. EventIsKept'
  BY <1>1 DEF Kept, EventIsKept, RowsOf
<1> QED BY <1>5, <1>6, <1>7 DEF Kept

LEMMA AbortKeeps ==
  ASSUME Kept, NEW w \in Loops, Abort(w)
  PROVE  Kept'
<1>1. Fault /\ UNCHANGED <<accepted, queue, logged, published, bus, dlq, delivery, posts, recounts, active,
                           attempts, leased>>
  BY DEF Abort
<1>2. Grow
  BY <1>1 DEF Grow
<1>3. /\ batch' \in [Loops -> SUBSET (Items \X Nat)]
      /\ cur' \in [Loops -> (Items \X Nat) \cup {None}]
      /\ at' \in [Loops -> Steps]
      /\ at'[w] = "idle"
      /\ \A v \in Loops : batch'[v] \subseteq batch[v]
      /\ \A v \in Loops \ {w} : cur'[v] = cur[v] /\ at'[v] = at[v]
  BY DEF Abort, Kept, TypeOK, Steps
<1>4. InBatch'
  BY <1>2, <1>3, BatchKeeps DEF Kept, InBatch
<1>5. InHand'
  BY <1>2, <1>3, HandKeeps, RestHands DEF Kept, InHand
<1>6. TypeOK'
  BY <1>1, <1>3, EventingAssumption DEF Kept, TypeOK, Steps, Fault
<1>7. EventIsKept'
  BY <1>1 DEF Kept, EventIsKept, RowsOf
<1> QED BY <1>4, <1>5, <1>6, <1>7 DEF Kept

LEMMA InitKept == Init => Kept
<1> SUFFICES ASSUME Init PROVE Kept
  OBVIOUS
<1>1. TypeOK
  BY EventingAssumption DEF Init, TypeOK
<1>2. InBatch /\ InHand
  BY DEF Init, InBatch, BatchOK, InHand, HandOK
<1>3. EventIsKept
  BY DEF Init, EventIsKept
<1> QED BY <1>1, <1>2, <1>3 DEF Kept

LEMMA NextKept == Kept /\ [Next]_vars => Kept'
<1> SUFFICES ASSUME Kept, [Next]_vars PROVE Kept'
  OBVIOUS
<1>1. ASSUME NEW e \in Events, Enqueue(e) PROVE Kept'
  BY <1>1, EnqueueKeeps
<1>2. ASSUME NEW x \in Rows \cup Deliveries, LeaseExpires(x) PROVE Kept'
  BY <1>2, LeaseExpiresKeeps
<1>3. ASSUME NEW w \in Loops, Work(w) PROVE Kept'
  BY <1>3, FindBatchKeeps, RecordKeeps, PublishKeeps, DeliveryKeeps, MarkKeeps, FanOutKeeps,
     HandleFailureKeeps, AfterDeadLetterKeeps, DropKeeps DEF Work
<1>4. ASSUME NEW w \in Loops, Abort(w) \/ HandleFailureThrows(w) PROVE Kept'
  BY <1>4, AbortKeeps, ThrowsKeeps
<1>5. ASSUME NEW s \in Subscriptions, SetActive(s) PROVE Kept'
  BY <1>5, SetActiveKeeps
<1>6. CASE UNCHANGED vars
  <2>1. InBatch' /\ InHand'
    BY <1>6 DEF vars, Kept, InBatch, InHand, BatchOK, HandOK, Handles, Item
  <2>2. TypeOK' /\ EventIsKept'
    BY <1>6 DEF vars, Kept, TypeOK, EventIsKept, RowsOf
  <2> QED BY <2>1, <2>2 DEF Kept
<1> QED BY <1>1, <1>2, <1>3, <1>4, <1>5, <1>6 DEF Next

(***************************************************************************)
(* Counting posts.                                                         *)
(***************************************************************************)
LEMMA BusyIsFinite ==
  \A d : IsFiniteSet(Busy(d)) /\ Cardinality(Busy(d)) \in Nat
<1> TAKE d
<1>1. Busy(d) \in SUBSET Dispatchers
  BY DEF Busy
<1>2. IsFiniteSet(Dispatchers)
  BY EventingAssumption
<1>3. IsFiniteSet(Busy(d))
  BY <1>1, <1>2, FS_Subset
<1> QED BY <1>3, FS_CardinalityType

\* What a dispatcher reads, holds or has posted is a delivery.
LEMMA DispatchersHandle ==
  ASSUME Kept, NEW v \in Dispatchers
  PROVE  /\ v \in Loops
         /\ \A b \in batch[v] : b[1] \in Deliveries /\ b[2] \in Nat
         /\ at[v] \in {"mark", "fail", "caught"} => Item(v) \in Deliveries /\ cur[v][2] \in Nat
<1>1. v \in Loops
  BY KindsDiffer
<1> QED BY <1>1 DEF Kept, TypeOK, InBatch, BatchOK, InHand, HandOK, Handles

\* Nobody posts and nothing is counted.
Calm ==
  /\ posts' = posts /\ recounts' = recounts
  /\ \A d \in Deliveries : attempts'[d] = attempts[d]
  /\ \A v \in Dispatchers :
       /\ at'[v] \in {"mark", "fail", "caught"} => at[v] \in {"mark", "fail", "caught"} /\ cur'[v] = cur[v]
       /\ \A b \in batch'[v] :
            b \in batch[v] \/ (b[1] \in Deliveries /\ b[2] <= attempts[b[1]])
  /\ \A d \in Deliveries :
       delivery'[d] = "dead" =>
         delivery[d] = "dead" \/ posts[d] + recounts[d] >= MaxAttempts

LEMMA CalmStep ==
  ASSUME Kept, Counted, NoEarlyGiveUp, Calm
  PROVE  Counted' /\ NoEarlyGiveUp'
<1>1. ASSUME NEW d \in Deliveries
      PROVE  attempts'[d] + Cardinality(Busy(d)') <= posts'[d] + recounts'[d]
  <2>1. Busy(d)' \in SUBSET Busy(d)
    BY DEF Busy, Calm, Item
  <2> DEFINE C == Cardinality(Busy(d)) D == Cardinality(Busy(d)')
  <2>2. IsFiniteSet(Busy(d)) /\ C \in Nat
    BY BusyIsFinite
  <2>3. D <= C /\ IsFiniteSet(Busy(d)')
    BY <2>1, <2>2, FS_Subset
  <2>4. D \in Nat
    BY <2>3, FS_CardinalityType
  <2>5. attempts[d] + C <= posts[d] + recounts[d]
    BY DEF Counted
  <2>6. /\ attempts[d] \in Nat /\ posts[d] \in Nat /\ recounts[d] \in Nat
        /\ attempts'[d] = attempts[d] /\ posts' = posts /\ recounts' = recounts
    BY ItemsDiffer DEF Kept, TypeOK, Calm
  <2> HIDE DEF C, D
  <2>7. attempts'[d] + D <= posts'[d] + recounts'[d]
    BY <2>2, <2>3, <2>4, <2>5, <2>6
  <2> QED BY <2>7 DEF D
<1>2. ASSUME NEW v \in Dispatchers, NEW b \in batch'[v] PROVE b[2] <= attempts'[b[1]]
  <2>1. CASE b \in batch[v]
    BY <2>1, DispatchersHandle DEF Counted, Calm
  <2>2. CASE b \notin batch[v]
    BY <1>2, <2>2 DEF Calm
  <2> QED BY <2>1, <2>2
<1>3. ASSUME NEW v \in Dispatchers, at'[v] \in {"mark", "fail", "caught"}
      PROVE  cur'[v][2] <= attempts'[Item(v)']
  BY <1>3, DispatchersHandle DEF Counted, Calm, Item
<1>4. Counted'
  BY <1>1, <1>2, <1>3 DEF Counted
<1>5. NoEarlyGiveUp'
  BY DEF NoEarlyGiveUp, Calm
<1> QED BY <1>4, <1>5

LEMMA NextItemIsCalm ==
  ASSUME Kept, NEW w \in Loops, NextItem(w)
  PROVE  /\ batch' = batch
         /\ at'[w] \in {"idle", "do"}
         /\ \A v \in Loops \ {w} : at'[v] = at[v] /\ cur'[v] = cur[v]
  BY DEF NextItem, Kept, TypeOK

LEMMA PostStep ==
  ASSUME Kept, Counted, NoEarlyGiveUp, NEW w \in Loops, NEW d \in Deliveries,
         AttemptDelivery(w, d)
  PROVE  Counted' /\ NoEarlyGiveUp'
<1>1. /\ w \in Dispatchers /\ at[w] = "do" /\ attempts' = attempts /\ delivery' = delivery
      /\ recounts' = recounts
  BY DEF AttemptDelivery, Begin
<1>2. PICK step \in {"mark", "fail", "caught", "drop"} :
        /\ Begin(w, d, step)
        /\ \/ step # "drop" /\ posts' = [posts EXCEPT ![d] = @ + 1]
           \/ step = "drop" /\ posts' = posts
  BY DEF AttemptDelivery
<1>3. PICK b \in batch[w] :
        /\ b[1] = d
        /\ batch' = [batch EXCEPT ![w] = @ \ {b}]
        /\ cur' = [cur EXCEPT ![w] = b]
  BY <1>2 DEF Begin
<1>4. /\ \A v \in Loops : batch'[v] \subseteq batch[v]
      /\ cur'[w] = b
      /\ at'[w] = step
      /\ \A v \in Loops \ {w} : at'[v] = at[v] /\ cur'[v] = cur[v]
  BY <1>2, <1>3 DEF Begin, Kept, TypeOK
<1>5. CASE step = "drop"
  <2>1. Calm
    BY <1>1, <1>2, <1>4, <1>5, KindsDiffer DEF Calm
  <2> QED BY <2>1, CalmStep
<1>6. CASE step # "drop"
  <2>1. posts' = [posts EXCEPT ![d] = @ + 1] /\ posts \in [Deliveries -> Nat]
    BY <1>2, <1>6 DEF Kept, TypeOK
  <2>2. ASSUME NEW c \in Deliveries 
        PROVE  attempts'[c] + Cardinality(Busy(c)') <= posts'[c] + recounts'[c]
    <3>1. attempts[c] + Cardinality(Busy(c)) <= posts[c] + recounts[c]
      BY DEF Counted
    <3>2. attempts[c] \in Nat /\ posts[c] \in Nat /\ recounts[c] \in Nat /\ Cardinality(Busy(c)) \in Nat
      BY BusyIsFinite, ItemsDiffer DEF Kept, TypeOK
    <3>3. CASE c = d
      <4>1. Busy(c)' = Busy(c) \cup {w} /\ w \notin Busy(c)
        BY <1>1, <1>3, <1>4, <1>6, <3>3, KindsDiffer DEF Busy, Item
      <4>2. Cardinality(Busy(c)') = Cardinality(Busy(c)) + 1
        BY <4>1, BusyIsFinite, FS_AddElement
      <4>3. posts'[c] = posts[c] + 1
        BY <2>1, <3>3
      <4> QED BY <1>1, <3>1, <3>2, <4>2, <4>3
    <3>4. CASE c # d
      <4>1. Busy(c)' = Busy(c)
        BY <1>1, <1>3, <1>4, <3>4, KindsDiffer DEF Busy, Item
      <4>2. posts'[c] = posts[c]
        BY <2>1, <3>4
      <4> QED BY <1>1, <3>1, <4>1, <4>2
    <3> QED BY <3>3, <3>4
  <2>3. \A v \in Dispatchers : \A x \in batch'[v] : x[2] <= attempts'[x[1]]
    BY <1>1, <1>4, KindsDiffer DEF Counted
  <2>4. ASSUME NEW v \in Dispatchers, at'[v] \in {"mark", "fail", "caught"}
        PROVE  cur'[v][2] <= attempts'[Item(v)']
    <3>1. CASE v = w
      BY <1>1, <1>3, <1>4, <3>1 DEF Counted, Item
    <3>2. CASE v # w
      BY <1>1, <1>4, <2>4, <3>2, KindsDiffer DEF Counted, Item
    <3> QED BY <3>1, <3>2
  <2>5. Counted'
    BY <2>2, <2>3, <2>4 DEF Counted
  <2>6. NoEarlyGiveUp'
    <3> SUFFICES ASSUME NEW c \in Deliveries, delivery'[c] = "dead"
                 PROVE  posts'[c] + recounts'[c] >= MaxAttempts
      BY DEF NoEarlyGiveUp
    <3>1. posts[c] + recounts[c] >= MaxAttempts
      BY <1>1 DEF NoEarlyGiveUp
    <3>2. posts'[c] \in {posts[c], posts[c] + 1} /\ posts[c] \in Nat /\ recounts[c] \in Nat
      BY <2>1 DEF Kept, TypeOK
    <3> QED BY <1>1, <3>1, <3>2, EventingAssumption
  <2> QED BY <2>5, <2>6
<1> QED BY <1>5, <1>6

\* A failed post becomes an attempt.
LEMMA RecordStep ==
  ASSUME Kept, Counted, NoEarlyGiveUp, NEW w \in Dispatchers, at[w] \in {"fail", "caught"},
         RecordFailure(w), UNCHANGED <<posts, recounts, delivery>>
  PROVE  Counted' /\ NoEarlyGiveUp'
<1> DEFINE d == Item(w)
<1>1. w \in Loops /\ w \notin Flushers
  BY KindsDiffer
<1>2. d \in Deliveries /\ d \in Items
  BY DispatchersHandle, ItemsDiffer
<1>3. /\ batch' = batch
      /\ at'[w] \in {"idle", "do"}
      /\ \A v \in Loops \ {w} : at'[v] = at[v] /\ cur'[v] = cur[v]
  BY <1>1, NextItemIsCalm DEF RecordFailure
<1>4. attempts' = [attempts EXCEPT ![d] = @ + 1] /\ attempts \in [Items -> Nat]
  BY <1>1 DEF RecordFailure, Kept, TypeOK
<1> HIDE DEF d
<1>5. /\ attempts'[d] = attempts[d] + 1 /\ attempts[d] \in Nat
      /\ \A c \in Items : attempts'[c] \in {attempts[c], attempts[c] + 1} /\ attempts[c] \in Nat
      /\ \A c \in Items \ {d} : attempts'[c] = attempts[c]
  BY <1>2, <1>4
<1>6. ASSUME NEW c \in Deliveries 
        PROVE  attempts'[c] + Cardinality(Busy(c)') <= posts'[c] + recounts'[c]
  <2>1. attempts[c] + Cardinality(Busy(c)) <= posts[c] + recounts[c]
    BY DEF Counted
  <2>2. attempts[c] \in Nat /\ posts[c] \in Nat /\ recounts[c] \in Nat /\ Cardinality(Busy(c)) \in Nat
    BY BusyIsFinite, ItemsDiffer DEF Kept, TypeOK
  <2>3. CASE c = d
    <3>1. Busy(c)' = Busy(c) \ {w} /\ w \in Busy(c)
      BY <1>3, <2>3, KindsDiffer DEF Busy, Item, d
    <3>2. Cardinality(Busy(c)') = Cardinality(Busy(c)) - 1
      BY <3>1, BusyIsFinite, FS_RemoveElement
    <3> QED BY <1>5, <2>1, <2>2, <2>3, <3>2
  <2>4. CASE c # d
    <3>1. Busy(c)' = Busy(c)
      BY <1>3, <2>4, KindsDiffer DEF Busy, Item, d
    <3> QED BY <1>5, <2>1, <2>4, <3>1, ItemsDiffer
  <2> QED BY <2>3, <2>4
<1>7. ASSUME NEW v \in Dispatchers, NEW b \in batch'[v] PROVE b[2] <= attempts'[b[1]]
  <2>1. b \in batch[v] /\ b[2] <= attempts[b[1]]
    BY <1>3 DEF Counted
  <2>2. b[1] \in Items /\ b[2] \in Nat
    BY <2>1, DispatchersHandle, ItemsDiffer
  <2> QED BY <1>5, <2>1, <2>2
<1>8. ASSUME NEW v \in Dispatchers, at'[v] \in {"mark", "fail", "caught"}
      PROVE  cur'[v][2] <= attempts'[Item(v)']
  <2>1. v # w /\ v \in Loops
    BY <1>3, <1>8, KindsDiffer
  <2>2. at[v] \in {"mark", "fail", "caught"} /\ cur'[v] = cur[v] /\ Item(v)' = Item(v)
    BY <1>3, <1>8, <2>1 DEF Item
  <2>3. cur[v][2] <= attempts[Item(v)] /\ Item(v) \in Items /\ cur[v][2] \in Nat
    BY <2>2, DispatchersHandle, ItemsDiffer DEF Counted
  <2> QED BY <1>5, <2>2, <2>3
<1>9. Counted'
  BY <1>6, <1>7, <1>8 DEF Counted
<1>10. NoEarlyGiveUp'
  BY DEF NoEarlyGiveUp
<1> QED BY <1>9, <1>10

\* What the other loops count is not a delivery.
LEMMA OtherRecordIsCalm ==
  ASSUME Kept, NEW w \in Loops \ Dispatchers, at[w] \in {"fail", "buried"},
         RecordFailure(w), UNCHANGED <<posts, recounts, delivery>>
  PROVE  Calm
<1>1. NextItem(w) /\ \A x \in Items \ {Item(w)} : attempts'[x] = attempts[x]
  BY RecordFailureType
<1>2. Item(w) \notin Deliveries
  BY KindsDiffer, ItemsDiffer DEF Kept, TypeOK, InHand, HandOK, Handles
<1>3. \A d \in Deliveries : attempts'[d] = attempts[d]
  BY <1>1, <1>2, ItemsDiffer
<1> QED BY <1>1, <1>3, NextItemIsCalm, KindsDiffer DEF Calm

\* A delivery is dead only when every one of its attempts was a post.
LEMMA DeadStep ==
  ASSUME Kept, Counted, NoEarlyGiveUp, NEW w \in Dispatchers, at[w] \in {"fail", "caught"}, Exhausted(w),
         delivery' = [delivery EXCEPT ![Item(w)] = "dead"]
  PROVE  \A d \in Deliveries :
           delivery'[d] = "dead" => delivery[d] = "dead" \/ posts[d] + recounts[d] >= MaxAttempts
<1>1. w \in Loops
  BY KindsDiffer
<1>2. Item(w) \in Deliveries /\ cur[w][2] \in Nat
  BY DispatchersHandle
<1>3. posts[Item(w)] + recounts[Item(w)] >= MaxAttempts
  <2> DEFINE d == Item(w) B == Busy(d)
  <2>1. w \in B
    BY DEF Busy
  <2>2. IsFiniteSet(B) /\ Cardinality(B) \in Nat
    BY BusyIsFinite
  <2>3. Cardinality(B) # 0
    <3> HIDE DEF B
    <3> QED BY <2>1, <2>2, FS_EmptySet
  <2>4. attempts[d] + Cardinality(B) <= posts[d] + recounts[d] /\ cur[w][2] <= attempts[d]
    BY <1>2 DEF Counted
  <2>5. attempts[d] \in Nat /\ posts[d] \in Nat /\ recounts[d] \in Nat
    BY <1>2, ItemsDiffer DEF Kept, TypeOK
  <2>6. cur[w][2] + 1 >= MaxAttempts
    BY DEF Exhausted, Limit
  <2> HIDE DEF d, B
  <2>7. posts[d] + recounts[d] >= MaxAttempts
    BY <1>2, <2>2, <2>3, <2>4, <2>5, <2>6, EventingAssumption
  <2> QED BY <2>7 DEF d
<1> QED BY <1>2, <1>3 DEF Kept, TypeOK

LEMMA HandleFailureCounts ==
  ASSUME Kept, Counted, NoEarlyGiveUp, NEW w \in Loops, HandleFailure(w)
  PROVE  Counted' /\ NoEarlyGiveUp'
<1>1. at[w] \in {"fail", "caught"} /\ posts' = posts /\ recounts' = recounts
  BY DEF HandleFailure
<1>2. CASE RecordFailure(w) /\ delivery' = delivery
  <2>1. CASE w \in Dispatchers
    BY <1>1, <1>2, <2>1, RecordStep
  <2>2. CASE w \notin Dispatchers
    <3>1. at[w] = "fail"
      BY <1>1, <2>2 DEF Kept, InHand, HandOK
    <3> QED BY <1>1, <1>2, <2>2, <3>1, OtherRecordIsCalm, CalmStep
  <2> QED BY <2>1, <2>2
<1>3. CASE /\ Exhausted(w) /\ w \in Dispatchers
           /\ delivery' = [delivery EXCEPT ![Item(w)] = "dead"]
           /\ NextItem(w) /\ attempts' = attempts
  <2>1. Calm
    BY <1>1, <1>3, DeadStep, NextItemIsCalm, KindsDiffer DEF Calm
  <2> QED BY <2>1, CalmStep
<1>4. CASE w \notin Dispatchers /\ Goto(w, "buried") /\ delivery' = delivery /\ attempts' = attempts
  <2>1. Calm
    BY <1>1, <1>4, KindsDiffer DEF Calm, Goto, Kept, TypeOK
  <2> QED BY <2>1, CalmStep
<1> QED BY <1>2, <1>3, <1>4 DEF HandleFailure

\* A failure counted in the try and again in the catch is a recount.
LEMMA ThrowsCounts ==
  ASSUME Kept, Counted, NoEarlyGiveUp, NEW w \in Loops, HandleFailureThrows(w)
  PROVE  Counted' /\ NoEarlyGiveUp'
<1> DEFINE d == Item(w)
<1>1. /\ w \in Dispatchers /\ at[w] = "fail" /\ posts' = posts
      /\ batch' = batch /\ cur' = cur /\ at' = [at EXCEPT ![w] = "caught"]
  BY DEF HandleFailureThrows, Goto
<1>2. d \in Deliveries /\ d \in Items
  BY <1>1, DispatchersHandle, ItemsDiffer
<1>3. \A v \in Dispatchers : at'[v] \in {"mark", "fail", "caught"} <=> at[v] \in {"mark", "fail", "caught"}
  BY <1>1, KindsDiffer DEF Kept, TypeOK
<1>4. CASE /\ attempts' = attempts /\ recounts' = recounts
           /\ \A c \in Deliveries : delivery'[c] = "dead" =>
                delivery[c] = "dead" \/ posts[c] + recounts[c] >= MaxAttempts
  <2>1. Calm
    BY <1>1, <1>3, <1>4 DEF Calm
  <2> QED BY <2>1, CalmStep
<1>5. CASE /\ attempts' = [attempts EXCEPT ![d] = @ + 1]
           /\ recounts' = [recounts EXCEPT ![d] = @ + 1]
           /\ delivery' = delivery
  <2>1. attempts \in [Items -> Nat] /\ recounts \in [Deliveries -> Nat] /\ posts \in [Deliveries -> Nat]
    BY DEF Kept, TypeOK
  <2> HIDE DEF d
  <2>2. /\ \A c \in Items : attempts'[c] \in {attempts[c], attempts[c] + 1} /\ attempts[c] \in Nat
        /\ \A c \in Deliveries : recounts'[c] \in {recounts[c], recounts[c] + 1} /\ recounts[c] \in Nat
        /\ \A c \in Deliveries : c # d => attempts'[c] = attempts[c] /\ recounts'[c] = recounts[c]
        /\ attempts'[d] = attempts[d] + 1 /\ recounts'[d] = recounts[d] + 1
    BY <1>2, <1>5, <2>1, ItemsDiffer
  <2>3. ASSUME NEW c \in Deliveries
        PROVE  attempts'[c] + Cardinality(Busy(c)') <= posts'[c] + recounts'[c]
    <3>1. Busy(c)' = Busy(c)
      BY <1>1, <1>3 DEF Busy, Item
    <3>2. attempts[c] + Cardinality(Busy(c)) <= posts[c] + recounts[c]
      BY DEF Counted
    <3>3. attempts[c] \in Nat /\ posts[c] \in Nat /\ recounts[c] \in Nat /\ Cardinality(Busy(c)) \in Nat
      BY <2>1, BusyIsFinite, ItemsDiffer
    <3> QED BY <1>1, <2>2, <3>1, <3>2, <3>3
  <2>4. ASSUME NEW v \in Dispatchers, NEW b \in batch'[v] PROVE b[2] <= attempts'[b[1]]
    <3>1. b[2] <= attempts[b[1]] /\ b[1] \in Items /\ b[2] \in Nat
      BY <1>1, DispatchersHandle, ItemsDiffer DEF Counted
    <3> QED BY <2>2, <3>1
  <2>5. ASSUME NEW v \in Dispatchers, at'[v] \in {"mark", "fail", "caught"}
        PROVE  cur'[v][2] <= attempts'[Item(v)']
    <3>1. cur[v][2] <= attempts[Item(v)] /\ Item(v) \in Items /\ cur[v][2] \in Nat
      BY <1>3, <2>5, DispatchersHandle, ItemsDiffer DEF Counted
    <3>2. cur'[v] = cur[v] /\ Item(v)' = Item(v)
      BY <1>1 DEF Item
    <3> QED BY <2>2, <3>1, <3>2
  <2>6. Counted'
    BY <2>3, <2>4, <2>5 DEF Counted
  <2>7. NoEarlyGiveUp'
    <3> SUFFICES ASSUME NEW c \in Deliveries, delivery'[c] = "dead"
                 PROVE  posts'[c] + recounts'[c] >= MaxAttempts
      BY DEF NoEarlyGiveUp
    <3>1. posts[c] + recounts[c] >= MaxAttempts /\ posts[c] \in Nat
      BY <1>5, <2>1 DEF NoEarlyGiveUp
    <3> QED BY <1>1, <2>2, <3>1, EventingAssumption
  <2> QED BY <2>6, <2>7
<1>6. CASE /\ Exhausted(w) /\ delivery' = [delivery EXCEPT ![d] = "dead"]
           /\ attempts' = attempts /\ recounts' = recounts
  BY <1>1, <1>4, <1>6, DeadStep
<1>7. CASE UNCHANGED <<attempts, recounts, delivery>>
  BY <1>4, <1>7
<1> QED BY <1>5, <1>6, <1>7 DEF HandleFailureThrows

\* Taking a batch reads the attempts as they are.
LEMMA FindBatchIsCalm ==
  ASSUME Kept, NEW w \in Loops, FindBatch(w)
  PROVE  Calm
<1>1. /\ batch' = [batch EXCEPT ![w] = {<<x, attempts[x]>> : x \in Due(w)}]
      /\ cur' = cur /\ posts' = posts /\ attempts' = attempts /\ delivery' = delivery
      /\ recounts' = recounts
      /\ at' = [at EXCEPT ![w] = "do"]
  BY DEF FindBatch
<1>2. \A v \in Dispatchers :
        at'[v] \in {"mark", "fail", "caught"} => at[v] \in {"mark", "fail", "caught"} /\ cur'[v] = cur[v]
  BY <1>1, KindsDiffer DEF Kept, TypeOK
<1>3. ASSUME NEW v \in Dispatchers, NEW b \in batch'[v], b \notin batch[v]
      PROVE  b[1] \in Deliveries /\ b[2] <= attempts[b[1]]
  <2>1. v = w /\ v \in Loops
    BY <1>1, <1>3, KindsDiffer DEF Kept, TypeOK
  <2>2. PICK x \in Due(w) : b = <<x, attempts[x]>>
    BY <1>1, <1>3, <2>1 DEF Kept, TypeOK
  <2>3. x \in Deliveries
    BY <2>1, KindsDiffer DEF Due
  <2>4. attempts[x] \in Nat
    BY <2>3, ItemsDiffer DEF Kept, TypeOK
  <2> QED BY <2>2, <2>3, <2>4
<1> QED BY <1>1, <1>2, <1>3 DEF Calm

\* The flushers and the publishers post nothing.
LEMMA BeginIsCalm ==
  ASSUME Kept, NEW w \in Loops \ Dispatchers, NEW x, NEW step, Begin(w, x, step),
         UNCHANGED <<posts, recounts, attempts, delivery>>
  PROVE  Calm
<1>1. PICK b \in batch[w] :
        /\ batch' = [batch EXCEPT ![w] = @ \ {b}]
        /\ cur' = [cur EXCEPT ![w] = b]
  BY DEF Begin
<1>2. at' = [at EXCEPT ![w] = step]
  BY DEF Begin
<1>3. \A v \in Dispatchers : batch'[v] = batch[v] /\ cur'[v] = cur[v] /\ at'[v] = at[v]
  BY <1>1, <1>2, KindsDiffer DEF Kept, TypeOK
<1> QED BY <1>3 DEF Calm

LEMMA MarkIsCalm ==
  ASSUME Kept, NEW w \in Loops, Mark(w)
  PROVE  Calm
<1>1. at[w] = "mark" /\ posts' = posts /\ recounts' = recounts /\ attempts' = attempts
  BY DEF Mark
<1>2. Handles(w, Item(w))
  BY <1>1 DEF Kept, InHand, HandOK
<1>3. \A d \in Deliveries : delivery'[d] = "dead" => delivery[d] = "dead"
  BY <1>2 DEF Mark, Settle, Handles, Kept, TypeOK
<1>4. CASE NextItem(w)
  BY <1>1, <1>3, <1>4, NextItemIsCalm, KindsDiffer DEF Calm
<1>5. ASSUME NEW step \in {"fanout", "fail", "caught"}, Goto(w, step) PROVE Calm
  <2>1. /\ batch' = batch /\ cur' = cur
        /\ \A v \in Loops \ {w} : at'[v] = at[v]
    BY <1>5 DEF Goto, Kept, TypeOK
  <2> QED BY <1>1, <1>3, <2>1, KindsDiffer DEF Calm
<1> QED BY <1>4, <1>5 DEF Mark

LEMMA FanOutIsCalm ==
  ASSUME Kept, NEW w \in Loops, FanOut(w)
  PROVE  Calm
<1>1. NextItem(w) /\ posts' = posts /\ recounts' = recounts /\ attempts' = attempts
  BY DEF FanOut
<1>2. \A d \in Deliveries : delivery'[d] = "dead" => delivery[d] = "dead"
  BY DEF FanOut, Kept, TypeOK
<1> QED BY <1>1, <1>2, NextItemIsCalm, KindsDiffer DEF Calm

LEMMA AfterDeadLetterIsCalm ==
  ASSUME Kept, NEW w \in Loops, AfterDeadLetter(w)
  PROVE  Calm
<1>1. at[w] = "buried" /\ posts' = posts /\ recounts' = recounts
  BY DEF AfterDeadLetter
<1>2. w \notin Dispatchers
  BY <1>1 DEF Kept, InHand, HandOK
<1>3. CASE Settle(w) /\ NextItem(w) /\ attempts' = attempts
  <2>1. delivery' = delivery
    BY <1>2, <1>3 DEF Settle
  <2> QED BY <1>1, <1>3, <2>1, NextItemIsCalm, KindsDiffer DEF Calm
<1>4. CASE RecordFailure(w) /\ delivery' = delivery
  BY <1>1, <1>2, <1>4, OtherRecordIsCalm
<1> QED BY <1>3, <1>4 DEF AfterDeadLetter

LEMMA DropIsCalm ==
  ASSUME Kept, NEW w \in Loops, Drop(w)
  PROVE  Calm
<1>1. NextItem(w) /\ posts' = posts /\ recounts' = recounts /\ attempts' = attempts
  BY DEF Drop
<1>2. \A d \in Deliveries : delivery'[d] = "dead" => delivery[d] = "dead"
  BY DEF Drop, Kept, TypeOK
<1> QED BY <1>1, <1>2, NextItemIsCalm, KindsDiffer DEF Calm

LEMMA AbortIsCalm ==
  ASSUME Kept, NEW w \in Loops, Abort(w)
  PROVE  Calm
<1>1. posts' = posts /\ recounts' = recounts /\ attempts' = attempts /\ delivery' = delivery
  BY DEF Abort
<1>2. /\ at'[w] = "idle"
      /\ \A v \in Loops : batch'[v] \subseteq batch[v]
      /\ \A v \in Loops \ {w} : cur'[v] = cur[v] /\ at'[v] = at[v]
  BY DEF Abort, Kept, TypeOK
<1> QED BY <1>1, <1>2, KindsDiffer DEF Calm

LEMMA IdleIsCalm ==
  ASSUME UNCHANGED <<loop, posts, recounts, attempts, delivery>>
  PROVE  Calm
  BY DEF Calm, loop

LEMMA InitCounts == Init => Counted /\ NoEarlyGiveUp
<1> SUFFICES ASSUME Init PROVE Counted /\ NoEarlyGiveUp
  OBVIOUS
<1>1. ASSUME NEW d \in Deliveries 
      PROVE  attempts[d] + Cardinality(Busy(d)) <= posts[d] + recounts[d]
  <2>1. Busy(d) = {}
    BY KindsDiffer DEF Init, Busy
  <2>2. Cardinality(Busy(d)) = 0
    BY <2>1, FS_EmptySet
  <2>3. attempts[d] = 0 /\ posts[d] = 0 /\ recounts[d] = 0
    BY ItemsDiffer DEF Init
  <2> QED BY <2>2, <2>3
<1>2. \A w \in Dispatchers : batch[w] = {} /\ at[w] = "idle"
  BY KindsDiffer DEF Init
<1> QED BY <1>1, <1>2 DEF Counted, NoEarlyGiveUp, Init

LEMMA NextCounts == IInv /\ [Next]_vars => Counted' /\ NoEarlyGiveUp'
<1> SUFFICES ASSUME Kept, Counted, NoEarlyGiveUp, [Next]_vars PROVE Counted' /\ NoEarlyGiveUp'
  BY DEF IInv
<1>1. ASSUME NEW e \in Events, Enqueue(e) PROVE Calm
  BY <1>1, IdleIsCalm DEF Enqueue
<1>2. ASSUME NEW x \in Rows \cup Deliveries, LeaseExpires(x) PROVE Calm
  BY <1>2, IdleIsCalm DEF LeaseExpires
<1>3. ASSUME NEW w \in Loops, NEW e \in Events, Record(w, e) PROVE Calm
  <2>1. /\ w \in Loops \ Dispatchers
        /\ Begin(w, e, "mark") \/ Begin(w, e, "fail")
        /\ UNCHANGED <<posts, recounts, attempts, delivery>>
    BY <1>3, KindsDiffer DEF Record
  <2> QED BY <2>1, BeginIsCalm
<1>4. ASSUME NEW w \in Loops, NEW o \in Rows, Publish(w, o) PROVE Calm
  <2>1. /\ w \in Loops \ Dispatchers
        /\ Begin(w, o, "mark") \/ Begin(w, o, "fail")
        /\ UNCHANGED <<posts, recounts, attempts, delivery>>
    BY <1>4, KindsDiffer DEF Publish
  <2> QED BY <2>1, BeginIsCalm
<1>5. ASSUME NEW w \in Loops, Work(w) PROVE Counted' /\ NoEarlyGiveUp'
  BY <1>3, <1>4, <1>5, CalmStep, FindBatchIsCalm, PostStep, MarkIsCalm, FanOutIsCalm,
     HandleFailureCounts, AfterDeadLetterIsCalm, DropIsCalm DEF Work
<1>6. ASSUME NEW w \in Loops, Abort(w) PROVE Calm
  BY <1>6, AbortIsCalm
<1>9. ASSUME NEW w \in Loops, HandleFailureThrows(w) PROVE Counted' /\ NoEarlyGiveUp'
  BY <1>9, ThrowsCounts
<1>7. ASSUME NEW s \in Subscriptions, SetActive(s) PROVE Calm
  BY <1>7, IdleIsCalm DEF SetActive
<1>8. CASE UNCHANGED vars
  BY <1>8, IdleIsCalm, CalmStep DEF vars, loop
<1> QED BY <1>1, <1>2, <1>5, <1>6, <1>7, <1>8, <1>9, CalmStep DEF Next

(***************************************************************************)
(* The theorems.                                                           *)
(***************************************************************************)
LEMMA Inductive == Spec => []IInv
<1>1. Init => IInv
  BY InitKept, InitCounts DEF IInv
<1>2. IInv /\ [Next]_vars => IInv'
  BY NextKept, NextCounts DEF IInv
<1> QED BY <1>1, <1>2, PTL DEF Spec

\* Every variable keeps its type through queueing, flushing, publishing, fanning
\* out and posting; a delivery exists only for an outbox row marked published.
THEOREM EventingTypeCorrect == Spec => []TypeOK
<1>1. IInv => TypeOK
  BY DEF IInv, Kept
<1> QED BY <1>1, Inductive, PTL

\* Whatever dies, is retried or runs twice, an audit event that was enqueued is
\* queued, logged or a dead letter, and an outbox row marked published by the
\* publisher is on the bus or a dead letter.
THEOREM NoEventIsDropped == Spec => []EventIsKept
<1>1. IInv => EventIsKept
  BY DEF IInv, Kept
<1> QED BY <1>1, Inductive, PTL

\* The webhook dispatcher dead-letters a delivery only after posting it MaxAttempts
\* times, or once less for each answer of recordFailure that was lost and made the
\* catch count the post again.  A lapsed lease, which lets several dispatchers hold the
\* delivery at once and each decide on the attempts it read with its batch, costs no post.
THEOREM NoWebhookIsGivenUpEarly == Spec => []NoEarlyGiveUp
<1>1. IInv => NoEarlyGiveUp
  BY DEF IInv
<1> QED BY <1>1, Inductive, PTL

(***************************************************************************)
(* The queue and the outbox are relays.                                    *)
(***************************************************************************)
Relayed == [Audit!Next]_(Audit!vars) /\ [Outbox!Next]_(Outbox!vars)

LEMMA RelaysStart == Init => Audit!Init /\ Outbox!Init
  BY DEF Init, Audit!Init, Outbox!Init, RowsOf

LEMMA RelaysStay ==
  ASSUME UNCHANGED <<accepted, queue, logged, published, bus, dlq>>
  PROVE  Relayed
  BY DEF Relayed, Audit!vars, Outbox!vars, RowsOf

LEMMA EnqueueRelays ==
  ASSUME Kept, NEW e \in Events, Enqueue(e)
  PROVE  Relayed
<1>1. Audit!Send(e)
  BY DEF Enqueue, Audit!Send, RowsOf
<1>2. UNCHANGED Outbox!vars
  BY DEF Enqueue, Outbox!vars
<1> QED BY <1>1, <1>2 DEF Relayed, Audit!Next

\* The flusher's transaction is the arrival in the log and the start in the outbox.
LEMMA RecordRelays ==
  ASSUME Kept, NEW w \in Loops, NEW e \in Events, Record(w, e)
  PROVE  Relayed
<1>1. w \in Flushers /\ UNCHANGED <<accepted, queue, published, bus, dlq>>
  BY DEF Record
<1>2. CASE UNCHANGED logged
  BY <1>1, <1>2, RelaysStay
<1>3. ASSUME NEW k \in 1..MaxRows, <<e, k>> \notin logged,
             logged' = logged \cup {<<e, k>>}, Begin(w, e, "mark")
      PROVE  Relayed
  <2> DEFINE o == <<e, k>>
  <2>1. o \in Rows /\ o[1] = e
    BY DEF Rows
  <2>2. e \in accepted
    BY <1>1, <1>3, KindsDiffer DEF Begin, Kept, InBatch, BatchOK, Handles
  <2> HIDE DEF o
  <2>3. logged' = logged \cup {o} /\ o \notin logged
    BY <1>3 DEF o
  <2>4. Outbox!Send(o)
    <3>1. logged' \ published' = (logged \ published) \cup {o}
      BY <1>1, <2>3 DEF Kept, TypeOK
    <3> QED BY <1>1, <2>3, <3>1 DEF Outbox!Send
  <2>5. RowsOf(e)' # {} /\ \A f \in Events \ {e} : RowsOf(f)' = RowsOf(f)
    BY <2>1, <2>3 DEF RowsOf
  <2>6. {f \in Events : RowsOf(f)' # {}} = {f \in Events : RowsOf(f) # {}} \cup {e}
    BY <2>5
  <2>7. Audit!Arrive(e)
    BY <1>1, <2>2, <2>6 DEF Audit!Arrive
  <2> QED BY <2>1, <2>4, <2>7 DEF Relayed, Audit!Next, Outbox!Next
<1> QED BY <1>2, <1>3 DEF Record

LEMMA PublishRelays ==
  ASSUME Kept, NEW w \in Loops, NEW o \in Rows, Publish(w, o)
  PROVE  Relayed
<1>1. /\ w \in Publishers /\ UNCHANGED <<accepted, queue, logged, published, dlq>>
      /\ bus' \in {bus, bus \cup {o}}
      /\ Begin(w, o, "mark") \/ Begin(w, o, "fail")
  BY DEF Publish
<1>2. o \in logged
  BY <1>1, KindsDiffer DEF Begin, Kept, InBatch, BatchOK, Handles
<1>3. CASE bus' = bus
  BY <1>1, <1>3, RelaysStay
<1>4. CASE bus' = bus \cup {o}
  <2>1. Outbox!Arrive(o)
    BY <1>1, <1>2, <1>4 DEF Outbox!Arrive
  <2>2. UNCHANGED Audit!vars
    BY <1>1 DEF Audit!vars, RowsOf
  <2> QED BY <2>1, <2>2 DEF Relayed, Outbox!Next
<1> QED BY <1>1, <1>3, <1>4

\* What is deleted or marked has arrived, or is buried.
LEMMA SettleRelays ==
  ASSUME Kept, NEW w \in Loops, Settle(w), at[w] \in {"mark", "buried"},
         UNCHANGED <<accepted, logged, bus, dlq>>
  PROVE  Relayed
<1> DEFINE x == Item(w)
<1>1. HandOK(w)
  BY DEF Kept, InHand
<1>2. Handles(w, x)
  BY <1>1 DEF HandOK
<1>3. CASE w \in Flushers
  <2>1. x \in Events /\ queue' = queue \ {x} /\ published' = published
    BY <1>2, <1>3, KindsDiffer DEF Handles, Settle, Kept, TypeOK
  <2>2. RowsOf(x) # {} \/ x \in dlq
    BY <1>1, <1>3 DEF HandOK, RowsOf
  <2>3. Audit!Forget(x)
    BY <2>1, <2>2 DEF Audit!Forget, RowsOf
  <2>4. UNCHANGED Outbox!vars
    BY <2>1 DEF Outbox!vars
  <2> QED BY <2>1, <2>3, <2>4 DEF Relayed, Audit!Next
<1>4. CASE w \in Publishers
  <2>1. x \in Rows /\ x \notin queue
    BY <1>2, <1>4, ItemsDiffer DEF Handles, Kept, TypeOK
  <2>2. queue' = queue /\ published' = published \cup {x}
    BY <1>4, <2>1 DEF Settle
  <2>3. x \in bus \/ x \in dlq
    BY <1>1, <1>4 DEF HandOK
  <2>4. Outbox!Forget(x)
    BY <2>1, <2>2, <2>3 DEF Outbox!Forget
  <2>5. UNCHANGED Audit!vars
    BY <2>2 DEF Audit!vars, RowsOf
  <2> QED BY <2>1, <2>4, <2>5 DEF Relayed, Outbox!Next
<1>5. CASE w \in Dispatchers
  <2>1. queue' = queue /\ published' = published
    BY <1>2, <1>5, ItemsDiffer, KindsDiffer DEF Settle, Handles, Kept, TypeOK
  <2> QED BY <2>1, RelaysStay
<1> QED BY <1>3, <1>4, <1>5, KindsDiffer

\* A dead letter is buried; the item itself is still owed.
LEMMA HandleFailureRelays ==
  ASSUME Kept, NEW w \in Loops, HandleFailure(w)
  PROVE  Relayed
<1> DEFINE x == Item(w)
<1>1. at[w] \in {"fail", "caught"} /\ UNCHANGED <<accepted, queue, logged, published, bus>>
  BY DEF HandleFailure
<1>2. Handles(w, x)
  BY <1>1 DEF Kept, InHand, HandOK
<1>3. CASE dlq' = dlq
  BY <1>1, <1>3, RelaysStay
<1>4. CASE dlq' = dlq \cup {x} /\ w \in Flushers
  <2>1. x \in accepted /\ x \in Events /\ x \notin Rows
    BY <1>2, <1>4, ItemsDiffer DEF Handles, Kept, TypeOK
  <2>2. Audit!Bury(x)
    BY <1>1, <1>4, <2>1 DEF Audit!Bury, RowsOf
  <2>3. UNCHANGED Outbox!vars
    BY <1>1, <1>4, <2>1 DEF Outbox!vars
  <2> QED BY <2>1, <2>2, <2>3 DEF Relayed, Audit!Next
<1>5. CASE dlq' = dlq \cup {x} /\ w \in Publishers
  <2>1. x \in logged /\ x \in Rows /\ x \notin Events
    BY <1>2, <1>5, ItemsDiffer DEF Handles, Kept, TypeOK
  <2>2. Outbox!Bury(x)
    BY <1>1, <1>5, <2>1 DEF Outbox!Bury
  <2>3. UNCHANGED Audit!vars
    BY <1>1, <1>5, <2>1 DEF Audit!vars, RowsOf
  <2> QED BY <2>1, <2>2, <2>3 DEF Relayed, Outbox!Next
<1> QED BY <1>3, <1>4, <1>5, KindsDiffer DEF HandleFailure

LEMMA NextRelays == Kept /\ [Next]_vars => Relayed
<1> SUFFICES ASSUME Kept, [Next]_vars PROVE Relayed
  OBVIOUS
<1>1. ASSUME NEW w \in Loops, Mark(w) PROVE Relayed
  <2>1. CASE Settle(w)
    BY <1>1, <2>1, SettleRelays DEF Mark
  <2>2. CASE UNCHANGED <<queue, published>>
    BY <1>1, <2>2, RelaysStay DEF Mark
  <2> QED BY <1>1, <2>1, <2>2 DEF Mark
<1>2. ASSUME NEW w \in Loops, AfterDeadLetter(w) PROVE Relayed
  <2>1. CASE Settle(w)
    BY <1>2, <2>1, SettleRelays DEF AfterDeadLetter
  <2>2. CASE UNCHANGED <<queue, published>>
    BY <1>2, <2>2, RelaysStay DEF AfterDeadLetter
  <2> QED BY <1>2, <2>1, <2>2 DEF AfterDeadLetter
<1>3. ASSUME NEW w \in Loops,
             FindBatch(w) \/ FanOut(w) \/ Drop(w) \/ HandleFailureThrows(w) \/ Abort(w)
      PROVE  Relayed
  BY <1>3, RelaysStay DEF FindBatch, FanOut, Drop, HandleFailureThrows, Abort
<1>4. ASSUME NEW w \in Loops, NEW d \in Deliveries, AttemptDelivery(w, d) PROVE Relayed
  BY <1>4, RelaysStay DEF AttemptDelivery
<1>5. ASSUME NEW w \in Loops, Work(w) PROVE Relayed
  BY <1>1, <1>2, <1>3, <1>4, <1>5, RecordRelays, PublishRelays, HandleFailureRelays DEF Work
<1>6. ASSUME NEW x, LeaseExpires(x) PROVE Relayed
  BY <1>6, RelaysStay DEF LeaseExpires
<1>7. ASSUME NEW s, SetActive(s) PROVE Relayed
  BY <1>7, RelaysStay DEF SetActive
<1>8. CASE UNCHANGED vars
  BY <1>8, RelaysStay DEF vars
<1> QED BY <1>3, <1>5, <1>6, <1>7, <1>8, EnqueueRelays DEF Next

\* The batching of audit events and the outbox publisher implement a relay each,
\* whatever dies between the transaction, the publication, the dead letter and the
\* mark, and however many instances work on one row.
THEOREM EventingRelays == Spec => EventsAreRelayed
<1>1. IInv /\ [Next]_vars => [Audit!Next]_(Audit!vars) /\ [Outbox!Next]_(Outbox!vars)
  BY NextRelays DEF IInv, Relayed
<1> QED BY <1>1, RelaysStart, Inductive, PTL
     DEF Spec, EventsAreRelayed, Audit!Spec, Outbox!Spec

================================================================================
