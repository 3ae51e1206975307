--------------------------------- MODULE LeaveProofs ---------------------------------
(***************************************************************************)
(* The balances match the requests and cover them, for any number of       *)
(* requests, decisions, periods and jobs; and with one job, expiry claws   *)
(* back no more than was carried over.                                     *)
(***************************************************************************)
EXTENDS Leave, FiniteSetTheorems, TLAPS

Active == {"pending", "approved"}

\* The dates of a balance's requests in a state: DaysOf counts them.
DaySet(b, state) ==
  UNION {Dates[r] : r \in {q \in Requests : BalanceOf[q] = b /\ status[q] = state}}

DaysAreFinite == \A b \in Balances : \A state \in Active : IsFiniteSet(DaySet(b, state))

\* No two active requests name one date.
DaysDiffer ==
  \A r \in Requests : \A q \in Requests \ {r} :
    status[r] \in Active /\ status[q] \in Active => Dates[r] \cap Dates[q] = {}

\* A request is written by its own call, against a balance that exists.
Written ==
  \A r \in Requests :
    /\ spc[r] \in {"idle", "reserve"} => status[r] = "none"
    /\ status[r] # "none" => BalanceOf[r] \in exists

\* A call that has checked the balance still has its days, and has the row to itself.
Reserving ==
  \A s \in Requests : spc[s] = "reserve" =>
    /\ BalanceOf[s] \in exists
    /\ DayCount(s) <= Available(BalanceOf[s])
    /\ \A u \in Requests \ {s} : spc[u] = "reserve" => BalanceOf[u] # BalanceOf[s]

\* A decision that has checked the request finds it pending, and has it to itself.
Deciding ==
  \A d \in Decisions : dpc[d] = "apply" =>
    /\ status[RequestOf[d]] = "pending"
    /\ \A e \in Decisions \ {d} : dpc[e] = "apply" => RequestOf[e] # RequestOf[d]

\* A job computes something for its targets only.
Targeted == \A j \in Jobs : \A b \in Balances \ targets[j] : computed[j][b] = 0

IInv ==
  /\ TypeOK /\ DaysAreFinite /\ DaysDiffer /\ Written /\ Reserving /\ Deciding /\ Targeted
  /\ BalanceMatchesRequests /\ GrantsCoverRequests

OneJob == \A i, j \in Jobs : i = j

\* What is carried and not yet clawed back, and what a job may claw back.
Carried ==
  /\ rolled \subseteq exists
  /\ \A b \in Balances :
       /\ b \notin exists => clawed[b] = 0
       /\ clawed[b] + carried[b] <= CarriedIn[b] + IF b \in rolled THEN MaxCarryover ELSE 0
  /\ \A j \in Jobs : targets[j] \subseteq exists
  /\ \A j \in Jobs : \A b \in Balances :
       /\ jpc[j] = "rollover" => computed[j][b] <= MaxCarryover
       /\ jpc[j] = "expiry" => computed[j][b] <= carried[b]

(***************************************************************************)
(* Frames.                                                                 *)
(***************************************************************************)
LEMMA DayTypes ==
  ASSUME TypeOK
  PROVE  /\ used \in [Balances -> Nat] /\ pending \in [Balances -> Nat]
         /\ carried \in [Balances -> Nat] /\ clawed \in [Balances -> Nat]
         /\ accrued \in [Balances -> Nat]
  BY DEF TypeOK

LEMMA DayCountType == \A r \in Requests : IsFiniteSet(Dates[r]) /\ DayCount(r) \in Nat
  BY LeaveAssumption, FS_CardinalityType DEF DayCount

Books == DaysAreFinite /\ DaysDiffer /\ BalanceMatchesRequests

LEMMA BooksStay ==
  ASSUME IInv, UNCHANGED <<status, used, pending>>
  PROVE  Books'
  BY DEF IInv, Books, DaysAreFinite, DaySet, DaysDiffer, BalanceMatchesRequests, DaysOf

LEMMA WrittenStays ==
  ASSUME IInv, UNCHANGED <<status, spc>>, exists \subseteq exists'
  PROVE  Written'
  BY DEF IInv, Written

LEMMA DecidingStays ==
  ASSUME IInv, UNCHANGED <<status, dpc>>
  PROVE  Deciding'
  BY DEF IInv, Deciding

LEMMA TargetedStays ==
  ASSUME IInv, UNCHANGED <<targets, computed>>
  PROVE  Targeted'
  BY DEF IInv, Targeted

\* Nobody writes a balance that is locked for a reservation.
LEMMA ReservingStays ==
  ASSUME IInv, UNCHANGED <<spc, used, pending>>, exists \subseteq exists',
         \A s \in Requests : spc[s] = "reserve" => accrued'[BalanceOf[s]] = accrued[BalanceOf[s]]
  PROVE  Reserving'
<1> SUFFICES ASSUME NEW s \in Requests, spc'[s] = "reserve"
             PROVE  /\ BalanceOf[s] \in exists'
                    /\ DayCount(s) <= Available(BalanceOf[s])'
                    /\ \A u \in Requests \ {s} : spc'[u] = "reserve" => BalanceOf[u] # BalanceOf[s]
  BY DEF Reserving, DayCount
<1>1. spc[s] = "reserve"
  OBVIOUS
<1>2. Available(BalanceOf[s])' = Available(BalanceOf[s])
  BY <1>1 DEF Available
<1> QED BY <1>1, <1>2 DEF IInv, Reserving

(***************************************************************************)
(* The jobs and the balances.                                              *)
(***************************************************************************)
LEMMA BalanceStep ==
  ASSUME IInv, TypeOK', Targeted', UNCHANGED calls, UNCHANGED <<used, pending>>,
         exists \subseteq exists',
         \A s \in Requests : spc[s] = "reserve" => accrued'[BalanceOf[s]] = accrued[BalanceOf[s]],
         GrantsCoverRequests'
  PROVE  IInv'
<1>1. UNCHANGED <<status, spc, dpc>>
  BY DEF calls
<1> QED BY <1>1, BooksStay, WrittenStays, DecidingStays, ReservingStays DEF IInv, Books

LEMMA NoDaysUnprovisioned ==
  ASSUME IInv, NEW b \in Balances, b \notin exists
  PROVE  used[b] = 0 /\ pending[b] = 0
<1>1. \A state \in Active : DaySet(b, state) = {}
  BY DEF IInv, Written, DaySet, Active
<1>2. DaysOf(b, "pending") = 0 /\ DaysOf(b, "approved") = 0
  BY <1>1, FS_EmptySet DEF DaysOf, DaySet, Active
<1> QED BY <1>2 DEF IInv, BalanceMatchesRequests

LEMMA ProvisionKeeps ==
  ASSUME IInv, NEW b \in Balances, Provision(b)
  PROVE  IInv'
<1>1. /\ b \notin exists /\ exists' = exists \cup {b}
      /\ accrued' = [accrued EXCEPT ![b] = Grant[b]]
      /\ carried' = [carried EXCEPT ![b] = CarriedIn[b]]
      /\ UNCHANGED <<used, pending, rolled, due, expired, status, spc, dpc, reminders,
                     announced, jpc, targets, computed, clawed>>
      /\ UNCHANGED calls
  BY DEF Provision, calls, nightly
<1>2. /\ used \in [Balances -> Nat] /\ pending \in [Balances -> Nat]
      /\ carried \in [Balances -> Nat] /\ clawed \in [Balances -> Nat]
      /\ accrued \in [Balances -> Nat]
  BY DayTypes DEF IInv
<1>3. Grant[b] \in Nat /\ CarriedIn[b] \in Nat
  BY LeaveAssumption
<1>4. carried' \in [Balances -> Nat] /\ accrued' \in [Balances -> Nat]
  BY <1>1, <1>2, <1>3
<1>5. TypeOK'
  BY <1>1, <1>2, <1>4 DEF IInv, TypeOK
<1>6. GrantsCoverRequests'
  <2> SUFFICES ASSUME NEW c \in Balances
               PROVE  used'[c] + pending'[c] <= accrued'[c] + clawed'[c]
    BY DEF GrantsCoverRequests
  <2>1. CASE c = b
    <3>1. used[b] = 0 /\ pending[b] = 0
      BY <1>1, NoDaysUnprovisioned
    <3> QED BY <1>1, <1>2, <1>3, <2>1, <3>1
  <2>2. CASE c # b
    BY <1>1, <1>2, <2>2 DEF IInv, GrantsCoverRequests
  <2> QED BY <2>1, <2>2
<1>7. \A s \in Requests : spc[s] = "reserve" => accrued'[BalanceOf[s]] = accrued[BalanceOf[s]]
  BY <1>1, <1>2 DEF IInv, Reserving, TypeOK
<1>8. Targeted'
  BY <1>1, TargetedStays
<1> QED BY <1>1, <1>5, <1>6, <1>7, <1>8, BalanceStep

LEMMA AccrueKeeps ==
  ASSUME IInv, NEW b \in Balances, Accrue(b)
  PROVE  IInv'
<1>1. /\ accrued[b] < BalanceCap /\ ~BalanceLocked(b)
      /\ accrued' = [accrued EXCEPT ![b] = Lower(@ + AccrualRate, BalanceCap)]
      /\ due' = due \ {b}
      /\ UNCHANGED <<exists, used, pending, carried, rolled, expired, status, spc, dpc, reminders,
                     announced, jpc, targets, computed, clawed>>
      /\ UNCHANGED calls
  BY DEF Accrue, calls, nightly
<1>2. /\ used \in [Balances -> Nat] /\ pending \in [Balances -> Nat]
      /\ carried \in [Balances -> Nat] /\ clawed \in [Balances -> Nat]
      /\ accrued \in [Balances -> Nat]
  BY DayTypes DEF IInv
<1>3. BalanceCap \in Nat /\ AccrualRate \in Nat
  BY LeaveAssumption
<1>4. /\ Lower(accrued[b] + AccrualRate, BalanceCap) \in Nat
      /\ accrued[b] <= Lower(accrued[b] + AccrualRate, BalanceCap)
  BY <1>1, <1>2, <1>3 DEF Lower
<1>5. /\ accrued' \in [Balances -> Nat]
      /\ \A c \in Balances : accrued[c] <= accrued'[c]
      /\ \A c \in Balances \ {b} : accrued'[c] = accrued[c]
  BY <1>1, <1>2, <1>4
<1>6. TypeOK'
  BY <1>1, <1>2, <1>5 DEF IInv, TypeOK
<1>7. GrantsCoverRequests'
  <2> SUFFICES ASSUME NEW c \in Balances
               PROVE  used[c] + pending[c] <= accrued'[c] + clawed[c]
    BY <1>1 DEF GrantsCoverRequests
  <2>1. used[c] + pending[c] <= accrued[c] + clawed[c]
    BY DEF IInv, GrantsCoverRequests
  <2> QED BY <1>2, <1>5, <2>1
<1>8. \A s \in Requests : spc[s] = "reserve" => accrued'[BalanceOf[s]] = accrued[BalanceOf[s]]
  BY <1>1, <1>5 DEF BalanceLocked, IInv, Reserving, TypeOK
<1>9. Targeted'
  BY <1>1, TargetedStays
<1> QED BY <1>1, <1>6, <1>7, <1>8, <1>9, BalanceStep

\* Dates pass: an expiry date, or the date of the next accrual.
LEMMA DatesKeep ==
  ASSUME IInv, NEW b \in Balances, ComesDue(b) \/ ExpiryDatePasses(b)
  PROVE  IInv'
<1>1. /\ expired' \in {expired, expired \cup {b}} /\ due' \in {due, due \cup {b}}
      /\ UNCHANGED <<exists, accrued, used, pending, carried, rolled, status, spc, dpc,
                     reminders, announced, jpc, targets, computed, clawed>>
      /\ UNCHANGED calls
  BY DEF ComesDue, ExpiryDatePasses, calls, nightly
<1>2. TypeOK'
  BY <1>1 DEF IInv, TypeOK
<1>3. GrantsCoverRequests' /\ Targeted'
  BY <1>1, TargetedStays DEF IInv, GrantsCoverRequests
<1> QED BY <1>1, <1>2, <1>3, BalanceStep

\* Steps that change only what a job is about to do.
LEMMA JobStep ==
  ASSUME IInv, UNCHANGED <<balance, calls, clawed>>,
         jpc' \in [Jobs -> {"idle", "rollover", "read", "expiry"}],
         targets' \in [Jobs -> SUBSET Balances],
         computed' \in [Jobs -> [Balances -> Nat]],
         Targeted'
  PROVE  IInv'
<1>1. UNCHANGED <<exists, accrued, used, pending, carried, rolled, due, expired, status, spc, dpc,
                  reminders, announced, clawed>>
  BY DEF balance, calls
<1>2. TypeOK'
  BY <1>1 DEF IInv, TypeOK
<1>3. GrantsCoverRequests'
  BY <1>1 DEF IInv, GrantsCoverRequests
<1> QED BY <1>1, <1>2, <1>3, BalanceStep

\* What a snapshot computes is a number of days, for the rows it matched.
LEMMA SnapshotStep ==
  ASSUME IInv, NEW j \in Jobs, NEW rows \in SUBSET Balances, NEW days \in [Balances -> Int],
         \A b \in rows : days[b] \in Nat,
         targets' = [targets EXCEPT ![j] = rows],
         computed' = [computed EXCEPT ![j] = [b \in Balances |-> IF b \in rows THEN days[b] ELSE 0]]
  PROVE  /\ targets' \in [Jobs -> SUBSET Balances]
         /\ computed' \in [Jobs -> [Balances -> Nat]]
         /\ Targeted'
<1> DEFINE new == [b \in Balances |-> IF b \in rows THEN days[b] ELSE 0]
<1>1. new \in [Balances -> Nat] /\ \A b \in Balances \ rows : new[b] = 0
  OBVIOUS
<1>2. targets \in [Jobs -> SUBSET Balances] /\ computed \in [Jobs -> [Balances -> Nat]]
  BY DEF IInv, TypeOK
<1>3. computed' = [computed EXCEPT ![j] = new]
  OBVIOUS
<1> HIDE DEF new
<1>4. targets' \in [Jobs -> SUBSET Balances] /\ computed' \in [Jobs -> [Balances -> Nat]]
  BY <1>1, <1>2, <1>3
<1>5. Targeted'
  <2> SUFFICES ASSUME NEW i \in Jobs, NEW b \in Balances \ targets'[i]
               PROVE  computed'[i][b] = 0
    BY DEF Targeted
  <2>1. CASE i = j
    BY <1>1, <1>2, <1>3, <2>1
  <2>2. CASE i # j
    BY <1>2, <1>3, <2>2 DEF IInv, Targeted
  <2> QED BY <2>1, <2>2
<1> QED BY <1>4, <1>5

LEMMA JobCleared ==
  ASSUME IInv, NEW j \in Jobs,
         targets' = [targets EXCEPT ![j] = {}],
         computed' = [computed EXCEPT ![j] = [b \in Balances |-> 0]]
  PROVE  /\ targets' \in [Jobs -> SUBSET Balances]
         /\ computed' \in [Jobs -> [Balances -> Nat]]
         /\ Targeted'
<1> DEFINE zero == [b \in Balances |-> 0]
<1>1. zero \in [Balances -> Int] /\ {} \in SUBSET Balances
  OBVIOUS
<1>2. [b \in Balances |-> 0] = [b \in Balances |-> IF b \in {} THEN zero[b] ELSE 0]
  OBVIOUS
<1>3. computed' = [computed EXCEPT ![j] = [b \in Balances |-> IF b \in {} THEN zero[b] ELSE 0]]
  BY <1>2
<1> HIDE DEF zero
<1> QED BY <1>1, <1>3, SnapshotStep

LEMMA AvailableType ==
  ASSUME TypeOK, NEW b \in Balances
  PROVE  Available(b) \in Int
  BY DayTypes DEF Available

\* What rollover brings into a row.
LEMMA RolloverAmountType ==
  ASSUME TypeOK, NEW b, Predecessors(b) # {}
  PROVE  RolloverAmount(b) \in Nat /\ RolloverAmount(b) <= MaxCarryover
<1> DEFINE p == CHOOSE p \in Predecessors(b) : TRUE
<1>1. p \in Predecessors(b)
  OBVIOUS
<1>2. p \in Balances
  BY <1>1 DEF Predecessors, TypeOK
<1>3. RolloverAmount(b) = Higher(Lower(Available(p), MaxCarryover), 0)
  BY DEF RolloverAmount
<1> HIDE DEF p
<1>4. Available(p) \in Int /\ MaxCarryover \in Nat
  BY <1>2, AvailableType, LeaveAssumption
<1> QED BY <1>3, <1>4 DEF Higher, Lower

LEMMA ClawbackType ==
  ASSUME TypeOK, NEW b \in Balances
  PROVE  Clawback(b) \in Nat /\ Clawback(b) <= carried[b]
<1>1. Available(b) \in Int /\ carried[b] \in Nat
  BY AvailableType, DayTypes
<1> QED BY <1>1 DEF Clawback, Higher, Lower

LEMMA StartRolloverKeeps ==
  ASSUME IInv, NEW j \in Jobs, StartRollover(j)
  PROVE  IInv'
<1> DEFINE rows == {b \in exists \ rolled : Predecessors(b) # {}}
           days == [b \in Balances |-> IF b \in rows THEN RolloverAmount(b) ELSE 0]
<1>1. /\ jpc' = [jpc EXCEPT ![j] = "rollover"]
      /\ targets' = [targets EXCEPT ![j] = rows]
      /\ computed' = [computed EXCEPT ![j] = days]
      /\ UNCHANGED <<balance, calls, clawed>>
  BY DEF StartRollover, Snapshot
<1>2. rows \in SUBSET Balances
  BY DEF IInv, TypeOK
<1>3. \A b \in rows : RolloverAmount(b) \in Nat
  BY RolloverAmountType DEF IInv
<1> HIDE DEF rows
<1>4. days \in [Balances -> Int] /\ \A b \in rows : days[b] \in Nat
  BY <1>2, <1>3
<1>5. days = [b \in Balances |-> IF b \in rows THEN days[b] ELSE 0]
  OBVIOUS
<1> HIDE DEF days
<1>6. computed' = [computed EXCEPT ![j] = [b \in Balances |-> IF b \in rows THEN days[b] ELSE 0]]
  BY <1>1, <1>5
<1>7. /\ targets' \in [Jobs -> SUBSET Balances]
      /\ computed' \in [Jobs -> [Balances -> Nat]]
      /\ Targeted'
  BY <1>1, <1>2, <1>4, <1>6, SnapshotStep
<1>8. jpc' \in [Jobs -> {"idle", "rollover", "read", "expiry"}]
  BY <1>1 DEF IInv, TypeOK
<1> QED BY <1>1, <1>7, <1>8, JobStep

LEMMA ReadExpiredKeeps ==
  ASSUME IInv, NEW j \in Jobs, ReadExpired(j)
  PROVE  IInv'
<1> DEFINE rows == {b \in exists \cap expired : carried[b] > 0}
           days == [b \in Balances |-> IF b \in rows THEN Clawback(b) ELSE 0]
<1>1. /\ jpc' = [jpc EXCEPT ![j] = "expiry"]
      /\ targets' = [targets EXCEPT ![j] = rows]
      /\ computed' = [computed EXCEPT ![j] = days]
      /\ UNCHANGED <<balance, calls, clawed>>
  BY DEF ReadExpired, Snapshot
<1>2. rows \in SUBSET Balances
  BY DEF IInv, TypeOK
<1>3. \A b \in rows : Clawback(b) \in Nat
  BY <1>2, ClawbackType DEF IInv
<1> HIDE DEF rows
<1>4. days \in [Balances -> Int] /\ \A b \in rows : days[b] \in Nat
  BY <1>2, <1>3
<1>5. days = [b \in Balances |-> IF b \in rows THEN days[b] ELSE 0]
  OBVIOUS
<1> HIDE DEF days
<1>6. computed' = [computed EXCEPT ![j] = [b \in Balances |-> IF b \in rows THEN days[b] ELSE 0]]
  BY <1>1, <1>5
<1>7. /\ targets' \in [Jobs -> SUBSET Balances]
      /\ computed' \in [Jobs -> [Balances -> Nat]]
      /\ Targeted'
  BY <1>1, <1>2, <1>4, <1>6, SnapshotStep
<1>8. jpc' \in [Jobs -> {"idle", "rollover", "read", "expiry"}]
  BY <1>1 DEF IInv, TypeOK
<1> QED BY <1>1, <1>7, <1>8, JobStep

LEMMA StatementFailsKeeps ==
  ASSUME IInv, NEW j \in Jobs, StatementFails(j)
  PROVE  IInv'
<1>1. /\ targets' = [targets EXCEPT ![j] = {}]
      /\ computed' = [computed EXCEPT ![j] = [b \in Balances |-> 0]]
      /\ UNCHANGED <<balance, calls, clawed>>
  BY DEF StatementFails
<1>2. jpc' \in [Jobs -> {"idle", "rollover", "read", "expiry"}]
  BY DEF StatementFails, IInv, TypeOK
<1> QED BY <1>1, <1>2, JobCleared, JobStep

LEMMA RolloverKeeps ==
  ASSUME IInv, NEW j \in Jobs, Rollover(j)
  PROVE  IInv'
<1> DEFINE rows == targets[j] \ rolled
<1>1. /\ \A b \in targets[j] : ~BalanceLocked(b)
      /\ jpc' = [jpc EXCEPT ![j] = "read"]
      /\ accrued' = [b \in Balances |-> accrued[b] + IF b \in rows THEN computed[j][b] ELSE 0]
      /\ carried' = [b \in Balances |-> IF b \in rows THEN computed[j][b] ELSE carried[b]]
      /\ rolled' = rolled \cup rows
      /\ UNCHANGED <<exists, used, pending, due, expired, status, spc, dpc, reminders, announced,
                     targets, computed, clawed>>
      /\ UNCHANGED calls
  BY DEF Rollover, calls
<1>2. rows \in SUBSET Balances /\ rows \subseteq targets[j]
  BY DEF IInv, TypeOK
<1>3. /\ used \in [Balances -> Nat] /\ pending \in [Balances -> Nat]
      /\ carried \in [Balances -> Nat] /\ clawed \in [Balances -> Nat]
      /\ accrued \in [Balances -> Nat]
      /\ computed[j] \in [Balances -> Nat]
  BY DayTypes DEF IInv, TypeOK
<1> HIDE DEF rows
<1>4. /\ accrued' \in [Balances -> Nat]
      /\ \A b \in Balances : accrued[b] <= accrued'[b]
      /\ \A b \in Balances \ targets[j] : accrued'[b] = accrued[b]
  BY <1>1, <1>2, <1>3
<1>5. carried' \in [Balances -> Nat]
  BY <1>1, <1>3
<1>6. TypeOK'
  <2>1. \A x \in {accrued', used', pending', carried', clawed'} : x \in [Balances -> Nat]
    BY <1>1, <1>3, <1>5
  <2>2. jpc' \in [Jobs -> {"idle", "rollover", "read", "expiry"}] /\ rolled' \subseteq Balances
    BY <1>1, <1>2 DEF IInv, TypeOK
  <2> QED BY <1>1, <1>4, <2>1, <2>2 DEF IInv, TypeOK
<1>7. GrantsCoverRequests'
  <2> SUFFICES ASSUME NEW c \in Balances
               PROVE  used[c] + pending[c] <= accrued'[c] + clawed[c]
    BY <1>1 DEF GrantsCoverRequests
  <2>1. used[c] + pending[c] <= accrued[c] + clawed[c]
    BY DEF IInv, GrantsCoverRequests
  <2> QED BY <1>3, <1>4, <2>1
<1>8. \A s \in Requests : spc[s] = "reserve" => accrued'[BalanceOf[s]] = accrued[BalanceOf[s]]
  BY <1>1, <1>4 DEF BalanceLocked, IInv, Reserving, TypeOK
<1>9. Targeted'
  BY <1>1, TargetedStays
<1> QED BY <1>1, <1>6, <1>7, <1>8, <1>9, BalanceStep

\* What leaves the accrued days is counted as clawed back.
LEMMA ExpireKeeps ==
  ASSUME IInv, NEW j \in Jobs, Expire(j)
  PROVE  IInv'
<1>1. /\ \A b \in targets[j] : ~BalanceLocked(b)
      /\ jpc' = [jpc EXCEPT ![j] = "idle"]
      /\ \A b \in Balances : computed[j][b] <= accrued[b]
      /\ accrued' = [b \in Balances |-> accrued[b] - computed[j][b]]
      /\ carried' = [b \in Balances |-> IF b \in targets[j] THEN 0 ELSE carried[b]]
      /\ clawed' = [b \in Balances |-> clawed[b] + computed[j][b]]
      /\ targets' = [targets EXCEPT ![j] = {}]
      /\ computed' = [computed EXCEPT ![j] = [b \in Balances |-> 0]]
      /\ UNCHANGED <<exists, used, pending, rolled, due, expired, status, spc, dpc, reminders,
                     announced>>
      /\ UNCHANGED calls
  BY DEF Expire, NonNegative, calls
<1>2. /\ used \in [Balances -> Nat] /\ pending \in [Balances -> Nat]
      /\ carried \in [Balances -> Nat] /\ clawed \in [Balances -> Nat]
      /\ accrued \in [Balances -> Nat]
      /\ computed[j] \in [Balances -> Nat]
  BY DayTypes DEF IInv, TypeOK
<1>3. /\ accrued' \in [Balances -> Nat] /\ clawed' \in [Balances -> Nat]
      /\ carried' \in [Balances -> Nat]
      /\ \A b \in Balances : accrued'[b] + clawed'[b] = accrued[b] + clawed[b]
  BY <1>1, <1>2
<1>4. /\ targets' \in [Jobs -> SUBSET Balances]
      /\ computed' \in [Jobs -> [Balances -> Nat]]
      /\ Targeted'
  BY <1>1, JobCleared
<1>5. TypeOK'
  <2>1. \A x \in {accrued', used', pending', carried', clawed'} : x \in [Balances -> Nat]
    BY <1>1, <1>2, <1>3
  <2>2. jpc' \in [Jobs -> {"idle", "rollover", "read", "expiry"}]
    BY <1>1 DEF IInv, TypeOK
  <2> QED BY <1>1, <1>3, <1>4, <2>1, <2>2 DEF IInv, TypeOK
<1>6. GrantsCoverRequests'
  BY <1>1, <1>3 DEF IInv, GrantsCoverRequests
<1>7. ASSUME NEW s \in Requests, spc[s] = "reserve"
      PROVE  accrued'[BalanceOf[s]] = accrued[BalanceOf[s]]
  <2>1. BalanceOf[s] \in Balances \ targets[j]
    BY <1>1, <1>7 DEF BalanceLocked, IInv, Reserving, TypeOK
  <2>2. computed[j][BalanceOf[s]] = 0
    BY <2>1 DEF IInv, Targeted
  <2> QED BY <1>1, <1>2, <2>1, <2>2
<1> QED BY <1>1, <1>4, <1>5, <1>6, <1>7, BalanceStep

(***************************************************************************)
(* Requests and decisions.                                                 *)
(***************************************************************************)
\* Calls that only move on.
LEMMA CallStep ==
  ASSUME IInv, UNCHANGED <<balance, status, nightly>>,
         spc' \in [Requests -> {"idle", "reserve", "remind", "done"}],
         dpc' \in [Decisions -> {"idle", "apply", "notify", "done"}],
         reminders' \subseteq Requests, announced' \subseteq Requests,
         Written', Reserving', Deciding'
  PROVE  IInv'
<1>1. UNCHANGED <<exists, accrued, used, pending, carried, rolled, due, expired, jpc, targets,
                  computed, clawed>>
  BY DEF balance, nightly
<1>2. TypeOK'
  BY <1>1 DEF IInv, TypeOK
<1>3. GrantsCoverRequests'
  BY <1>1 DEF IInv, GrantsCoverRequests
<1>4. Books' /\ Targeted'
  BY <1>1, BooksStay, TargetedStays
<1> QED BY <1>2, <1>3, <1>4 DEF IInv, Books

LEMMA LockBalanceKeeps ==
  ASSUME IInv, NEW s \in Requests, LockBalance(s)
  PROVE  IInv'
<1> DEFINE b == BalanceOf[s]
<1>1. /\ spc[s] = "idle" /\ ~BalanceLocked(b)
      /\ spc' = [spc EXCEPT ![s] =
           IF b \in exists /\ DayCount(s) <= Available(b) THEN "reserve" ELSE "done"]
      /\ UNCHANGED <<balance, status, dpc, reminders, announced, nightly>>
  BY DEF LockBalance
<1>2. UNCHANGED <<exists, accrued, used, pending>>
  BY <1>1 DEF balance
<1>3. /\ spc' \in [Requests -> {"idle", "reserve", "remind", "done"}]
      /\ \A u \in Requests \ {s} : spc'[u] = spc[u]
      /\ spc'[s] \in {"reserve", "done"}
      /\ spc'[s] = "reserve" => b \in exists /\ DayCount(s) <= Available(b)
  BY <1>1 DEF IInv, TypeOK
<1>4. Written'
  BY <1>1, <1>2, <1>3 DEF IInv, Written
<1>5. \A c : Available(c)' = Available(c)
  BY <1>2 DEF Available
<1>6. \A u \in Requests \ {s} : spc[u] = "reserve" => BalanceOf[u] # BalanceOf[s]
  BY <1>1 DEF BalanceLocked
<1>7. Reserving'
  BY <1>2, <1>3, <1>5, <1>6 DEF IInv, Reserving, DayCount
<1>8. Deciding'
  BY <1>1, DecidingStays
<1>9. /\ reminders' \subseteq Requests /\ announced' \subseteq Requests
      /\ dpc' \in [Decisions -> {"idle", "apply", "notify", "done"}]
  BY <1>1 DEF IInv, TypeOK
<1> QED BY <1>1, <1>3, <1>4, <1>7, <1>8, <1>9, CallStep

LEMMA RemindersKeep ==
  ASSUME IInv, NEW s \in Requests,
         ScheduleReminder(s) \/ ProcessReminder(s)
  PROVE  IInv'
<1>1. /\ UNCHANGED <<balance, status, dpc, announced, nightly>>
      /\ UNCHANGED spc \/ (spc[s] = "remind" /\ spc' = [spc EXCEPT ![s] = "done"])
      /\ reminders' \subseteq reminders \cup {s}
  BY DEF ScheduleReminder, ProcessReminder
<1>2. UNCHANGED <<exists, accrued, used, pending>>
  BY <1>1 DEF balance
<1>3. /\ spc' \in [Requests -> {"idle", "reserve", "remind", "done"}]
      /\ \A u \in Requests : spc'[u] \in {"idle", "reserve"} => spc'[u] = spc[u]
  BY <1>1 DEF IInv, TypeOK
<1>4. Written'
  BY <1>1, <1>2, <1>3 DEF IInv, Written
<1>5. \A c : Available(c)' = Available(c)
  BY <1>2 DEF Available
<1>6. Reserving'
  BY <1>2, <1>3, <1>5 DEF IInv, Reserving, DayCount
<1>7. Deciding'
  BY <1>1, DecidingStays
<1>8. /\ reminders' \subseteq Requests /\ announced' \subseteq Requests
      /\ dpc' \in [Decisions -> {"idle", "apply", "notify", "done"}]
  BY <1>1 DEF IInv, TypeOK
<1> QED BY <1>1, <1>3, <1>4, <1>6, <1>7, <1>8, CallStep

LEMMA DecisionsKeep ==
  ASSUME IInv, NEW d \in Decisions, LockRequest(d) \/ Notify(d)
  PROVE  IInv'
<1>1. UNCHANGED <<balance, status, spc, nightly>>
  BY DEF LockRequest, Notify
<1>2. RequestOf[d] \in Requests
  BY LeaveAssumption
<1>3. /\ reminders' \subseteq Requests /\ announced' \subseteq Requests
      /\ dpc' \in [Decisions -> {"idle", "apply", "notify", "done"}]
      /\ \A e \in Decisions \ {d} : dpc'[e] = dpc[e]
      /\ dpc'[d] = "apply" => MayDecide(d) /\ ~RequestLocked(RequestOf[d])
  <2>1. CASE LockRequest(d)
    BY <2>1 DEF LockRequest, IInv, TypeOK
  <2>2. CASE Notify(d)
    BY <1>2, <2>2 DEF Notify, IInv, TypeOK
  <2> QED BY <2>1, <2>2
<1>4. Deciding'
  BY <1>1, <1>3 DEF IInv, Deciding, MayDecide, RequestLocked
<1>5. UNCHANGED <<exists, accrued, used, pending>>
  BY <1>1 DEF balance
<1>6. Written' /\ Reserving'
  BY <1>1, <1>5, WrittenStays, ReservingStays
<1>7. spc' \in [Requests -> {"idle", "reserve", "remind", "done"}]
  BY <1>1 DEF IInv, TypeOK
<1> QED BY <1>1, <1>3, <1>4, <1>6, <1>7, CallStep

LEMMA AddDays ==
  ASSUME NEW S, NEW T, IsFiniteSet(S), IsFiniteSet(T), S \cap T = {}
  PROVE  IsFiniteSet(S \cup T) /\ Cardinality(S \cup T) = Cardinality(S) + Cardinality(T)
<1>1. Cardinality(S \cap T) = 0
  BY FS_EmptySet
<1>2. Cardinality(S) \in Nat /\ Cardinality(T) \in Nat
  BY FS_CardinalityType
<1>3. /\ IsFiniteSet(S \cup T)
      /\ Cardinality(S \cup T) = Cardinality(S) + Cardinality(T) - Cardinality(S \cap T)
  BY FS_Union
<1> DEFINE m == Cardinality(S) n == Cardinality(T)
<1>4. Cardinality(S \cup T) = m + n - 0 /\ m \in Nat /\ n \in Nat
  BY <1>1, <1>2, <1>3
<1> HIDE DEF m, n
<1>5. Cardinality(S \cup T) = m + n
  BY <1>4
<1> QED BY <1>3, <1>5 DEF m, n

LEMMA RemoveDays ==
  ASSUME NEW S, NEW T \in SUBSET S, IsFiniteSet(S)
  PROVE  /\ IsFiniteSet(S \ T) /\ Cardinality(S \ T) = Cardinality(S) - Cardinality(T)
         /\ Cardinality(T) <= Cardinality(S)
<1>1. S \cap T = T
  OBVIOUS
<1>2. IsFiniteSet(S \ T) /\ Cardinality(S \ T) = Cardinality(S) - Cardinality(S \cap T)
  BY FS_Difference
<1>3. Cardinality(T) <= Cardinality(S)
  BY FS_Subset
<1> QED BY <1>1, <1>2, <1>3

LEMMA DaySetMember ==
  \A b, state, x :
    x \in DaySet(b, state) <=>
      \E q \in Requests : BalanceOf[q] = b /\ status[q] = state /\ x \in Dates[q]
  BY DEF DaySet

\* A request that changes its state takes its dates along.
LEMMA DaysMove ==
  ASSUME IInv, NEW r \in Requests, NEW from \in {"none", "pending"},
         NEW to \in {"pending", "approved", "rejected"},
         from # to, status[r] = from, status' = [status EXCEPT ![r] = to]
  PROVE  LET b == BalanceOf[r] IN
         /\ \A c \in Balances \ {b} : \A state \in Active : DaySet(c, state)' = DaySet(c, state)
         /\ DaySet(b, to)' = DaySet(b, to) \cup Dates[r]
         /\ \A state \in Active : state \notin {from, to} => DaySet(b, state)' = DaySet(b, state)
         /\ from \in Active => /\ DaySet(b, from)' = DaySet(b, from) \ Dates[r]
                               /\ Dates[r] \in SUBSET DaySet(b, from)
<1> DEFINE b == BalanceOf[r]
<1>1. /\ status'[r] = to
      /\ \A q \in Requests \ {r} : status'[q] = status[q]
  BY DEF IInv, TypeOK
<1>2. \A c, state, x :
        x \in DaySet(c, state)' <=>
          \E q \in Requests : BalanceOf[q] = c /\ status'[q] = state /\ x \in Dates[q]
  BY DEF DaySet
<1>3. \A c \in Balances \ {b} : \A state \in Active : DaySet(c, state)' = DaySet(c, state)
  <2> SUFFICES ASSUME NEW c \in Balances \ {b}, NEW state \in Active, NEW x
               PROVE  x \in DaySet(c, state)' <=> x \in DaySet(c, state)
    OBVIOUS
  <2> QED BY <1>1, <1>2, DaySetMember
<1>4. DaySet(b, to)' = DaySet(b, to) \cup Dates[r]
  <2> SUFFICES ASSUME NEW x
               PROVE  x \in DaySet(b, to)' <=> x \in DaySet(b, to) \/ x \in Dates[r]
    OBVIOUS
  <2> QED BY <1>1, <1>2, DaySetMember
<1>5. ASSUME NEW state \in Active, state \notin {from, to}
      PROVE  DaySet(b, state)' = DaySet(b, state)
  <2> SUFFICES ASSUME NEW x
               PROVE  x \in DaySet(b, state)' <=> x \in DaySet(b, state)
    OBVIOUS
  <2> QED BY <1>1, <1>2, <1>5, DaySetMember
<1>6. ASSUME from \in Active
      PROVE  DaySet(b, from)' = DaySet(b, from) \ Dates[r]
  <2>1. \A q \in Requests \ {r} : status[q] = from => Dates[q] \cap Dates[r] = {}
    BY <1>6 DEF IInv, DaysDiffer
  <2> SUFFICES ASSUME NEW x
               PROVE  x \in DaySet(b, from)' <=> x \in DaySet(b, from) /\ x \notin Dates[r]
    OBVIOUS
  <2> QED BY <1>1, <1>2, <2>1, DaySetMember
<1>7. from \in Active => Dates[r] \in SUBSET DaySet(b, from)
  BY DaySetMember
<1> QED BY <1>3, <1>4, <1>5, <1>6, <1>7

\* The dates of a request that overlaps nothing are new to its balance.
LEMMA AddRequest ==
  ASSUME IInv, NEW s \in Requests, NEW to \in Active, status[s] = "none", ~Overlaps(s),
         BalanceOf[s] \in Balances, status' = [status EXCEPT ![s] = to],
         \A c \in Balances :
           /\ pending'[c] = pending[c] + (IF c = BalanceOf[s] /\ to = "pending" THEN DayCount(s) ELSE 0)
           /\ used'[c] = used[c] + (IF c = BalanceOf[s] /\ to = "approved" THEN DayCount(s) ELSE 0)
  PROVE  Books'
<1> DEFINE b == BalanceOf[s]
<1>1. /\ \A c \in Balances \ {b} : \A state \in Active : DaySet(c, state)' = DaySet(c, state)
      /\ DaySet(b, to)' = DaySet(b, to) \cup Dates[s]
      /\ \A state \in Active : state \notin {"none", to} => DaySet(b, state)' = DaySet(b, state)
  BY DaysMove DEF Active
<1>2. IsFiniteSet(Dates[s]) /\ DayCount(s) \in Nat
  BY DayCountType
<1>3. DaySet(b, to) \cap Dates[s] = {}
  BY DaySetMember DEF Overlaps, Active
<1>4. IsFiniteSet(DaySet(b, to))
  BY DEF IInv, DaysAreFinite
<1>5. /\ IsFiniteSet(DaySet(b, to) \cup Dates[s])
      /\ Cardinality(DaySet(b, to) \cup Dates[s]) = Cardinality(DaySet(b, to)) + DayCount(s)
  BY <1>2, <1>3, <1>4, AddDays DEF DayCount
<1>6. DaysAreFinite'
  <2> SUFFICES ASSUME NEW c \in Balances, NEW state \in Active
               PROVE  IsFiniteSet(DaySet(c, state)')
    BY DEF DaysAreFinite, DaySet, Active
  <2>1. CASE c = b /\ state = to
    <3>1. DaySet(c, state)' = DaySet(b, to) \cup Dates[s]
      BY <1>1, <2>1
    <3> QED BY <1>5, <3>1
  <2>2. CASE ~(c = b /\ state = to)
    <3>1. DaySet(c, state)' = DaySet(c, state)
      BY <1>1, <2>2 DEF Active
    <3> QED BY <3>1 DEF IInv, DaysAreFinite
  <2> QED BY <2>1, <2>2
<1>7. DaysDiffer'
  <2>1. \A q \in Requests \ {s} : status'[q] = status[q]
    BY DEF IInv, TypeOK
  <2>2. \A q \in Requests \ {s} : status[q] \in Active => Dates[q] \cap Dates[s] = {}
    BY DEF Overlaps, Active
  <2> QED BY <2>1, <2>2 DEF IInv, DaysDiffer
<1>8. pending \in [Balances -> Nat] /\ used \in [Balances -> Nat]
  BY DayTypes DEF IInv
<1>9. ASSUME NEW c \in Balances
      PROVE  /\ pending'[c] = Cardinality(DaySet(c, "pending")')
             /\ used'[c] = Cardinality(DaySet(c, "approved")')
  <2>1. /\ pending[c] = Cardinality(DaySet(c, "pending"))
        /\ used[c] = Cardinality(DaySet(c, "approved"))
    BY DEF IInv, BalanceMatchesRequests, DaysOf, DaySet
  <2>2. CASE c # b
    BY <1>1, <1>8, <2>1, <2>2 DEF Active
  <2>3. CASE c = b /\ to = "pending"
    <3>1. /\ DaySet(c, "pending")' = DaySet(b, to) \cup Dates[s]
          /\ DaySet(c, "approved")' = DaySet(c, "approved")
      BY <1>1, <2>3 DEF Active
    <3>2. Cardinality(DaySet(b, to)) = pending[c]
      BY <2>1, <2>3
    <3>3. pending'[c] = pending[c] + DayCount(s) /\ used'[c] = used[c] + 0
      BY <2>3
    <3>4. used'[c] = used[c]
      BY <1>8, <3>3
    <3>5. Cardinality(DaySet(c, "approved")') = used[c]
      BY <2>1, <3>1
    <3>6. Cardinality(DaySet(c, "pending")') = Cardinality(DaySet(b, to)) + DayCount(s)
      BY <1>5, <3>1
    <3> QED BY <3>2, <3>3, <3>4, <3>5, <3>6
  <2>4. CASE c = b /\ to = "approved"
    <3>1. /\ DaySet(c, "approved")' = DaySet(b, to) \cup Dates[s]
          /\ DaySet(c, "pending")' = DaySet(c, "pending")
      BY <1>1, <2>4 DEF Active
    <3>2. Cardinality(DaySet(b, to)) = used[c]
      BY <2>1, <2>4
    <3>3. used'[c] = used[c] + DayCount(s) /\ pending'[c] = pending[c] + 0
      BY <2>4
    <3>4. pending'[c] = pending[c]
      BY <1>8, <3>3
    <3>5. Cardinality(DaySet(c, "pending")') = pending[c]
      BY <2>1, <3>1
    <3>6. Cardinality(DaySet(c, "approved")') = Cardinality(DaySet(b, to)) + DayCount(s)
      BY <1>5, <3>1
    <3> QED BY <3>2, <3>3, <3>4, <3>5, <3>6
  <2> QED BY <2>2, <2>3, <2>4 DEF Active
<1>10. BalanceMatchesRequests'
  BY <1>9 DEF BalanceMatchesRequests, DaysOf, DaySet
<1> QED BY <1>6, <1>7, <1>10 DEF Books

LEMMA ReserveKeeps ==
  ASSUME IInv, NEW s \in Requests, Reserve(s)
  PROVE  IInv'
<1> DEFINE b == BalanceOf[s]
<1>1. /\ spc[s] = "reserve"
      /\ UNCHANGED <<exists, accrued, carried, rolled, due, expired, dpc, reminders, announced,
                     jpc, targets, computed, clawed>>
  BY DEF Reserve, nightly
<1>2. /\ b \in exists /\ b \in Balances /\ DayCount(s) <= Available(b)
      /\ \A u \in Requests \ {s} : spc[u] = "reserve" => BalanceOf[u] # b
      /\ status[s] = "none"
  BY <1>1 DEF IInv, Reserving, Written, TypeOK
<1>3. /\ used \in [Balances -> Nat] /\ pending \in [Balances -> Nat]
      /\ carried \in [Balances -> Nat] /\ clawed \in [Balances -> Nat]
      /\ accrued \in [Balances -> Nat] /\ DayCount(s) \in Nat
  BY DayTypes, DayCountType DEF IInv
<1>4. CASE Overlaps(s)
  <2>1. spc' = [spc EXCEPT ![s] = "done"] /\ UNCHANGED <<used, pending, status>>
    BY <1>4 DEF Reserve
  <2>2. /\ spc' \in [Requests -> {"idle", "reserve", "remind", "done"}]
        /\ spc'[s] = "done" /\ \A u \in Requests \ {s} : spc'[u] = spc[u]
    BY <2>1 DEF IInv, TypeOK
  <2>3. Written'
    BY <1>1, <2>1, <2>2 DEF IInv, Written
  <2>4. \A c : Available(c)' = Available(c)
    BY <1>1, <2>1 DEF Available
  <2>5. Reserving'
    BY <1>1, <2>2, <2>4 DEF IInv, Reserving, DayCount
  <2>6. Deciding'
    BY <1>1, <2>1, DecidingStays
  <2>7. /\ reminders' \subseteq Requests /\ announced' \subseteq Requests
        /\ dpc' \in [Decisions -> {"idle", "apply", "notify", "done"}]
    BY <1>1 DEF IInv, TypeOK
  <2>8. UNCHANGED <<balance, status, nightly>>
    BY <1>1, <2>1 DEF balance, nightly
  <2> QED BY <2>2, <2>3, <2>5, <2>6, <2>7, <2>8, CallStep
<1>5. ASSUME NEW to \in Active, ~Overlaps(s),
             status' = [status EXCEPT ![s] = to],
             spc' = [spc EXCEPT ![s] = IF to = "pending" THEN "remind" ELSE "done"],
             \/ to = "pending" /\ pending' = [pending EXCEPT ![b] = @ + DayCount(s)] /\ used' = used
             \/ to = "approved" /\ used' = [used EXCEPT ![b] = @ + DayCount(s)] /\ pending' = pending
      PROVE  IInv'
  <2>1. /\ used' \in [Balances -> Nat] /\ pending' \in [Balances -> Nat]
        /\ used'[b] + pending'[b] = used[b] + pending[b] + DayCount(s)
        /\ \A c \in Balances \ {b} : used'[c] = used[c] /\ pending'[c] = pending[c]
    BY <1>2, <1>3, <1>5 DEF Active
  <2>2. \A c \in Balances :
          /\ pending'[c] = pending[c] + (IF c = BalanceOf[s] /\ to = "pending" THEN DayCount(s) ELSE 0)
          /\ used'[c] = used[c] + (IF c = BalanceOf[s] /\ to = "approved" THEN DayCount(s) ELSE 0)
    BY <1>2, <1>3, <1>5 DEF Active
  <2>3. Books'
    BY <1>2, <1>5, <2>2, AddRequest
  <2>4. /\ spc' \in [Requests -> {"idle", "reserve", "remind", "done"}]
        /\ spc'[s] \in {"remind", "done"} /\ \A u \in Requests \ {s} : spc'[u] = spc[u]
    BY <1>5 DEF IInv, TypeOK
  <2>5. /\ status' \in [Requests -> {"none", "pending", "approved", "rejected"}]
        /\ \A u \in Requests \ {s} : status'[u] = status[u]
    BY <1>5 DEF IInv, TypeOK, Active
  <2>6. TypeOK'
    <3>1. \A x \in {used', pending', carried', clawed'} : x \in [Balances -> Nat]
      BY <1>1, <1>3, <2>1
    <3> QED BY <1>1, <2>4, <2>5, <3>1 DEF IInv, TypeOK
  <2>7. Written'
    BY <1>1, <1>2, <2>4, <2>5 DEF IInv, Written
  <2>8. \A c \in Balances \ {b} : Available(c)' = Available(c)
    BY <1>1, <2>1 DEF Available
  <2>9. Reserving'
    <3> SUFFICES ASSUME NEW u \in Requests, spc'[u] = "reserve"
                 PROVE  /\ BalanceOf[u] \in exists'
                        /\ DayCount(u) <= Available(BalanceOf[u])'
                        /\ \A v \in Requests \ {u} :
                             spc'[v] = "reserve" => BalanceOf[v] # BalanceOf[u]
      BY DEF Reserving, DayCount
    <3>1. u # s /\ spc[u] = "reserve" /\ BalanceOf[u] # b
      BY <1>2, <2>4
    <3>2. /\ BalanceOf[u] \in exists /\ BalanceOf[u] \in Balances
          /\ DayCount(u) <= Available(BalanceOf[u])
          /\ \A v \in Requests \ {u} : spc[v] = "reserve" => BalanceOf[v] # BalanceOf[u]
      BY <3>1 DEF IInv, Reserving, TypeOK
    <3> QED BY <1>1, <2>4, <2>8, <3>1, <3>2
  <2>10. Deciding'
    <3>1. \A d \in Decisions : RequestOf[d] \in Requests
      BY LeaveAssumption
    <3> QED BY <1>1, <1>2, <2>5, <3>1 DEF IInv, Deciding
  <2>11. GrantsCoverRequests'
    <3> SUFFICES ASSUME NEW c \in Balances
                 PROVE  used'[c] + pending'[c] <= accrued[c] + clawed[c]
      BY <1>1 DEF GrantsCoverRequests
    <3>1. CASE c = b
      <4>1. DayCount(s) <= accrued[b] - used[b] - pending[b]
        BY <1>2 DEF Available
      <4> QED BY <1>2, <1>3, <2>1, <3>1, <4>1
    <3>2. CASE c # b
      BY <2>1, <3>2 DEF IInv, GrantsCoverRequests
    <3> QED BY <3>1, <3>2
  <2>12. Targeted'
    BY <1>1, TargetedStays
  <2> QED BY <2>3, <2>6, <2>7, <2>9, <2>10, <2>11, <2>12 DEF IInv, Books
<1>6. CASE ~Overlaps(s) /\ (s \notin NoApproval \/ s \in Backdated)
  <2>1. /\ pending' = [pending EXCEPT ![b] = @ + DayCount(s)]
        /\ status' = [status EXCEPT ![s] = "pending"]
        /\ spc' = [spc EXCEPT ![s] = "remind"]
        /\ used' = used
    BY <1>6 DEF Reserve
  <2> QED BY <1>5, <1>6, <2>1 DEF Active
<1>7. CASE ~Overlaps(s) /\ ~(s \notin NoApproval \/ s \in Backdated)
  <2>1. /\ used' = [used EXCEPT ![b] = @ + DayCount(s)]
        /\ status' = [status EXCEPT ![s] = "approved"]
        /\ spc' = [spc EXCEPT ![s] = "done"]
        /\ pending' = pending
    BY <1>7 DEF Reserve
  <2> QED BY <1>5, <1>7, <2>1 DEF Active
<1> QED BY <1>4, <1>6, <1>7

\* A decision takes the dates of the request out of the pending ones.
LEMMA DecideRequest ==
  ASSUME IInv, NEW r \in Requests, NEW to \in {"approved", "rejected"}, status[r] = "pending",
         BalanceOf[r] \in Balances, status' = [status EXCEPT ![r] = to],
         pending' = [pending EXCEPT ![BalanceOf[r]] = @ - DayCount(r)],
         used' = IF to = "approved"
                   THEN [used EXCEPT ![BalanceOf[r]] = @ + DayCount(r)] ELSE used
  PROVE  Books' /\ DayCount(r) <= pending[BalanceOf[r]]
<1> DEFINE b == BalanceOf[r]
<1>1. /\ \A c \in Balances \ {b} : \A state \in Active : DaySet(c, state)' = DaySet(c, state)
      /\ DaySet(b, to)' = DaySet(b, to) \cup Dates[r]
      /\ \A state \in Active : state \notin {"pending", to} => DaySet(b, state)' = DaySet(b, state)
      /\ DaySet(b, "pending")' = DaySet(b, "pending") \ Dates[r]
      /\ Dates[r] \in SUBSET DaySet(b, "pending")
  BY DaysMove DEF Active
<1>2. IsFiniteSet(Dates[r]) /\ DayCount(r) \in Nat
  BY DayCountType
<1>3. IsFiniteSet(DaySet(b, "pending")) /\ IsFiniteSet(DaySet(b, "approved"))
  BY DEF IInv, DaysAreFinite, Active
<1>4. /\ IsFiniteSet(DaySet(b, "pending") \ Dates[r])
      /\ Cardinality(DaySet(b, "pending") \ Dates[r]) = Cardinality(DaySet(b, "pending")) - DayCount(r)
      /\ DayCount(r) <= Cardinality(DaySet(b, "pending"))
  BY <1>1, <1>3, RemoveDays DEF DayCount
<1>5. DaySet(b, "approved") \cap Dates[r] = {}
  BY DaySetMember DEF IInv, DaysDiffer, Active
<1>6. /\ IsFiniteSet(DaySet(b, "approved") \cup Dates[r])
      /\ Cardinality(DaySet(b, "approved") \cup Dates[r]) = Cardinality(DaySet(b, "approved")) + DayCount(r)
  BY <1>2, <1>3, <1>5, AddDays DEF DayCount
<1>7. DaySet(b, "approved")' =
        IF to = "approved" THEN DaySet(b, "approved") \cup Dates[r] ELSE DaySet(b, "approved")
  BY <1>1 DEF Active
<1>8. DaysAreFinite'
  <2> SUFFICES ASSUME NEW c \in Balances, NEW state \in Active
               PROVE  IsFiniteSet(DaySet(c, state)')
    BY DEF DaysAreFinite, DaySet, Active
  <2>1. CASE c # b
    <3>1. DaySet(c, state)' = DaySet(c, state)
      BY <1>1, <2>1
    <3> QED BY <3>1 DEF IInv, DaysAreFinite
  <2>2. CASE c = b /\ state = "pending"
    <3>1. DaySet(c, state)' = DaySet(b, "pending") \ Dates[r]
      BY <1>1, <2>2
    <3> QED BY <1>4, <3>1
  <2>3. CASE c = b /\ state = "approved"
    <3>1. DaySet(c, state)' \in {DaySet(b, "approved"), DaySet(b, "approved") \cup Dates[r]}
      BY <1>7, <2>3
    <3> QED BY <1>3, <1>6, <3>1
  <2> QED BY <2>1, <2>2, <2>3 DEF Active
<1>9. DaysDiffer'
  <2>1. \A q \in Requests : status'[q] \in Active => status[q] \in Active
    BY DEF IInv, TypeOK, Active
  <2> QED BY <2>1 DEF IInv, DaysDiffer
<1>10. pending \in [Balances -> Nat] /\ used \in [Balances -> Nat]
  BY DayTypes DEF IInv
<1>11. /\ pending'[b] = pending[b] - DayCount(r)
       /\ used'[b] = IF to = "approved" THEN used[b] + DayCount(r) ELSE used[b]
       /\ \A c \in Balances \ {b} : pending'[c] = pending[c] /\ used'[c] = used[c]
  BY <1>10
<1>12. \A c \in Balances : /\ pending[c] = Cardinality(DaySet(c, "pending"))
                           /\ used[c] = Cardinality(DaySet(c, "approved"))
  BY DEF IInv, BalanceMatchesRequests, DaysOf, DaySet
<1>13. ASSUME NEW c \in Balances
       PROVE  /\ pending'[c] = Cardinality(DaySet(c, "pending")')
              /\ used'[c] = Cardinality(DaySet(c, "approved")')
  <2>1. CASE c # b
    <3>1. DaySet(c, "pending")' = DaySet(c, "pending") /\ DaySet(c, "approved")' = DaySet(c, "approved")
      BY <1>1, <2>1 DEF Active
    <3> QED BY <1>11, <1>12, <2>1, <3>1
  <2>2. CASE c = b
    <3>1. Cardinality(DaySet(b, "pending")') = pending[b] - DayCount(r)
      BY <1>1, <1>4, <1>12
    <3>2. CASE to = "approved"
      <4>1. Cardinality(DaySet(b, "approved")') = used[b] + DayCount(r)
        BY <1>6, <1>7, <1>12, <3>2
      <4> QED BY <1>11, <2>2, <3>1, <3>2, <4>1
    <3>3. CASE to # "approved"
      <4>1. Cardinality(DaySet(b, "approved")') = used[b]
        BY <1>7, <1>12, <3>3
      <4> QED BY <1>11, <2>2, <3>1, <3>3, <4>1
    <3> QED BY <3>2, <3>3
  <2> QED BY <2>1, <2>2
<1>14. BalanceMatchesRequests'
  BY <1>13 DEF BalanceMatchesRequests, DaysOf, DaySet
<1>15. DayCount(r) <= pending[b]
  BY <1>4, <1>12
<1> QED BY <1>8, <1>9, <1>14, <1>15 DEF Books

LEMMA ApplyDecisionKeeps ==
  ASSUME IInv, NEW d \in Decisions, ApplyDecision(d)
  PROVE  IInv'
<1> DEFINE r == RequestOf[d]
           b == BalanceOf[r]
           to == IF d \in Approving THEN "approved" ELSE "rejected"
<1>1. /\ dpc[d] = "apply" /\ ~BalanceLocked(b)
      /\ pending' = [pending EXCEPT ![b] = @ - DayCount(r)]
      /\ used' = IF d \in Approving THEN [used EXCEPT ![b] = @ + DayCount(r)] ELSE used
      /\ status' = [status EXCEPT ![r] = to]
      /\ dpc' = [dpc EXCEPT ![d] = "notify"]
      /\ UNCHANGED <<exists, accrued, carried, rolled, due, expired, spc, reminders, announced,
                     jpc, targets, computed, clawed>>
  BY DEF ApplyDecision, nightly
<1>2. r \in Requests /\ status[r] = "pending" /\ b \in exists /\ b \in Balances
  BY <1>1, LeaveAssumption DEF IInv, Deciding, Written, TypeOK
<1>3. /\ used \in [Balances -> Nat] /\ pending \in [Balances -> Nat]
      /\ carried \in [Balances -> Nat] /\ clawed \in [Balances -> Nat]
      /\ accrued \in [Balances -> Nat] /\ DayCount(r) \in Nat
  BY <1>2, DayTypes, DayCountType DEF IInv
<1>4. to \in {"approved", "rejected"} /\ (to = "approved" <=> d \in Approving)
  OBVIOUS
<1> HIDE DEF to
<1>5. used' = IF to = "approved" THEN [used EXCEPT ![b] = @ + DayCount(r)] ELSE used
  BY <1>1, <1>4
<1>6. Books' /\ DayCount(r) <= pending[b]
  <2> HIDE DEF r
  <2> QED BY <1>1, <1>2, <1>4, <1>5, DecideRequest
<1>7. /\ used' \in [Balances -> Nat] /\ pending' \in [Balances -> Nat]
      /\ used'[b] + pending'[b] <= used[b] + pending[b]
      /\ \A c \in Balances \ {b} : used'[c] = used[c] /\ pending'[c] = pending[c]
  <2> HIDE DEF r
  <2>1. pending[b] - DayCount(r) \in Nat /\ used[b] + DayCount(r) \in Nat
    BY <1>2, <1>3, <1>6
  <2>2. pending' \in [Balances -> Nat] /\ used' \in [Balances -> Nat]
    BY <1>1, <1>3, <1>5, <2>1
  <2>3. /\ pending'[b] = pending[b] - DayCount(r)
        /\ used'[b] \in {used[b], used[b] + DayCount(r)}
        /\ \A c \in Balances \ {b} : used'[c] = used[c] /\ pending'[c] = pending[c]
    BY <1>1, <1>2, <1>3, <1>5
  <2>4. used[b] \in Nat /\ pending[b] \in Nat
    BY <1>2, <1>3
  <2> QED BY <1>3, <2>2, <2>3, <2>4
<1>8. /\ status' \in [Requests -> {"none", "pending", "approved", "rejected"}]
      /\ status'[r] = to /\ \A q \in Requests \ {r} : status'[q] = status[q]
      /\ dpc' \in [Decisions -> {"idle", "apply", "notify", "done"}]
      /\ dpc'[d] = "notify" /\ \A e \in Decisions \ {d} : dpc'[e] = dpc[e]
  BY <1>1, <1>2, <1>4 DEF IInv, TypeOK
<1>9. TypeOK'
  <2>1. \A x \in {accrued', used', pending', carried', clawed'} : x \in [Balances -> Nat]
    BY <1>1, <1>3, <1>7
  <2> QED BY <1>1, <1>8, <2>1 DEF IInv, TypeOK
<1>10. Written'
  BY <1>1, <1>2, <1>8 DEF IInv, Written
<1>11. \A c \in Balances \ {b} : Available(c)' = Available(c)
  BY <1>1, <1>7 DEF Available
<1>12. Reserving'
  <2> SUFFICES ASSUME NEW u \in Requests, spc'[u] = "reserve"
               PROVE  /\ BalanceOf[u] \in exists'
                      /\ DayCount(u) <= Available(BalanceOf[u])'
                      /\ \A v \in Requests \ {u} :
                           spc'[v] = "reserve" => BalanceOf[v] # BalanceOf[u]
    BY DEF Reserving, DayCount
  <2>1. spc[u] = "reserve" /\ BalanceOf[u] # b
    BY <1>1 DEF BalanceLocked
  <2>2. /\ BalanceOf[u] \in exists /\ BalanceOf[u] \in Balances
        /\ DayCount(u) <= Available(BalanceOf[u])
        /\ \A v \in Requests \ {u} : spc[v] = "reserve" => BalanceOf[v] # BalanceOf[u]
    BY <2>1 DEF IInv, Reserving, TypeOK
  <2> QED BY <1>1, <1>11, <2>1, <2>2
<1>13. Deciding'
  <2> SUFFICES ASSUME NEW e \in Decisions, dpc'[e] = "apply"
               PROVE  /\ status'[RequestOf[e]] = "pending"
                      /\ \A f \in Decisions \ {e} : dpc'[f] = "apply" => RequestOf[f] # RequestOf[e]
    BY DEF Deciding
  <2>1. e # d /\ dpc[e] = "apply" /\ RequestOf[e] \in Requests
    BY <1>8, LeaveAssumption
  <2>2. RequestOf[e] # r /\ status[RequestOf[e]] = "pending"
    BY <1>1, <2>1 DEF IInv, Deciding
  <2>3. \A f \in Decisions \ {e} : dpc[f] = "apply" => RequestOf[f] # RequestOf[e]
    BY <2>1 DEF IInv, Deciding
  <2> QED BY <1>8, <2>1, <2>2, <2>3
<1>14. GrantsCoverRequests'
  <2> SUFFICES ASSUME NEW c \in Balances
               PROVE  used'[c] + pending'[c] <= accrued[c] + clawed[c]
    BY <1>1 DEF GrantsCoverRequests
  <2>1. used[c] + pending[c] <= accrued[c] + clawed[c]
    BY DEF IInv, GrantsCoverRequests
  <2>2. used'[c] + pending'[c] <= used[c] + pending[c]
    BY <1>3, <1>7
  <2> QED BY <1>3, <1>7, <2>1, <2>2
<1>15. Targeted'
  BY <1>1, TargetedStays
<1> QED BY <1>6, <1>9, <1>10, <1>12, <1>13, <1>14, <1>15 DEF IInv, Books

LEMMA InitHolds == Init => IInv
<1> SUFFICES ASSUME Init PROVE IInv
  OBVIOUS
<1>1. TypeOK
  BY DEF Init, TypeOK
<1>2. \A b, state : state \in Active => DaySet(b, state) = {}
  BY DEF Init, DaySet, Active
<1>3. DaysAreFinite
  BY <1>2, FS_EmptySet DEF DaysAreFinite
<1>4. BalanceMatchesRequests
  <2>1. \A b \in Balances : DaysOf(b, "pending") = 0 /\ DaysOf(b, "approved") = 0
    BY <1>2, FS_EmptySet DEF DaysOf, DaySet, Active
  <2> QED BY <2>1 DEF BalanceMatchesRequests, Init
<1>5. DaysDiffer /\ Written /\ Reserving /\ Deciding /\ Targeted
  BY DEF Init, DaysDiffer, Written, Reserving, Deciding, Targeted, Active
<1>6. GrantsCoverRequests
  BY DEF Init, GrantsCoverRequests
<1> QED BY <1>1, <1>3, <1>4, <1>5, <1>6 DEF IInv

LEMMA NextKeeps == IInv /\ [Next]_vars => IInv'
<1> SUFFICES ASSUME IInv, [Next]_vars PROVE IInv'
  OBVIOUS
<1>1. ASSUME NEW b \in Balances,
             Provision(b) \/ ComesDue(b) \/ Accrue(b) \/ ExpiryDatePasses(b)
      PROVE  IInv'
  BY <1>1, ProvisionKeeps, AccrueKeeps, DatesKeep
<1>2. ASSUME NEW s \in Requests,
             LockBalance(s) \/ Reserve(s) \/ ScheduleReminder(s) \/ ProcessReminder(s)
      PROVE  IInv'
  BY <1>2, LockBalanceKeeps, ReserveKeeps, RemindersKeep
<1>3. ASSUME NEW d \in Decisions, LockRequest(d) \/ ApplyDecision(d) \/ Notify(d) PROVE IInv'
  BY <1>3, DecisionsKeep, ApplyDecisionKeeps
<1>4. ASSUME NEW j \in Jobs,
             StartRollover(j) \/ Rollover(j) \/ ReadExpired(j) \/ Expire(j) \/ StatementFails(j)
      PROVE  IInv'
  BY <1>4, StartRolloverKeeps, RolloverKeeps, ReadExpiredKeeps, ExpireKeeps, StatementFailsKeeps
<1>5. CASE UNCHANGED vars
  <2>1. UNCHANGED <<balance, calls, clawed>> /\ UNCHANGED <<jpc, targets, computed>>
    BY <1>5 DEF vars, balance, calls
  <2>2. Targeted'
    BY <2>1, TargetedStays
  <2> QED BY <2>1, <2>2, JobStep DEF IInv, TypeOK
<1> QED BY <1>1, <1>2, <1>3, <1>4, <1>5 DEF Next

LEMMA Inductive == Spec => []IInv
  BY InitHolds, NextKeeps, PTL DEF Spec

(***************************************************************************)
(* Expiry, with one job.                                                   *)
(***************************************************************************)
LEMMA CarriedStays ==
  ASSUME Carried, UNCHANGED <<exists, carried, rolled, jpc, targets, computed, clawed>>
  PROVE  Carried'
  BY DEF Carried

LEMMA ProvisionCarries ==
  ASSUME IInv, Carried, NEW b \in Balances, Provision(b)
  PROVE  Carried'
<1>1. /\ b \notin exists /\ exists' = exists \cup {b}
      /\ carried' = [carried EXCEPT ![b] = CarriedIn[b]]
      /\ UNCHANGED <<rolled, jpc, targets, computed, clawed>>
  BY DEF Provision, nightly
<1>2. carried \in [Balances -> Nat] /\ clawed \in [Balances -> Nat] /\ CarriedIn \in [Balances -> Nat]
  BY DayTypes, LeaveAssumption DEF IInv
<1>3. /\ carried'[b] = CarriedIn[b]
      /\ \A c \in Balances \ {b} : carried'[c] = carried[c]
  BY <1>1, <1>2
<1>4. clawed[b] = 0 /\ b \notin rolled
  BY <1>1 DEF Carried
<1>5. ASSUME NEW c \in Balances
      PROVE  /\ c \notin exists' => clawed'[c] = 0
             /\ clawed'[c] + carried'[c] <= CarriedIn[c] + IF c \in rolled' THEN MaxCarryover ELSE 0
  <2>1. CASE c = b
    BY <1>1, <1>2, <1>3, <1>4, <2>1
  <2>2. CASE c # b
    BY <1>1, <1>3, <2>2 DEF Carried
  <2> QED BY <2>1, <2>2
<1>6. ASSUME NEW j \in Jobs, NEW c \in Balances
      PROVE  /\ jpc'[j] = "rollover" => computed'[j][c] <= MaxCarryover
             /\ jpc'[j] = "expiry" => computed'[j][c] <= carried'[c]
  <2>1. CASE c = b
    <3>1. computed[j][b] = 0
      BY <1>1 DEF Carried, IInv, Targeted
    <3>2. CarriedIn[b] >= 0 /\ MaxCarryover >= 0
      BY <1>2, LeaveAssumption
    <3> QED BY <1>1, <1>3, <2>1, <3>1, <3>2
  <2>2. CASE c # b
    BY <1>1, <1>3, <2>2 DEF Carried
  <2> QED BY <2>1, <2>2
<1> QED BY <1>1, <1>5, <1>6 DEF Carried

LEMMA StartRolloverCarries ==
  ASSUME IInv, Carried, NEW j \in Jobs, OneJob, StartRollover(j)
  PROVE  Carried'
<1> DEFINE rows == {b \in exists \ rolled : Predecessors(b) # {}}
           days == [b \in Balances |-> IF b \in rows THEN RolloverAmount(b) ELSE 0]
<1>1. /\ jpc' = [jpc EXCEPT ![j] = "rollover"]
      /\ targets' = [targets EXCEPT ![j] = rows]
      /\ computed' = [computed EXCEPT ![j] = days]
      /\ UNCHANGED <<exists, carried, rolled, clawed>>
  BY DEF StartRollover, Snapshot, balance
<1>2. rows \subseteq exists
  OBVIOUS
<1>3. \A b \in Balances : days[b] <= MaxCarryover
  BY RolloverAmountType, LeaveAssumption DEF IInv
<1> HIDE DEF rows, days
<1>4. jpc'[j] = "rollover" /\ targets'[j] = rows /\ computed'[j] = days
  BY <1>1 DEF IInv, TypeOK
<1>5. \A i \in Jobs : i = j
  BY DEF OneJob
<1> QED BY <1>1, <1>2, <1>3, <1>4, <1>5 DEF Carried

LEMMA ReadExpiredCarries ==
  ASSUME IInv, Carried, NEW j \in Jobs, OneJob, ReadExpired(j)
  PROVE  Carried'
<1> DEFINE rows == {b \in exists \cap expired : carried[b] > 0}
           days == [b \in Balances |-> IF b \in rows THEN Clawback(b) ELSE 0]
<1>1. /\ jpc' = [jpc EXCEPT ![j] = "expiry"]
      /\ targets' = [targets EXCEPT ![j] = rows]
      /\ computed' = [computed EXCEPT ![j] = days]
      /\ UNCHANGED <<exists, carried, rolled, clawed>>
  BY DEF ReadExpired, Snapshot, balance
<1>2. rows \subseteq exists
  OBVIOUS
<1>3. \A b \in Balances : days[b] <= carried[b]
  <2>1. carried \in [Balances -> Nat]
    BY DayTypes DEF IInv
  <2> QED BY <2>1, ClawbackType DEF IInv
<1> HIDE DEF rows, days
<1>4. jpc'[j] = "expiry" /\ targets'[j] = rows /\ computed'[j] = days
  BY <1>1 DEF IInv, TypeOK
<1>5. \A i \in Jobs : i = j
  BY DEF OneJob
<1> QED BY <1>1, <1>2, <1>3, <1>4, <1>5 DEF Carried

LEMMA RolloverCarries ==
  ASSUME IInv, Carried, NEW j \in Jobs, OneJob, Rollover(j)
  PROVE  Carried'
<1> DEFINE rows == targets[j] \ rolled
<1>1. /\ jpc[j] = "rollover"
      /\ jpc' = [jpc EXCEPT ![j] = "read"]
      /\ carried' = [b \in Balances |-> IF b \in rows THEN computed[j][b] ELSE carried[b]]
      /\ rolled' = rolled \cup rows
      /\ UNCHANGED <<exists, targets, computed, clawed>>
  BY DEF Rollover
<1>2. jpc'[j] = "read" /\ \A i \in Jobs : i = j
  BY <1>1 DEF IInv, TypeOK, OneJob
<1>3. rows \subseteq exists /\ rows \cap rolled = {}
  BY DEF Carried
<1>4. carried \in [Balances -> Nat] /\ clawed \in [Balances -> Nat] /\ CarriedIn \in [Balances -> Nat]
      /\ computed[j] \in [Balances -> Nat] /\ MaxCarryover \in Nat
  BY DayTypes, LeaveAssumption DEF IInv, TypeOK
<1> HIDE DEF rows
<1>5. ASSUME NEW c \in Balances
      PROVE  clawed'[c] + carried'[c] <= CarriedIn[c] + IF c \in rolled' THEN MaxCarryover ELSE 0
  <2>1. CASE c \in rows
    <3>1. clawed[c] + carried[c] <= CarriedIn[c] + 0
      BY <1>3, <2>1 DEF Carried
    <3>2. computed[j][c] <= MaxCarryover
      BY <1>1 DEF Carried
    <3>3. carried'[c] = computed[j][c] /\ clawed'[c] = clawed[c] /\ c \in rolled'
      BY <1>1, <2>1
    <3>4. /\ clawed[c] \in Nat /\ carried[c] \in Nat /\ CarriedIn[c] \in Nat
          /\ computed[j][c] \in Nat
      BY <1>4
    <3> QED BY <1>4, <3>1, <3>2, <3>3, <3>4
  <2>2. CASE c \notin rows
    BY <1>1, <2>2 DEF Carried
  <2> QED BY <2>1, <2>2
<1> QED BY <1>1, <1>2, <1>3, <1>5 DEF Carried

LEMMA ExpireCarries ==
  ASSUME IInv, Carried, NEW j \in Jobs, OneJob, Expire(j)
  PROVE  Carried'
<1>1. /\ jpc[j] = "expiry"
      /\ jpc' = [jpc EXCEPT ![j] = "idle"]
      /\ carried' = [b \in Balances |-> IF b \in targets[j] THEN 0 ELSE carried[b]]
      /\ clawed' = [b \in Balances |-> clawed[b] + computed[j][b]]
      /\ targets' = [targets EXCEPT ![j] = {}]
      /\ UNCHANGED <<exists, rolled>>
  BY DEF Expire
<1>2. jpc'[j] = "idle" /\ targets'[j] = {} /\ \A i \in Jobs : i = j
  BY <1>1 DEF IInv, TypeOK, OneJob
<1>3. carried \in [Balances -> Nat] /\ clawed \in [Balances -> Nat]
      /\ computed[j] \in [Balances -> Nat]
  BY DayTypes DEF IInv, TypeOK
<1>4. ASSUME NEW c \in Balances
      PROVE  /\ c \notin exists' => clawed'[c] = 0
             /\ clawed'[c] + carried'[c] <= clawed[c] + carried[c]
  <2>1. clawed'[c] = clawed[c] + computed[j][c] /\ computed[j][c] \in Nat
        /\ clawed[c] \in Nat /\ carried[c] \in Nat
    BY <1>1, <1>3
  <2>2. CASE c \in targets[j]
    <3>1. carried'[c] = 0 /\ computed[j][c] <= carried[c] /\ c \in exists
      BY <1>1, <2>2 DEF Carried
    <3> QED BY <1>1, <2>1, <3>1
  <2>3. CASE c \notin targets[j]
    <3>1. computed[j][c] = 0 /\ carried'[c] = carried[c]
      BY <1>1, <2>3 DEF IInv, Targeted
    <3> QED BY <1>1, <2>1, <3>1 DEF Carried
  <2> QED BY <2>2, <2>3
<1>5. ASSUME NEW c \in Balances
      PROVE  clawed'[c] + carried'[c] <= CarriedIn[c] + IF c \in rolled' THEN MaxCarryover ELSE 0
  <2> DEFINE limit == CarriedIn[c] + IF c \in rolled THEN MaxCarryover ELSE 0
  <2>1. clawed[c] + carried[c] <= limit /\ limit \in Nat
    BY LeaveAssumption DEF Carried
  <2>2. clawed'[c] \in Nat /\ carried'[c] \in Nat /\ clawed[c] \in Nat /\ carried[c] \in Nat
    BY <1>1, <1>3
  <2> HIDE DEF limit
  <2>3. clawed'[c] + carried'[c] <= limit
    BY <1>4, <2>1, <2>2
  <2> QED BY <1>1, <2>3 DEF limit
<1> QED BY <1>1, <1>2, <1>4, <1>5 DEF Carried

LEMMA StatementFailsCarries ==
  ASSUME IInv, Carried, NEW j \in Jobs, OneJob, StatementFails(j)
  PROVE  Carried'
<1>1. /\ jpc'[j] \in {"read", "idle"} /\ targets'[j] = {}
      /\ UNCHANGED <<exists, carried, rolled, clawed>>
  BY DEF StatementFails, balance, IInv, TypeOK
<1>2. \A i \in Jobs : i = j
  BY DEF OneJob
<1> QED BY <1>1, <1>2 DEF Carried

LEMMA NextCarries == OneJob /\ IInv /\ Carried /\ [Next]_vars => Carried'
<1> SUFFICES ASSUME OneJob, IInv, Carried, [Next]_vars PROVE Carried'
  OBVIOUS
<1>1. ASSUME NEW b \in Balances,
             Provision(b) \/ ComesDue(b) \/ Accrue(b) \/ ExpiryDatePasses(b)
      PROVE  Carried'
  BY <1>1, ProvisionCarries, CarriedStays DEF ComesDue, Accrue, ExpiryDatePasses, nightly
<1>2. ASSUME NEW s \in Requests,
             LockBalance(s) \/ Reserve(s) \/ ScheduleReminder(s) \/ ProcessReminder(s)
      PROVE  Carried'
  BY <1>2, CarriedStays DEF LockBalance, Reserve, ScheduleReminder, ProcessReminder, balance, nightly
<1>3. ASSUME NEW d \in Decisions, LockRequest(d) \/ ApplyDecision(d) \/ Notify(d) PROVE Carried'
  BY <1>3, CarriedStays DEF LockRequest, ApplyDecision, Notify, balance, nightly
<1>4. ASSUME NEW j \in Jobs,
             StartRollover(j) \/ Rollover(j) \/ ReadExpired(j) \/ Expire(j) \/ StatementFails(j)
      PROVE  Carried'
  BY <1>4, StartRolloverCarries, RolloverCarries, ReadExpiredCarries, ExpireCarries,
     StatementFailsCarries
<1>5. CASE UNCHANGED vars
  BY <1>5, CarriedStays DEF vars
<1> QED BY <1>1, <1>2, <1>3, <1>4, <1>5 DEF Next

(***************************************************************************)
(* The theorems.                                                           *)
(***************************************************************************)
\* Every variable keeps its type; in particular neither a decision nor a job drives
\* the pending, used or carried days of a balance below zero.
THEOREM LeaveTypeCorrect == Spec => []TypeOK
<1>1. IInv => TypeOK
  BY DEF IInv
<1> QED BY <1>1, Inductive, PTL

\* The pending and used days that requestLeave and decide write to a balance are the
\* distinct dates of its pending and of its approved requests.
THEOREM BalanceMatchesRequestsHolds == Spec => []BalanceMatchesRequests
<1>1. IInv => BalanceMatchesRequests
  BY DEF IInv
<1> QED BY <1>1, Inductive, PTL

\* Reservations checked by requestLeave stay covered by what was granted, accrued or
\* carried over, whatever the nightly jobs write in between.
THEOREM GrantsCoverRequestsHolds == Spec => []GrantsCoverRequests
<1>1. IInv => GrantsCoverRequests
  BY DEF IInv
<1> QED BY <1>1, Inductive, PTL

\* As long as one instance runs the carryover job, EXPIRY_SQL claws back no more than
\* the row was provisioned with and ROLLOVER_SQL brought in.
THEOREM ClawedAtMostCarriedHolds ==
  ASSUME OneJob
  PROVE  Spec => []ClawedAtMostCarried
<1>1. Init => Carried
  BY LeaveAssumption DEF Init, Carried
<1>2. IInv /\ Carried /\ [Next]_vars => Carried'
  BY NextCarries
<1>3. IInv /\ Carried => ClawedAtMostCarried
  <2> SUFFICES ASSUME IInv, Carried, NEW b \in Balances
               PROVE  clawed[b] <= CarriedIn[b] + IF b \in rolled THEN MaxCarryover ELSE 0
    BY DEF ClawedAtMostCarried
  <2>1. clawed[b] \in Nat /\ carried[b] \in Nat /\ CarriedIn[b] \in Nat /\ MaxCarryover \in Nat
    BY DayTypes, LeaveAssumption DEF IInv
  <2> QED BY <2>1 DEF Carried
<1> QED BY <1>1, <1>2, <1>3, Inductive, PTL DEF Spec

(***************************************************************************)
(* The service implements LeaveBook.  Two more facts are needed: a balance *)
(* is worth nothing before it is provisioned, and who applies a decision   *)
(* was allowed to.                                                         *)
(***************************************************************************)
Provisioned ==
  /\ \A b \in Balances \ exists : accrued[b] = 0
  /\ \A j \in Jobs : targets[j] \subseteq exists

Entitled ==
  \A d \in Decisions :
    dpc[d] = "apply" => (RequestOf[d] \in Backdated /\ d \in Approving => d \in Permitted)

BInv == IInv /\ Provisioned /\ Entitled

LEMMA InitBooks == Init => BInv /\ Account!Init
<1>1. Init => Provisioned /\ Entitled /\ Account!Init
  BY DEF Init, Provisioned, Entitled, Account!Init
<1> QED BY <1>1, InitHolds DEF BInv

LEMMA ProvisionedStep ==
  ASSUME BInv, [Next]_vars
  PROVE  Provisioned'
<1> USE DEF BInv
<1>1. CASE UNCHANGED <<exists, accrued, targets>>
  BY <1>1 DEF Provisioned
<1>2. ASSUME NEW b \in Balances, Provision(b) PROVE Provisioned'
  <2>1. exists' = exists \cup {b} /\ UNCHANGED targets
        /\ \A c \in Balances \ {b} : accrued'[c] = accrued[c]
    BY <1>2 DEF Provision, nightly, IInv, TypeOK
  <2> QED BY <2>1 DEF Provisioned
<1>3. ASSUME NEW b \in Balances, Accrue(b) PROVE Provisioned'
  BY <1>3 DEF Accrue, nightly, IInv, TypeOK, Provisioned
<1>4. ASSUME NEW j \in Jobs, StartRollover(j) \/ ReadExpired(j) PROVE Provisioned'
  <2>1. UNCHANGED <<exists, accrued>>
    BY <1>4 DEF StartRollover, ReadExpired, Snapshot, balance
  <2>2. \E rows \in SUBSET exists : targets' = [targets EXCEPT ![j] = rows]
    BY <1>4 DEF StartRollover, ReadExpired, Snapshot
  <2>3. \A i \in Jobs : targets'[i] \subseteq exists
    BY <2>2 DEF IInv, TypeOK, Provisioned
  <2> QED BY <2>1, <2>3 DEF Provisioned
<1>5. ASSUME NEW j \in Jobs, StatementFails(j) PROVE Provisioned'
  BY <1>5 DEF StatementFails, balance, IInv, TypeOK, Provisioned
<1>6. ASSUME NEW j \in Jobs, Rollover(j) PROVE Provisioned'
  <2>1. \A c \in Balances \ exists :
          accrued'[c] = accrued[c] + IF c \in targets[j] \ rolled THEN computed[j][c] ELSE 0
    BY <1>6 DEF Rollover
  <2>2. \A c \in Balances \ exists : accrued'[c] = 0
    BY <2>1 DEF Provisioned
  <2> QED BY <1>6, <2>2 DEF Rollover, Provisioned
<1>7. ASSUME NEW j \in Jobs, Expire(j) PROVE Provisioned'
  <2>1. \A c \in Balances \ exists : computed[j][c] = 0
    BY DEF IInv, Targeted, Provisioned
  <2>2. \A c \in Balances \ exists : accrued'[c] = 0
    BY <1>7, <2>1 DEF Expire, Provisioned
  <2>3. \A i \in Jobs : targets'[i] \subseteq targets[i]
    BY <1>7 DEF Expire, IInv, TypeOK
  <2> QED BY <1>7, <2>2, <2>3 DEF Expire, Provisioned
<1>8. ASSUME NEW s \in Requests,
             LockBalance(s) \/ Reserve(s) \/ ScheduleReminder(s) \/ ProcessReminder(s)
      PROVE  UNCHANGED <<exists, accrued, targets>>
  BY <1>8 DEF LockBalance, Reserve, ScheduleReminder, ProcessReminder, balance, nightly
<1>9. ASSUME NEW d \in Decisions, LockRequest(d) \/ ApplyDecision(d) \/ Notify(d)
      PROVE  UNCHANGED <<exists, accrued, targets>>
  BY <1>9 DEF LockRequest, ApplyDecision, Notify, balance, nightly
<1>10. ASSUME NEW b \in Balances, ComesDue(b) \/ ExpiryDatePasses(b)
       PROVE  UNCHANGED <<exists, accrued, targets>>
  BY <1>10 DEF ComesDue, ExpiryDatePasses, nightly
<1>11. CASE UNCHANGED vars
  BY <1>1, <1>11 DEF vars
<1> QED BY <1>1, <1>2, <1>3, <1>4, <1>5, <1>6, <1>7, <1>8, <1>9, <1>10, <1>11 DEF Next

LEMMA EntitledStep ==
  ASSUME BInv, [Next]_vars
  PROVE  Entitled'
<1> USE DEF BInv
<1>1. CASE UNCHANGED dpc
  BY <1>1 DEF Entitled
<1>2. ASSUME NEW d \in Decisions, LockRequest(d) \/ ApplyDecision(d) \/ Notify(d)
      PROVE  Entitled'
  BY <1>2 DEF LockRequest, ApplyDecision, Notify, MayDecide, IInv, TypeOK, Entitled
<1>3. ASSUME NEW b \in Balances,
             Provision(b) \/ ComesDue(b) \/ Accrue(b) \/ ExpiryDatePasses(b)
      PROVE  UNCHANGED dpc
  BY <1>3 DEF Provision, ComesDue, Accrue, ExpiryDatePasses, calls
<1>4. ASSUME NEW s \in Requests,
             LockBalance(s) \/ Reserve(s) \/ ScheduleReminder(s) \/ ProcessReminder(s)
      PROVE  UNCHANGED dpc
  BY <1>4 DEF LockBalance, Reserve, ScheduleReminder, ProcessReminder
<1>5. ASSUME NEW j \in Jobs,
             StartRollover(j) \/ Rollover(j) \/ ReadExpired(j) \/ Expire(j) \/ StatementFails(j)
      PROVE  UNCHANGED dpc
  BY <1>5 DEF StartRollover, Rollover, ReadExpired, Expire, StatementFails, Snapshot, calls
<1>6. CASE UNCHANGED vars
  BY <1>1, <1>6 DEF vars
<1> QED BY <1>1, <1>2, <1>3, <1>4, <1>5, <1>6 DEF Next

LEMMA BooksKept == BInv /\ [Next]_vars => BInv'
  BY NextKeeps, ProvisionedStep, EntitledStep DEF BInv

AccountStep == [Account!Next]_(Account!vars)

LEMMA AccountStays ==
  ASSUME UNCHANGED <<status, accrued, clawed>>
  PROVE  AccountStep
  BY DEF AccountStep, Account!vars

LEMMA AccountGrows ==
  ASSUME accrued' \in [Balances -> Nat], \A b \in Balances : accrued[b] <= accrued'[b],
         accrued \in [Balances -> Nat], UNCHANGED <<status, clawed>>
  PROVE  AccountStep
<1>1. \A b \in Balances : accrued'[b] >= accrued[b]
  OBVIOUS
<1> QED BY <1>1 DEF AccountStep, Account!Next, Account!Grow

LEMMA JobsGrowAndLapse ==
  ASSUME BInv
  PROVE  /\ \A b \in Balances : Provision(b) \/ Accrue(b) => AccountStep
         /\ \A j \in Jobs : Rollover(j) \/ Expire(j) => AccountStep
<1> USE DEF BInv
<1>0. /\ accrued \in [Balances -> Nat] /\ clawed \in [Balances -> Nat]
      /\ \A j \in Jobs : computed[j] \in [Balances -> Nat]
  BY DayTypes DEF IInv, TypeOK
<1>1. ASSUME NEW b \in Balances, Provision(b) PROVE AccountStep
  <2>1. Grant[b] \in Nat /\ accrued[b] = 0
    BY <1>1, LeaveAssumption DEF Provision, Provisioned
  <2>2. accrued' = [accrued EXCEPT ![b] = Grant[b]] /\ UNCHANGED <<status, clawed>>
    BY <1>1 DEF Provision, calls, nightly
  <2>3. accrued' \in [Balances -> Nat] /\ \A c \in Balances : accrued[c] <= accrued'[c]
    BY <1>0, <2>1, <2>2
  <2> QED BY <1>0, <2>2, <2>3, AccountGrows
<1>2. ASSUME NEW b \in Balances, Accrue(b) PROVE AccountStep
  <2>1. /\ accrued[b] < BalanceCap
        /\ accrued' = [accrued EXCEPT ![b] = Lower(@ + AccrualRate, BalanceCap)]
        /\ UNCHANGED <<status, clawed>>
    BY <1>2 DEF Accrue, calls, nightly
  <2>2. /\ Lower(accrued[b] + AccrualRate, BalanceCap) \in Nat
        /\ accrued[b] <= Lower(accrued[b] + AccrualRate, BalanceCap)
    BY <1>0, <2>1, LeaveAssumption DEF Lower
  <2>3. accrued' \in [Balances -> Nat] /\ \A c \in Balances : accrued[c] <= accrued'[c]
    BY <1>0, <2>1, <2>2
  <2> QED BY <1>0, <2>1, <2>3, AccountGrows
<1>3. ASSUME NEW j \in Jobs, Rollover(j) PROVE AccountStep
  <2> DEFINE rows == targets[j] \ rolled
  <2>1. /\ accrued' = [b \in Balances |-> accrued[b] + IF b \in rows THEN computed[j][b] ELSE 0]
        /\ UNCHANGED <<status, clawed>>
    BY <1>3 DEF Rollover, calls
  <2> HIDE DEF rows
  <2>2. accrued' \in [Balances -> Nat] /\ \A c \in Balances : accrued[c] <= accrued'[c]
    BY <1>0, <2>1
  <2> QED BY <1>0, <2>1, <2>2, AccountGrows
<1>4. ASSUME NEW j \in Jobs, Expire(j) PROVE AccountStep
  <2>1. /\ accrued' = [b \in Balances |-> accrued[b] - computed[j][b]]
        /\ clawed' = [b \in Balances |-> clawed[b] + computed[j][b]]
        /\ UNCHANGED status
    BY <1>4 DEF Expire, calls
  <2>2. /\ clawed' \in [Balances -> Nat]
        /\ \A b \in Balances : clawed'[b] >= clawed[b]
        /\ \A b \in Balances : clawed'[b] - clawed[b] = computed[j][b]
    BY <1>0, <2>1
  <2>3. accrued' = [b \in Balances |-> accrued[b] - (clawed'[b] - clawed[b])]
    BY <2>1, <2>2
  <2>4. accrued' \in [Balances -> Nat]
    BY <1>0, <1>4, <2>1 DEF Expire, NonNegative
  <2>5. Account!Lapse
    BY <2>1, <2>2, <2>3, <2>4 DEF Account!Lapse
  <2> QED BY <2>5 DEF AccountStep, Account!Next
<1> QED BY <1>1, <1>2, <1>3, <1>4

\* What is booked on a balance is what it counts as pending and used.
LEMMA BookedDays ==
  ASSUME IInv, NEW b \in Balances
  PROVE  /\ IsFiniteSet(Account!Booked(b))
         /\ Cardinality(Account!Booked(b)) = pending[b] + used[b]
<1>1. Account!Booked(b) = DaySet(b, "pending") \cup DaySet(b, "approved")
  BY DEF Account!Booked, Account!Active, DaySet
<1>2. DaySet(b, "pending") \cap DaySet(b, "approved") = {}
  BY DaySetMember DEF IInv, DaysDiffer, Active
<1>3. IsFiniteSet(DaySet(b, "pending")) /\ IsFiniteSet(DaySet(b, "approved"))
  BY DEF IInv, DaysAreFinite, Active
<1>4. /\ pending[b] = Cardinality(DaySet(b, "pending"))
      /\ used[b] = Cardinality(DaySet(b, "approved"))
  BY DEF IInv, BalanceMatchesRequests, DaysOf, DaySet
<1> QED BY <1>1, <1>2, <1>3, <1>4, AddDays

\* LeaveBook counts as the service does.
LEMMA AccountCounts == \A S : Account!Cardinality(S) = Cardinality(S)
  BY DEF Account!Cardinality, Cardinality

\* The row lock makes the check of LockBalance still true when the days are booked.
LEMMA ReserveBooks ==
  ASSUME BInv, NEW s \in Requests, Reserve(s)
  PROVE  AccountStep
<1> USE DEF BInv
<1>1. UNCHANGED <<accrued, clawed>>
  BY DEF Reserve, nightly
<1>2. CASE Overlaps(s)
  BY <1>1, <1>2, AccountStays DEF Reserve
<1>3. CASE ~Overlaps(s)
  <2> PICK b \in Balances : b = BalanceOf[s] /\ DayCount(s) <= Available(b)
    BY DEF Reserve, IInv, Reserving, TypeOK
  <2>1. status[s] = "none"
    BY DEF Reserve, IInv, Written
  <2>2. \A q \in Requests : status[q] \in Account!Active => Dates[q] \cap Dates[s] = {}
    BY <1>3 DEF Overlaps, Account!Active
  <2>3. Account!Booked(b) \cap Dates[s] = {}
    BY <2>2 DEF Account!Booked
  <2>4. Cardinality(Account!Booked(b) \cup Dates[s]) = pending[b] + used[b] + DayCount(s)
    BY <2>3, BookedDays, DayCountType, AddDays DEF DayCount
  <2>5. /\ pending[b] \in Nat /\ used[b] \in Nat /\ accrued[b] \in Nat /\ DayCount(s) \in Nat
        /\ DayCount(s) <= accrued[b] - used[b] - pending[b]
    BY DayTypes, DayCountType DEF IInv, Available
  <2>6. pending[b] + used[b] + DayCount(s) <= accrued[b]
    BY <2>5
  <2>7. status' = [status EXCEPT ![s] = IF s \in NoApproval \ Backdated THEN "approved" ELSE "pending"]
    BY <1>3 DEF Reserve
  <2>8. Account!Book(s)
    BY <1>1, <2>1, <2>2, <2>4, <2>6, <2>7, AccountCounts DEF Account!Book
  <2> QED BY <2>8 DEF AccountStep, Account!Next
<1> QED BY <1>2, <1>3

LEMMA DecisionDecides ==
  ASSUME BInv, NEW d \in Decisions, ApplyDecision(d)
  PROVE  AccountStep
<1> PICK r \in Requests : r = RequestOf[d]
  BY LeaveAssumption
<1>1. status[r] = "pending" /\ (r \in Backdated /\ d \in Approving => d \in Permitted)
  BY DEF ApplyDecision, BInv, IInv, Deciding, Entitled
<1>2. /\ status' = [status EXCEPT ![r] = IF d \in Approving THEN "approved" ELSE "rejected"]
      /\ UNCHANGED <<accrued, clawed>>
  BY DEF ApplyDecision, nightly
<1>3. CASE d \in Approving
  <2>1. r \in Approvable
    BY <1>1, <1>3 DEF Approvable
  <2>2. Account!Approve(r)
    BY <1>1, <1>2, <1>3, <2>1 DEF Account!Approve
  <2> QED BY <2>2 DEF AccountStep, Account!Next
<1>4. CASE d \notin Approving
  <2>1. r \in Rejectable
    BY <1>4 DEF Rejectable
  <2>2. Account!Reject(r)
    BY <1>1, <1>2, <1>4, <2>1 DEF Account!Reject
  <2> QED BY <2>2 DEF AccountStep, Account!Next
<1> QED BY <1>3, <1>4

LEMMA NextBooks == BInv /\ [Next]_vars => AccountStep
<1> SUFFICES ASSUME BInv, [Next]_vars PROVE AccountStep
  OBVIOUS
<1>1. ASSUME NEW b \in Balances, ComesDue(b) \/ ExpiryDatePasses(b) PROVE AccountStep
  BY <1>1, AccountStays DEF ComesDue, ExpiryDatePasses, calls, nightly
<1>2. ASSUME NEW s \in Requests, LockBalance(s) \/ ScheduleReminder(s) \/ ProcessReminder(s)
      PROVE  AccountStep
  BY <1>2, AccountStays DEF LockBalance, ScheduleReminder, ProcessReminder, balance, nightly
<1>3. ASSUME NEW d \in Decisions, LockRequest(d) \/ Notify(d) PROVE AccountStep
  BY <1>3, AccountStays DEF LockRequest, Notify, balance, nightly
<1>4. ASSUME NEW j \in Jobs, StartRollover(j) \/ ReadExpired(j) \/ StatementFails(j)
      PROVE  AccountStep
  BY <1>4, AccountStays DEF StartRollover, ReadExpired, StatementFails, Snapshot, balance, calls
<1>5. CASE UNCHANGED vars
  BY <1>5, AccountStays DEF vars
<1> QED
  BY <1>1, <1>2, <1>3, <1>4, <1>5, JobsGrowAndLapse, ReserveBooks, DecisionDecides DEF Next

\* For any number of requests, deciders, periods and job instances the service is the
\* account book it is meant to be.
THEOREM LeaveImplementsBook == Spec => LeaveIsBooked
<1>1. Init => BInv /\ Account!Init
  BY InitBooks
<1>2. BInv /\ [Next]_vars => BInv' /\ AccountStep
  BY BooksKept, NextBooks
<1> QED BY <1>1, <1>2, PTL DEF Spec, LeaveIsBooked, Account!Spec, AccountStep
================================================================================
