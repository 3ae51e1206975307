------------------------------ MODULE MobileSyncProofs ------------------------------
(***************************************************************************)
(* What a device was told is true, and nothing it queued is dropped, for   *)
(* any number of actions, overlapping passes and faults.                   *)
(***************************************************************************)
EXTENDS MobileSync, WellFoundedInduction, TLAPS

USE MobileAssumption

\* A request that is about to save "synced" has been accepted.
SavedIsAccepted ==
  \A p \in Passes : \A a \in Actions :
    spc[p] = "save" /\ outcome[p] = "synced" /\ a = First(todo[p]) => a \in Received

\* The mutex: whoever is about to write a store has read what it holds.
WriterIsAlone ==
  /\ \A w \in writing : w.index = queue
  /\ \A v, w \in writing : v = w

\* What a pass removes from the queue is kept elsewhere.
RemovedIsKept ==
  \A w \in writing : w.by \in Passes => w.id \in Received \cup conflicts \cup dismissed

IInv ==
  /\ TypeOK
  /\ SyncedIsAccepted /\ SavedIsAccepted
  /\ WriterIsAlone /\ RemovedIsKept
  /\ NothingIsDropped

(***************************************************************************)
(* The earliest of a set of actions is one of them.                        *)
(***************************************************************************)
LEMMA FirstIsMember ==
  ASSUME NEW S \in SUBSET Actions, S # {}
  PROVE  First(S) \in S
<1> DEFINE T == {At[a] : a \in S}
<1>1. T \subseteq Nat /\ T # {}
  BY DEF MobileAssumption
<1> DEFINE R == OpToRel(<, Nat)
<1>2. \E m \in T : \A n \in T : ~(<<n, m>> \in R)
  <2>1. IsWellFoundedOn(R, Nat)
    BY NatLessThanWellFounded, Zenon
  <2> HIDE DEF R, T
  <2> QED BY <1>1, <2>1, WFMin
<1>3. PICK m \in T : \A n \in T : ~(n < m)
  BY <1>1, <1>2 DEF OpToRel
<1>4. PICK a \in S : At[a] = m
  OBVIOUS
<1>5. \A b \in S : At[a] <= At[b]
  BY <1>1, <1>3, <1>4
<1> QED BY <1>5 DEF First

LEMMA UnhandledIsReported ==
  ASSUME TypeOK, NEW p \in Passes, Unhandled(p) # {}
  PROVE  /\ First(Unhandled(p)) \in Actions
         /\ results[p][First(Unhandled(p))] \in Status
<1>1. First(Unhandled(p)) \in Unhandled(p)
  BY FirstIsMember DEF Unhandled
<1> QED BY <1>1 DEF Unhandled, TypeOK, Results

\* A result that has been handled is forgotten, and no other.
LEMMA HandledIsCleared ==
  ASSUME TypeOK, NEW p \in Passes, NEW a \in Actions,
         results' = results \/ results' = [results EXCEPT ![p][a] = "none"],
         NEW q \in Passes, NEW b \in Actions, results'[q][b] # "none"
  PROVE  results'[q][b] = results[q][b]
<1>1. CASE results' = results
  BY <1>1
<1>2. CASE results' = [results EXCEPT ![p][a] = "none"]
  <2>1. results'[p] = [results[p] EXCEPT ![a] = "none"]
    BY <1>2 DEF TypeOK
  <2>2. results[p] \in [Actions -> Status \cup {"none"}]
    BY DEF TypeOK, Results
  <2>3. CASE q = p
    BY <2>1, <2>2, <2>3
  <2>4. CASE q # p
    BY <1>2, <2>4 DEF TypeOK
  <2> QED BY <2>3, <2>4
<1> QED BY <1>1, <1>2

(***************************************************************************)
(* Type correctness.                                                       *)
(***************************************************************************)
LEMMA InitType == Init => TypeOK
  BY DEF Init, TypeOK, MobileAssumption, Actions, Results, NoResults, Status, Working

LEMMA AnswerType ==
  ASSUME TypeOK, NEW p \in Passes, NEW a, NEW status \in Status \cup {"none"},
         todo[p] # {}, spc[p] # "ingest", found' = found, Answer(p, a, status)
  PROVE  /\ answers' \in [Passes -> Results]
         /\ todo' \in [Passes -> SUBSET Actions]
         /\ spc' \in [Passes -> Working \cup {"idle", "answered"}]
         /\ \A q \in Passes : spc'[q] \in Working => todo'[q] # {}
         /\ \A q \in Passes :
              found'[q] # {} => spc'[q] = "ingest" /\ First(todo'[q]) \in ClockOuts
<1>1. answers' \in [Passes -> Results]
  BY DEF Answer, TypeOK, Results
<1>2. todo' \in [Passes -> SUBSET Actions]
  BY DEF Answer, TypeOK
<1>3. spc' \in [Passes -> Working \cup {"idle", "answered"}]
  BY DEF Answer, TypeOK, Working
<1>4. ASSUME NEW q \in Passes, spc'[q] \in Working PROVE todo'[q] # {}
  <2>1. CASE q = p
    BY <1>4, <2>1 DEF Answer, TypeOK, Working
  <2>2. CASE q # p
    BY <1>4, <2>2 DEF Answer, TypeOK
  <2> QED BY <2>1, <2>2
<1>5. ASSUME NEW q \in Passes, found'[q] # {}
      PROVE  spc'[q] = "ingest" /\ First(todo'[q]) \in ClockOuts
  <2>1. q # p /\ spc[q] = "ingest" /\ First(todo[q]) \in ClockOuts
    BY <1>5 DEF TypeOK
  <2>2. spc'[q] = spc[q] /\ todo'[q] = todo[q]
    BY <2>1 DEF Answer, TypeOK
  <2> QED BY <2>1, <2>2
<1> QED BY <1>1, <1>2, <1>3, <1>4, <1>5

\* A clock-out that is written late is one, and so is its record.
LEMMA AbandonType ==
  ASSUME TypeOK, NEW p \in Passes, Abandon(p)
  PROVE  late' \subseteq ClockOuts \X ClockIns
  BY DEF TypeOK, Abandon

LEMMA IngestType ==
  ASSUME TypeOK, NEW a \in ClockOuts, NEW r, IngestClockOut(a, r)
  PROVE  /\ ledger' \subseteq ClockIns \cup ClockOuts /\ open' \subseteq ClockIns
         /\ granted' = granted /\ ledger' \in {ledger, ledger \cup {a}}
  BY DEF TypeOK, IngestClockOut

\* The outcome of a call to an owning service is to be saved.
LEMMA ForwardedType ==
  ASSUME TypeOK, NEW p \in Passes, NEW status \in Status, Forwarded(p, status),
         spc[p] \in Working, faults' \in 0..MaxFaults,
         ledger' \subseteq ClockIns \cup ClockOuts, open' \subseteq ClockIns,
         late' \subseteq ClockOuts \X ClockIns, granted' \subseteq Leaves \cup Claims
  PROVE  TypeOK'
<1>1. spc' \in [Passes -> Working \cup {"idle", "answered"}]
  BY DEF Forwarded, TypeOK, Working
<1>2. \A q \in Passes : spc'[q] \in Working => todo'[q] # {}
  BY DEF Forwarded, TypeOK
<1>3. found' \in [Passes -> SUBSET ClockIns]
  BY DEF Forwarded, TypeOK
<1>4. ASSUME NEW q \in Passes, found'[q] # {}
      PROVE  spc'[q] = "ingest" /\ First(todo'[q]) \in ClockOuts
  BY <1>4 DEF Forwarded, TypeOK
<1>5. outcome' \in [Passes -> Status \cup {"none"}]
  BY DEF Forwarded, TypeOK
<1> QED BY <1>1, <1>2, <1>3, <1>4, <1>5 DEF Forwarded, TypeOK, device, First

LEMMA NextType == TypeOK /\ [Next]_vars => TypeOK'
<1> SUFFICES ASSUME TypeOK, [Next]_vars PROVE TypeOK'
  OBVIOUS
<1>1. ASSUME NEW a \in Actions, Enqueue(a) PROVE TypeOK'
  <2>1. writing' \subseteq Operations
    BY <1>1 DEF Enqueue, BeginOperation, TypeOK, Operations
  <2> QED BY <1>1, <2>1 DEF Enqueue, TypeOK, service, upstream
<1>2. ASSUME NEW a \in Actions, DismissConflict(a) PROVE TypeOK'
  BY <1>2 DEF DismissConflict, TypeOK, service, upstream
<1>3. ASSUME NEW w \in writing, FinishEnqueue(w) PROVE TypeOK'
  BY <1>3 DEF FinishEnqueue, TypeOK, Operations, service, upstream
<1>4. ASSUME NEW w \in writing, FinishRemove(w) PROVE TypeOK'
  <2>1. queue' \subseteq Actions /\ writing' \subseteq Operations
    BY <1>4 DEF FinishRemove, TypeOK, Operations
  <2>2. results' \in [Passes -> Results]
    BY <1>4 DEF FinishRemove, TypeOK, Operations, Results
  <2> QED BY <1>4, <2>1, <2>2 DEF FinishRemove, TypeOK, service, upstream
<1>5. ASSUME NEW p \in Passes, SyncPendingActions(p) PROVE TypeOK'
  <2>1. /\ spc[p] = "idle" /\ queue # {}
        /\ spc' = [spc EXCEPT ![p] = "row"] /\ todo' = [todo EXCEPT ![p] = queue]
        /\ UNCHANGED found
    BY <1>5 DEF SyncPendingActions
  <2>2. /\ spc' \in [Passes -> Working \cup {"idle", "answered"}]
        /\ todo' \in [Passes -> SUBSET Actions]
        /\ \A q \in Passes : spc'[q] \in Working => todo'[q] # {}
    BY <2>1 DEF TypeOK, Working
  <2>3. \A q \in Passes : found[q] # {} => q # p /\ spc'[q] = "ingest" /\ todo'[q] = todo[q]
    BY <2>1 DEF TypeOK
  <2> QED BY <1>5, <2>2, <2>3 DEF SyncPendingActions, TypeOK, upstream
<1>6. ASSUME NEW p \in Passes, ReceiveResults(p) PROVE TypeOK'
  <2>1. NoResults \in Results
    BY DEF NoResults, Results
  <2>2. spc[p] = "answered" /\ spc' = [spc EXCEPT ![p] = "idle"] /\ UNCHANGED <<todo, found>>
    BY <1>6 DEF ReceiveResults
  <2>3. /\ spc' \in [Passes -> Working \cup {"idle", "answered"}]
        /\ \A q \in Passes : spc'[q] \in Working => todo'[q] # {}
    BY <2>2 DEF TypeOK, Working
  <2>4. \A q \in Passes : found'[q] # {} => spc'[q] = "ingest" /\ First(todo'[q]) \in ClockOuts
    BY <2>2 DEF TypeOK
  <2> QED BY <1>6, <2>1, <2>3, <2>4 DEF ReceiveResults, TypeOK, upstream
<1>7. ASSUME NEW p \in Passes, HandleResult(p) PROVE TypeOK'
  <2> DEFINE a == First(Unhandled(p))
  <2>1. a \in Actions
    BY <1>7, UnhandledIsReported DEF HandleResult
  <2> HIDE DEF a
  <2>2. results' \in [Passes -> Results]
    <3>1. results' = results \/ results' = [results EXCEPT ![p][a] = "none"]
      BY <1>7 DEF HandleResult, a
    <3>2. [results[p] EXCEPT ![a] = "none"] \in Results
      BY DEF TypeOK, Results
    <3>3. results' \in [Passes -> Results] \/ results' = results
      BY <3>1, <3>2 DEF TypeOK
    <3> QED BY <3>3 DEF TypeOK
  <2>3. writing' \subseteq Operations
    BY <1>7, <2>1 DEF HandleResult, BeginOperation, TypeOK, Operations, a
  <2>4. conflicts' \subseteq Actions
    BY <1>7, <2>1 DEF HandleResult, TypeOK, a
  <2> QED BY <1>7, <2>2, <2>3, <2>4 DEF HandleResult, TypeOK, service, upstream
<1>8. ASSUME NEW p \in Passes, GiveUp(p) PROVE TypeOK'
  BY <1>8 DEF GiveUp, Fault, TypeOK, service, upstream, MobileAssumption
<1>9. ASSUME NEW p \in Passes, ProcessAction(p) \/ InsertRow(p) PROVE TypeOK'
  <2> DEFINE a == First(todo[p])
  <2>1. /\ todo[p] # {} /\ spc[p] \in {"row", "insert"} /\ UNCHANGED <<found, outcome>>
        /\ row' \in [Actions -> {"none", "pending_sync"} \cup Status]
    BY <1>9 DEF ProcessAction, InsertRow, TypeOK, Working
  <2>2. CASE row[a] \in Terminal /\ Answer(p, a, row[a])
    <3>1. row[a] \in Status
      BY <2>2 DEF Status, Terminal
    <3> HIDE DEF a
    <3> QED BY <1>9, <2>1, <2>2, <3>1, AnswerType DEF ProcessAction, InsertRow, TypeOK, device, upstream
  <2>3. CASE (\E step \in {"insert", "forward"} : spc' = [spc EXCEPT ![p] = step])
             /\ UNCHANGED <<answers, todo>>
    <3> HIDE DEF a
    <3>1. spc' \in [Passes -> Working \cup {"idle", "answered"}]
      BY <2>3 DEF TypeOK, Working
    <3>2. \A q \in Passes : spc'[q] \in Working => todo'[q] # {}
      BY <2>1, <2>3 DEF TypeOK
    <3>3. \A q \in Passes : found[q] # {} => q # p /\ spc'[q] = "ingest"
      BY <2>1, <2>3 DEF TypeOK
    <3> QED BY <1>9, <2>1, <2>3, <3>1, <3>2, <3>3
         DEF ProcessAction, InsertRow, TypeOK, device, upstream, First
  <2> QED BY <1>9, <2>2, <2>3 DEF ProcessAction, InsertRow
<1>10. ASSUME NEW p \in Passes, Forward(p) PROVE TypeOK'
  <2>1. /\ ledger' \subseteq ClockIns \cup ClockOuts /\ open' \subseteq ClockIns
        /\ granted' \subseteq Leaves \cup Claims /\ late' = late
    BY <1>10 DEF Forward, Accept, IngestClockIn, TypeOK, upstream
  <2>2. PICK status \in Status : Forwarded(p, status)
    BY <1>10 DEF Forward, Status
  <2>3. spc[p] \in Working /\ faults' \in 0..MaxFaults
    BY <1>10 DEF Forward, Working, TypeOK
  <2> QED BY <2>1, <2>2, <2>3, ForwardedType DEF TypeOK
<1>15. ASSUME NEW p \in Passes, ForwardFails(p) PROVE TypeOK'
  <2>1. /\ ledger' \subseteq ClockIns \cup ClockOuts /\ open' \subseteq ClockIns
        /\ granted' \subseteq Leaves \cup Claims
    BY <1>15 DEF ForwardFails, Accept, IngestClockIn, TypeOK
  <2>2. late' \subseteq ClockOuts \X ClockIns
    BY <1>15, AbandonType DEF ForwardFails, TypeOK
  <2>3. Forwarded(p, "failed") /\ "failed" \in Status /\ spc[p] \in Working
    BY <1>15 DEF ForwardFails, Status, Working
  <2>4. faults' \in 0..MaxFaults
    BY <1>15 DEF ForwardFails, Fault, TypeOK, MobileAssumption
  <2> QED BY <2>1, <2>2, <2>3, <2>4, ForwardedType
<1>16. ASSUME NEW p \in Passes, FindOpenRecord(p) PROVE TypeOK'
  <2>1. PICK r \in open : found' = [found EXCEPT ![p] = {r}]
    BY <1>16 DEF FindOpenRecord
  <2>2. /\ spc[p] = "forward" /\ First(todo[p]) \in ClockOuts
        /\ spc' = [spc EXCEPT ![p] = "ingest"]
        /\ UNCHANGED <<device, todo, outcome, answers, row, upstream, faults>>
    BY <1>16 DEF FindOpenRecord
  <2>3. found' \in [Passes -> SUBSET ClockIns]
    BY <2>1 DEF TypeOK
  <2>4. spc' \in [Passes -> Working \cup {"idle", "answered"}]
    BY <2>2 DEF TypeOK, Working
  <2>5. \A q \in Passes : spc'[q] \in Working => todo'[q] # {}
    BY <2>2 DEF TypeOK, Working
  <2>6. ASSUME NEW q \in Passes, found'[q] # {}
        PROVE  spc'[q] = "ingest" /\ First(todo'[q]) \in ClockOuts
    BY <2>1, <2>2, <2>6 DEF TypeOK
  <2> QED BY <2>2, <2>3, <2>4, <2>5, <2>6 DEF TypeOK, device, upstream
<1>17. ASSUME NEW p \in Passes, CommitClockOut(p) PROVE TypeOK'
  <2>1. PICK r \in found[p] : /\ IngestClockOut(First(todo[p]), r)
                              /\ Forwarded(p, UpdateResult(First(todo[p]), r))
    BY <1>17 DEF CommitClockOut
  <2>2. First(todo[p]) \in ClockOuts
    BY <2>1 DEF TypeOK
  <2>3. UpdateResult(First(todo[p]), r) \in Status
    BY DEF UpdateResult, Status
  <2>4. spc[p] \in Working /\ UNCHANGED <<late, faults>>
    BY <1>17 DEF CommitClockOut, Working
  <2> QED BY <2>1, <2>2, <2>3, <2>4, IngestType, ForwardedType DEF TypeOK
<1>18. ASSUME NEW l \in late, CommitLate(l) PROVE TypeOK'
  <2>1. l[1] \in ClockOuts /\ IngestClockOut(l[1], l[2])
    BY <1>18 DEF CommitLate, TypeOK
  <2> QED BY <1>18, <2>1, IngestType DEF CommitLate, TypeOK, device, service
<1>11. ASSUME NEW p \in Passes, SaveRow(p) PROVE TypeOK'
  <2>1. outcome[p] \in Status \cup {"none"} /\ todo[p] # {}
    BY <1>11 DEF SaveRow, TypeOK, Working
  <2>2. Answer(p, First(todo[p]), outcome[p])
    BY <1>11 DEF SaveRow
  <2>3. row' \in [Actions -> {"none", "pending_sync"} \cup Status]
    BY <1>11, <2>1 DEF SaveRow, TypeOK
  <2>4. spc[p] = "save" /\ found' = found
    BY <1>11 DEF SaveRow
  <2> QED BY <1>11, <2>1, <2>2, <2>3, <2>4, AnswerType DEF SaveRow, TypeOK, device, upstream
<1>12. ASSUME NEW p \in Passes, RequestDies(p) PROVE TypeOK'
  <2>1. NoResults \in Results
    BY DEF NoResults, Results
  <2>2. late' \subseteq ClockOuts \X ClockIns
    BY <1>12, AbandonType DEF RequestDies
  <2>3. /\ found' \in [Passes -> SUBSET ClockIns]
        /\ \A q \in Passes : found'[q] # {} => spc'[q] = "ingest" /\ First(todo'[q]) \in ClockOuts
    BY <1>12 DEF RequestDies, TypeOK
  <2>4. /\ spc' \in [Passes -> Working \cup {"idle", "answered"}]
        /\ \A q \in Passes : spc'[q] \in Working => todo'[q] # {}
    BY <1>12 DEF RequestDies, TypeOK, Working
  <2> QED BY <1>12, <2>1, <2>2, <2>3, <2>4 DEF RequestDies, Fault, TypeOK, MobileAssumption
<1>13. CASE KillApp
  <2>1. NoResults \in Results
    BY DEF NoResults, Results
  <2> QED BY <1>13, <2>1 DEF KillApp, Fault, TypeOK, service, upstream, MobileAssumption
<1>14. CASE UNCHANGED vars
  BY <1>14 DEF vars, TypeOK
<1> QED BY <1>1, <1>2, <1>3, <1>4, <1>5, <1>6, <1>7, <1>8, <1>9, <1>10, <1>11, <1>12,
           <1>13, <1>14, <1>15, <1>16, <1>17, <1>18 DEF Next, OnDevice, InService

(***************************************************************************)
(* The steps of the device and of the service.                             *)
(***************************************************************************)
Safe ==
  /\ SyncedIsAccepted /\ SavedIsAccepted
  /\ WriterIsAlone /\ RemovedIsKept
  /\ NothingIsDropped

\* The service's tables and what it has told the passes stay as they are.
LEMMA AcceptedStays ==
  ASSUME SyncedIsAccepted, SavedIsAccepted,
         UNCHANGED <<spc, todo, outcome, answers, row, results, ledger, granted>>
  PROVE  SyncedIsAccepted' /\ SavedIsAccepted'
  BY DEF SyncedIsAccepted, SavedIsAccepted, Received, First

\* The stores of the device stay as they are, and the owning services forget nothing.
LEMMA DeviceStays ==
  ASSUME WriterIsAlone, RemovedIsKept, NothingIsDropped,
         UNCHANGED <<tapped, queue, conflicts, dismissed, writing>>,
         ledger \subseteq ledger', granted \subseteq granted'
  PROVE  WriterIsAlone' /\ RemovedIsKept' /\ NothingIsDropped'
  BY DEF WriterIsAlone, RemovedIsKept, NothingIsDropped, Received

LEMMA EnqueueStep ==
  ASSUME TypeOK, Safe, NEW a \in Actions, Enqueue(a)
  PROVE  Safe'
<1>1. SyncedIsAccepted' /\ SavedIsAccepted'
  BY AcceptedStays DEF Safe, Enqueue, service, upstream
<1>2. WriterIsAlone'
  BY DEF Safe, WriterIsAlone, Enqueue, BeginOperation, MutexFree
<1>3. RemovedIsKept' /\ NothingIsDropped'
  BY DEF Safe, RemovedIsKept, NothingIsDropped, Received, Enqueue, BeginOperation, MutexFree,
         upstream, MobileAssumption
<1> QED BY <1>1, <1>2, <1>3 DEF Safe

LEMMA DismissStep ==
  ASSUME TypeOK, Safe, NEW a \in Actions, DismissConflict(a)
  PROVE  Safe'
<1>1. SyncedIsAccepted' /\ SavedIsAccepted'
  BY AcceptedStays DEF Safe, DismissConflict, service, upstream
<1>2. WriterIsAlone'
  BY DEF Safe, WriterIsAlone, DismissConflict
<1>3. RemovedIsKept' /\ NothingIsDropped'
  BY DEF Safe, RemovedIsKept, NothingIsDropped, Received, DismissConflict, upstream
<1> QED BY <1>1, <1>2, <1>3 DEF Safe

LEMMA FinishEnqueueStep ==
  ASSUME TypeOK, Safe, NEW w \in writing, FinishEnqueue(w)
  PROVE  Safe'
<1>1. SyncedIsAccepted' /\ SavedIsAccepted'
  BY AcceptedStays DEF Safe, FinishEnqueue, service, upstream
<1>2. writing' = {} /\ w.index = queue
  BY DEF Safe, WriterIsAlone, FinishEnqueue
<1>3. WriterIsAlone' /\ RemovedIsKept'
  BY <1>2 DEF WriterIsAlone, RemovedIsKept
<1>4. NothingIsDropped'
  BY <1>2 DEF Safe, NothingIsDropped, Received, FinishEnqueue, upstream
<1> QED BY <1>1, <1>3, <1>4 DEF Safe

LEMMA FinishRemoveStep ==
  ASSUME TypeOK, Safe, NEW w \in writing, FinishRemove(w)
  PROVE  Safe'
<1>1. writing' = {} /\ w.index = queue
  BY DEF Safe, WriterIsAlone, FinishRemove
<1>2. WriterIsAlone' /\ RemovedIsKept'
  BY <1>1 DEF WriterIsAlone, RemovedIsKept
<1>3. w.id \in Received \cup conflicts \cup dismissed
  BY DEF Safe, RemovedIsKept, FinishRemove
<1>4. NothingIsDropped'
  BY <1>1, <1>3 DEF Safe, NothingIsDropped, Received, FinishRemove, upstream
<1>5. SavedIsAccepted'
  BY DEF Safe, SavedIsAccepted, Received, First, FinishRemove, service, upstream
<1>6. \A p \in Passes, a \in Actions : results'[p][a] = "synced" => results[p][a] = "synced"
  BY DEF FinishRemove, TypeOK, Results
<1>7. SyncedIsAccepted'
  BY <1>6 DEF Safe, SyncedIsAccepted, Received, FinishRemove, service, upstream
<1> QED BY <1>2, <1>4, <1>5, <1>7 DEF Safe

LEMMA SyncStep ==
  ASSUME TypeOK, Safe, NEW p \in Passes, SyncPendingActions(p)
  PROVE  Safe'
<1>1. WriterIsAlone' /\ RemovedIsKept' /\ NothingIsDropped'
  BY DeviceStays DEF Safe, SyncPendingActions, upstream
<1>2. SyncedIsAccepted'
  BY DEF Safe, SyncedIsAccepted, Received, SyncPendingActions, upstream
<1>3. SavedIsAccepted'
  BY DEF Safe, SavedIsAccepted, Received, First, SyncPendingActions, upstream, TypeOK
<1> QED BY <1>1, <1>2, <1>3 DEF Safe

LEMMA ReceiveStep ==
  ASSUME TypeOK, Safe, NEW p \in Passes, ReceiveResults(p)
  PROVE  Safe'
<1>1. WriterIsAlone' /\ RemovedIsKept' /\ NothingIsDropped'
  BY DeviceStays DEF Safe, ReceiveResults, upstream
<1>2. \A q \in Passes, a \in Actions :
        /\ answers'[q][a] = "synced" => answers[q][a] = "synced"
        /\ results'[q][a] = "synced" => "synced" \in {results[q][a], answers[q][a]}
  <2> TAKE q \in Passes, a \in Actions
  <2>1. NoResults[a] # "synced"
    BY DEF NoResults
  <2>2. CASE q = p
    BY <2>1, <2>2 DEF ReceiveResults, TypeOK
  <2>3. CASE q # p
    BY <2>3 DEF ReceiveResults, TypeOK
  <2> QED BY <2>2, <2>3
<1>3. SyncedIsAccepted'
  BY <1>2 DEF Safe, SyncedIsAccepted, Received, ReceiveResults, upstream
<1>4. SavedIsAccepted'
  BY DEF Safe, SavedIsAccepted, Received, First, ReceiveResults, upstream, TypeOK
<1> QED BY <1>1, <1>3, <1>4 DEF Safe

LEMMA HandleStep ==
  ASSUME TypeOK, Safe, NEW p \in Passes, HandleResult(p)
  PROVE  Safe'
<1> DEFINE a == First(Unhandled(p))
<1>1. a \in Actions /\ results[p][a] \in Status
  BY UnhandledIsReported DEF HandleResult
<1>2. CASE results[p][a] = "failed"
  <2>1. results' = [results EXCEPT ![p][a] = "none"] /\ UNCHANGED <<writing, conflicts>>
    BY <1>2 DEF HandleResult
  <2> HIDE DEF a
  <2>2. WriterIsAlone' /\ RemovedIsKept' /\ NothingIsDropped'
    BY <2>1, DeviceStays DEF Safe, HandleResult, upstream
  <2>3. \A q \in Passes, b \in Actions : results'[q][b] = "synced" => results[q][b] = "synced"
    BY <1>1, <2>1 DEF TypeOK, Results
  <2>4. SyncedIsAccepted' /\ SavedIsAccepted'
    BY <2>3 DEF Safe, SyncedIsAccepted, SavedIsAccepted, Received, First, HandleResult, service, upstream
  <2> QED BY <2>2, <2>4 DEF Safe
<1>3. CASE results[p][a] # "failed"
  <2>1. /\ BeginOperation(p, a)
        /\ conflicts' = IF results[p][a] = "conflict" THEN conflicts \cup {a} ELSE conflicts
        /\ UNCHANGED results
    BY <1>3 DEF HandleResult
  <2>2. UNCHANGED <<tapped, queue, dismissed, spc, todo, outcome, answers, row, ledger, granted>>
    BY DEF HandleResult, service, upstream
  <2> HIDE DEF a
  <2>3. SyncedIsAccepted' /\ SavedIsAccepted'
    BY <2>1, <2>2, AcceptedStays DEF Safe
  <2>4. WriterIsAlone'
    BY <2>1, <2>2 DEF Safe, WriterIsAlone, BeginOperation, MutexFree
  <2>5. a \in Received' \cup conflicts'
    BY <1>1, <1>3, <2>1, <2>2 DEF Safe, SyncedIsAccepted, Received, Status
  <2>6. RemovedIsKept'
    BY <2>1, <2>5 DEF RemovedIsKept, BeginOperation, MutexFree
  <2>7. NothingIsDropped'
    BY <2>1, <2>2 DEF Safe, NothingIsDropped, Received
  <2> QED BY <2>3, <2>4, <2>6, <2>7 DEF Safe
<1> QED BY <1>2, <1>3

LEMMA GiveUpStep ==
  ASSUME TypeOK, Safe, NEW p \in Passes, GiveUp(p)
  PROVE  Safe'
<1>1. SyncedIsAccepted' /\ SavedIsAccepted'
  BY AcceptedStays DEF Safe, GiveUp, service, upstream
<1>2. WriterIsAlone' /\ RemovedIsKept' /\ NothingIsDropped'
  BY DeviceStays DEF Safe, GiveUp, upstream
<1> QED BY <1>1, <1>2 DEF Safe

LEMMA KillAppStep ==
  ASSUME TypeOK, Safe, KillApp
  PROVE  Safe'
<1>1. WriterIsAlone' /\ RemovedIsKept' /\ NothingIsDropped'
  BY DEF Safe, WriterIsAlone, RemovedIsKept, NothingIsDropped, Received, KillApp, upstream
<1>2. SyncedIsAccepted'
  BY DEF Safe, SyncedIsAccepted, Received, KillApp, service, upstream, NoResults
<1>3. SavedIsAccepted'
  BY DEF Safe, SavedIsAccepted, Received, First, KillApp, service, upstream
<1> QED BY <1>1, <1>2, <1>3 DEF Safe

LEMMA ProcessStep ==
  ASSUME TypeOK, Safe, NEW p \in Passes, ProcessAction(p) \/ InsertRow(p)
  PROVE  Safe'
<1> DEFINE a == First(todo[p])
<1>1. WriterIsAlone' /\ RemovedIsKept' /\ NothingIsDropped'
  BY DeviceStays DEF Safe, ProcessAction, InsertRow, device, upstream
<1>2. /\ UNCHANGED <<results, outcome, ledger, granted>>
      /\ UNCHANGED row \/ row' = [row EXCEPT ![a] = "pending_sync"]
      /\ UNCHANGED answers \/ answers' = [answers EXCEPT ![p][a] = row[a]]
  BY DEF ProcessAction, InsertRow, Answer, device, upstream
<1>3. /\ \A q \in Passes \ {p} : spc'[q] = spc[q] /\ todo'[q] = todo[q]
      /\ spc'[p] # "save"
  BY DEF ProcessAction, InsertRow, Answer, TypeOK
<1> HIDE DEF a
<1>4. \A b \in Actions : row'[b] = "synced" => row[b] = "synced"
  BY <1>2 DEF TypeOK
<1>5. \A q \in Passes, b \in Actions :
        answers'[q][b] = "synced" => answers[q][b] = "synced" \/ row[b] = "synced"
  <2> TAKE q \in Passes, b \in Actions
  <2>1. CASE UNCHANGED answers
    BY <2>1
  <2>2. CASE answers' = [answers EXCEPT ![p][a] = row[a]]
    BY <2>2 DEF TypeOK, Results
  <2> QED BY <1>2, <2>1, <2>2
<1>6. SyncedIsAccepted'
  BY <1>2, <1>4, <1>5 DEF Safe, SyncedIsAccepted, Received
<1>7. SavedIsAccepted'
  BY <1>2, <1>3 DEF Safe, SavedIsAccepted, Received, First
<1> QED BY <1>1, <1>6, <1>7 DEF Safe

\* Owning services forget nothing, and what a request is to save as synced they have.
LEMMA UpstreamGrows ==
  ASSUME TypeOK, NEW p \in Passes, Forward(p) \/ ForwardFails(p) \/ CommitClockOut(p)
  PROVE  /\ ledger \subseteq ledger' /\ granted \subseteq granted'
         /\ \E status \in Status :
              Forwarded(p, status) /\ (status = "synced" => First(todo[p]) \in Received')
<1>1. CASE Forward(p)
  BY <1>1 DEF Forward, Accept, IngestClockIn, upstream, Received, Status
<1>2. CASE ForwardFails(p)
  BY <1>2 DEF ForwardFails, Accept, IngestClockIn, Status
<1>3. CASE CommitClockOut(p)
  <2>1. PICK r \in found[p] : /\ IngestClockOut(First(todo[p]), r)
                              /\ Forwarded(p, UpdateResult(First(todo[p]), r))
    BY <1>3 DEF CommitClockOut
  <2>2. r \in ClockIns /\ First(todo[p]) \in ClockOuts
    BY <2>1 DEF TypeOK
  <2>3. At[r] \in Nat /\ At[First(todo[p])] \in Nat
    BY <2>2 DEF MobileAssumption, Actions
  <2>4. /\ UpdateResult(First(todo[p]), r) \in Status
        /\ UpdateResult(First(todo[p]), r) = "synced" => r \in open /\ At[r] <= At[First(todo[p])]
    BY <2>3 DEF UpdateResult, Status
  <2>5. /\ ledger \subseteq ledger' /\ granted' = granted
        /\ r \in open /\ At[r] <= At[First(todo[p])] => First(todo[p]) \in ledger'
    BY <2>1 DEF IngestClockOut
  <2> QED BY <2>1, <2>4, <2>5 DEF Received
<1> QED BY <1>1, <1>2, <1>3

LEMMA ForwardStep ==
  ASSUME TypeOK, Safe, NEW p \in Passes, Forward(p) \/ ForwardFails(p) \/ CommitClockOut(p)
  PROVE  Safe'
<1>1. ledger \subseteq ledger' /\ granted \subseteq granted'
  BY UpstreamGrows
<1>2. PICK status \in Status :
        Forwarded(p, status) /\ (status = "synced" => First(todo[p]) \in Received')
  BY UpstreamGrows
<1>3. WriterIsAlone' /\ RemovedIsKept' /\ NothingIsDropped'
  BY <1>1, <1>2, DeviceStays DEF Safe, Forwarded, device
<1>4. SyncedIsAccepted'
  BY <1>1, <1>2 DEF Safe, SyncedIsAccepted, Received, Forwarded, device
<1>5. outcome'[p] = "synced" => First(todo[p]) \in Received'
  BY <1>2 DEF Forwarded, TypeOK
<1>6. SavedIsAccepted'
  <2> SUFFICES ASSUME NEW q \in Passes, spc'[q] = "save", outcome'[q] = "synced",
                      First(todo'[q]) \in Actions
               PROVE  First(todo'[q]) \in Received'
    BY DEF SavedIsAccepted, First
  <2>1. todo' = todo
    BY <1>2 DEF Forwarded
  <2>2. CASE q = p
    BY <1>5, <2>1, <2>2
  <2>3. CASE q # p
    <3>1. spc[q] = "save" /\ outcome[q] = "synced"
      BY <1>2, <2>3 DEF Forwarded, TypeOK
    <3>2. First(todo[q]) \in Received
      BY <2>1, <3>1 DEF Safe, SavedIsAccepted
    <3> QED BY <1>1, <2>1, <3>2 DEF Received
  <2> QED BY <2>2, <2>3
<1> QED BY <1>3, <1>4, <1>6 DEF Safe

LEMMA FindStep ==
  ASSUME TypeOK, Safe, NEW p \in Passes, FindOpenRecord(p)
  PROVE  Safe'
<1>1. WriterIsAlone' /\ RemovedIsKept' /\ NothingIsDropped'
  BY DeviceStays DEF Safe, FindOpenRecord, device, upstream
<1>2. SyncedIsAccepted'
  BY DEF Safe, SyncedIsAccepted, Received, FindOpenRecord, device, upstream
<1>3. SavedIsAccepted'
  BY DEF Safe, SavedIsAccepted, Received, First, FindOpenRecord, upstream, TypeOK
<1> QED BY <1>1, <1>2, <1>3 DEF Safe

LEMMA LateStep ==
  ASSUME TypeOK, Safe, NEW l \in late, CommitLate(l)
  PROVE  Safe'
<1>1. ledger \subseteq ledger' /\ granted' = granted
  BY DEF CommitLate, IngestClockOut
<1>2. WriterIsAlone' /\ RemovedIsKept' /\ NothingIsDropped'
  BY <1>1, DeviceStays DEF Safe, CommitLate, device
<1>3. SyncedIsAccepted' /\ SavedIsAccepted'
  BY <1>1 DEF Safe, SyncedIsAccepted, SavedIsAccepted, Received, First, CommitLate, device, service
<1> QED BY <1>2, <1>3 DEF Safe

LEMMA SaveStep ==
  ASSUME TypeOK, Safe, NEW p \in Passes, SaveRow(p)
  PROVE  Safe'
<1> DEFINE a == First(todo[p])
<1>1. WriterIsAlone' /\ RemovedIsKept' /\ NothingIsDropped'
  BY DeviceStays DEF Safe, SaveRow, device, upstream
<1>2. /\ UNCHANGED <<results, ledger, granted>>
      /\ spc[p] = "save"
      /\ row' = [row EXCEPT ![a] = outcome[p]]
      /\ answers' = [answers EXCEPT ![p][a] = outcome[p]]
  BY DEF SaveRow, Answer, device, upstream
<1>3. /\ \A q \in Passes \ {p} :
           spc'[q] = spc[q] /\ todo'[q] = todo[q] /\ outcome'[q] = outcome[q]
      /\ spc'[p] # "save"
  BY DEF SaveRow, Answer, TypeOK
<1>4. \A b \in Actions : b = a /\ outcome[p] = "synced" => b \in Received
  BY <1>2 DEF Safe, SavedIsAccepted
<1> HIDE DEF a
<1>5. \A b \in Actions :
        row'[b] = "synced" => row[b] = "synced" \/ (b = a /\ outcome[p] = "synced")
  BY <1>2 DEF TypeOK
<1>6. \A q \in Passes, b \in Actions :
        answers'[q][b] = "synced" =>
          answers[q][b] = "synced" \/ (b = a /\ outcome[p] = "synced")
  BY <1>2 DEF TypeOK, Results
<1>7. SyncedIsAccepted'
  BY <1>2, <1>4, <1>5, <1>6 DEF Safe, SyncedIsAccepted, Received
<1>8. SavedIsAccepted'
  BY <1>2, <1>3 DEF Safe, SavedIsAccepted, Received, First
<1> QED BY <1>1, <1>7, <1>8 DEF Safe

LEMMA RequestDiesStep ==
  ASSUME TypeOK, Safe, NEW p \in Passes, RequestDies(p)
  PROVE  Safe'
<1>1. WriterIsAlone' /\ RemovedIsKept' /\ NothingIsDropped'
  BY DeviceStays DEF Safe, RequestDies
<1>2. \A q \in Passes, a \in Actions : answers'[q][a] = "synced" => answers[q][a] = "synced"
  BY DEF RequestDies, TypeOK, Results, NoResults
<1>3. SyncedIsAccepted'
  BY <1>2 DEF Safe, SyncedIsAccepted, Received, RequestDies
<1>4. SavedIsAccepted'
  BY DEF Safe, SavedIsAccepted, Received, First, RequestDies, TypeOK
<1> QED BY <1>1, <1>3, <1>4 DEF Safe

(***************************************************************************)
(* The invariant.                                                          *)
(***************************************************************************)
LEMMA InitInv == Init => IInv
<1> SUFFICES ASSUME Init PROVE IInv
  OBVIOUS
<1>1. TypeOK
  BY InitType
<1>2. SyncedIsAccepted /\ SavedIsAccepted
  BY DEF Init, SyncedIsAccepted, SavedIsAccepted, Received, NoResults
<1>3. WriterIsAlone /\ RemovedIsKept /\ NothingIsDropped
  BY DEF Init, WriterIsAlone, RemovedIsKept, NothingIsDropped, Received
<1> QED BY <1>1, <1>2, <1>3 DEF IInv

LEMMA NextInv == IInv /\ [Next]_vars => IInv'
<1> SUFFICES ASSUME IInv, [Next]_vars PROVE IInv'
  OBVIOUS
<1>1. TypeOK /\ Safe
  BY DEF IInv, Safe
<1>2. TypeOK'
  BY <1>1, NextType
<1>3. Safe'
  <2>1. CASE \E a \in Actions : Enqueue(a) \/ DismissConflict(a)
    BY <1>1, <2>1, EnqueueStep, DismissStep
  <2>2. CASE \E w \in writing : FinishEnqueue(w) \/ FinishRemove(w)
    BY <1>1, <2>2, FinishEnqueueStep, FinishRemoveStep
  <2>3. CASE \E p \in Passes : OnDevice(p) \/ GiveUp(p)
    BY <1>1, <2>3, SyncStep, ReceiveStep, HandleStep, GiveUpStep DEF OnDevice
  <2>4. CASE \E p \in Passes : InService(p) \/ ForwardFails(p) \/ RequestDies(p)
    BY <1>1, <2>4, ProcessStep, ForwardStep, FindStep, SaveStep, RequestDiesStep DEF InService
  <2>5. CASE KillApp
    BY <1>1, <2>5, KillAppStep
  <2>6. CASE UNCHANGED vars
    BY <1>1, <2>6, AcceptedStays, DeviceStays DEF Safe, vars
  <2>7. CASE \E l \in late : CommitLate(l)
    BY <1>1, <2>7, LateStep
  <2> QED BY <2>1, <2>2, <2>3, <2>4, <2>5, <2>6, <2>7 DEF Next
<1> QED BY <1>2, <1>3 DEF IInv, Safe

LEMMA Inductive == Spec => []IInv
<1>1. Init => IInv
  BY InitInv
<1>2. IInv /\ [Next]_vars => IInv'
  BY NextInv
<1> QED BY <1>1, <1>2, PTL DEF Spec

\* Stores, batches and rows keep their types: a request never works on an empty batch
\* (syncBatch).
THEOREM MobileTypeCorrect == Spec => []TypeOK
<1>1. IInv => TypeOK
  BY DEF IInv
<1> QED BY <1>1, Inductive, PTL

\* No pass is told that an action is synced which the owning service does not have,
\* however passes and requests overlap (processAction).
THEOREM SyncedIsTrue == Spec => []SyncedIsAccepted
<1>1. IInv => SyncedIsAccepted
  BY DEF IInv
<1> QED BY <1>1, Inductive, PTL

\* No queued action disappears: neither by an overlapping pass, nor by a lost answer,
\* nor by the death of the app between two writes (syncPendingActions).
THEOREM NothingIsDroppedHolds == Spec => []NothingIsDropped
<1>1. IInv => NothingIsDropped
  BY DEF IInv
<1> QED BY <1>1, Inductive, PTL

(***************************************************************************)
(* Device and services are a relay.                                        *)
(***************************************************************************)
Sent == tapped \ Already
Told(p) == {a \in Actions : results[p][a] # "none" \/ answers[p][a] # "none"}

\* Whatever is stored, forwarded, answered or removed was queued by the employee,
\* and nothing is queued twice.
StoresAreAsked == Already \subseteq tapped /\ queue \cup conflicts \cup dismissed \subseteq Sent
PassesAreAsked == \A p \in Passes : todo[p] \subseteq Sent /\ Told(p) \subseteq Sent
WritersAreAsked ==
  \A w \in writing :
    /\ w.by = "user" => w.id \notin tapped
    /\ w.by \in Passes => w.id \in Sent

LateIsAsked == \A l \in late : l[1] \in Sent

RInv == StoresAreAsked /\ PassesAreAsked /\ WritersAreAsked /\ LateIsAsked

LEMMA InitAsks == Init => RInv
  BY DEF Init, RInv, StoresAreAsked, PassesAreAsked, WritersAreAsked, LateIsAsked, Told, NoResults

LEMMA StoresStay ==
  ASSUME RInv, UNCHANGED <<tapped, queue, conflicts, dismissed>>
  PROVE  StoresAreAsked' /\ Sent' = Sent
  BY DEF RInv, StoresAreAsked, Sent

LEMMA WritersStay ==
  ASSUME RInv, UNCHANGED tapped, writing' \subseteq writing
  PROVE  WritersAreAsked'
  BY DEF RInv, WritersAreAsked, Sent

LEMMA PassesStay ==
  ASSUME RInv, UNCHANGED <<todo, results, answers>>, tapped \subseteq tapped'
  PROVE  PassesAreAsked'
  BY DEF RInv, PassesAreAsked, Told, Sent

LEMMA LateStays ==
  ASSUME RInv, late' \subseteq late, tapped \subseteq tapped'
  PROVE  LateIsAsked'
  BY DEF RInv, LateIsAsked, Sent

\* A clock-out that is abandoned is the action at hand.
LEMMA AbandonAsks ==
  ASSUME TypeOK, RInv, NEW p \in Passes, Abandon(p), UNCHANGED tapped
  PROVE  LateIsAsked'
<1>1. \A l \in late' : l \in late \/ (found[p] # {} /\ l[1] = First(todo[p]))
  BY DEF Abandon
<1>2. found[p] # {} => First(todo[p]) \in todo[p]
  BY FirstIsMember DEF TypeOK, Working
<1> QED BY <1>1, <1>2 DEF LateIsAsked, RInv, PassesAreAsked, Sent

\* An answer is about the action at hand.
LEMMA AnswerAsks ==
  ASSUME TypeOK, RInv, NEW p \in Passes, NEW a \in Actions, a \in todo[p], NEW status,
         Answer(p, a, status), UNCHANGED <<tapped, results>>
  PROVE  PassesAreAsked'
<1>1. Sent' = Sent
  BY DEF Sent
<1>2. \A q \in Passes : todo'[q] \subseteq todo[q]
  BY DEF Answer, TypeOK
<1>3. ASSUME NEW q \in Passes, NEW b \in Actions, answers'[q][b] # "none"
      PROVE  b \in Sent
  <2>1. answers'[q][b] = answers[q][b] \/ (q = p /\ b = a)
    BY DEF Answer, TypeOK, Results
  <2> QED BY <1>3, <2>1 DEF RInv, PassesAreAsked, Told
<1> QED BY <1>1, <1>2, <1>3 DEF RInv, PassesAreAsked, Told

LEMMA NextAsks == IInv /\ RInv /\ [Next]_vars => RInv'
<1> SUFFICES ASSUME IInv, RInv, [Next]_vars PROVE RInv'
  OBVIOUS
<1> USE DEF IInv
<1>1. ASSUME NEW a \in Actions, Enqueue(a) PROVE RInv'
  <2>1. UNCHANGED <<tapped, queue, conflicts, dismissed, todo, results, answers, late>>
    BY <1>1 DEF Enqueue, service, upstream
  <2>2. a \notin tapped
    BY <1>1 DEF Enqueue, MobileAssumption
  <2>3. WritersAreAsked'
    BY <1>1, <2>1, <2>2 DEF Enqueue, BeginOperation, MutexFree, WritersAreAsked, MobileAssumption
  <2> QED BY <2>1, <2>3, StoresStay, PassesStay, LateStays DEF RInv
<1>2. ASSUME NEW a \in Actions, DismissConflict(a) PROVE RInv'
  <2>1. UNCHANGED <<tapped, queue, writing, todo, results, answers, late>>
    BY <1>2 DEF DismissConflict, service, upstream
  <2>2. StoresAreAsked'
    BY <1>2 DEF DismissConflict, RInv, StoresAreAsked, Sent
  <2> QED BY <2>1, <2>2, PassesStay, WritersStay, LateStays DEF RInv
<1>3. ASSUME NEW w \in writing, FinishEnqueue(w) PROVE RInv'
  <2>1. writing' = {} /\ w.index = queue /\ w.id \notin tapped
    BY <1>3 DEF WriterIsAlone, FinishEnqueue, RInv, WritersAreAsked
  <2>2. /\ UNCHANGED <<conflicts, dismissed, todo, results, answers, late>>
        /\ tapped' = tapped \cup {w.id} /\ queue' = queue \cup {w.id}
    BY <1>3, <2>1 DEF FinishEnqueue, service, upstream
  <2>3. StoresAreAsked'
    BY <2>1, <2>2 DEF RInv, StoresAreAsked, Sent
  <2>4. WritersAreAsked'
    BY <2>1 DEF WritersAreAsked
  <2> QED BY <2>2, <2>3, <2>4, PassesStay, LateStays DEF RInv
<1>4. ASSUME NEW w \in writing, FinishRemove(w) PROVE RInv'
  <2>1. writing' = {} /\ w.index = queue
    BY <1>4 DEF WriterIsAlone, FinishRemove
  <2>2. /\ UNCHANGED <<tapped, conflicts, dismissed, todo, answers, late>>
        /\ queue' \subseteq queue
    BY <1>4, <2>1 DEF FinishRemove, service, upstream
  <2>3. \A p \in Passes, a \in Actions : results'[p][a] # "none" => results[p][a] # "none"
    BY <1>4 DEF FinishRemove, TypeOK, Results
  <2>4. PassesAreAsked'
    BY <2>2, <2>3 DEF RInv, PassesAreAsked, Told, Sent
  <2>5. StoresAreAsked'
    BY <2>2 DEF RInv, StoresAreAsked, Sent
  <2>6. WritersAreAsked'
    BY <2>1 DEF WritersAreAsked
  <2> QED BY <2>2, <2>4, <2>5, <2>6, LateStays DEF RInv
<1>5. ASSUME NEW p \in Passes, SyncPendingActions(p) PROVE RInv'
  <2>1. UNCHANGED <<tapped, queue, conflicts, dismissed, writing, results, answers, late>>
    BY <1>5 DEF SyncPendingActions, upstream
  <2>2. \A q \in Passes : todo'[q] \in {todo[q], queue}
    BY <1>5 DEF SyncPendingActions, TypeOK
  <2>3. PassesAreAsked'
    BY <2>1, <2>2 DEF RInv, PassesAreAsked, StoresAreAsked, Told, Sent
  <2> QED BY <2>1, <2>3, StoresStay, WritersStay, LateStays DEF RInv
<1>6. ASSUME NEW p \in Passes, ReceiveResults(p) PROVE RInv'
  <2>1. UNCHANGED <<tapped, queue, conflicts, dismissed, writing, todo, late>>
    BY <1>6 DEF ReceiveResults, upstream
  <2>2. \A q \in Passes, a \in Actions :
          /\ answers'[q][a] # "none" => answers[q][a] # "none"
          /\ results'[q][a] # "none" => results[q][a] # "none" \/ answers[q][a] # "none"
    <3>1. \A q \in Passes : answers'[q] = answers[q] \/ answers'[q] = NoResults
      BY <1>6 DEF ReceiveResults, TypeOK
    <3>2. \A q \in Passes : results'[q] = results[q] \/ results'[q] = answers[q]
      BY <1>6 DEF ReceiveResults, TypeOK
    <3> QED BY <3>1, <3>2 DEF NoResults
  <2>3. PassesAreAsked'
    BY <2>1, <2>2 DEF RInv, PassesAreAsked, Told, Sent
  <2> QED BY <2>1, <2>3, StoresStay, WritersStay, LateStays DEF RInv
<1>7. ASSUME NEW p \in Passes, HandleResult(p) PROVE RInv'
  <2>1. PICK a \in Actions : a = First(Unhandled(p)) /\ results[p][a] \in Status
    BY <1>7, UnhandledIsReported DEF HandleResult
  <2>2. UNCHANGED <<tapped, queue, dismissed, todo, answers, late>>
    BY <1>7 DEF HandleResult, service, upstream
  <2>3. a \in Sent
    BY <2>1 DEF RInv, PassesAreAsked, Told, Status
  <2>4. conflicts' \subseteq conflicts \cup {a}
    BY <1>7, <2>1 DEF HandleResult
  <2>5. StoresAreAsked'
    BY <2>2, <2>3, <2>4 DEF RInv, StoresAreAsked, Sent
  <2>6. \A q \in Passes, b \in Actions : results'[q][b] # "none" => results[q][b] # "none"
    <3>1. results' = results \/ results' = [results EXCEPT ![p][a] = "none"]
      BY <1>7, <2>1 DEF HandleResult
    <3> QED BY <3>1, HandledIsCleared
  <2>7. PassesAreAsked'
    BY <2>2, <2>6 DEF RInv, PassesAreAsked, Told, Sent
  <2>8. writing' = writing \/ writing' = {[by |-> p, id |-> a, index |-> queue]}
    BY <1>7, <2>1 DEF HandleResult, BeginOperation, MutexFree
  <2>9. WritersAreAsked'
    <3>1. CASE writing' = writing
      BY <2>2, <3>1, WritersStay
    <3>2. CASE writing' = {[by |-> p, id |-> a, index |-> queue]}
      BY <2>2, <2>3, <3>2 DEF WritersAreAsked, Sent, MobileAssumption
    <3> QED BY <2>8, <3>1, <3>2
  <2> QED BY <2>2, <2>5, <2>7, <2>9, LateStays DEF RInv
<1>8. ASSUME NEW p \in Passes, GiveUp(p) PROVE RInv'
  BY <1>8, StoresStay, WritersStay, PassesStay, LateStays DEF GiveUp, service, upstream, RInv
<1>9. ASSUME KillApp PROVE RInv'
  <2>1. UNCHANGED <<tapped, queue, conflicts, dismissed, todo, answers, late>> /\ writing' = {}
    BY <1>9 DEF KillApp, service, upstream
  <2>2. \A q \in Passes, a \in Actions : results'[q][a] = "none"
    BY <1>9 DEF KillApp, NoResults
  <2>3. PassesAreAsked'
    BY <2>1, <2>2 DEF RInv, PassesAreAsked, Told, Sent
  <2> QED BY <2>1, <2>3, StoresStay, WritersStay, LateStays DEF RInv
<1>10. ASSUME NEW p \in Passes, ProcessAction(p) \/ InsertRow(p) PROVE RInv'
  <2>1. UNCHANGED <<tapped, queue, conflicts, dismissed, writing, results, late>>
    BY <1>10 DEF ProcessAction, InsertRow, device, upstream
  <2>2. First(todo[p]) \in todo[p] /\ First(todo[p]) \in Actions
    BY <1>10, FirstIsMember DEF ProcessAction, InsertRow, TypeOK, Working
  <2>3. PassesAreAsked'
    BY <1>10, <2>1, <2>2, AnswerAsks, PassesStay DEF ProcessAction, InsertRow
  <2> QED BY <2>1, <2>3, StoresStay, WritersStay, LateStays DEF RInv
<1>11. ASSUME NEW p \in Passes,
              Forward(p) \/ ForwardFails(p) \/ FindOpenRecord(p) \/ CommitClockOut(p)
       PROVE  RInv'
  <2>1. UNCHANGED <<tapped, queue, conflicts, dismissed, writing, results, todo, answers>>
    BY <1>11 DEF Forward, ForwardFails, FindOpenRecord, CommitClockOut, Forwarded, device
  <2>2. late' = late \/ Abandon(p)
    BY <1>11 DEF Forward, ForwardFails, FindOpenRecord, CommitClockOut, upstream
  <2>3. LateIsAsked'
    BY <2>1, <2>2, LateStays, AbandonAsks
  <2> QED BY <2>1, <2>3, StoresStay, WritersStay, PassesStay DEF RInv
<1>12. ASSUME NEW p \in Passes, SaveRow(p) PROVE RInv'
  <2>1. UNCHANGED <<tapped, queue, conflicts, dismissed, writing, results, late>>
    BY <1>12 DEF SaveRow, device, upstream
  <2>2. First(todo[p]) \in todo[p] /\ First(todo[p]) \in Actions
    BY <1>12, FirstIsMember DEF SaveRow, TypeOK, Working
  <2>3. PassesAreAsked'
    BY <1>12, <2>1, <2>2, AnswerAsks DEF SaveRow
  <2> QED BY <2>1, <2>3, StoresStay, WritersStay, LateStays DEF RInv
<1>15. ASSUME NEW l \in late, CommitLate(l) PROVE RInv'
  <2>1. /\ UNCHANGED <<tapped, queue, conflicts, dismissed, writing, results, todo, answers>>
        /\ late' \subseteq late
    BY <1>15 DEF CommitLate, device, service
  <2> QED BY <2>1, StoresStay, WritersStay, PassesStay, LateStays DEF RInv
<1>13. ASSUME NEW p \in Passes, RequestDies(p) PROVE RInv'
  <2>1. UNCHANGED <<tapped, queue, conflicts, dismissed, writing, results>>
    BY <1>13 DEF RequestDies
  <2>2. \A q \in Passes :
          /\ todo'[q] \subseteq todo[q]
          /\ \A a \in Actions : answers'[q][a] # "none" => answers[q][a] # "none"
    BY <1>13 DEF RequestDies, NoResults, TypeOK, Results
  <2>3. PassesAreAsked'
    BY <2>1, <2>2 DEF RInv, PassesAreAsked, Told, Sent
  <2>4. LateIsAsked'
    BY <1>13, <2>1, AbandonAsks DEF RequestDies
  <2> QED BY <2>1, <2>3, <2>4, StoresStay, WritersStay DEF RInv
<1>14. CASE UNCHANGED vars
  BY <1>14, StoresStay, WritersStay, PassesStay, LateStays DEF vars, RInv
<1> QED BY <1>1, <1>2, <1>3, <1>4, <1>5, <1>6, <1>7, <1>8, <1>9, <1>10, <1>11, <1>12, <1>13,
     <1>14, <1>15 DEF Next, OnDevice, InService

RStep == [Relayed!Next]_(Relayed!vars)

LEMMA RelayStays ==
  ASSUME UNCHANGED <<tapped, queue, conflicts, dismissed, ledger, granted>>
  PROVE  RStep
  BY DEF RStep, Relayed!vars, Received

\* What an owning service accepts was queued by the employee.
LEMMA ArrivalRelays ==
  ASSUME UNCHANGED <<tapped, queue, conflicts, dismissed>>,
         NEW a \in Actions, a \in Sent, Received' \in {Received, Received \cup {a}}
  PROVE  RStep
<1>1. CASE Received' = Received
  BY <1>1 DEF RStep, Relayed!vars
<1>2. CASE Received' = Received \cup {a}
  <2>1. Relayed!Arrive(a)
    BY <1>2 DEF Relayed!Arrive, Sent
  <2> QED BY <2>1 DEF RStep, Relayed!Next, Sent
<1> QED BY <1>1, <1>2

LEMMA ForwardRelays ==
  ASSUME IInv, RInv, NEW p \in Passes, Forward(p) \/ ForwardFails(p) \/ CommitClockOut(p)
  PROVE  RStep
<1>1. UNCHANGED <<tapped, queue, conflicts, dismissed>>
  BY DEF Forward, ForwardFails, CommitClockOut, Forwarded, device
<1>2. PICK a \in todo[p] : a = First(todo[p])
  BY FirstIsMember DEF Forward, ForwardFails, CommitClockOut, IInv, TypeOK, Working
<1>3. a \in Sent /\ a \in Actions
  BY <1>2 DEF RInv, PassesAreAsked, IInv, TypeOK
<1>4. Received' \in {Received, Received \cup {a}}
  <2>1. CASE Forward(p) \/ ForwardFails(p)
    BY <1>2, <2>1 DEF Forward, ForwardFails, Accept, IngestClockIn, upstream, Received
  <2>2. CASE CommitClockOut(p)
    BY <1>2, <2>2 DEF CommitClockOut, IngestClockOut, Received
  <2> QED BY <2>1, <2>2
<1> QED BY <1>1, <1>3, <1>4, ArrivalRelays

LEMMA HandleRelays ==
  ASSUME IInv, RInv, NEW p \in Passes, HandleResult(p)
  PROVE  RStep
<1>1. PICK a \in Actions : a = First(Unhandled(p)) /\ results[p][a] \in Status
  BY UnhandledIsReported DEF HandleResult, IInv
<1>2. UNCHANGED <<tapped, queue, dismissed, ledger, granted>>
  BY DEF HandleResult, upstream
<1>3. a \in Sent
  BY <1>1 DEF RInv, PassesAreAsked, Told, Status
<1>4. conflicts' \in {conflicts, conflicts \cup {a}}
  BY <1>1 DEF HandleResult
<1>5. CASE conflicts' = conflicts
  BY <1>2, <1>5, RelayStays
<1>6. CASE conflicts' = conflicts \cup {a}
  <2>1. Relayed!Bury(a)
    BY <1>2, <1>3, <1>6 DEF Relayed!Bury, Sent, Received
  <2> QED BY <1>3, <2>1 DEF RStep, Relayed!Next, Sent
<1> QED BY <1>4, <1>5, <1>6

LEMMA NextRelays == IInv /\ RInv /\ [Next]_vars => RStep
<1> SUFFICES ASSUME IInv, RInv, [Next]_vars PROVE RStep
  OBVIOUS
<1>1. ASSUME NEW a \in Actions, Enqueue(a) PROVE RStep
  BY <1>1, RelayStays DEF Enqueue, upstream
<1>2. ASSUME NEW a \in Actions, DismissConflict(a) PROVE RStep
  <2>1. conflicts' \cup dismissed' = conflicts \cup dismissed
    BY <1>2 DEF DismissConflict
  <2> QED BY <1>2, <2>1 DEF DismissConflict, upstream, RStep, Relayed!vars, Received
<1>3. ASSUME NEW w \in writing, FinishEnqueue(w) PROVE RStep
  <2>1. w.index = queue /\ w.id \notin tapped /\ w.id \in Actions
    BY <1>3 DEF IInv, TypeOK, Operations, WriterIsAlone, FinishEnqueue, RInv, WritersAreAsked
  <2>2. w.id \notin Already
    BY <2>1 DEF RInv, StoresAreAsked
  <2>3. Relayed!Send(w.id)
    BY <1>3, <2>1, <2>2 DEF FinishEnqueue, upstream, Relayed!Send, Received
  <2> QED BY <2>1, <2>2, <2>3 DEF RStep, Relayed!Next
<1>4. ASSUME NEW w \in writing, FinishRemove(w) PROVE RStep
  <2>1. /\ w.index = queue /\ w.id \in Sent /\ w.id \in Actions
        /\ w.id \in Received \cup conflicts \cup dismissed
    BY <1>4 DEF IInv, TypeOK, Operations, WriterIsAlone, RemovedIsKept, FinishRemove, RInv,
                WritersAreAsked
  <2>2. Relayed!Forget(w.id)
    BY <1>4, <2>1 DEF FinishRemove, upstream, Relayed!Forget, Received, Sent
  <2> QED BY <2>1, <2>2 DEF RStep, Relayed!Next, Sent
<1>5. ASSUME NEW p \in Passes,
             SyncPendingActions(p) \/ ReceiveResults(p) \/ GiveUp(p) \/ RequestDies(p)
      PROVE  RStep
  BY <1>5, RelayStays DEF SyncPendingActions, ReceiveResults, GiveUp, RequestDies, upstream
<1>6. ASSUME NEW p \in Passes, ProcessAction(p) \/ InsertRow(p) \/ FindOpenRecord(p) \/ SaveRow(p)
      PROVE  RStep
  BY <1>6, RelayStays DEF ProcessAction, InsertRow, FindOpenRecord, SaveRow, device, upstream
<1>7. ASSUME KillApp PROVE RStep
  BY <1>7, RelayStays DEF KillApp, upstream
<1>8. CASE UNCHANGED vars
  BY <1>8, RelayStays DEF vars
<1>9. ASSUME NEW l \in late, CommitLate(l) PROVE RStep
  <2>1. l[1] \in Sent /\ l[1] \in Actions
    BY DEF RInv, LateIsAsked, IInv, TypeOK, Actions
  <2>2. UNCHANGED <<tapped, queue, conflicts, dismissed>>
    BY <1>9 DEF CommitLate, device
  <2>3. Received' \in {Received, Received \cup {l[1]}}
    BY <1>9 DEF CommitLate, IngestClockOut, Received
  <2> QED BY <2>1, <2>2, <2>3, ArrivalRelays
<1> QED BY <1>1, <1>2, <1>3, <1>4, <1>5, <1>6, <1>7, <1>8, <1>9, ForwardRelays, HandleRelays
     DEF Next, OnDevice, InService

\* The offline queue, mobile-ess-service and the owning services implement a relay,
\* however passes overlap, requests die and the app is killed (syncPendingActions,
\* syncBatch): what leaves the queue has arrived or is a stored conflict, and what
\* arrives was queued.
THEOREM MobileRelays == Spec => ActionsAreRelayed
<1>1. Spec => []RInv
  BY InitAsks, NextAsks, Inductive, PTL DEF Spec
<1>2. Init => Relayed!Init
  BY DEF Init, Relayed!Init, Received
<1>3. IInv /\ RInv /\ [Next]_vars => [Relayed!Next]_(Relayed!vars)
  BY NextRelays DEF RStep
<1> QED BY <1>1, <1>2, <1>3, Inductive, PTL DEF Spec, ActionsAreRelayed, Relayed!Spec

(***************************************************************************)
(* Conflicts that are shown are real, while every answer arrives.          *)
(***************************************************************************)
\* No call or answer is lost, nothing dies, and passes do not overlap.
Undisturbed == MaxFaults = 0 /\ \A p, q \in Passes : p = q

AtHand(p, a) == todo[p] # {} /\ a = First(todo[p])

\* What a request forwards or is about to save has no terminal row.
AtHandIsNew ==
  \A p \in Passes, a \in Actions :
    spc[p] \in Working \ {"row"} /\ AtHand(p, a) => row[a] \notin Terminal

\* What the attendance service has recorded is synced, or about to be saved so.
RecordedIsSynced ==
  \A a \in ledger :
    \/ row[a] = "synced"
    \/ \E p \in Passes : spc[p] = "save" /\ AtHand(p, a) /\ outcome[p] = "synced"

\* What a pass is told is a conflict, or shows as one, is one in the table.
ConflictIsSaved ==
  \A a \in Actions :
    a \in conflicts \/ (\E p \in Passes : "conflict" \in {results[p][a], answers[p][a]})
      => row[a] = "conflict"

SavedIsKnown == \A p \in Passes : spc[p] = "save" => outcome[p] \in Status

NothingIsLate == late = {}

CInv == AtHandIsNew /\ RecordedIsSynced /\ ConflictIsSaved /\ SavedIsKnown /\ NothingIsLate

LEMMA InitConflicts == Init => CInv
<1> SUFFICES ASSUME Init PROVE CInv
  OBVIOUS
<1>1. AtHandIsNew /\ SavedIsKnown /\ NothingIsLate
  BY DEF Init, AtHandIsNew, SavedIsKnown, NothingIsLate, Working
<1>2. RecordedIsSynced
  BY DEF Init, RecordedIsSynced, MobileAssumption, Actions
<1>3. ConflictIsSaved
  BY DEF Init, ConflictIsSaved, NoResults
<1> QED BY <1>1, <1>2, <1>3 DEF CInv

\* The request's tables stay as they are, and no conflict is told or shown anew.
LEMMA ConflictsStay ==
  ASSUME CInv, UNCHANGED <<spc, todo, outcome, row, ledger, late>>,
         \A a \in Actions : a \in conflicts' => a \in conflicts \/ row[a] = "conflict",
         \A p \in Passes, a \in Actions :
           "conflict" \in {results'[p][a], answers'[p][a]} =>
             "conflict" \in {results[p][a], answers[p][a]}
  PROVE  CInv'
<1>1. AtHandIsNew' /\ RecordedIsSynced' /\ SavedIsKnown' /\ NothingIsLate'
  BY DEF CInv, AtHandIsNew, RecordedIsSynced, SavedIsKnown, NothingIsLate, AtHand, First
<1>2. ConflictIsSaved'
  BY DEF CInv, ConflictIsSaved
<1> QED BY <1>1, <1>2 DEF CInv

\* The only pass answers for an action whose row is terminal, and goes on.
LEMMA AnswerConflicts ==
  ASSUME Undisturbed, TypeOK, CInv, NEW p \in Passes, NEW a \in Actions, AtHand(p, a),
         NEW status \in Terminal \cup {"failed"},
         Answer(p, a, status), UNCHANGED <<conflicts, results, ledger, late>>,
         \A b \in Actions : b # a => row'[b] = row[b],
         row'[a] = status,
         row[a] \in Terminal => row'[a] = row[a],
         a \in ledger => status = "synced"
  PROVE  CInv'
<1>1. \A q \in Passes : q = p
  BY DEF Undisturbed
<1>2. spc'[p] \in {"answered", "row"}
  BY DEF Answer, TypeOK
<1>3. AtHandIsNew' /\ SavedIsKnown' /\ NothingIsLate'
  BY <1>1, <1>2 DEF CInv, AtHandIsNew, SavedIsKnown, NothingIsLate, Working
<1>4. RecordedIsSynced'
  <2> SUFFICES ASSUME NEW b \in ledger PROVE row'[b] = "synced"
    BY DEF RecordedIsSynced
  <2>1. CASE b = a
    BY <2>1
  <2>2. CASE b # a
    <3>1. row[b] = "synced"
      BY <1>1, <2>2 DEF CInv, RecordedIsSynced, AtHand
    <3>2. b \in Actions
      BY DEF TypeOK, Actions
    <3> QED BY <2>2, <3>1, <3>2
  <2> QED BY <2>1, <2>2
<1>5. ConflictIsSaved'
  <2>1. \A b \in Actions : b # a => answers'[p][b] = answers[p][b]
    BY DEF Answer, TypeOK, Results
  <2>2. answers'[p][a] = status
    BY DEF Answer, TypeOK, Results
  <2> SUFFICES ASSUME NEW b \in Actions,
                      b \in conflicts \/ "conflict" \in {results[p][b], answers'[p][b]}
               PROVE  row'[b] = "conflict"
    BY <1>1 DEF ConflictIsSaved
  <2>3. CASE b # a
    BY <2>1, <2>3 DEF CInv, ConflictIsSaved
  <2>4. CASE b = a /\ status = "conflict"
    BY <2>4
  <2>5. CASE b = a /\ status # "conflict"
    <3>1. row[a] = "conflict"
      BY <2>2, <2>5 DEF CInv, ConflictIsSaved
    <3> QED BY <2>5, <3>1 DEF Terminal
  <2> QED BY <2>3, <2>4, <2>5
<1> QED BY <1>3, <1>4, <1>5 DEF CInv

LEMMA ProcessConflicts ==
  ASSUME Undisturbed, TypeOK, CInv, NEW p \in Passes, ProcessAction(p) \/ InsertRow(p)
  PROVE  CInv'
<1>1. PICK a \in Actions : AtHand(p, a)
  BY FirstIsMember DEF ProcessAction, InsertRow, TypeOK, AtHand, Working
<1>2. UNCHANGED <<conflicts, results, outcome, ledger, late>>
  BY DEF ProcessAction, InsertRow, device, upstream
<1>3. \A q \in Passes : q = p
  BY DEF Undisturbed
<1>4. CASE row[a] \in Terminal
  <2>1. Answer(p, a, row[a]) /\ UNCHANGED row
    BY <1>1, <1>4 DEF ProcessAction, InsertRow, AtHand, CInv, AtHandIsNew, Working
  <2>2. a \in ledger => row[a] = "synced"
    BY <1>3 DEF CInv, RecordedIsSynced, ProcessAction, InsertRow
  <2> QED BY <1>1, <1>2, <1>4, <2>1, <2>2, AnswerConflicts
<1>5. CASE row[a] \notin Terminal
  <2>1. /\ UNCHANGED row \/ row' = [row EXCEPT ![a] = "pending_sync"]
        /\ \E step \in {"insert", "forward"} : spc' = [spc EXCEPT ![p] = step]
        /\ UNCHANGED <<answers, todo>>
    BY <1>1, <1>5 DEF ProcessAction, InsertRow, AtHand
  <2>2. row'[a] \notin Terminal /\ \A b \in Actions : b # a => row'[b] = row[b]
    BY <1>5, <2>1 DEF TypeOK, Terminal
  <2>3. AtHandIsNew' /\ SavedIsKnown' /\ NothingIsLate'
    <3>1. spc'[p] \in {"insert", "forward"}
      BY <2>1 DEF TypeOK
    <3> QED BY <1>1, <1>2, <1>3, <2>1, <2>2, <3>1
         DEF CInv, AtHandIsNew, SavedIsKnown, NothingIsLate, AtHand, First
  <2>4. RecordedIsSynced'
    <3>1. \A b \in ledger : row[b] = "synced" /\ b \in Actions
      BY <1>3 DEF CInv, RecordedIsSynced, ProcessAction, InsertRow, TypeOK, Actions
    <3> QED BY <1>2, <1>5, <2>2, <3>1 DEF RecordedIsSynced, Terminal
  <2>5. ConflictIsSaved'
    BY <1>2, <1>5, <2>1, <2>2 DEF CInv, ConflictIsSaved, Terminal
  <2> QED BY <2>3, <2>4, <2>5 DEF CInv
<1> QED BY <1>4, <1>5

\* What is forwarded has no terminal row, so it is not recorded yet, and no pass
\* has been told that it is a conflict.
LEMMA ForwardConflicts ==
  ASSUME Undisturbed, TypeOK, CInv, NEW p \in Passes, Forward(p) \/ CommitClockOut(p)
  PROVE  CInv'
<1>1. PICK a \in Actions : AtHand(p, a)
  BY FirstIsMember DEF Forward, CommitClockOut, TypeOK, AtHand, Working
<1>2. UNCHANGED <<conflicts, results, todo, answers, row, late>>
  BY DEF Forward, CommitClockOut, Forwarded, device, upstream
<1>3. \A q \in Passes : q = p
  BY DEF Undisturbed
<1>4. row[a] \notin Terminal
  BY <1>1 DEF CInv, AtHandIsNew, Forward, CommitClockOut, Working
<1>5. \A b \in ledger : row[b] = "synced" /\ b \in Actions
  BY <1>3 DEF CInv, RecordedIsSynced, Forward, CommitClockOut, TypeOK, Actions
<1>6. /\ spc'[p] = "save" /\ outcome'[p] \in Status
      /\ outcome'[p] = "synced" \/ ledger' = ledger
  <2>1. CASE Forward(p)
    BY <2>1 DEF Forward, Forwarded, TypeOK, Status, upstream
  <2>2. CASE CommitClockOut(p)
    <3>1. PICK r \in found[p] : /\ IngestClockOut(First(todo[p]), r)
                                /\ Forwarded(p, UpdateResult(First(todo[p]), r))
      BY <2>2 DEF CommitClockOut
    <3>2. At[r] \in Nat /\ At[First(todo[p])] \in Nat
      BY <3>1 DEF MobileAssumption, Actions, TypeOK
    <3>3. /\ UpdateResult(First(todo[p]), r) \in Status
          /\ UpdateResult(First(todo[p]), r) = "synced" \/ ledger' = ledger
      BY <3>1, <3>2 DEF UpdateResult, IngestClockOut, Status
    <3> QED BY <3>1, <3>3 DEF Forwarded, TypeOK
  <2> QED BY <2>1, <2>2
<1>7. ledger' \subseteq ledger \cup {a}
  <2>1. CASE Forward(p)
    BY <1>1, <2>1 DEF Forward, Accept, IngestClockIn, upstream, AtHand
  <2>2. CASE CommitClockOut(p)
    BY <1>1, <2>2 DEF CommitClockOut, IngestClockOut, AtHand
  <2> QED BY <2>1, <2>2
<1>8. AtHandIsNew' /\ SavedIsKnown' /\ NothingIsLate'
  BY <1>1, <1>2, <1>3, <1>4, <1>6 DEF CInv, AtHandIsNew, SavedIsKnown, NothingIsLate, AtHand, First
<1>9. RecordedIsSynced'
  <2>1. AtHand(p, a)'
    BY <1>1, <1>2 DEF AtHand, First
  <2> QED BY <1>2, <1>5, <1>6, <1>7, <2>1 DEF RecordedIsSynced
<1>10. ConflictIsSaved'
  BY <1>2 DEF CInv, ConflictIsSaved
<1> QED BY <1>8, <1>9, <1>10 DEF CInv

LEMMA FindConflicts ==
  ASSUME Undisturbed, TypeOK, CInv, NEW p \in Passes, FindOpenRecord(p)
  PROVE  CInv'
<1>1. \A q \in Passes : q = p
  BY DEF Undisturbed
<1>2. /\ spc[p] = "forward" /\ spc'[p] = "ingest"
      /\ UNCHANGED <<conflicts, results, todo, answers, row, ledger, late>>
  BY DEF FindOpenRecord, TypeOK, device, upstream
<1>3. AtHandIsNew' /\ SavedIsKnown' /\ NothingIsLate'
  BY <1>1, <1>2 DEF CInv, AtHandIsNew, SavedIsKnown, NothingIsLate, AtHand, First, Working
<1>4. RecordedIsSynced'
  BY <1>1, <1>2 DEF CInv, RecordedIsSynced
<1>5. ConflictIsSaved'
  BY <1>2 DEF CInv, ConflictIsSaved
<1> QED BY <1>3, <1>4, <1>5 DEF CInv

LEMMA SaveConflicts ==
  ASSUME Undisturbed, TypeOK, CInv, NEW p \in Passes, SaveRow(p)
  PROVE  CInv'
<1>1. PICK a \in Actions : AtHand(p, a)
  BY FirstIsMember DEF SaveRow, TypeOK, AtHand, Working
<1>2. /\ UNCHANGED <<conflicts, results, ledger, late>>
      /\ row' = [row EXCEPT ![a] = outcome[p]]
      /\ Answer(p, a, outcome[p])
  BY <1>1 DEF SaveRow, AtHand, device, upstream
<1>3. \A q \in Passes : q = p
  BY DEF Undisturbed
<1>4. row[a] \notin Terminal
  BY <1>1 DEF CInv, AtHandIsNew, SaveRow, Working
<1>5. a \in ledger => outcome[p] = "synced"
  BY <1>3, <1>4 DEF CInv, RecordedIsSynced, Terminal
<1>6. outcome[p] \in Terminal \cup {"failed"}
  BY DEF CInv, SavedIsKnown, SaveRow, Status, Terminal
<1>7. row'[a] = outcome[p] /\ \A b \in Actions : b # a => row'[b] = row[b]
  BY <1>2 DEF TypeOK
<1> QED BY <1>1, <1>2, <1>4, <1>5, <1>6, <1>7, AnswerConflicts

LEMMA NextConflicts == Undisturbed /\ IInv /\ CInv /\ [Next]_vars => CInv'
<1> SUFFICES ASSUME Undisturbed, TypeOK, CInv, [Next]_vars PROVE CInv'
  BY DEF IInv
<1>1. ~Fault
  BY DEF Undisturbed, Fault, TypeOK
<1>2. ASSUME NEW a \in Actions, Enqueue(a) \/ DismissConflict(a) PROVE CInv'
  BY <1>2, ConflictsStay DEF Enqueue, DismissConflict, service, upstream
<1>3. ASSUME NEW w \in writing, FinishEnqueue(w) PROVE CInv'
  BY <1>3, ConflictsStay DEF FinishEnqueue, service, upstream
<1>4. ASSUME NEW w \in writing, FinishRemove(w) PROVE CInv'
  <2>1. \A p \in Passes, a \in Actions : results'[p][a] = "conflict" => results[p][a] = "conflict"
    BY <1>4 DEF FinishRemove, TypeOK, Results
  <2> QED BY <1>4, <2>1, ConflictsStay DEF FinishRemove, service, upstream
<1>5. ASSUME NEW p \in Passes, SyncPendingActions(p) PROVE CInv'
  <2>1. \A q \in Passes : q = p
    BY DEF Undisturbed
  <2>2. spc[p] = "idle" /\ spc'[p] = "row" /\ UNCHANGED <<conflicts, results, answers, row, ledger, late>>
    BY <1>5 DEF SyncPendingActions, upstream, TypeOK
  <2>3. AtHandIsNew' /\ SavedIsKnown' /\ NothingIsLate'
    BY <2>1, <2>2 DEF CInv, AtHandIsNew, SavedIsKnown, NothingIsLate, Working
  <2>4. RecordedIsSynced'
    BY <2>1, <2>2 DEF CInv, RecordedIsSynced
  <2>5. ConflictIsSaved'
    BY <2>2 DEF CInv, ConflictIsSaved
  <2> QED BY <2>3, <2>4, <2>5 DEF CInv
<1>6. ASSUME NEW p \in Passes, ReceiveResults(p) PROVE CInv'
  <2>1. \A q \in Passes : q = p
    BY DEF Undisturbed
  <2>2. /\ spc[p] = "answered" /\ spc'[p] = "idle"
        /\ UNCHANGED <<conflicts, row, ledger, late>>
    BY <1>6 DEF ReceiveResults, upstream, TypeOK
  <2>3. AtHandIsNew' /\ SavedIsKnown' /\ NothingIsLate'
    BY <2>1, <2>2 DEF CInv, AtHandIsNew, SavedIsKnown, NothingIsLate, Working
  <2>4. RecordedIsSynced'
    BY <2>1, <2>2 DEF CInv, RecordedIsSynced
  <2>5. answers'[p] = NoResults /\ results'[p] \in {results[p], answers[p]}
    BY <1>6 DEF ReceiveResults, TypeOK
  <2>6. ConflictIsSaved'
    BY <2>1, <2>2, <2>5 DEF CInv, ConflictIsSaved, NoResults
  <2> QED BY <2>3, <2>4, <2>6 DEF CInv
<1>7. ASSUME NEW p \in Passes, HandleResult(p) PROVE CInv'
  <2>1. PICK a \in Actions : a = First(Unhandled(p)) /\ results[p][a] \in Status
    BY <1>7, UnhandledIsReported DEF HandleResult
  <2>2. UNCHANGED <<spc, todo, outcome, answers, row, ledger, late>>
    BY <1>7 DEF HandleResult, service, upstream
  <2>3. \A b \in conflicts' : b \in conflicts \/ row[b] = "conflict"
    BY <1>7, <2>1 DEF HandleResult, CInv, ConflictIsSaved
  <2>4. results' = results \/ results' = [results EXCEPT ![p][a] = "none"]
    BY <1>7, <2>1 DEF HandleResult
  <2>5. \A q \in Passes, b \in Actions : results'[q][b] = "conflict" => results[q][b] = "conflict"
    BY <2>4, HandledIsCleared
  <2> QED BY <2>2, <2>3, <2>5, ConflictsStay
<1>8. ASSUME NEW p \in Passes, GiveUp(p) \/ ForwardFails(p) \/ RequestDies(p) PROVE CInv'
  BY <1>1, <1>8 DEF GiveUp, ForwardFails, RequestDies
<1>9. ASSUME KillApp PROVE CInv'
  BY <1>1, <1>9 DEF KillApp
<1>10. CASE UNCHANGED vars
  BY <1>10, ConflictsStay DEF vars
<1>11. ASSUME NEW l \in late PROVE FALSE
  BY DEF CInv, NothingIsLate
<1> QED BY <1>2, <1>3, <1>4, <1>5, <1>6, <1>7, <1>8, <1>9, <1>10, <1>11, ProcessConflicts,
     ForwardConflicts, FindConflicts, SaveConflicts DEF Next, OnDevice, InService

\* While no answer is lost and passes do not overlap, a clock event that is shown as a
\* conflict was not recorded (AttendanceIngestionService.ingest).  Both conditions are
\* needed: one lost answer, or a second pass, is enough for the conflict that the code
\* shows for a clock-out it has recorded.
THEOREM UndisturbedConflictIsReal ==
  ASSUME Undisturbed
  PROVE  Spec => []ConflictIsReal
<1>1. Spec => []CInv
  <2>1. IInv /\ CInv /\ [Next]_vars => CInv'
    BY NextConflicts
  <2> QED BY <2>1, InitConflicts, Inductive, PTL DEF Spec
<1>2. IInv /\ CInv => ConflictIsReal
  BY DEF IInv, TypeOK, Actions, CInv, AtHandIsNew, RecordedIsSynced, ConflictIsSaved, Terminal,
         Working, ConflictIsReal
<1> QED BY <1>1, <1>2, Inductive, PTL

================================================================================
