-------------------------------- MODULE MobileSync --------------------------------
(***************************************************************************)
(* The mobile app's offline queue, mobile-ess-service, and what the owning *)
(* services make of the actions forwarded to them.  Every reconnect and    *)
(* every return to the foreground starts a pass of syncPendingActions; no  *)
(* lock keeps two passes apart, and a pass that gives up does not stop the *)
(* service, which goes on with the batch.                                  *)
(*                                                                         *)
(* The stores on the device are read and written back whole, one operation *)
(* at a time under a mutex.  Results are kept in memory only.              *)
(***************************************************************************)
EXTENDS Naturals, FiniteSets

CONSTANTS
  ClockIns, ClockOuts, Leaves, Claims, \* queued actions by actionType
  At,           \* createdAtDevice
  OutsideFence, \* clock events taken outside a hard geofence
  Already,      \* clock-ins synchronised before
  Passes,       \* passes of syncPendingActions that may overlap
  MaxTaps,      \* bound: actions the employee queues
  MaxFaults     \* bound: lost calls and answers, crashes, app kills

Actions == ClockIns \cup ClockOuts \cup Leaves \cup Claims

ASSUME MobileAssumption ==
  /\ At \in [Actions -> Nat]
  /\ \A a, b \in Actions : At[a] = At[b] => a = b
  /\ OutsideFence \subseteq ClockIns \cup ClockOuts
  /\ Already \subseteq ClockIns
  /\ "user" \notin Passes
  /\ MaxTaps \in Nat /\ MaxFaults \in Nat

VARIABLES
  tapped,    \* actions queued by the employee, who is told so right after
  queue,     \* the queue store
  conflicts, \* the unresolved-conflicts store
  dismissed, \* conflicts the employee has put away
  writing,   \* the store operations between their read and their write
  cpc,       \* where each pass is on the device
  results,   \* the answers it has yet to handle
  spc,       \* where its request is in the service
  todo,      \* the actions of the batch the service has yet to handle
  found,     \* the open record its clock-out is to close, in the attendance service
  outcome,   \* what it is about to save for the first of them
  answers,   \* its results so far
  row,       \* offline_action_queue: the status of each action
  ledger,    \* clock events in attendance_ingestion_event
  open,      \* clock-ins whose attendance record is open
  late,      \* clock-outs, with their record, that nobody waits for any more
  granted,   \* leave requests and claims the owning service has accepted
  faults

device == <<tapped, queue, conflicts, dismissed, writing, cpc, results>>
service == <<spc, todo, found, outcome, answers, row>>
upstream == <<ledger, open, late, granted>>
vars == <<tapped, queue, conflicts, dismissed, writing, cpc, results, spc, todo, found, outcome,
          answers, row, ledger, open, late, granted, faults>>

Status == {"synced", "failed", "conflict"}
Terminal == {"synced", "conflict"}
Working == {"row", "insert", "forward", "ingest", "save"}
Results == [Actions -> Status \cup {"none"}]
NoResults == [a \in Actions |-> "none"]
Received == ledger \cup granted

First(s) == CHOOSE a \in s : \A b \in s : At[a] <= At[b]

\* A store operation: who makes it, on which action, and the index it has read.
Operations == [by : Passes \cup {"user"}, id : Actions, index : SUBSET Actions]

TypeOK ==
  /\ tapped \subseteq Actions
  /\ queue \subseteq Actions
  /\ conflicts \subseteq Actions
  /\ dismissed \subseteq Actions
  /\ writing \subseteq Operations
  /\ cpc \in [Passes -> {"idle", "posted", "remove"}]
  /\ results \in [Passes -> Results]
  /\ spc \in [Passes -> Working \cup {"idle", "answered"}]
  /\ todo \in [Passes -> SUBSET Actions]
  /\ \A p \in Passes : spc[p] \in Working => todo[p] # {}
  /\ found \in [Passes -> SUBSET ClockIns]
  /\ \A p \in Passes : found[p] # {} => spc[p] = "ingest" /\ First(todo[p]) \in ClockOuts
  /\ outcome \in [Passes -> Status \cup {"none"}]
  /\ answers \in [Passes -> Results]
  /\ row \in [Actions -> {"none", "pending_sync"} \cup Status]
  /\ ledger \subseteq ClockIns \cup ClockOuts
  /\ open \subseteq ClockIns
  /\ late \subseteq ClockOuts \X ClockIns
  /\ granted \subseteq Leaves \cup Claims
  /\ faults \in 0..MaxFaults

Init ==
  /\ tapped = Already
  /\ queue = {} /\ conflicts = {} /\ dismissed = {}
  /\ writing = {}
  /\ cpc = [p \in Passes |-> "idle"]
  /\ results = [p \in Passes |-> NoResults]
  /\ spc = [p \in Passes |-> "idle"]
  /\ todo = [p \in Passes |-> {}]
  /\ found = [p \in Passes |-> {}]
  /\ outcome = [p \in Passes |-> "none"]
  /\ answers = [p \in Passes |-> NoResults]
  /\ row = [a \in Actions |-> IF a \in Already THEN "synced" ELSE "none"]
  /\ ledger = Already /\ open = Already /\ late = {} /\ granted = {}
  /\ faults = 0

Fault == faults < MaxFaults /\ faults' = faults + 1

Unhandled(p) == {a \in Actions : results[p][a] # "none"}

(***************************************************************************)
(* The device.                                                             *)
(***************************************************************************)
\* Mutant of MutexFree: operations on one store interleave.
NoMutex == TRUE

MutexFree == writing = {}

BeginOperation(who, a) ==
  /\ MutexFree
  /\ \A w \in writing : w.by # who
  /\ writing' = writing \cup {[by |-> who, id |-> a, index |-> queue]}

\* The employee acts again only after the last action was queued.
Enqueue(a) ==
  /\ \A b \in tapped : At[b] < At[a]
  /\ Cardinality(tapped \ Already) < MaxTaps
  /\ BeginOperation("user", a)
  /\ UNCHANGED <<tapped, queue, conflicts, dismissed, cpc, results, service, upstream, faults>>

\* The index is written; from here on the action is synchronised.  Telling the
\* employee follows and changes no store.
FinishEnqueue(w) ==
  /\ w \in writing /\ w.by = "user"
  /\ writing' = writing \ {w}
  /\ queue' = w.index \cup {w.id}
  /\ tapped' = tapped \cup {w.id}
  /\ UNCHANGED <<conflicts, dismissed, cpc, results, service, upstream, faults>>

SyncPendingActions(p) ==
  /\ cpc[p] = "idle" /\ spc[p] = "idle" /\ Unhandled(p) = {}
  /\ MutexFree
  /\ queue # {}
  /\ cpc' = [cpc EXCEPT ![p] = "posted"]
  /\ spc' = [spc EXCEPT ![p] = "row"]
  /\ todo' = [todo EXCEPT ![p] = queue]
  /\ UNCHANGED <<tapped, queue, conflicts, dismissed, writing, results, found, outcome, answers,
                 row, upstream, faults>>

ReceiveResults(p) ==
  /\ spc[p] = "answered"
  /\ spc' = [spc EXCEPT ![p] = "idle"]
  /\ answers' = [answers EXCEPT ![p] = NoResults]
  /\ IF cpc[p] = "posted"
       THEN /\ cpc' = [cpc EXCEPT ![p] = "idle"]
            /\ results' = [results EXCEPT ![p] = answers[p]]
       ELSE UNCHANGED <<cpc, results>>
  /\ UNCHANGED <<tapped, queue, conflicts, dismissed, writing, todo, found, outcome, row, upstream,
                 faults>>

\* A conflict is stored before its action is removed; a failed action stays queued.
HandleResult(p) ==
  LET a == First(Unhandled(p)) IN
  /\ cpc[p] = "idle" /\ Unhandled(p) # {}
  /\ IF results[p][a] = "failed"
       THEN /\ results' = [results EXCEPT ![p][a] = "none"]
            /\ UNCHANGED <<writing, conflicts, cpc>>
       ELSE /\ cpc' = [cpc EXCEPT ![p] = "remove"]
            /\ BeginOperation(p, a)
            /\ conflicts' = IF results[p][a] = "conflict" THEN conflicts \cup {a} ELSE conflicts
            /\ UNCHANGED results
  /\ UNCHANGED <<tapped, queue, dismissed, service, upstream, faults>>

FinishRemove(w) ==
  /\ w \in writing /\ w.by \in Passes
  /\ writing' = writing \ {w}
  /\ queue' = w.index \ {w.id}
  /\ results' = [results EXCEPT ![w.by][w.id] = "none"]
  /\ cpc' = [cpc EXCEPT ![w.by] = "idle"]
  /\ UNCHANGED <<tapped, conflicts, dismissed, service, upstream, faults>>

\* The request or its answer is lost: the batch stays queued.
GiveUp(p) ==
  /\ cpc[p] = "posted"
  /\ Fault
  /\ cpc' = [cpc EXCEPT ![p] = "idle"]
  /\ UNCHANGED <<tapped, queue, conflicts, dismissed, writing, results, service, upstream>>

\* The operating system ends the app: what it holds in memory is gone.
KillApp ==
  /\ Fault
  /\ cpc' = [p \in Passes |-> "idle"]
  /\ results' = [p \in Passes |-> NoResults]
  /\ writing' = {}
  /\ UNCHANGED <<tapped, queue, conflicts, dismissed, service, upstream>>

DismissConflict(a) ==
  /\ a \in conflicts
  /\ conflicts' = conflicts \ {a}
  /\ dismissed' = dismissed \cup {a}
  /\ UNCHANGED <<tapped, queue, writing, cpc, results, service, upstream, faults>>

(***************************************************************************)
(* mobile-ess-service.                                                     *)
(***************************************************************************)
\* Mutant of Answer: the end of the batch goes unnoticed.
AnswerAndGoOn(p, a, status) ==
  /\ answers' = [answers EXCEPT ![p][a] = status]
  /\ todo' = [todo EXCEPT ![p] = @ \ {a}]
  /\ spc' = [spc EXCEPT ![p] = "row"]

Answer(p, a, status) ==
  /\ answers' = [answers EXCEPT ![p][a] = status]
  /\ todo' = [todo EXCEPT ![p] = @ \ {a}]
  /\ spc' = [spc EXCEPT ![p] = IF todo[p] = {a} THEN "answered" ELSE "row"]

\* Mutant of ProcessAction: any row answers, also one that was never finished.
AnswerFromAnyRow(p) ==
  LET a == First(todo[p]) IN
  /\ spc[p] = "row"
  /\ IF row[a] # "none"
       THEN Answer(p, a, IF row[a] = "pending_sync" THEN "synced" ELSE row[a])
       ELSE spc' = [spc EXCEPT ![p] = "insert"] /\ UNCHANGED <<answers, todo>>
  /\ UNCHANGED <<device, found, outcome, row, upstream, faults>>

\* Mutant of ProcessAction: a failed row counts as terminal.
AnswerFromFailedRow(p) ==
  LET a == First(todo[p]) IN
  /\ spc[p] = "row"
  /\ IF row[a] \in Status
       THEN Answer(p, a, row[a])
       ELSE /\ spc' = [spc EXCEPT ![p] = IF row[a] = "none" THEN "insert" ELSE "forward"]
            /\ UNCHANGED <<answers, todo>>
  /\ UNCHANGED <<device, found, outcome, row, upstream, faults>>

\* Looks for the row; a terminal one answers for itself.
ProcessAction(p) ==
  LET a == First(todo[p]) IN
  /\ spc[p] = "row"
  /\ IF row[a] \in Terminal
       THEN Answer(p, a, row[a])
       ELSE /\ spc' = [spc EXCEPT ![p] = IF row[a] = "none" THEN "insert" ELSE "forward"]
            /\ UNCHANGED <<answers, todo>>
  /\ UNCHANGED <<device, found, outcome, row, upstream, faults>>

\* repo.save of a new row looks for it again: it inserts, or overwrites what another
\* request has put there by now.  When the other request's insert falls between, the
\* unique key fails this one, which goes on with the other's row.
InsertRow(p) ==
  LET a == First(todo[p]) IN
  /\ spc[p] = "insert"
  /\ \/ /\ row' = [row EXCEPT ![a] = "pending_sync"]
        /\ spc' = [spc EXCEPT ![p] = "forward"]
        /\ UNCHANGED <<answers, todo>>
     \/ /\ row[a] \notin Terminal \cup {"none"}
        /\ spc' = [spc EXCEPT ![p] = "forward"]
        /\ UNCHANGED <<row, answers, todo>>
     \/ row[a] \in Terminal /\ Answer(p, a, row[a]) /\ UNCHANGED row
  /\ UNCHANGED <<device, found, outcome, upstream, faults>>

Forwarded(p, status) ==
  /\ outcome' = [outcome EXCEPT ![p] = status]
  /\ spc' = [spc EXCEPT ![p] = "save"]
  /\ found' = [found EXCEPT ![p] = {}]
  /\ UNCHANGED <<device, todo, answers, row>>

\* The ledger's unique key rolls a repeated event back.
IngestClockIn(a) ==
  /\ a \in ClockIns
  /\ ledger' = ledger \cup {a}
  /\ open' = IF a \in ledger THEN open ELSE open \cup {a}

\* What the owning service does with an action it accepts at once.
Accept(a) ==
  \/ IngestClockIn(a) /\ UNCHANGED granted
  \/ /\ a \in Leaves \cup Claims /\ a \notin granted
     /\ granted' = granted \cup {a}
     /\ UNCHANGED <<ledger, open>>

\* What it refuses for good: a clock-out with nothing open, a clock event outside the
\* fence, a leave or claim that is no longer possible.
Refuse(a) ==
  \/ a \in ClockOuts /\ open = {}
  \/ a \in OutsideFence \cup Leaves \cup Claims

Forward(p) ==
  LET a == First(todo[p]) IN
  /\ spc[p] = "forward"
  /\ \/ Accept(a) /\ Forwarded(p, "synced") /\ UNCHANGED late
     \/ Refuse(a) /\ Forwarded(p, "conflict") /\ UNCHANGED upstream
     \* LEAVE_REQUEST_OVERLAP is none of the client's CONFLICT_CODES.
     \/ a \in Leaves /\ Forwarded(p, "failed") /\ UNCHANGED upstream
  /\ UNCHANGED faults

\* The latest clock-in that is still open.
LastOpen(r) == r \in open /\ \A b \in open : At[b] <= At[r]

\* A clock-out first looks for an open record, in a transaction of its own.
FindOpenRecord(p) ==
  /\ spc[p] = "forward" /\ First(todo[p]) \in ClockOuts
  /\ \E r \in open : LastOpen(r) /\ found' = [found EXCEPT ![p] = {r}]
  /\ spc' = [spc EXCEPT ![p] = "ingest"]
  /\ UNCHANGED <<device, todo, outcome, answers, row, upstream, faults>>

\* The update of the record: a conflict when it has been closed meanwhile; an error
\* when it was opened after the clock-out, which the table's CHECK refuses.  Both come
\* before the ledger's unique key, which rolls a repeated event back.
UpdateResult(a, r) ==
  CASE r \notin open   -> "conflict"
    [] At[a] < At[r]   -> "failed"
    [] OTHER           -> "synced"

IngestClockOut(a, r) ==
  /\ IF r \in open /\ At[r] <= At[a]
       THEN /\ ledger' = ledger \cup {a}
            /\ open' = IF a \in ledger THEN open ELSE open \ {r}
       ELSE UNCHANGED <<ledger, open>>
  /\ UNCHANGED granted

CommitClockOut(p) ==
  /\ spc[p] = "ingest"
  /\ \E r \in found[p] :
       IngestClockOut(First(todo[p]), r) /\ Forwarded(p, UpdateResult(First(todo[p]), r))
  /\ UNCHANGED <<late, faults>>

\* The attendance service goes on with a clock-out whose caller has gone.
Abandon(p) == late' = late \cup {<<First(todo[p]), r>> : r \in found[p]}

CommitLate(l) ==
  /\ IngestClockOut(l[1], l[2])
  /\ late' = late \ {l}
  /\ UNCHANGED <<device, service, faults>>

\* The owning service cannot be reached, or its answer is lost.
ForwardFails(p) ==
  /\ spc[p] \in {"forward", "ingest"}
  /\ Fault
  /\ \/ spc[p] = "forward" /\ Accept(First(todo[p])) /\ UNCHANGED late
     \/ Abandon(p) /\ UNCHANGED <<ledger, open, granted>>
  /\ Forwarded(p, "failed")

\* repo.save writes the status, whatever the row has become.
SaveRow(p) ==
  LET a == First(todo[p]) IN
  /\ spc[p] = "save"
  /\ row' = [row EXCEPT ![a] = outcome[p]]
  /\ outcome' = [outcome EXCEPT ![p] = "none"]
  /\ Answer(p, a, outcome[p])
  /\ UNCHANGED <<device, found, upstream, faults>>

\* The service dies, or an unexpected error answers the whole batch with 500.
RequestDies(p) ==
  /\ spc[p] # "idle"
  /\ Fault
  /\ spc' = [spc EXCEPT ![p] = "idle"]
  /\ todo' = [todo EXCEPT ![p] = {}]
  /\ Abandon(p)
  /\ found' = [found EXCEPT ![p] = {}]
  /\ outcome' = [outcome EXCEPT ![p] = "none"]
  /\ answers' = [answers EXCEPT ![p] = NoResults]
  /\ cpc' = [cpc EXCEPT ![p] = IF @ = "posted" THEN "idle" ELSE @]
  /\ UNCHANGED <<tapped, queue, conflicts, dismissed, writing, results, row, ledger, open, granted>>

(***************************************************************************)
(* The specification.                                                      *)
(***************************************************************************)
OnDevice(p) ==
  SyncPendingActions(p) \/ ReceiveResults(p) \/ HandleResult(p)

InService(p) ==
  \/ ProcessAction(p) \/ InsertRow(p) \/ SaveRow(p)
  \/ Forward(p) \/ FindOpenRecord(p) \/ CommitClockOut(p)

Next ==
  \/ \E a \in Actions : Enqueue(a) \/ DismissConflict(a)
  \/ \E w \in writing : FinishEnqueue(w) \/ FinishRemove(w)
  \/ \E p \in Passes : OnDevice(p) \/ GiveUp(p)
  \/ \E p \in Passes : InService(p) \/ ForwardFails(p) \/ RequestDies(p)
  \/ \E l \in late : CommitLate(l)
  \/ KillApp

\* The app comes to the foreground again and again, the service and the stores go on.
\* A pass waits for the mutex like everyone else and is served in turn.
Fairness ==
  /\ \A p \in Passes : SF_vars(OnDevice(p)) /\ WF_vars(InService(p))
  /\ WF_vars(\E w \in writing : FinishEnqueue(w) \/ FinishRemove(w))

Spec == Init /\ [][Next]_vars /\ Fairness

(***************************************************************************)
(* Properties.                                                             *)
(***************************************************************************)
\* "Never silently dropped": an action the employee was told is queued is still
\* queued, or the owning service has it, or it is shown as a conflict until dismissed.
NothingIsDropped == tapped \subseteq queue \cup Received \cup conflicts \cup dismissed

\* Device, service and owning services together relay the actions: a pass takes
\* an action off the queue only once the owning service has it or the conflict
\* is stored, and no owning service gets an action the employee was not told is
\* queued.
Relayed == INSTANCE Relay WITH
  Items <- Actions \ Already,
  sent <- tapped \ Already,
  owed <- queue,
  arrived <- Received \ Already,
  buried <- conflicts \cup dismissed

ActionsAreRelayed == Relayed!Spec

\* What the device is told is synced has reached the owning service, however requests
\* overlap, fail or are repeated.
SyncedIsAccepted ==
  \A a \in Actions :
    row[a] = "synced" \/ (\E p \in Passes : "synced" \in {results[p][a], answers[p][a]})
      => a \in Received

\* A record opened after the clock-out is the one that findOpenRecord returns, and the
\* table's CHECK refuses to close it with an earlier time.
Blocked(a) == a \in ClockOuts /\ \E r \in open : At[a] < At[r]

\* Every queued clock event leaves the queue for good, except a clock-out that stays
\* blocked by a later open clock-in: that one fails on every pass, until somebody
\* closes the later record.
ActionSettles ==
  \A a \in ClockIns \cup ClockOuts : <>[](a \notin queue) \/ <>[]Blocked(a)

\* A clock event the attendance service has recorded is not shown as a conflict.
ConflictIsReal == conflicts \cap ledger = {}
================================================================================
