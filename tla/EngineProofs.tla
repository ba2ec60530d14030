---------------------------- MODULE EngineProofs ----------------------------
(***************************************************************************)
(* Theorems about the engine for any jobs, plans, resources and bounds.    *)
(* The proofs rest on the named assumptions of Journal and Engine only.    *)
(***************************************************************************)
EXTENDS EngineLease, FiniteSetTheorems, TLAPS

-----------------------------------------------------------------------------
(* The journal's transactions keep its types. *)

LEMMA RowWithState ==
  ASSUME NEW row \in Row, NEW state \in JobState
  PROVE  [row EXCEPT !.state = state] \in Row
BY DEF Row

LEMMA RowOfStored ==
  ASSUME JournalTypeOK, NEW j \in Jobs, Stored(j)
  PROVE  jobs[j] \in Row
BY DEF JournalTypeOK, Stored

LEMMA NewRowType ==
  ASSUME NEW p \in Plans, NEW parent \in Jobs \cup {NoJob}
  PROVE  NewRow(p, parent) \in Row
BY DEF NewRow, Row, JobState, Active

\* Store.Accept and Store.AcceptRecovery leave well-formed tables.
LEMMA AcceptType ==
  ASSUME JournalTypeOK, NEW j \in Jobs, NEW k \in Keys, NEW q \in Request,
         Accept(j, k, q)
  PROVE  JournalTypeOK'
<1>1. q.planID \in Plans
  BY DEF Request
<1>2. NewRow(q.planID, NoJob) \in Row
  BY <1>1, NewRowType
<1>3. [request |-> q, job |-> j] \in [request : Request, job : Jobs]
  OBVIOUS
<1>4. jobs' \in [Jobs -> Row \cup {NoRow}]
  BY <1>2 DEF Accept, JournalTypeOK
<1>5. locks' \in [Resources -> Jobs \cup {NoJob}]
  BY DEF Accept, JournalTypeOK
<1>6. dedup' \in [Keys -> [request : Request, job : Jobs] \cup {NoEntry}]
  BY <1>3 DEF Accept, JournalTypeOK
<1> QED
  BY <1>4, <1>5, <1>6 DEF Accept, JournalTypeOK

LEMMA AcceptRecoveryType ==
  ASSUME JournalTypeOK, NEW j \in Jobs, NEW k \in Keys, NEW q \in Request,
         q.parent \in Jobs, AcceptRecovery(j, k, q)
  PROVE  JournalTypeOK'
<1> DEFINE child == NewRow(q.planID, q.parent)
           old == jobs[q.parent]
           new == [old EXCEPT !.state = "partial", !.recoveryOperationID = j]
<1>1. child \in Row
  BY NewRowType DEF Request
<1>2. old \in Row /\ q.parent # j
  BY RowOfStored DEF AcceptRecovery, Recoverable
<1>3. new \in Row
  BY <1>2 DEF Row, JobState, Finished
<1>4. jobs' = [jobs EXCEPT ![j] = child, ![q.parent] = new]
  BY <1>2 DEF AcceptRecovery, JournalTypeOK
<1>5. jobs' \in [Jobs -> Row \cup {NoRow}]
  BY <1>1, <1>3, <1>4 DEF JournalTypeOK
<1>6. locks' \in [Resources -> Jobs \cup {NoJob}]
  BY DEF AcceptRecovery, JournalTypeOK
<1>7. [request |-> q, job |-> j] \in [request : Request, job : Jobs]
  OBVIOUS
<1>8. dedup' \in [Keys -> [request : Request, job : Jobs] \cup {NoEntry}]
  BY <1>7 DEF AcceptRecovery, JournalTypeOK
<1>9. events' \in [Jobs -> Nat]
  BY DEF AcceptRecovery, JournalTypeOK
<1> QED
  BY <1>5, <1>6, <1>8, <1>9 DEF JournalTypeOK

LEMMA UpdateType ==
  ASSUME JournalTypeOK, NEW j \in Jobs, NEW row \in Row, Update(j, row)
  PROVE  JournalTypeOK'
<1>1. jobs[j] \in Row
  BY RowOfStored DEF Update
<1>2. Merged(j, row) \in Row
  BY <1>1 DEF Merged, Row
<1>3. jobs' \in [Jobs -> Row \cup {NoRow}]
  BY <1>2 DEF Update, JournalTypeOK
<1>4. locks' \in [Resources -> Jobs \cup {NoJob}]
  BY DEF Update, JournalTypeOK
<1> QED
  BY <1>3, <1>4 DEF Update, JournalTypeOK

-----------------------------------------------------------------------------
(* Type correctness. *)

LEMMA IdleIsNotLive == ~(Idle \in RunnerState) /\ Idle.pc = "idle"
BY DEF Idle, RunnerState

LEMMA RunnerOfLive ==
  ASSUME TypeOK, NEW j \in Jobs, Live(j)
  PROVE  runner[j] \in RunnerState
BY DEF TypeOK, Live, Idle

\* A goroutine's transition, whether it goes on or returns.
LEMMA ContinueType ==
  ASSUME TypeOK, NEW j \in Jobs, Live(j), ~At(j, "note"), NEW row \in Row,
         NEW pc \in {"validate", "execute", "reconcile"}, Continue(j, row, pc)
  PROVE  JournalTypeOK' /\ runner' \in [Jobs -> RunnerState \cup {Idle}]
<1>1. JournalTypeOK'
  BY UpdateType DEF Continue, TypeOK
<1>2. runner[j] \in RunnerState
  BY RunnerOfLive
<1>3. [[runner[j] EXCEPT !.row = row] EXCEPT !.pc = pc] \in RunnerState
  BY <1>2 DEF RunnerState, At
<1>4. runner' = [runner EXCEPT ![j] = [[runner[j] EXCEPT !.row = row] EXCEPT !.pc = pc]]
  BY DEF Continue, TypeOK
<1> QED
  BY <1>1, <1>3, <1>4 DEF TypeOK

LEMMA ReturnType ==
  ASSUME TypeOK, NEW j \in Jobs, NEW row \in Row, Return(j, row)
  PROVE  JournalTypeOK' /\ runner' \in [Jobs -> RunnerState \cup {Idle}]
BY UpdateType DEF Return, TypeOK

LEMMA CopyType ==
  ASSUME TypeOK, NEW j \in Jobs, Live(j), NEW state \in JobState
  PROVE  Copy(j, state) \in Row
BY RunnerOfLive, RowWithState DEF Copy, RunnerState

LEMMA BoundaryRow ==
  ASSUME TypeOK, NEW j \in Jobs, Live(j), Stored(j)
  PROVE  AtBoundary(j) \in Row
<1>1. runner[j] \in RunnerState /\ jobs[j] \in Row
  BY RunnerOfLive, RowOfStored DEF TypeOK
<1>2. runner[j].row \in Row /\ runner[j].i \in Nat /\ jobs[j].cancelRequested \in BOOLEAN
  BY <1>1 DEF RunnerState, Row
<1> QED
  BY <1>2 DEF AtBoundary, Row

LEMMA StatesOfJobs ==
  /\ {"queued", "validating", "running", "verifying", "recovery-required",
      "canceled", "failed", "succeeded"} \subseteq JobState
  /\ \A j : AfterError(j) \in {"canceled", "failed", "recovery-required"}
BY DEF JobState, Active, Unresolved, Finished, AfterError

LEMMA StartType ==
  ASSUME TypeOK, NEW j \in Jobs, NEW row \in Row, Start(j, row)
  PROVE  runner' \in [Jobs -> RunnerState \cup {Idle}]
<1>1. [[Idle EXCEPT !.pc = "boundary"] EXCEPT !.row = row] \in RunnerState
  BY DEF Idle, RunnerState, Outcome
<1> QED
  BY <1>1 DEF Start, TypeOK

\* The initial state is well typed.
LEMMA InitType == Init => TypeOK
BY DEF Init, TypeOK, JournalInit, JournalTypeOK

LEMMA ApplyType ==
  ASSUME TypeOK, NEW j \in Jobs, NEW k \in Keys, NEW p \in Plans, Apply(j, k, p)
  PROVE  TypeOK'
<1> DEFINE q == [by |-> Author[p], planID |-> p, parent |-> NoJob]
<1>1. q \in Request
  BY PlansAreComplete DEF Request
<1>2. JournalTypeOK'
  BY <1>1, AcceptType DEF Apply, TypeOK
<1>3. runner' \in [Jobs -> RunnerState \cup {Idle}]
  BY NewRowType, StartType DEF Apply
<1> QED
  BY <1>2, <1>3 DEF Apply, TypeOK, observed, spent

LEMMA ApplyRecoveryType ==
  ASSUME TypeOK, NEW j \in Jobs, NEW k \in Keys, NEW p \in Plans,
         NEW parent \in Jobs, ApplyRecovery(j, k, p, parent)
  PROVE  TypeOK'
<1> DEFINE q == [by |-> Author[p], planID |-> p, parent |-> parent]
<1>1. q \in Request /\ q.parent \in Jobs
  BY PlansAreComplete DEF Request
<1>2. JournalTypeOK'
  BY <1>1, AcceptRecoveryType DEF ApplyRecovery, TypeOK
<1>3. runner' \in [Jobs -> RunnerState \cup {Idle}]
  BY NewRowType, StartType DEF ApplyRecovery
<1> QED
  BY <1>2, <1>3 DEF ApplyRecovery, TypeOK, observed, spent

LEMMA RunType ==
  ASSUME TypeOK, NEW j \in Jobs, Run(j)
  PROVE  TypeOK'
<1> USE DEF At
<1>1. CASE Boundary(j)
  <2>1. Live(j) /\ Stored(j)
    BY <1>1 DEF Boundary, Live, Return, Continue, Update
  <2>2. AtBoundary(j) \in Row
    BY <2>1, BoundaryRow
  <2>3. ~At(j, "note")
    BY <1>1 DEF Boundary
  <2>4. JournalTypeOK' /\ runner' \in [Jobs -> RunnerState \cup {Idle}]
    <3>1. CASE Return(j, [AtBoundary(j) EXCEPT !.state =
                            IF KeepsLocks(j) THEN "recovery-required" ELSE "canceled"])
      BY <3>1, <2>2, RowWithState, ReturnType, StatesOfJobs
    <3>2. CASE Continue(j, [AtBoundary(j) EXCEPT !.state = "validating"], "validate")
      BY <3>2, <2>1, <2>2, <2>3, RowWithState, ContinueType, StatesOfJobs
    <3> QED
      BY <3>1, <3>2, <1>1 DEF Boundary
  <2> QED
    BY <1>1, <2>4 DEF Boundary, TypeOK, observed, spent
<1>2. CASE ValidateFails(j)
  <2>1. Copy(j, IF KeepsLocks(j) THEN "recovery-required" ELSE "failed") \in Row
    BY <1>2, CopyType, StatesOfJobs DEF ValidateFails, Live
  <2> QED
    BY <1>2, <2>1, ReturnType DEF ValidateFails, TypeOK, observed, spent
<1>3. CASE RecordIntent(j)
  <2>1. Live(j) /\ Copy(j, "running") \in Row
    BY <1>3, CopyType, StatesOfJobs DEF RecordIntent, Live
  <2> QED
    BY <1>3, <2>1, ContinueType DEF RecordIntent, TypeOK, observed, spent
<1>4. ASSUME NEW outcome \in Outcome \ {"none"}, Execute(j, outcome)
      PROVE  TypeOK'
  <2>1. runner[j] \in RunnerState
    BY <1>4, RunnerOfLive DEF Execute, Live
  <2>2. [[runner[j] EXCEPT !.pc = "returned"] EXCEPT !.outcome = outcome] \in RunnerState
    BY <1>4, <2>1 DEF Execute, RunnerState
  <2>3. runner' \in [Jobs -> RunnerState \cup {Idle}]
    BY <1>4, <2>2 DEF Execute, TypeOK
  <2>4. <<j, runner[j].i>> \in Jobs \X Nat
    BY <2>1 DEF RunnerState
  <2> QED
    BY <1>4, <2>3, <2>4 DEF Execute, TypeOK, JournalTypeOK, journal, spent
<1>5. CASE NoteRead(j)
  <2>1. runner[j] \in RunnerState /\ jobs[j] \in Row
    BY <1>5, RunnerOfLive, RowOfStored DEF NoteRead, Live, TypeOK
  <2>2. [[runner[j] EXCEPT !.pc = "note"] EXCEPT !.note = jobs[j]] \in RunnerState
    BY <1>5, <2>1 DEF NoteRead, RunnerState
  <2>3. runner' \in [Jobs -> RunnerState \cup {Idle}]
    BY <1>5, <2>2 DEF NoteRead, TypeOK
  <2> QED
    BY <1>5, <2>3 DEF NoteRead, TypeOK, JournalTypeOK, journal, observed
<1>6. CASE NoteWrite(j)
  <2>1. runner[j] \in RunnerState
    BY <1>6, RunnerOfLive DEF NoteWrite, Live
  <2>2. [[runner[j] EXCEPT !.pc = "execute"] EXCEPT !.note = NoRow] \in RunnerState
    BY <1>6, <2>1 DEF NoteWrite, RunnerState
  <2>3. runner' \in [Jobs -> RunnerState \cup {Idle}]
    BY <1>6, <2>2 DEF NoteWrite, TypeOK
  <2>4. JournalTypeOK'
    BY <1>6, <2>1, UpdateType DEF NoteWrite, RunnerState, TypeOK
  <2> QED
    BY <1>6, <2>3, <2>4 DEF NoteWrite, TypeOK, observed, spent
<1>7. CASE ExecuteFailed(j)
  <2>1. Copy(j, AfterError(j)) \in Row
    BY <1>7, CopyType, StatesOfJobs DEF ExecuteFailed, Live
  <2> QED
    BY <1>7, <2>1, ReturnType DEF ExecuteFailed, TypeOK, observed, spent
<1>8. CASE StartVerifying(j)
  <2>1. Live(j) /\ Copy(j, "verifying") \in Row
    BY <1>8, CopyType, StatesOfJobs DEF StartVerifying, Live
  <2> QED
    BY <1>8, <2>1, ContinueType DEF StartVerifying, TypeOK, observed, spent
<1>9. CASE StepVerified(j)
  <2>1. runner[j] \in RunnerState
    BY <1>9, RunnerOfLive DEF StepVerified, Live
  <2>2. [runner[j] EXCEPT !.pc = "finish"] \in RunnerState
    BY <1>9, <2>1 DEF StepVerified, RunnerState
  <2>5. /\ [runner[j] EXCEPT !.pc = "boundary"] \in RunnerState
        /\ runner[j].i + 1 \in Nat
    BY <1>9, <2>1 DEF StepVerified, RunnerState
  <2>6. \A s \in RunnerState, i \in Nat :
          [[s EXCEPT !.i = i] EXCEPT !.outcome = "none"] \in RunnerState
    BY DEF RunnerState, Outcome
  <2>7. [[[runner[j] EXCEPT !.pc = "boundary"] EXCEPT !.i = runner[j].i + 1]
          EXCEPT !.outcome = "none"] \in RunnerState
    BY <2>5, <2>6
  <2>3. runner' \in [Jobs -> RunnerState \cup {Idle}]
    BY <1>9, <2>2, <2>7 DEF StepVerified, TypeOK
  <2>4. <<j, runner[j].i>> \in Jobs \X Nat
    BY <2>1 DEF RunnerState
  <2> QED
    BY <1>9, <2>3, <2>4 DEF StepVerified, TypeOK, JournalTypeOK, journal, spent
<1>10. CASE StepNotVerified(j)
  <2>1. Copy(j, "recovery-required") \in Row
    BY <1>10, CopyType, StatesOfJobs DEF StepNotVerified, Live
  <2> QED
    BY <1>10, <2>1, ReturnType DEF StepNotVerified, TypeOK, observed, spent
<1>11. CASE Finish(j)
  <2>1. Copy(j, "succeeded") \in Row
    BY <1>11, CopyType, StatesOfJobs DEF Finish, Live
  <2> QED
    BY <1>11, <2>1, ReturnType DEF Finish, TypeOK, observed, spent
<1> QED
  BY <1>1, <1>2, <1>3, <1>4, <1>5, <1>6, <1>7, <1>8, <1>9, <1>10, <1>11 DEF Run

LEMMA RequestType ==
  ASSUME TypeOK,
         \/ \E j \in Jobs : CancelRead(j) \/ ReconcileRead(j)
         \/ CancelWrite \/ ReconcileObserve \/ ReconcileSettle \/ RequestFails
  PROVE  TypeOK'
<1>1. ASSUME NEW j \in Jobs, CancelRead(j)
      PROVE  TypeOK'
  <2>1. jobs[j] \in Row
    BY <1>1, RowOfStored DEF CancelRead, TypeOK
  <2>2. request' \in RequestState
    BY <1>1, <2>1 DEF CancelRead, RequestState, Row
  <2> QED
    BY <1>1, <2>2 DEF CancelRead, TypeOK, JournalTypeOK, journal, observed
<1>2. ASSUME NEW j \in Jobs, ReconcileRead(j)
      PROVE  TypeOK'
  <2>1. jobs[j] \in Row
    BY <1>2, RowOfStored DEF ReconcileRead, TypeOK
  <2>2. request' \in RequestState
    BY <1>2, <2>1 DEF ReconcileRead, RequestState
  <2> QED
    BY <1>2, <2>2 DEF ReconcileRead, TypeOK, JournalTypeOK, journal, observed, spent
<1>3. ASSUME ~MutexFree
      PROVE  request \in RequestState
  BY <1>3 DEF MutexFree, TypeOK
<1>4. CASE CancelWrite \/ ReconcileSettle
  <2>1. request.job \in Jobs /\ request.row \in Row
    BY <1>3, <1>4 DEF CancelWrite, ReconcileSettle, RequestState
  <2>2. JournalTypeOK'
    BY <1>4, <2>1, UpdateType DEF CancelWrite, ReconcileSettle, TypeOK
  <2> QED
    BY <1>4, <2>2 DEF CancelWrite, ReconcileSettle, TypeOK, observed, spent
<1>5. CASE ReconcileObserve
  <2>1. request \in RequestState
    BY <1>3, <1>5 DEF ReconcileObserve
  <2>2. request.row \in Row /\ request.job \in Jobs /\ request.row.step \in Nat
    BY <2>1 DEF RequestState, Row
  <2>3. [request.row EXCEPT !.state = "succeeded"] \in Row
    BY <2>2, RowWithState, StatesOfJobs
  <2>4. [request EXCEPT !.op = "settle", !.row.state = "succeeded"]
          = [[request EXCEPT !.op = "settle"]
               EXCEPT !.row = [request.row EXCEPT !.state = "succeeded"]]
    BY <2>1 DEF RequestState
  <2>5. [[request EXCEPT !.op = "settle"]
               EXCEPT !.row = [request.row EXCEPT !.state = "succeeded"]] \in RequestState
    BY <2>1, <2>3 DEF RequestState
  <2>6. request' \in RequestState \cup {NoRequest}
    BY <1>5, <2>4, <2>5 DEF ReconcileObserve
  <2> QED
    BY <1>5, <2>2, <2>6 DEF ReconcileObserve, TypeOK, JournalTypeOK, journal, spent
<1>6. CASE RequestFails
  BY <1>6 DEF RequestFails, TypeOK, JournalTypeOK, journal, observed, spent
<1> QED
  BY <1>1, <1>2, <1>4, <1>5, <1>6

LEMMA ProcessType ==
  ASSUME TypeOK,
         \/ Crash \/ Open \/ Serve
         \/ \E j \in Jobs : Recover(j) \/ JournalWriteFails(j)
  PROVE  TypeOK'
<1> USE DEF volatile, observed, spent
<1>1. CASE Crash
  BY <1>1 DEF Crash, TypeOK, JournalTypeOK, journal
<1>2. CASE Open \/ Serve
  BY <1>2 DEF Open, Serve, TypeOK, JournalTypeOK, journal
<1>3. ASSUME NEW j \in Jobs, Recover(j)
      PROVE  TypeOK'
  <2>1. [jobs[j] EXCEPT !.state = "recovery-required"] \in Row
    BY <1>3, RowOfStored, RowWithState, StatesOfJobs
       DEF Recover, Interrupted, TypeOK
  <2> QED
    BY <1>3, <2>1, UpdateType DEF Recover, TypeOK
<1>4. ASSUME NEW j \in Jobs, JournalWriteFails(j)
      PROVE  TypeOK'
  BY <1>4 DEF JournalWriteFails, TypeOK, JournalTypeOK, journal
<1> QED
  BY <1>1, <1>2, <1>3, <1>4

LEMMA NextType ==
  ASSUME TypeOK, [Next]_vars
  PROVE  TypeOK'
<1>1. CASE Next
  BY <1>1, ApplyType, ApplyRecoveryType, RunType, RequestType, ProcessType DEF Next
<1>2. CASE UNCHANGED vars
  BY <1>2 DEF vars, TypeOK, JournalTypeOK, journal, volatile, observed, spent
<1> QED
  BY <1>1, <1>2

\* The journal and the engine's memory keep their types (internal/store,
\* internal/operations).
THEOREM TypeCorrect == Spec => []TypeOK
<1>1. Init => TypeOK
  BY InitType
<1>2. TypeOK /\ [Next]_vars => TypeOK'
  BY NextType
<1> QED
  BY <1>1, <1>2, PTL DEF Spec

-----------------------------------------------------------------------------
(* Lock ownership.  RunnersAreExclusive is not inductive: the copies that   *)
(* runners and requests write back must still describe the job they name,   *)
(* and a request that may finish a job must not meet its runner.            *)

RunnersHold ==
  \A j \in Jobs : Live(j) =>
    /\ Stored(j) /\ jobs[j].state \in Active
    /\ runner[j].row.planID = jobs[j].planID
    /\ Holds(j)

NotesAreCurrent ==
  \A j \in Jobs : At(j, "note") =>
    runner[j].note.planID = jobs[j].planID /\ runner[j].note.state \in Active

RequestIsCurrent ==
  ~MutexFree =>
    /\ Stored(request.job)
    /\ request.row.planID = jobs[request.job].planID
    /\ request.op = "cancel" => request.row.state \in Active
    /\ request.op # "cancel" => jobs[request.job].state = "recovery-required"
    /\ request.op = "settle" => request.row.state = "succeeded"

\* Between a crash and Serve there are no goroutines and no requests.
QuietUntilServing ==
  phase # "serving" => MutexFree /\ \A j \in Jobs : ~Live(j)

NeverInterrupted == \A j \in Jobs : Stored(j) => jobs[j].state # "interrupted"

Ownership ==
  /\ LocksServeUnfinishedJobs
  /\ RunnersHold
  /\ NotesAreCurrent
  /\ RequestIsCurrent
  /\ NeverInterrupted

\* What Update changes, for the jobs and locks other than the updated job's.
LEMMA UpdateEffect ==
  ASSUME TypeOK, NEW j \in Jobs, NEW row \in Row, Update(j, row),
         row.planID = jobs[j].planID
  PROVE  /\ Stored(j) /\ jobs'[j] \in Row
         /\ jobs'[j].state = row.state /\ jobs'[j].planID = jobs[j].planID
         /\ \A k \in Jobs : k # j => jobs'[k] = jobs[k]
         /\ \A k \in Jobs : Stored(k)' <=> Stored(k)
         /\ \A k \in Jobs : Stored(k) => Resource(k)' = Resource(k)
         /\ \A r \in Resources :
              locks'[r] = IF locks[r] = j /\ row.state \in Finished THEN NoJob ELSE locks[r]
<1>1. Stored(j) /\ jobs[j] \in Row
  BY RowOfStored DEF Update, TypeOK
<1>2. Merged(j, row) \in Row /\ Merged(j, row).state = row.state
        /\ Merged(j, row).planID = row.planID
  BY <1>1 DEF Merged, Row
<1>3. jobs' = [jobs EXCEPT ![j] = Merged(j, row)]
  BY DEF Update
<1>4. jobs'[j] = Merged(j, row) /\ \A k \in Jobs : k # j => jobs'[k] = jobs[k]
  BY <1>3 DEF TypeOK, JournalTypeOK
<1>5. Merged(j, row) # NoRow
  BY <1>2, NullsAreNotValues
<1>6. \A k \in Jobs : Stored(k)' <=> Stored(k)
  BY <1>1, <1>4, <1>5 DEF Stored
<1>7. \A k \in Jobs : Stored(k) => Resource(k)' = Resource(k)
  BY <1>2, <1>4 DEF Resource
<1>8. \A r \in Resources :
        locks'[r] = IF locks[r] = j /\ row.state \in Finished THEN NoJob ELSE locks[r]
  BY DEF Update, Released, Held
<1> QED
  BY <1>1, <1>2, <1>4, <1>6, <1>7, <1>8

\* A transition to an unfinished state disturbs no lock.
LEMMA UpdateKeepsLocks ==
  ASSUME TypeOK, LocksServeUnfinishedJobs, NEW j \in Jobs, NEW row \in Row,
         Update(j, row), row.planID = jobs[j].planID
  PROVE  /\ LocksServeUnfinishedJobs'
         /\ \A k \in Jobs : k # j /\ Stored(k) /\ Holds(k) => Holds(k)'
         /\ row.state \notin Finished /\ Holds(j) => Holds(j)'
<1>1. \A r \in Resources : locks[r] \in Jobs \cup {NoJob}
  BY DEF TypeOK, JournalTypeOK
<1>2. LocksServeUnfinishedJobs'
  BY <1>1, UpdateEffect DEF LocksServeUnfinishedJobs
<1>3. \A k \in Jobs : Stored(k) => Resource(k) \subseteq Resources
  BY PlansAreComplete, RowOfStored DEF TypeOK, Resource, Row
<1>4. \A k \in Jobs : k # j /\ Stored(k) /\ Holds(k) => Holds(k)'
  BY <1>3, UpdateEffect DEF Holds
<1>5. row.state \notin Finished /\ Holds(j) => Holds(j)'
  BY <1>3, UpdateEffect DEF Holds
<1> QED
  BY <1>2, <1>4, <1>5

\* Accepting a job, with or without a parent, gives it every lock it needs and
\* takes none from a job that runs.
LEMMA StartOwnership ==
  ASSUME TypeOK, Ownership, NEW j \in Jobs, NEW k \in Keys, NEW q \in Request,
         MutexFree, UNCHANGED request,
         \/ Accept(j, k, q) /\ Start(j, NewRow(q.planID, NoJob))
         \/ q.parent \in Jobs /\ AcceptRecovery(j, k, q) /\ Start(j, NewRow(q.planID, q.parent))
  PROVE  Ownership'
<1> DEFINE p == q.planID
           parent == IF Accept(j, k, q) THEN NoJob ELSE q.parent
<1>1. /\ p \in Plans /\ parent \in Jobs \cup {NoJob} /\ ~Stored(j)
      /\ ResourceIDs[p] \subseteq Resources
  BY PlansAreComplete DEF Request, Accept, AcceptRecovery
<1>2. /\ NewRow(p, parent) \in Row
      /\ NewRow(p, parent).planID = p /\ NewRow(p, parent).state = "queued"
  BY <1>1, NewRowType DEF NewRow
<1>3. \A m \in Jobs : m # j => runner'[m] = runner[m]
  BY DEF Start, TypeOK
<1>4. runner'[j].pc = "boundary" /\ runner'[j].row.planID = p
  <2>1. \A row : Start(j, row) => runner'[j].pc = "boundary" /\ runner'[j].row = row
    BY DEF Start, TypeOK, Idle
  <2>2. \A c : NewRow(p, c).planID = p
    BY DEF NewRow
  <2> QED
    BY <2>1, <2>2
<1>5. /\ jobs'[j] \in Row /\ jobs'[j].planID = p /\ jobs'[j].state = "queued"
      /\ \A m \in Jobs \ {j, parent} : jobs'[m] = jobs[m]
      /\ parent # NoJob =>
           /\ Stored(parent) /\ parent # j /\ jobs[parent].state \in Unresolved
           /\ jobs'[parent] \in Row /\ jobs'[parent].state = "partial"
           /\ jobs'[parent].planID = jobs[parent].planID
  <2>1. CASE Accept(j, k, q)
    BY <1>2, <2>1 DEF Accept, TypeOK, JournalTypeOK
  <2>2. CASE ~Accept(j, k, q)
    <3> DEFINE new == [jobs[parent] EXCEPT !.state = "partial", !.recoveryOperationID = j]
    <3>1. /\ AcceptRecovery(j, k, q) /\ parent = q.parent /\ parent # j
          /\ Stored(parent) /\ jobs[parent].state \in Unresolved
      BY <2>2 DEF AcceptRecovery, Recoverable
    <3>2. jobs[parent] \in Row /\ parent \in Jobs
      BY <2>2, <3>1, RowOfStored DEF TypeOK
    <3>3. new \in Row /\ new.state = "partial" /\ new.planID = jobs[parent].planID
      BY <3>2 DEF Row, JobState, Finished
    <3>4. jobs' = [jobs EXCEPT ![j] = NewRow(p, parent), ![parent] = new]
      BY <3>1 DEF AcceptRecovery, TypeOK, JournalTypeOK
    <3> QED
      BY <1>2, <3>1, <3>2, <3>3, <3>4 DEF TypeOK, JournalTypeOK
  <2> QED
    BY <2>1, <2>2
<1>6. \A r \in Resources : locks'[r] = IF r \in ResourceIDs[p] THEN j ELSE locks[r]
  BY DEF Accept, AcceptRecovery
<1>7. /\ \A r \in ResourceIDs[p] : locks[r] = NoJob \/ (parent # NoJob /\ locks[r] = parent)
      /\ parent # NoJob => \A r \in Resources : locks[r] = parent => r \in ResourceIDs[p]
  BY <1>1 DEF Accept, AcceptRecovery, Recoverable, Held
<1> HIDE DEF p, parent
<1>8. \A m \in Jobs : Stored(m)' <=> Stored(m) \/ m = j
  BY <1>1, <1>5, NullsAreNotValues DEF Stored
<1>9. /\ \A m \in Jobs : Stored(m) => Resource(m)' = Resource(m) /\ Resource(m) \subseteq Resources
      /\ Resource(j)' = ResourceIDs[p]
  <2>1. \A m \in Jobs : Stored(m) => jobs[m].planID \in Plans
    BY RowOfStored DEF TypeOK, Row
  <2> QED
    BY <1>1, <1>5, <2>1, PlansAreComplete, NullsAreNotValues DEF Resource
<1>10. LocksServeUnfinishedJobs'
  <2> SUFFICES ASSUME NEW r \in Resources, locks'[r] # NoJob
               PROVE  /\ Stored(locks[r])' /\ jobs'[locks'[r]].state \notin Finished
                      /\ r \in Resource(locks[r])'
    BY DEF LocksServeUnfinishedJobs
  <2>1. CASE r \in ResourceIDs[p]
    BY <1>1, <1>5, <1>6, <1>8, <1>9, <2>1 DEF Finished
  <2>2. CASE r \notin ResourceIDs[p]
    <3>1. locks'[r] = locks[r] /\ locks[r] \in Jobs /\ Stored(locks[r]) /\ locks[r] # j
            /\ locks[r] # parent
      BY <1>1, <1>6, <1>7, <2>2 DEF Ownership, LocksServeUnfinishedJobs, TypeOK, JournalTypeOK
    <3> QED
      BY <1>5, <1>8, <1>9, <3>1 DEF Ownership, LocksServeUnfinishedJobs
  <2> QED
    BY <2>1, <2>2
<1>11. RunnersHold'
  <2> SUFFICES ASSUME NEW m \in Jobs, Live(m)'
               PROVE  /\ Stored(m)' /\ jobs'[m].state \in Active
                      /\ runner'[m].row.planID = jobs'[m].planID /\ Holds(m)'
    BY DEF RunnersHold
  <2>1. CASE m = j
    BY <1>1, <1>4, <1>5, <1>6, <1>8, <1>9, <2>1 DEF Holds, Active
  <2>2. CASE m # j
    <3>1. Live(m) /\ Stored(m) /\ jobs[m].state \in Active
            /\ runner[m].row.planID = jobs[m].planID /\ Holds(m)
      BY <1>3, <2>2 DEF Live, Ownership, RunnersHold
    <3>2. m # parent
      BY <1>5, <3>1, NullsAreNotValues DEF Active, Unresolved
    <3>3. \A r \in Resource(m) : r \in Resources /\ locks[r] = m /\ r \notin ResourceIDs[p]
      BY <1>1, <1>7, <1>9, <3>1, <3>2, NullsAreNotValues DEF Holds
    <3>4. Holds(m)'
      BY <1>6, <1>9, <3>1, <3>3 DEF Holds
    <3> QED
      BY <1>3, <1>5, <1>8, <2>2, <3>1, <3>2, <3>4
  <2> QED
    BY <2>1, <2>2
<1>12. NotesAreCurrent'
  <2> SUFFICES ASSUME NEW m \in Jobs, At(m, "note")'
               PROVE  runner'[m].note.planID = jobs'[m].planID /\ runner'[m].note.state \in Active
    BY DEF NotesAreCurrent
  <2>1. m # j /\ At(m, "note") /\ runner'[m] = runner[m]
    BY <1>3, <1>4 DEF At
  <2>2. m # parent
    BY <1>5, <2>1, NullsAreNotValues DEF At, Live, Ownership, RunnersHold, Active, Unresolved
  <2> QED
    BY <1>5, <2>1, <2>2 DEF Ownership, NotesAreCurrent
<1>13. NeverInterrupted'
  BY <1>1, <1>5, <1>8, NullsAreNotValues DEF Ownership, NeverInterrupted
<1> QED
  BY <1>10, <1>11, <1>12, <1>13 DEF Ownership, RequestIsCurrent, MutexFree

\* A runner's transition to state s, going on (s is then active) or returning.
LEMMA TransitionOwnership ==
  ASSUME TypeOK, Ownership, NEW j \in Jobs, NEW row \in Row, UNCHANGED request,
         Update(j, row), row.planID = jobs[j].planID, Live(j),
         \A m \in Jobs : m # j => runner'[m] = runner[m],
         row.state # "interrupted",
         Live(j)' => /\ row.state \in Active /\ ~At(j, "note")'
                     /\ runner'[j].row.planID = jobs[j].planID
  PROVE  Ownership'
<1>1. /\ LocksServeUnfinishedJobs'
      /\ \A k \in Jobs : k # j /\ Stored(k) /\ Holds(k) => Holds(k)'
      /\ row.state \notin Finished /\ Holds(j) => Holds(j)'
  BY UpdateKeepsLocks DEF Ownership
<1>2. /\ Stored(j) /\ jobs'[j] \in Row
      /\ jobs'[j].state = row.state /\ jobs'[j].planID = jobs[j].planID
      /\ \A k \in Jobs : k # j => jobs'[k] = jobs[k]
      /\ \A k \in Jobs : Stored(k)' <=> Stored(k)
  BY UpdateEffect
<1>3. RunnersHold'
  BY <1>1, <1>2 DEF Ownership, RunnersHold, Live, Active, Finished
<1>4. NotesAreCurrent'
  BY <1>2 DEF Ownership, NotesAreCurrent, At, Live
<1>5. RequestIsCurrent'
  <2> SUFFICES ASSUME ~MutexFree, MutexFree' = MutexFree
               PROVE  RequestIsCurrent'
    BY DEF RequestIsCurrent, MutexFree
  <2>1. request.job \in Jobs
    BY DEF MutexFree, TypeOK, RequestState
  <2>2. request.op # "cancel" => request.job # j
    BY DEF Ownership, RequestIsCurrent, RunnersHold, Active
  <2> QED
    BY <1>2, <2>1, <2>2 DEF Ownership, RequestIsCurrent
<1>6. NeverInterrupted'
  BY <1>2 DEF Ownership, NeverInterrupted
<1> QED
  BY <1>1, <1>3, <1>4, <1>5, <1>6 DEF Ownership

LEMMA ReturnOwnership ==
  ASSUME TypeOK, Ownership, NEW j \in Jobs, Live(j), NEW row \in Row,
         Return(j, row), UNCHANGED request,
         row.planID = runner[j].row.planID, row.state # "interrupted"
  PROVE  Ownership'
<1>1. /\ Update(j, row) /\ ~Live(j)'
      /\ \A m \in Jobs : m # j => runner'[m] = runner[m]
  BY DEF Return, TypeOK, Live, Idle
<1>2. row.planID = jobs[j].planID
  BY DEF Ownership, RunnersHold
<1> QED
  BY <1>1, <1>2, TransitionOwnership

LEMMA ContinueOwnership ==
  ASSUME TypeOK, Ownership, NEW j \in Jobs, Live(j), NEW row \in Row,
         NEW pc \in {"validate", "execute", "reconcile"},
         Continue(j, row, pc), UNCHANGED request,
         row.planID = runner[j].row.planID, row.state \in Active
  PROVE  Ownership'
<1>1. runner[j] \in RunnerState
  BY RunnerOfLive
<1>2. /\ Update(j, row)
      /\ runner'[j].row = row /\ runner'[j].pc = pc
      /\ \A m \in Jobs : m # j => runner'[m] = runner[m]
  BY <1>1 DEF Continue, TypeOK, RunnerState
<1>3. row.planID = jobs[j].planID /\ row.state # "interrupted"
  BY DEF Ownership, RunnersHold, Active
<1>4. ~At(j, "note")'
  BY <1>2 DEF At
<1> QED
  BY <1>2, <1>3, <1>4, TransitionOwnership

\* A step of a goroutine that leaves the journal alone.
LEMMA SilentOwnership ==
  ASSUME TypeOK, Ownership, NEW j \in Jobs, UNCHANGED <<journal, request>>,
         \A m \in Jobs : m # j => runner'[m] = runner[m],
         Live(j)' => /\ Live(j) /\ runner'[j].row = runner[j].row
                     /\ At(j, "note")' => runner'[j].note = jobs[j]
  PROVE  Ownership'
<1>1. \A m \in Jobs : Stored(m)' = Stored(m) /\ Resource(m)' = Resource(m) /\ Holds(m)' = Holds(m)
  BY DEF journal, Stored, Resource, Holds
<1>2. RunnersHold'
  BY <1>1 DEF Ownership, RunnersHold, Live, journal
<1>3. NotesAreCurrent'
  BY DEF Ownership, RunnersHold, NotesAreCurrent, At, Live, journal
<1>4. LocksServeUnfinishedJobs' /\ RequestIsCurrent' /\ NeverInterrupted'
  BY DEF Ownership, LocksServeUnfinishedJobs, RequestIsCurrent, NeverInterrupted,
         MutexFree, Stored, Resource, journal
<1> QED
  BY <1>2, <1>3, <1>4 DEF Ownership

LEMMA CopyIs ==
  ASSUME TypeOK, NEW j \in Jobs, Live(j), NEW state \in JobState
  PROVE  /\ Copy(j, state) \in Row
         /\ Copy(j, state).state = state
         /\ Copy(j, state).planID = runner[j].row.planID
BY CopyType, RunnerOfLive DEF Copy, RunnerState, Row

LEMMA RunOwnership ==
  ASSUME TypeOK, Ownership, NEW j \in Jobs, Run(j)
  PROVE  Ownership'
<1>1. CASE Boundary(j)
  <2>1. Live(j) /\ Stored(j) /\ UNCHANGED request
    BY <1>1 DEF Boundary, At, Live, Return, Continue, Update
  <2>2. AtBoundary(j) \in Row /\ AtBoundary(j).planID = runner[j].row.planID
    BY <2>1, BoundaryRow, RunnerOfLive DEF AtBoundary, RunnerState, Row
  <2>3. ASSUME NEW state \in JobState
        PROVE  LET row == [AtBoundary(j) EXCEPT !.state = state] IN
                 row \in Row /\ row.state = state /\ row.planID = runner[j].row.planID
    BY <2>2, RowWithState DEF Row
  <2>4. CASE Return(j, [AtBoundary(j) EXCEPT !.state =
                          IF KeepsLocks(j) THEN "recovery-required" ELSE "canceled"])
    BY <2>1, <2>3, <2>4, ReturnOwnership, StatesOfJobs
  <2>5. CASE Continue(j, [AtBoundary(j) EXCEPT !.state = "validating"], "validate")
    BY <2>1, <2>3, <2>5, ContinueOwnership, StatesOfJobs DEF Active
  <2> QED
    BY <1>1, <2>4, <2>5 DEF Boundary
<1>2. CASE ValidateFails(j)
  BY <1>2, CopyIs, ReturnOwnership, StatesOfJobs DEF ValidateFails, At, Live
<1>3. CASE RecordIntent(j)
  BY <1>3, CopyIs, ContinueOwnership, StatesOfJobs DEF RecordIntent, At, Live, Active
<1>4. ASSUME NEW outcome \in Outcome, Execute(j, outcome)
      PROVE  Ownership'
  <2>1. runner[j] \in RunnerState
    BY <1>4, RunnerOfLive DEF Execute, At, Live
  <2>2. runner'[j].pc = "returned" /\ runner'[j].row = runner[j].row
    BY <1>4, <2>1 DEF Execute, RunnerState, TypeOK
  <2> QED
    BY <1>4, <2>2, SilentOwnership DEF Execute, At, Live, TypeOK
<1>5. CASE NoteRead(j)
  <2>1. runner[j] \in RunnerState
    BY <1>5, RunnerOfLive DEF NoteRead, At, Live
  <2>2. runner'[j].note = jobs[j] /\ runner'[j].row = runner[j].row
    BY <1>5, <2>1 DEF NoteRead, RunnerState, TypeOK
  <2> QED
    BY <1>5, <2>2, SilentOwnership DEF NoteRead, At, Live, TypeOK
<1>6. CASE NoteWrite(j)
  <2>1. runner[j] \in RunnerState /\ Live(j) /\ At(j, "note")
    BY <1>6, RunnerOfLive DEF NoteWrite, At, Live
  <2>2. /\ runner[j].note \in Row
        /\ runner[j].note.planID = jobs[j].planID /\ runner[j].note.state \in Active
    BY <2>1 DEF RunnerState, At, Ownership, NotesAreCurrent
  <2>3. runner'[j].pc = "execute" /\ runner'[j].row = runner[j].row
    BY <1>6, <2>1 DEF NoteWrite, RunnerState, TypeOK
  <2>4. runner[j].row.planID = jobs[j].planID
    BY <2>1 DEF Ownership, RunnersHold
  <2> QED
    BY <1>6, <2>1, <2>2, <2>3, <2>4, TransitionOwnership DEF NoteWrite, At, Active, TypeOK
<1>7. CASE ExecuteFailed(j)
  <2>1. AfterError(j) \in JobState \ {"interrupted"}
    BY StatesOfJobs
  <2> QED
    BY <1>7, <2>1, CopyIs, ReturnOwnership DEF ExecuteFailed, At, Live
<1>8. CASE StartVerifying(j)
  BY <1>8, CopyIs, ContinueOwnership, StatesOfJobs DEF StartVerifying, At, Live, Active
<1>9. CASE StepVerified(j)
  <2>1. runner[j] \in RunnerState
    BY <1>9, RunnerOfLive DEF StepVerified, At, Live
  <2>2. runner'[j].pc \in {"finish", "boundary"} /\ runner'[j].row = runner[j].row
    BY <1>9, <2>1 DEF StepVerified, RunnerState, TypeOK
  <2> QED
    BY <1>9, <2>2, SilentOwnership DEF StepVerified, At, Live, TypeOK
<1>10. CASE StepNotVerified(j)
  BY <1>10, CopyIs, ReturnOwnership, StatesOfJobs DEF StepNotVerified, At, Live
<1>11. CASE Finish(j)
  BY <1>11, CopyIs, ReturnOwnership, StatesOfJobs DEF Finish, At, Live
<1> QED
  BY <1>1, <1>2, <1>3, <1>4, <1>5, <1>6, <1>7, <1>8, <1>9, <1>10, <1>11 DEF Run

\* Requests and the process itself never touch a goroutine's locks: a cancel
\* writes back an active state, a reconcile finishes a job without a runner.
LEMMA WriteOwnership ==
  ASSUME TypeOK, Ownership, NEW j \in Jobs, NEW row \in Row, Update(j, row),
         row.planID = jobs[j].planID, row.state # "interrupted", UNCHANGED runner,
         Live(j) => row.state \in Active,
         request' = NoRequest \/ (request' = request /\ MutexFree)
  PROVE  Ownership'
<1>1. /\ LocksServeUnfinishedJobs'
      /\ \A k \in Jobs : k # j /\ Stored(k) /\ Holds(k) => Holds(k)'
      /\ row.state \notin Finished /\ Holds(j) => Holds(j)'
  BY UpdateKeepsLocks DEF Ownership
<1>2. /\ Stored(j) /\ jobs'[j].state = row.state /\ jobs'[j].planID = jobs[j].planID
      /\ \A k \in Jobs : k # j => jobs'[k] = jobs[k]
      /\ \A k \in Jobs : Stored(k)' <=> Stored(k)
  BY UpdateEffect
<1>3. RunnersHold'
  BY <1>1, <1>2 DEF Ownership, RunnersHold, Live, Active, Finished
<1>4. NotesAreCurrent'
  BY <1>2 DEF Ownership, NotesAreCurrent, At
<1>5. RequestIsCurrent'
  BY DEF RequestIsCurrent, MutexFree
<1>6. NeverInterrupted'
  BY <1>2 DEF Ownership, NeverInterrupted
<1> QED
  BY <1>1, <1>3, <1>4, <1>5, <1>6 DEF Ownership

\* Nothing but the request or the process changes.
LEMMA QuietOwnership ==
  ASSUME TypeOK, Ownership, UNCHANGED journal,
         UNCHANGED runner \/ runner' = [j \in Jobs |-> Idle],
         RequestIsCurrent'
  PROVE  Ownership'
<1>1. RunnersHold' /\ NotesAreCurrent'
  BY DEF Ownership, RunnersHold, NotesAreCurrent, Live, At, Idle, Stored, Holds,
         Resource, journal
<1> QED
  BY <1>1 DEF Ownership, LocksServeUnfinishedJobs, NeverInterrupted, Stored,
              Resource, journal

LEMMA RequestOwnership ==
  ASSUME TypeOK, Ownership,
         \/ \E j \in Jobs : CancelRead(j) \/ ReconcileRead(j)
         \/ CancelWrite \/ ReconcileObserve \/ ReconcileSettle \/ RequestFails
  PROVE  Ownership'
<1>1. ASSUME NEW j \in Jobs, CancelRead(j)
      PROVE  Ownership'
  <2> DEFINE row == [jobs[j] EXCEPT !.cancelRequested = TRUE]
  <2>1. /\ jobs[j] \in Row /\ jobs[j].state # "interrupted"
        /\ ~Terminal(jobs[j].state)
    BY <1>1, RowOfStored DEF CancelRead, TypeOK, Ownership, NeverInterrupted
  <2>2. jobs[j].state \in Active
    BY <2>1 DEF Row, JobState, Terminal, Unresolved
  <2>3. row.planID = jobs[j].planID /\ row.state = jobs[j].state
    BY <2>1 DEF Row
  <2>4. request' = [op |-> "cancel", job |-> j, row |-> row] /\ UNCHANGED <<journal, runner>>
    BY <1>1 DEF CancelRead
  <2>6. Stored(j)
    BY <1>1 DEF CancelRead
  <2> HIDE DEF row
  <2>5. RequestIsCurrent'
    BY <2>2, <2>3, <2>4, <2>6 DEF RequestIsCurrent, Stored, journal
  <2> QED
    BY <2>4, <2>5, QuietOwnership
<1>2. ASSUME NEW j \in Jobs, ReconcileRead(j)
      PROVE  Ownership'
  <2>1. jobs[j].state = "recovery-required"
    BY <1>2 DEF ReconcileRead, Unresolved, Ownership, NeverInterrupted
  <2>2. RequestIsCurrent'
    BY <1>2, <2>1 DEF ReconcileRead, RequestIsCurrent, Stored, journal
  <2> QED
    BY <1>2, <2>2, QuietOwnership DEF ReconcileRead
<1>3. ~MutexFree => request \in RequestState
  BY DEF MutexFree, TypeOK
<1>4. CASE CancelWrite
  <2>1. /\ request.job \in Jobs /\ request.row \in Row
        /\ request.row.planID = jobs[request.job].planID
        /\ request.row.state \in Active
    BY <1>3, <1>4 DEF CancelWrite, RequestState, Ownership, RequestIsCurrent
  <2> QED
    BY <1>4, <2>1, WriteOwnership DEF CancelWrite, Active
<1>5. CASE ReconcileSettle
  <2>1. /\ request.job \in Jobs /\ request.row \in Row
        /\ request.row.planID = jobs[request.job].planID
        /\ request.row.state = "succeeded"
        /\ jobs[request.job].state = "recovery-required"
    BY <1>3, <1>5 DEF ReconcileSettle, RequestState, Ownership, RequestIsCurrent
  <2>2. ~Live(request.job)
    BY <2>1 DEF Ownership, RunnersHold, Active
  <2> QED
    BY <1>5, <2>1, <2>2, WriteOwnership DEF ReconcileSettle
<1>6. CASE ReconcileObserve
  <2>1. request \in RequestState /\ request.row \in Row
    BY <1>3, <1>6 DEF ReconcileObserve, RequestState
  <2>2. LET settling == [request EXCEPT !.op = "settle", !.row.state = "succeeded"] IN
          /\ settling.job = request.job /\ settling.op = "settle"
          /\ settling.row.planID = request.row.planID
          /\ settling.row.state = "succeeded"
    BY <2>1 DEF RequestState, Row
  <2>3. RequestIsCurrent'
    BY <1>6, <2>2 DEF ReconcileObserve, Ownership, RequestIsCurrent, MutexFree, Stored, journal
  <2> QED
    BY <1>6, <2>3, QuietOwnership DEF ReconcileObserve
<1>7. CASE RequestFails
  BY <1>7, QuietOwnership DEF RequestFails, RequestIsCurrent, MutexFree
<1> QED
  BY <1>1, <1>2, <1>4, <1>5, <1>6, <1>7

LEMMA ProcessOwnership ==
  ASSUME TypeOK, QuietUntilServing, Ownership,
         \/ Crash \/ Open \/ Serve
         \/ \E j \in Jobs : Recover(j) \/ JournalWriteFails(j)
  PROVE  Ownership'
<1>1. CASE Crash
  BY <1>1, QuietOwnership DEF Crash, RequestIsCurrent, MutexFree
<1>2. CASE Open \/ Serve
  <2>1. UNCHANGED <<journal, runner, request>>
    BY <1>2 DEF Open, Serve, volatile
  <2>2. RequestIsCurrent'
    BY <2>1 DEF Ownership, RequestIsCurrent, MutexFree, Stored, journal
  <2> QED
    BY <2>1, <2>2, QuietOwnership
<1>3. ASSUME NEW j \in Jobs, JournalWriteFails(j)
      PROVE  Ownership'
  <2>1. ~Live(j)' /\ \A m \in Jobs : m # j => runner'[m] = runner[m]
    BY <1>3 DEF JournalWriteFails, Live, Idle, TypeOK
  <2> QED
    BY <1>3, <2>1, SilentOwnership DEF JournalWriteFails
<1>4. ASSUME NEW j \in Jobs, Recover(j)
      PROVE  Ownership'
  <2> DEFINE row == [jobs[j] EXCEPT !.state = "recovery-required"]
  <2>1. jobs[j] \in Row
    BY <1>4, RowOfStored DEF Recover, Interrupted, TypeOK
  <2>2. row \in Row /\ row.planID = jobs[j].planID /\ row.state = "recovery-required"
    BY <2>1, RowWithState, StatesOfJobs DEF Row
  <2>3. Update(j, row) /\ UNCHANGED <<runner, request>>
    BY <1>4 DEF Recover, volatile
  <2>4. ~Live(j) /\ MutexFree
    BY <1>4 DEF Recover, QuietUntilServing
  <2> QED
    BY <2>2, <2>3, <2>4, WriteOwnership
<1> QED
  BY <1>1, <1>2, <1>3, <1>4

LEMMA QuietStep ==
  ASSUME TypeOK, QuietUntilServing, [Next]_vars
  PROVE  QuietUntilServing'
<1> USE DEF QuietUntilServing
<1>1. ASSUME NEW j \in Jobs, NEW k \in Keys, NEW p \in Plans,
             Apply(j, k, p) \/ \E parent \in Jobs : ApplyRecovery(j, k, p, parent)
      PROVE  QuietUntilServing'
  BY <1>1 DEF Apply, ApplyRecovery
<1>2. ASSUME NEW j \in Jobs, Run(j) \/ JournalWriteFails(j)
      PROVE  QuietUntilServing'
  <2>1. Live(j) /\ phase' = phase
    BY <1>2 DEF Run, Live, At, Boundary, ValidateFails, RecordIntent, Execute, NoteRead,
                NoteWrite, ExecuteFailed, StartVerifying, StepVerified, StepNotVerified,
                Finish, JournalWriteFails
  <2> QED
    BY <2>1
<1>3. ASSUME NEW j \in Jobs, CancelRead(j) \/ ReconcileRead(j)
      PROVE  QuietUntilServing'
  BY <1>3 DEF CancelRead, ReconcileRead
<1>4. CASE CancelWrite \/ ReconcileObserve \/ ReconcileSettle \/ RequestFails
  BY <1>4 DEF CancelWrite, ReconcileObserve, ReconcileSettle, RequestFails
<1>5. CASE Crash
  BY <1>5 DEF Crash, Live, Idle, MutexFree
<1>6. CASE Open \/ Serve \/ \E j \in Jobs : Recover(j)
  BY <1>6 DEF Open, Serve, Recover, volatile, Live, MutexFree
<1>7. CASE UNCHANGED vars
  BY <1>7 DEF vars, volatile, Live, MutexFree
<1> QED
  BY <1>1, <1>2, <1>3, <1>4, <1>5, <1>6, <1>7 DEF Next

OwnershipInv == TypeOK /\ QuietUntilServing /\ Ownership

LEMMA InitOwnership == Init => OwnershipInv
<1> SUFFICES ASSUME Init PROVE OwnershipInv
  OBVIOUS
<1>1. \A j \in Jobs : ~Live(j) /\ ~At(j, "note") /\ ~Stored(j)
  BY DEF Init, JournalInit, Live, At, Idle, Stored
<1> QED
  BY <1>1, InitType DEF Init, JournalInit, OwnershipInv, QuietUntilServing, Ownership,
     LocksServeUnfinishedJobs, RunnersHold, NotesAreCurrent, RequestIsCurrent,
     NeverInterrupted, MutexFree

LEMMA NextOwnership ==
  ASSUME OwnershipInv, [Next]_vars
  PROVE  OwnershipInv'
<1> USE DEF OwnershipInv
<1>1. TypeOK' /\ QuietUntilServing'
  BY NextType, QuietStep
<1>2. ASSUME NEW j \in Jobs, NEW k \in Keys, NEW p \in Plans, Apply(j, k, p)
      PROVE  Ownership'
  <2> DEFINE q == [by |-> Author[p], planID |-> p, parent |-> NoJob]
  <2>1. q \in Request /\ q.planID = p
    BY PlansAreComplete DEF Request
  <2> QED
    BY <1>2, <2>1, StartOwnership DEF Apply
<1>3. ASSUME NEW j \in Jobs, NEW k \in Keys, NEW p \in Plans, NEW parent \in Jobs,
             ApplyRecovery(j, k, p, parent)
      PROVE  Ownership'
  <2> DEFINE q == [by |-> Author[p], planID |-> p, parent |-> parent]
  <2>1. q \in Request /\ q.planID = p /\ q.parent = parent
    BY PlansAreComplete DEF Request
  <2> QED
    BY <1>3, <2>1, StartOwnership DEF ApplyRecovery
<1>4. CASE UNCHANGED vars
  <2>1. UNCHANGED <<journal, runner, request>>
    BY <1>4 DEF vars, volatile
  <2>2. RequestIsCurrent'
    BY <2>1 DEF Ownership, RequestIsCurrent, MutexFree, Stored, journal
  <2>3. UNCHANGED journal /\ UNCHANGED runner
    BY <2>1
  <2> QED
    BY <1>1, <2>2, <2>3, QuietOwnership
<1> QED
  BY <1>1, <1>2, <1>3, <1>4, RunOwnership, RequestOwnership, ProcessOwnership DEF Next

LEMMA OwnershipHolds == Spec => []OwnershipInv
<1> QED
  BY InitOwnership, NextOwnership, PTL DEF Spec

\* Locks are held by unfinished jobs for resources of their own plans only
\* (Store.Update, Store.AcceptRecovery).
THEOREM NoLockOutlivesItsJob == Spec => []LocksServeUnfinishedJobs
<1>1. OwnershipInv => LocksServeUnfinishedJobs
  BY DEF OwnershipInv, Ownership
<1> QED
  BY <1>1, OwnershipHolds, PTL

\* No two goroutines work on a common resource, whatever requests, crashes and
\* failed writes come between (Engine.run, Store.Accept).
THEOREM Exclusion == Spec => []RunnersAreExclusive
<1>1. OwnershipInv => RunnersAreExclusive
  BY DEF OwnershipInv, Ownership, RunnersHold, RunnersAreExclusive, Holds
<1> QED
  BY <1>1, OwnershipHolds, PTL

-----------------------------------------------------------------------------
(* An effect in doubt keeps its locks, and a job succeeds only when every    *)
(* step was observed complete.  Both need to know how far a job can have     *)
(* got: steps before the recorded one are confirmed, later ones untouched.   *)

Confirmed(j, n) == \A i \in Nat : i < n => <<j, i>> \in verified
BegunBelow(j, n) == \A i \in Nat : <<j, i>> \in begun => i < n

RowsProgress ==
  \A j \in Jobs :
    /\ ~Stored(j) => BegunBelow(j, 0)
    /\ Stored(j) =>
         /\ jobs[j].step <= LastStep(j)
         /\ Confirmed(j, jobs[j].step)
         /\ BegunBelow(j, jobs[j].step + 1)

RunnerProgress(j) ==
  /\ runner[j].row.recoveryOf = jobs[j].recoveryOf
  /\ runner[j].i <= LastStep(j) /\ Confirmed(j, runner[j].i)
  /\ ~At(j, "boundary") =>
       runner[j].i = jobs[j].step /\ runner[j].row.step = jobs[j].step
  /\ runner[j].pc \in {"boundary", "validate", "execute", "note"} =>
       BegunBelow(j, runner[j].i)
  /\ At(j, "returned") /\ runner[j].outcome \in {"canceled-safely", "not-done"} =>
       <<j, runner[j].i>> \in undone
  /\ At(j, "finish") => runner[j].i = LastStep(j) /\ <<j, runner[j].i>> \in verified
  /\ At(j, "note") =>
       /\ runner[j].note.step = jobs[j].step
       /\ runner[j].note.recoveryOf = jobs[j].recoveryOf

RunnersProgress == \A j \in Jobs : Live(j) => RunnerProgress(j)

RequestProgress ==
  ~MutexFree =>
    /\ request.row.step = jobs[request.job].step
    /\ request.row.recoveryOf = jobs[request.job].recoveryOf
    /\ jobs[request.job].state # "partial"
    /\ request.op = "settle" => Confirmed(request.job, LastStep(request.job) + 1)

Progress ==
  /\ RowsProgress
  /\ RunnersProgress
  /\ RequestProgress
  /\ SuccessIsObserved
  /\ DoubtKeepsLocks

DoubtInv == OwnershipInv /\ Progress

-----------------------------------------------------------------------------

LEMMA LastStepIsNat ==
  ASSUME TypeOK, NEW j \in Jobs, Stored(j)
  PROVE  LastStep(j) \in Nat
BY PlansAreComplete, RowOfStored DEF LastStep, TypeOK, Row

LEMMA UpdateFields ==
  ASSUME TypeOK, NEW j \in Jobs, NEW row \in Row, Update(j, row)
  PROVE  jobs'[j].step = row.step /\ jobs'[j].recoveryOf = row.recoveryOf
<1>1. jobs[j] \in Row
  BY RowOfStored DEF Update, TypeOK
<1>2. Merged(j, row).step = row.step /\ Merged(j, row).recoveryOf = row.recoveryOf
  BY <1>1 DEF Merged, Row
<1> QED
  BY <1>2 DEF Update, TypeOK, JournalTypeOK

\* The same row and observations leave a job as far in doubt as it was.
LEMMA SameDoubt ==
  ASSUME NEW j \in Jobs, UNCHANGED observed, jobs'[j].planID = jobs[j].planID,
         jobs'[j].recoveryOf = jobs[j].recoveryOf
  PROVE  /\ InDoubt(j)' <=> InDoubt(j)
         /\ LastStep(j)' = LastStep(j)
BY DEF observed, InDoubt, LastStep

\* What a write of j's row does to the journal's side of Progress.
LEMMA UpdateProgress ==
  ASSUME TypeOK, Ownership, Progress, NEW j \in Jobs, NEW row \in Row,
         Update(j, row), UNCHANGED observed,
         row.planID = jobs[j].planID, row.recoveryOf = jobs[j].recoveryOf,
         row.state # "partial", jobs[j].state # "partial",
         row.step <= LastStep(j), Confirmed(j, row.step), BegunBelow(j, row.step + 1),
         row.state = "succeeded" => Confirmed(j, LastStep(j) + 1),
         row.state \in Finished => ~InDoubt(j)
  PROVE  RowsProgress' /\ SuccessIsObserved' /\ DoubtKeepsLocks'
<1>1. /\ Stored(j) /\ jobs'[j] \in Row
      /\ jobs'[j].state = row.state /\ jobs'[j].planID = jobs[j].planID
      /\ \A k \in Jobs : k # j => jobs'[k] = jobs[k]
      /\ \A k \in Jobs : Stored(k)' <=> Stored(k)
  BY UpdateEffect
<1>2. jobs'[j].step = row.step /\ jobs'[j].recoveryOf = row.recoveryOf
  BY UpdateFields
<1>3. \A k \in Jobs : (InDoubt(k)' <=> InDoubt(k)) /\ LastStep(k)' = LastStep(k)
  BY <1>1, <1>2, SameDoubt
<1>4. RowsProgress'
  BY <1>1, <1>2, <1>3 DEF Progress, RowsProgress, Confirmed, BegunBelow, observed
<1>5. SuccessIsObserved'
  <2>1. LastStep(j) \in Nat
    BY <1>1, LastStepIsNat
  <2>2. row.state = "succeeded" => \A i \in 0..LastStep(j) : <<j, i>> \in verified
    BY <2>1 DEF Confirmed
  <2> QED
    BY <1>1, <1>3, <2>2 DEF Progress, SuccessIsObserved, observed
<1>6. DoubtKeepsLocks'
  <2>1. /\ \A k \in Jobs : k # j /\ Stored(k) /\ Holds(k) => Holds(k)'
        /\ row.state \notin Finished /\ Holds(j) => Holds(j)'
    BY UpdateKeepsLocks DEF Ownership
  <2> QED
    BY <1>1, <1>3, <2>1 DEF Progress, DoubtKeepsLocks
<1> QED
  BY <1>4, <1>5, <1>6

\* While a goroutine has not begun its step, or proved it undone, nothing of
\* an operation that inherited nothing is in doubt.
LEMMA SettledBefore ==
  ASSUME TypeOK, Ownership, Progress, NEW j \in Jobs, Live(j),
         runner[j].row.recoveryOf = NoJob,
         \/ runner[j].pc \in {"boundary", "validate"}
         \/ At(j, "returned") /\ runner[j].outcome \in {"canceled-safely", "not-done"}
  PROVE  ~InDoubt(j)
<1>1. Stored(j) /\ jobs[j].recoveryOf = NoJob
  BY DEF Ownership, RunnersHold, Progress, RunnersProgress, RunnerProgress
<1>2. runner[j].i \in Nat /\ jobs[j].step \in Nat /\ LastStep(j) \in Nat
  BY <1>1, RunnerOfLive, LastStepIsNat, RowOfStored DEF RunnerState, Row, TypeOK
<1>3. Confirmed(j, runner[j].i)
  BY DEF Progress, RunnersProgress, RunnerProgress
<1>4. CASE runner[j].pc \in {"boundary", "validate"}
  <2>1. BegunBelow(j, runner[j].i)
    BY <1>4 DEF Progress, RunnersProgress, RunnerProgress
  <2>2. \A i \in 0..LastStep(j) : <<j, i>> \in begun => <<j, i>> \in verified
    BY <1>2, <1>3, <2>1 DEF Confirmed, BegunBelow
  <2> QED
    BY <1>1, <2>2 DEF InDoubt
<1>5. CASE At(j, "returned") /\ runner[j].outcome \in {"canceled-safely", "not-done"}
  <2>1. BegunBelow(j, jobs[j].step + 1)
    BY <1>1 DEF Progress, RowsProgress
  <2>2. runner[j].i = jobs[j].step /\ <<j, runner[j].i>> \in undone
    BY <1>5 DEF Progress, RunnersProgress, RunnerProgress, At
  <2>3. \A i \in 0..LastStep(j) : <<j, i>> \in begun => i < runner[j].i \/ i = runner[j].i
    BY <1>2, <2>1, <2>2 DEF BegunBelow
  <2>4. \A i \in 0..LastStep(j) : <<j, i>> \in begun => <<j, i>> \in verified \cup undone
    BY <1>2, <1>3, <2>2, <2>3 DEF Confirmed
  <2> QED
    BY <1>1, <2>4 DEF InDoubt
<1> QED
  BY <1>4, <1>5

LEMMA ConfirmedSettles ==
  ASSUME NEW j \in Jobs, LastStep(j) \in Nat, Confirmed(j, LastStep(j) + 1)
  PROVE  ~InDoubt(j)
<1>1. \A i \in 0..LastStep(j) : <<j, i>> \in verified
  BY DEF Confirmed
<1> QED
  BY <1>1 DEF InDoubt

\* A goroutine that neither it nor its job's row changed is as far as it was.
LEMMA OtherRunner ==
  ASSUME Progress, NEW m \in Jobs, UNCHANGED observed, jobs'[m] = jobs[m],
         runner'[m] = runner[m], Live(m)'
  PROVE  RunnerProgress(m)'
BY DEF Progress, RunnersProgress, RunnerProgress, Live, At, Confirmed, BegunBelow,
       LastStep, observed

\* A transition of j's goroutine.
LEMMA TransitionProgress ==
  ASSUME TypeOK, Ownership, Progress, NEW j \in Jobs, Live(j), NEW row \in Row,
         Update(j, row), UNCHANGED <<request, observed>>,
         \A m \in Jobs : m # j => runner'[m] = runner[m],
         row.planID = runner[j].row.planID, row.recoveryOf = runner[j].row.recoveryOf,
         row.state # "partial",
         row.step <= LastStep(j), Confirmed(j, row.step), BegunBelow(j, row.step + 1),
         MutexFree \/ row.step = jobs[j].step,
         row.state = "succeeded" => Confirmed(j, LastStep(j) + 1),
         row.state \in Finished => ~InDoubt(j),
         Live(j)' => RunnerProgress(j)'
  PROVE  Progress'
<1>1. /\ row.planID = jobs[j].planID /\ row.recoveryOf = jobs[j].recoveryOf
      /\ jobs[j].state # "partial"
  BY DEF Progress, RunnersProgress, RunnerProgress, Ownership, RunnersHold, Active
<1>2. /\ jobs'[j].step = row.step /\ jobs'[j].recoveryOf = row.recoveryOf
      /\ jobs'[j].state = row.state /\ jobs'[j].planID = row.planID
      /\ \A k \in Jobs : k # j => jobs'[k] = jobs[k]
  BY <1>1, UpdateEffect, UpdateFields
<1>3. RowsProgress' /\ SuccessIsObserved' /\ DoubtKeepsLocks'
  BY <1>1, UpdateProgress
<1>4. RunnersProgress'
  BY <1>2, OtherRunner DEF RunnersProgress
<1>5. RequestProgress'
  <2> SUFFICES ASSUME ~MutexFree
               PROVE  RequestProgress'
    BY DEF RequestProgress, MutexFree
  <2>1. request.job \in Jobs
    BY DEF MutexFree, TypeOK, RequestState
  <2>2. \A k \in Jobs : LastStep(k)' = LastStep(k)
    BY <1>1, <1>2 DEF LastStep
  <2> QED
    BY <1>1, <1>2, <2>1, <2>2
       DEF Progress, RequestProgress, Confirmed, observed, MutexFree
<1> QED
  BY <1>3, <1>4, <1>5 DEF Progress

\* A step of j's goroutine that leaves the journal alone.  It may begin its
\* step (under its locks) or find it confirmed.
LEMMA SilentProgress ==
  ASSUME TypeOK, Ownership, Progress, NEW j \in Jobs, UNCHANGED <<journal, request>>,
         Live(j), runner[j].i \in Nat,
         \A m \in Jobs : m # j => runner'[m] = runner[m],
         Live(j)' => RunnerProgress(j)',
         \/ UNCHANGED begun
         \/ ~At(j, "boundary") /\ begun' = begun \cup {<<j, runner[j].i>>},
         \/ UNCHANGED verified
         \/ verified' = verified \cup {<<j, runner[j].i>>},
         \/ UNCHANGED undone
         \/ undone' = undone \cup {<<j, runner[j].i>>}
  PROVE  Progress'
<1>1. Stored(j) /\ Holds(j) /\ jobs[j].step \in Nat
  BY RowOfStored DEF Ownership, RunnersHold, TypeOK, Row
<1>2. \A m \in Jobs : /\ Stored(m)' = Stored(m) /\ Holds(m)' = Holds(m)
                      /\ LastStep(m)' = LastStep(m) /\ jobs'[m] = jobs[m]
  BY DEF journal, Stored, Holds, Resource, LastStep
<1>3. \A m \in Jobs, n \in Nat : Confirmed(m, n) => Confirmed(m, n)'
  BY DEF Confirmed
<1>4. ~At(j, "boundary") => runner[j].i = jobs[j].step
  BY DEF Progress, RunnersProgress, RunnerProgress
<1>5. RowsProgress'
  <2> SUFFICES ASSUME NEW m \in Jobs
               PROVE  /\ ~Stored(m) => BegunBelow(m, 0)'
                      /\ Stored(m) => /\ jobs[m].step <= LastStep(m)
                                      /\ Confirmed(m, jobs[m].step)'
                                      /\ BegunBelow(m, jobs[m].step + 1)'
    BY <1>2 DEF RowsProgress, Confirmed, BegunBelow
  <2>1. CASE m # j
    <3>1. \A i : (<<m, i>> \in begun' <=> <<m, i>> \in begun)
      BY <2>1
    <3>2. \A i : <<m, i>> \in verified => <<m, i>> \in verified'
      OBVIOUS
    <3> QED
      BY <1>2, <3>1, <3>2 DEF Progress, RowsProgress, Confirmed, BegunBelow
  <2>2. CASE m = j
    <3>1. \A i \in Nat : <<j, i>> \in begun' =>
             <<j, i>> \in begun \/ (i = runner[j].i /\ ~At(j, "boundary"))
      OBVIOUS
    <3>2. BegunBelow(j, jobs[j].step + 1)'
      BY <1>1, <1>2, <1>4, <3>1 DEF Progress, RowsProgress, BegunBelow
    <3>3. Confirmed(j, jobs[j].step)'
      BY <1>1, <1>2 DEF Progress, RowsProgress, Confirmed
    <3> QED
      BY <1>1, <1>2, <2>2, <3>2, <3>3 DEF Progress, RowsProgress, BegunBelow, Confirmed
  <2> QED
    BY <2>1, <2>2
<1>6. RunnersProgress'
  <2> SUFFICES ASSUME NEW m \in Jobs, m # j, Live(m)'
               PROVE  RunnerProgress(m)'
    BY DEF RunnersProgress
  <2>1. Live(m) /\ runner'[m] = runner[m] /\ RunnerProgress(m)
    BY DEF Live, Progress, RunnersProgress
  <2>2. \A i : (<<m, i>> \in begun' <=> <<m, i>> \in begun)
    OBVIOUS
  <2>3. \A i : (<<m, i>> \in verified' <=> <<m, i>> \in verified)
    OBVIOUS
  <2>4. \A i : (<<m, i>> \in undone' <=> <<m, i>> \in undone)
    OBVIOUS
  <2> QED
    BY <1>2, <2>1, <2>2, <2>3, <2>4 DEF RunnerProgress, At, Confirmed, BegunBelow
<1>7. RequestProgress'
  BY <1>2 DEF Progress, RequestProgress, MutexFree, Confirmed, TypeOK, RequestState
<1>8. SuccessIsObserved'
  BY <1>2 DEF Progress, SuccessIsObserved
<1>9. DoubtKeepsLocks'
  <2> SUFFICES ASSUME NEW m \in Jobs, m # j, Stored(m), jobs[m].state # "partial", InDoubt(m)'
               PROVE  Holds(m)
    BY <1>1, <1>2 DEF DoubtKeepsLocks
  <2>1. InDoubt(m)
    BY <1>2 DEF InDoubt
  <2> QED
    BY <2>1 DEF Progress, DoubtKeepsLocks
<1> QED
  BY <1>5, <1>6, <1>7, <1>8, <1>9 DEF Progress

LEMMA ConfirmedNext ==
  ASSUME NEW j \in Jobs, NEW n \in Nat, Confirmed(j, n), <<j, n>> \in verified
  PROVE  Confirmed(j, n + 1)
<1>1. \A i \in Nat : i < n + 1 => i < n \/ i = n
  OBVIOUS
<1> QED
  BY <1>1 DEF Confirmed

LEMMA LiveFacts ==
  ASSUME TypeOK, Ownership, Progress, NEW j \in Jobs, Live(j)
  PROVE  /\ runner[j] \in RunnerState /\ runner[j].row \in Row /\ runner[j].i \in Nat
         /\ jobs[j] \in Row /\ Stored(j) /\ jobs[j].state \in Active
         /\ jobs[j].step \in Nat /\ LastStep(j) \in Nat /\ jobs[j].step <= LastStep(j)
         /\ Confirmed(j, jobs[j].step) /\ BegunBelow(j, jobs[j].step + 1)
         /\ RunnerProgress(j)
<1>1. Stored(j) /\ jobs[j].state \in Active
  BY DEF Ownership, RunnersHold
<1>2. runner[j] \in RunnerState /\ jobs[j] \in Row
  BY <1>1, RunnerOfLive, RowOfStored DEF TypeOK
<1>3. runner[j].row \in Row /\ runner[j].i \in Nat /\ jobs[j].step \in Nat
  BY <1>2 DEF RunnerState, Row
<1> QED
  BY <1>1, <1>2, <1>3, LastStepIsNat DEF Progress, RowsProgress, RunnersProgress

LEMMA CopyFields ==
  ASSUME TypeOK, NEW j \in Jobs, Live(j), NEW state \in JobState
  PROVE  /\ Copy(j, state) \in Row /\ Copy(j, state).state = state
         /\ Copy(j, state).planID = runner[j].row.planID
         /\ Copy(j, state).recoveryOf = runner[j].row.recoveryOf
         /\ Copy(j, state).step = runner[j].row.step
BY CopyType, RunnerOfLive DEF Copy, RunnerState, Row

\* The goroutine records how its job ends.
LEMMA ReturnProgress ==
  ASSUME TypeOK, Ownership, Progress, NEW j \in Jobs, Live(j), ~At(j, "boundary"),
         NEW state \in JobState, Return(j, Copy(j, state)), UNCHANGED <<request, observed>>,
         state # "partial",
         state = "succeeded" => Confirmed(j, LastStep(j) + 1),
         state \in Finished => ~InDoubt(j)
  PROVE  Progress'
<1>1. Copy(j, state).step = jobs[j].step
  BY LiveFacts, CopyFields DEF RunnerProgress
<1>2. /\ Update(j, Copy(j, state)) /\ ~Live(j)'
      /\ \A m \in Jobs : m # j => runner'[m] = runner[m]
  BY DEF Return, TypeOK, Live, Idle
<1> QED
  BY <1>1, <1>2, LiveFacts, CopyFields, TransitionProgress

\* The goroutine records that it goes on with the step it is at.
LEMMA ContinueProgress ==
  ASSUME TypeOK, Ownership, Progress, NEW j \in Jobs, Live(j), NEW row \in Row,
         UNCHANGED <<request, observed>>,
         NEW pc \in {"validate", "execute", "reconcile"}, Continue(j, row, pc),
         row.state \in Active,
         row.planID = runner[j].row.planID, row.recoveryOf = runner[j].row.recoveryOf,
         row.step = runner[j].i, MutexFree \/ ~At(j, "boundary"),
         pc # "reconcile" => BegunBelow(j, runner[j].i)
  PROVE  Progress'
<1>1. /\ runner[j] \in RunnerState /\ runner[j].i \in Nat /\ RunnerProgress(j)
      /\ jobs[j].step \in Nat /\ LastStep(j) \in Nat /\ BegunBelow(j, jobs[j].step + 1)
  BY LiveFacts
<1>2. /\ Update(j, row)
      /\ runner'[j].row = row /\ runner'[j].pc = pc /\ runner'[j].i = runner[j].i
      /\ \A m \in Jobs : m # j => runner'[m] = runner[m]
  BY <1>1 DEF Continue, TypeOK, RunnerState
<1>3. row.planID = jobs[j].planID /\ row.step \in Nat
  BY <1>1 DEF Ownership, RunnersHold
<1>4. /\ jobs'[j].step = row.step /\ jobs'[j].recoveryOf = row.recoveryOf
      /\ jobs'[j].planID = jobs[j].planID
  BY <1>2, <1>3, UpdateEffect, UpdateFields
<1>5. BegunBelow(j, row.step + 1)
  <2>1. CASE At(j, "boundary")
    BY <1>1, <2>1 DEF RunnerProgress, BegunBelow, At
  <2>2. CASE ~At(j, "boundary")
    BY <1>1, <2>2 DEF RunnerProgress
  <2> QED
    BY <2>1, <2>2
<1>6. MutexFree \/ row.step = jobs[j].step
  BY <1>1 DEF RunnerProgress
<1>7. RunnerProgress(j)'
  BY <1>1, <1>2, <1>4 DEF RunnerProgress, At, Confirmed, BegunBelow, LastStep, observed
<1>8. row.step <= LastStep(j) /\ Confirmed(j, row.step)
  BY <1>1 DEF RunnerProgress
<1> QED
  BY <1>2, <1>3, <1>5, <1>6, <1>7, <1>8, TransitionProgress DEF Active, Finished

LEMMA RunProgress ==
  ASSUME TypeOK, Ownership, Progress, NEW j \in Jobs, Run(j)
  PROVE  Progress'
<1>1. CASE Boundary(j)
  <2> DEFINE kept == IF KeepsLocks(j) THEN "recovery-required" ELSE "canceled"
  <2>1. Live(j) /\ Stored(j) /\ UNCHANGED <<request, observed>> /\ MutexFree /\ At(j, "boundary")
    BY <1>1 DEF Boundary, At, Live, Return, Continue, Update
  <2>2. /\ runner[j] \in RunnerState /\ runner[j].row \in Row /\ runner[j].i \in Nat
        /\ LastStep(j) \in Nat /\ RunnerProgress(j)
    BY <2>1, LiveFacts
  <2>3. ASSUME NEW state \in JobState
        PROVE  LET row == [AtBoundary(j) EXCEPT !.state = state] IN
                 /\ row \in Row /\ row.state = state /\ row.step = runner[j].i
                 /\ row.planID = runner[j].row.planID
                 /\ row.recoveryOf = runner[j].row.recoveryOf
    BY <2>1, <2>2, BoundaryRow, RowWithState DEF AtBoundary, Row
  <2>4. BegunBelow(j, runner[j].i) /\ BegunBelow(j, runner[j].i + 1)
    BY <2>1, <2>2 DEF RunnerProgress, At, BegunBelow
  <2>5. CASE Return(j, [AtBoundary(j) EXCEPT !.state = kept])
    <3>1. kept \in JobState \ {"partial", "succeeded"}
      BY StatesOfJobs
    <3>2. kept \in Finished => ~InDoubt(j)
      BY <2>1, SettledBefore DEF KeepsLocks, Finished, At
    <3>3. /\ Update(j, [AtBoundary(j) EXCEPT !.state = kept]) /\ ~Live(j)'
          /\ \A m \in Jobs : m # j => runner'[m] = runner[m]
      BY <2>5 DEF Return, TypeOK, Live, Idle
    <3>4. runner[j].i <= LastStep(j) /\ Confirmed(j, runner[j].i)
      BY <2>2 DEF RunnerProgress
    <3> DEFINE row == [AtBoundary(j) EXCEPT !.state = kept]
    <3>5. /\ row \in Row /\ row.state = kept /\ row.step = runner[j].i
          /\ row.planID = runner[j].row.planID
          /\ row.recoveryOf = runner[j].row.recoveryOf
      BY <2>3, <3>1
    <3>6. row.state \notin {"partial", "succeeded"} /\ (row.state \in Finished => ~InDoubt(j))
      BY <3>1, <3>2, <3>5
    <3>7. Update(j, row)
      BY <3>3
    <3> HIDE DEF kept, row
    <3> QED
      BY <2>1, <2>4, <3>3, <3>7, <3>4, <3>5, <3>6, TransitionProgress
  <2>6. CASE Continue(j, [AtBoundary(j) EXCEPT !.state = "validating"], "validate")
    BY <2>1, <2>3, <2>4, <2>6, ContinueProgress, StatesOfJobs DEF Active
  <2> QED
    BY <1>1, <2>5, <2>6 DEF Boundary
<1>2. CASE ValidateFails(j)
  <2> DEFINE state == IF KeepsLocks(j) THEN "recovery-required" ELSE "failed"
  <2>1. Live(j) /\ ~At(j, "boundary") /\ UNCHANGED <<request, observed>> /\ Return(j, Copy(j, state))
    BY <1>2 DEF ValidateFails, At, Live
  <2>2. state \in JobState \ {"partial", "succeeded"}
    BY StatesOfJobs
  <2>3. state \in Finished => ~InDoubt(j)
    BY <1>2, <2>1, SettledBefore DEF ValidateFails, KeepsLocks, Finished, At
  <2> QED
    BY <2>1, <2>2, <2>3, ReturnProgress
<1>3. CASE RecordIntent(j)
  <2>1. /\ Live(j) /\ ~At(j, "boundary") /\ UNCHANGED <<request, observed>>
        /\ Continue(j, Copy(j, "running"), "execute")
    BY <1>3 DEF RecordIntent, At, Live
  <2>2. runner[j].row.step = runner[j].i /\ BegunBelow(j, runner[j].i)
    BY <1>3, <2>1, LiveFacts DEF RecordIntent, RunnerProgress, At
  <2> QED
    BY <2>1, <2>2, CopyFields, ContinueProgress, StatesOfJobs DEF Active
<1>4. ASSUME NEW outcome \in Outcome, Execute(j, outcome)
      PROVE  Progress'
  <2>1. Live(j) /\ ~At(j, "boundary") /\ At(j, "execute") /\ UNCHANGED <<journal, request, verified>>
    BY <1>4 DEF Execute, At, Live
  <2>2. runner[j] \in RunnerState /\ runner[j].i \in Nat /\ RunnerProgress(j)
    BY <2>1, LiveFacts
  <2>3. /\ runner'[j].pc = "returned" /\ runner'[j].outcome = outcome
        /\ runner'[j].row = runner[j].row /\ runner'[j].i = runner[j].i
        /\ \A m \in Jobs : m # j => runner'[m] = runner[m]
    BY <1>4, <2>2 DEF Execute, RunnerState, TypeOK
  <2>4. RunnerProgress(j)'
    <3>1. outcome \in {"canceled-safely", "not-done"} => <<j, runner[j].i>> \in undone'
      BY <1>4 DEF Execute
    <3> QED
      BY <2>1, <2>2, <2>3, <3>1 DEF RunnerProgress, At, Confirmed, LastStep, journal
  <2> QED
    BY <1>4, <2>1, <2>2, <2>3, <2>4, SilentProgress DEF Execute
<1>5. CASE NoteRead(j)
  <2>1. Live(j) /\ At(j, "execute") /\ UNCHANGED <<journal, request, observed>>
    BY <1>5 DEF NoteRead, At, Live
  <2>2. runner[j] \in RunnerState /\ runner[j].i \in Nat /\ RunnerProgress(j)
    BY <2>1, LiveFacts
  <2>3. /\ runner'[j].pc = "note" /\ runner'[j].note = jobs[j]
        /\ runner'[j].row = runner[j].row /\ runner'[j].i = runner[j].i
        /\ \A m \in Jobs : m # j => runner'[m] = runner[m]
    BY <1>5, <2>2 DEF NoteRead, RunnerState, TypeOK
  <2>4. RunnerProgress(j)'
    BY <2>1, <2>2, <2>3
       DEF RunnerProgress, At, Confirmed, BegunBelow, LastStep, journal, observed
  <2> QED
    BY <2>1, <2>2, <2>3, <2>4, SilentProgress DEF observed
<1>6. CASE NoteWrite(j)
  <2>1. Live(j) /\ At(j, "note") /\ UNCHANGED <<request, observed>> /\ Update(j, runner[j].note)
    BY <1>6 DEF NoteWrite, At, Live
  <2>2. /\ runner[j] \in RunnerState /\ RunnerProgress(j) /\ jobs[j].step <= LastStep(j)
        /\ Confirmed(j, jobs[j].step) /\ BegunBelow(j, jobs[j].step + 1)
    BY <2>1, LiveFacts
  <2>3. /\ runner[j].note \in Row /\ runner[j].note.state \in Active
        /\ runner[j].note.planID = jobs[j].planID
        /\ runner[j].row.planID = jobs[j].planID
        /\ runner[j].note.step = jobs[j].step
        /\ runner[j].note.recoveryOf = runner[j].row.recoveryOf
    BY <2>1, <2>2 DEF RunnerState, At, Ownership, NotesAreCurrent, RunnersHold, RunnerProgress
  <2>4. /\ runner'[j].pc = "execute"
        /\ runner'[j].row = runner[j].row /\ runner'[j].i = runner[j].i
        /\ \A m \in Jobs : m # j => runner'[m] = runner[m]
    BY <1>6, <2>2 DEF NoteWrite, RunnerState, TypeOK
  <2>5. /\ jobs'[j].step = jobs[j].step /\ jobs'[j].recoveryOf = jobs[j].recoveryOf
        /\ jobs'[j].planID = jobs[j].planID
    BY <2>1, <2>2, <2>3, UpdateEffect, UpdateFields DEF RunnerProgress
  <2>6. RunnerProgress(j)'
    BY <2>1, <2>2, <2>4, <2>5
       DEF RunnerProgress, At, Confirmed, BegunBelow, LastStep, observed
  <2> QED
    BY <2>1, <2>2, <2>3, <2>4, <2>6, TransitionProgress DEF Active, Finished
<1>7. CASE ExecuteFailed(j)
  <2>1. /\ Live(j) /\ At(j, "returned") /\ ~At(j, "boundary")
        /\ UNCHANGED <<request, observed>> /\ Return(j, Copy(j, AfterError(j)))
    BY <1>7 DEF ExecuteFailed, At, Live
  <2>2. AfterError(j) \in JobState \ {"partial", "succeeded"}
    BY StatesOfJobs
  <2>3. AfterError(j) \in Finished => ~InDoubt(j)
    BY <2>1, SettledBefore DEF AfterError, Finished
  <2> QED
    BY <2>1, <2>2, <2>3, ReturnProgress
<1>8. CASE StartVerifying(j)
  <2>1. /\ Live(j) /\ ~At(j, "boundary") /\ UNCHANGED <<request, observed>>
        /\ Continue(j, Copy(j, "verifying"), "reconcile")
    BY <1>8 DEF StartVerifying, At, Live
  <2>2. runner[j].row.step = runner[j].i
    BY <2>1, LiveFacts DEF RunnerProgress
  <2> QED
    BY <2>1, <2>2, CopyFields, ContinueProgress, StatesOfJobs DEF Active
<1>9. CASE StepVerified(j)
  <2>1. /\ Live(j) /\ At(j, "reconcile") /\ UNCHANGED <<journal, request, begun, undone>>
        /\ verified' = verified \cup {<<j, runner[j].i>>}
    BY <1>9 DEF StepVerified, At, Live
  <2>2. /\ runner[j] \in RunnerState /\ runner[j].i \in Nat /\ RunnerProgress(j)
        /\ LastStep(j) \in Nat /\ BegunBelow(j, jobs[j].step + 1)
    BY <2>1, LiveFacts
  <2>3. /\ runner'[j].row = runner[j].row
        /\ \A m \in Jobs : m # j => runner'[m] = runner[m]
        /\ IF runner[j].i = LastStep(j)
             THEN runner'[j].pc = "finish" /\ runner'[j].i = runner[j].i
             ELSE runner'[j].pc = "boundary" /\ runner'[j].i = runner[j].i + 1
    BY <1>9, <2>2 DEF StepVerified, RunnerState, TypeOK
  <2>4. /\ \A i \in Nat : i < runner[j].i + 1 => <<j, i>> \in verified'
        /\ \A i \in Nat : i < runner[j].i => <<j, i>> \in verified'
        /\ \A i \in Nat : <<j, i>> \in begun' => i < runner[j].i + 1
    <3>1. runner[j].i = jobs[j].step /\ Confirmed(j, runner[j].i)
      BY <2>1, <2>2 DEF RunnerProgress, At
    <3>2. \A i \in Nat : i < runner[j].i + 1 => i < runner[j].i \/ i = runner[j].i
      BY <2>2
    <3>3. \A i \in Nat : i < runner[j].i => <<j, i>> \in verified'
      BY <2>1, <3>1 DEF Confirmed
    <3>4. \A i \in Nat : i < runner[j].i + 1 => <<j, i>> \in verified'
      BY <2>1, <3>2, <3>3
    <3> QED
      BY <2>1, <2>2, <3>1, <3>3, <3>4 DEF BegunBelow
  <2>5. CASE runner[j].i = LastStep(j)
    <3>1. RunnerProgress(j)'
      BY <2>1, <2>2, <2>3, <2>4, <2>5 DEF RunnerProgress, At, LastStep, journal, Confirmed
    <3> QED
      BY <2>1, <2>2, <2>3, <3>1, SilentProgress
  <2>6. CASE runner[j].i # LastStep(j)
    <3>1. RunnerProgress(j)'
      BY <2>1, <2>2, <2>3, <2>4, <2>6
         DEF RunnerProgress, At, LastStep, journal, Confirmed, BegunBelow
    <3> QED
      BY <2>1, <2>2, <2>3, <3>1, SilentProgress
  <2> QED
    BY <2>5, <2>6
<1>10. CASE StepNotVerified(j)
  BY <1>10, ReturnProgress, StatesOfJobs DEF StepNotVerified, At, Live, Finished
<1>11. CASE Finish(j)
  <2>1. /\ Live(j) /\ At(j, "finish") /\ ~At(j, "boundary")
        /\ UNCHANGED <<request, observed>> /\ Return(j, Copy(j, "succeeded"))
    BY <1>11 DEF Finish, At, Live
  <2>2. LastStep(j) \in Nat /\ Confirmed(j, LastStep(j) + 1)
    BY <2>1, LiveFacts, ConfirmedNext DEF RunnerProgress
  <2>3. ~InDoubt(j)
    BY <2>2, ConfirmedSettles
  <2> QED
    BY <2>1, <2>2, <2>3, ReturnProgress, StatesOfJobs
<1> QED
  BY <1>1, <1>2, <1>3, <1>4, <1>5, <1>6, <1>7, <1>8, <1>9, <1>10, <1>11 DEF Run

\* Accepting j, with parent c or NoJob: what becomes of the rows and the locks.
LEMMA StartEffect ==
  ASSUME TypeOK, NEW j \in Jobs, NEW k \in Keys, NEW q \in Request, NEW c \in Jobs \cup {NoJob},
         \/ Accept(j, k, q) /\ c = NoJob
         \/ AcceptRecovery(j, k, q) /\ c = q.parent /\ c \in Jobs
  PROVE  /\ ~Stored(j) /\ jobs'[j] = NewRow(q.planID, c)
         /\ \A m \in Jobs \ {j, c} : jobs'[m] = jobs[m]
         /\ c \in Jobs =>
              /\ c # j /\ Stored(c) /\ jobs[c].state \in Unresolved
              /\ jobs'[c].state = "partial" /\ jobs'[c].planID = jobs[c].planID
              /\ jobs'[c].step = jobs[c].step /\ jobs'[c].recoveryOf = jobs[c].recoveryOf
         /\ \A m \in Jobs : Stored(m)' <=> Stored(m) \/ m = j
         /\ \A m \in Jobs \ {c} : Stored(m) /\ Holds(m) => Holds(m)'
<1> DEFINE p == q.planID
<1>1. p \in Plans /\ NewRow(p, c) \in Row /\ ResourceIDs[p] \subseteq Resources
  BY NewRowType, PlansAreComplete DEF Request
<1>2. /\ ~Stored(j) /\ jobs'[j] = NewRow(p, c)
      /\ \A m \in Jobs \ {j, c} : jobs'[m] = jobs[m]
      /\ c \in Jobs =>
           /\ c # j /\ Stored(c) /\ jobs[c].state \in Unresolved /\ jobs'[c] \in Row
           /\ jobs'[c].state = "partial" /\ jobs'[c].planID = jobs[c].planID
           /\ jobs'[c].step = jobs[c].step /\ jobs'[c].recoveryOf = jobs[c].recoveryOf
  <2>1. CASE Accept(j, k, q) /\ c = NoJob
    BY <2>1, NullsAreNotValues DEF Accept, TypeOK, JournalTypeOK
  <2>2. CASE AcceptRecovery(j, k, q) /\ c = q.parent /\ c \in Jobs
    <3> DEFINE new == [jobs[c] EXCEPT !.state = "partial", !.recoveryOperationID = j]
    <3>1. c # j /\ ~Stored(j) /\ Stored(c) /\ jobs[c].state \in Unresolved
      BY <2>2 DEF AcceptRecovery, Recoverable
    <3>2. jobs[c] \in Row
      BY <2>2, <3>1, RowOfStored DEF TypeOK
    <3>3. /\ new \in Row /\ new.state = "partial" /\ new.planID = jobs[c].planID
          /\ new.step = jobs[c].step /\ new.recoveryOf = jobs[c].recoveryOf
      BY <3>2 DEF Row, JobState, Finished
    <3>4. jobs' = [jobs EXCEPT ![j] = NewRow(p, c), ![c] = new]
      BY <2>2, <3>1 DEF AcceptRecovery, TypeOK, JournalTypeOK
    <3> HIDE DEF new
    <3> QED
      BY <2>2, <3>1, <3>3, <3>4 DEF TypeOK, JournalTypeOK
  <2> QED
    BY <2>1, <2>2
<1>3. \A m \in Jobs : Stored(m)' <=> Stored(m) \/ m = j
  BY <1>1, <1>2, NullsAreNotValues DEF Stored
<1>4. ASSUME NEW m \in Jobs \ {c}, Stored(m), Holds(m)
      PROVE  Holds(m)'
  <2>1. m # j /\ jobs'[m] = jobs[m] /\ jobs[m].planID \in Plans
    BY <1>2, <1>4, RowOfStored DEF TypeOK, Row
  <2>2. Resource(m)' = Resource(m) /\ Resource(m) \subseteq Resources
    BY <2>1, PlansAreComplete DEF Resource
  <2>3. \A r \in Resources : locks'[r] = IF r \in ResourceIDs[p] THEN j ELSE locks[r]
    BY DEF Accept, AcceptRecovery
  <2>4. \A r \in ResourceIDs[p] : locks[r] = NoJob \/ locks[r] = c
    BY <1>1 DEF Accept, AcceptRecovery, Held
  <2> QED
    BY <1>4, <2>1, <2>2, <2>3, <2>4, NullsAreNotValues DEF Holds
<1> QED
  BY <1>2, <1>3, <1>4

LEMMA StartProgress ==
  ASSUME TypeOK, Ownership, Progress, Ownership',
         NEW j \in Jobs, NEW k \in Keys, NEW q \in Request, NEW c \in Jobs \cup {NoJob},
         \/ Accept(j, k, q) /\ c = NoJob
         \/ AcceptRecovery(j, k, q) /\ c = q.parent /\ c \in Jobs,
         Start(j, NewRow(q.planID, c)), MutexFree, UNCHANGED <<request, observed>>
  PROVE  Progress'
<1>1. /\ ~Stored(j) /\ jobs'[j] = NewRow(q.planID, c)
      /\ \A m \in Jobs \ {j, c} : jobs'[m] = jobs[m]
      /\ c \in Jobs =>
           /\ c # j /\ Stored(c) /\ jobs[c].state \in Unresolved
           /\ jobs'[c].state = "partial" /\ jobs'[c].planID = jobs[c].planID
           /\ jobs'[c].step = jobs[c].step /\ jobs'[c].recoveryOf = jobs[c].recoveryOf
      /\ \A m \in Jobs : Stored(m)' <=> Stored(m) \/ m = j
      /\ \A m \in Jobs \ {c} : Stored(m) /\ Holds(m) => Holds(m)'
  BY StartEffect
<1>2. /\ jobs'[j].step = 0 /\ jobs'[j].state = "queued" /\ jobs'[j].recoveryOf = c
      /\ jobs'[j].planID = q.planID /\ NewRow(q.planID, c).recoveryOf = c
  BY <1>1 DEF NewRow
<1>3. LastStep(j)' \in Nat
  BY <1>2, PlansAreComplete DEF LastStep, Request
<1>4. BegunBelow(j, 0)
  BY <1>1 DEF Progress, RowsProgress
<1>5. /\ runner'[j].pc = "boundary" /\ runner'[j].i = 0
      /\ runner'[j].row = NewRow(q.planID, c)
      /\ \A m \in Jobs : m # j => runner'[m] = runner[m]
  BY DEF Start, Idle, TypeOK
<1>6. RowsProgress'
  <2> SUFFICES ASSUME NEW m \in Jobs
               PROVE  /\ ~Stored(m)' => BegunBelow(m, 0)'
                      /\ Stored(m)' => /\ jobs'[m].step <= LastStep(m)'
                                       /\ Confirmed(m, jobs[m].step)'
                                       /\ BegunBelow(m, jobs[m].step + 1)'
    BY DEF RowsProgress
  <2>1. CASE m = j
    BY <1>1, <1>2, <1>3, <1>4, <2>1 DEF Confirmed, BegunBelow, observed
  <2>2. CASE m # j
    <3>1. Stored(m) => jobs'[m].step = jobs[m].step /\ LastStep(m)' = LastStep(m)
      BY <1>1, <2>2 DEF LastStep
    <3> QED
      BY <1>1, <2>2, <3>1 DEF Progress, RowsProgress, Confirmed, BegunBelow, observed
  <2> QED
    BY <2>1, <2>2
<1>7. RunnersProgress'
  <2> SUFFICES ASSUME NEW m \in Jobs, Live(m)'
               PROVE  RunnerProgress(m)'
    BY DEF RunnersProgress
  <2>1. CASE m = j
    BY <1>2, <1>3, <1>4, <1>5, <2>1
       DEF RunnerProgress, At, Confirmed, BegunBelow, observed
  <2>2. CASE m # j
    <3>1. Live(m) /\ runner'[m] = runner[m]
      BY <1>5, <2>2 DEF Live
    <3>2. m # c
      BY <1>1, <3>1 DEF Ownership, RunnersHold, Active, Unresolved
    <3> QED
      BY <1>1, <2>2, <3>1, <3>2, OtherRunner
  <2> QED
    BY <2>1, <2>2
<1>8. RequestProgress'
  BY DEF RequestProgress, MutexFree
<1>9. SuccessIsObserved'
  <2>1. \A m \in Jobs : jobs'[m] = jobs[m] => (LastStep(m)' = LastStep(m))
    BY DEF LastStep
  <2> QED
    BY <1>1, <1>2, <2>1 DEF Progress, SuccessIsObserved, observed
<1>10. DoubtKeepsLocks'
  <2> SUFFICES ASSUME NEW m \in Jobs, Stored(m)', jobs'[m].state # "partial", InDoubt(m)'
               PROVE  Holds(m)'
    BY DEF DoubtKeepsLocks
  <2>1. CASE m = j
    BY <1>5, <2>1 DEF Ownership, RunnersHold, Live
  <2>2. CASE m # j
    <3>1. m # c /\ Stored(m) /\ jobs'[m] = jobs[m]
      BY <1>1, <2>2
    <3>2. InDoubt(m)
      BY <3>1, SameDoubt
    <3> QED
      BY <1>1, <3>1, <3>2 DEF Progress, DoubtKeepsLocks
  <2> QED
    BY <2>1, <2>2
<1> QED
  BY <1>6, <1>7, <1>8, <1>9, <1>10 DEF Progress

\* A write that comes from a request or from Recover, not from a goroutine.
LEMMA WriteProgress ==
  ASSUME TypeOK, Ownership, Progress, NEW j \in Jobs, NEW row \in Row, Update(j, row),
         UNCHANGED <<runner, observed>>, request' = NoRequest \/ (UNCHANGED request /\ MutexFree),
         row.planID = jobs[j].planID, row.recoveryOf = jobs[j].recoveryOf,
         row.step = jobs[j].step, row.state # "partial", jobs[j].state # "partial",
         row.state \in Finished => row.state = "succeeded" /\ Confirmed(j, LastStep(j) + 1)
  PROVE  Progress'
<1>1. Stored(j) /\ jobs[j] \in Row /\ LastStep(j) \in Nat
  BY RowOfStored, LastStepIsNat DEF Update, TypeOK
<1>2. /\ row.step <= LastStep(j) /\ Confirmed(j, row.step) /\ BegunBelow(j, row.step + 1)
  BY <1>1 DEF Progress, RowsProgress
<1>3. row.state \in Finished => ~InDoubt(j)
  BY <1>1, ConfirmedSettles
<1>4. RowsProgress' /\ SuccessIsObserved' /\ DoubtKeepsLocks'
  BY <1>2, <1>3, UpdateProgress DEF Finished
<1>5. /\ jobs'[j].step = jobs[j].step /\ jobs'[j].recoveryOf = jobs[j].recoveryOf
      /\ jobs'[j].planID = jobs[j].planID
      /\ \A m \in Jobs : m # j => jobs'[m] = jobs[m]
  BY UpdateEffect, UpdateFields
<1>6. RunnersProgress'
  BY <1>5 DEF Progress, RunnersProgress, RunnerProgress, Live, At, Confirmed, BegunBelow,
              LastStep, observed
<1>7. RequestProgress'
  BY DEF RequestProgress, MutexFree
<1> QED
  BY <1>4, <1>6, <1>7 DEF Progress

\* No row changes; a request may have observed a step complete.
LEMMA QuietProgress ==
  ASSUME TypeOK, Progress, UNCHANGED <<journal, begun, undone>>, verified \subseteq verified',
         UNCHANGED runner \/ runner' = [j \in Jobs |-> Idle],
         RequestProgress'
  PROVE  Progress'
<1>1. \A m \in Jobs : /\ Stored(m)' = Stored(m) /\ Holds(m)' = Holds(m)
                      /\ LastStep(m)' = LastStep(m) /\ jobs'[m] = jobs[m]
  BY DEF journal, Stored, Holds, Resource, LastStep
<1>2. RowsProgress'
  BY <1>1 DEF Progress, RowsProgress, Confirmed, BegunBelow
<1>3. RunnersProgress'
  BY <1>1 DEF Progress, RunnersProgress, RunnerProgress, Live, At, Idle, Confirmed, BegunBelow
<1>4. SuccessIsObserved'
  BY <1>1 DEF Progress, SuccessIsObserved
<1>5. DoubtKeepsLocks'
  <2>1. \A m \in Jobs : InDoubt(m)' => InDoubt(m)
    BY <1>1 DEF InDoubt
  <2> QED
    BY <1>1, <2>1 DEF Progress, DoubtKeepsLocks
<1> QED
  BY <1>2, <1>3, <1>4, <1>5 DEF Progress

LEMMA RequestsProgress ==
  ASSUME TypeOK, Ownership, Progress,
         \/ \E j \in Jobs : CancelRead(j) \/ ReconcileRead(j)
         \/ CancelWrite \/ ReconcileObserve \/ ReconcileSettle \/ RequestFails
  PROVE  Progress'
<1>1. ASSUME NEW j \in Jobs, CancelRead(j)
      PROVE  Progress'
  <2> DEFINE row == [jobs[j] EXCEPT !.cancelRequested = TRUE]
  <2>1. /\ jobs[j] \in Row /\ ~Terminal(jobs[j].state)
        /\ request' = [op |-> "cancel", job |-> j, row |-> row]
        /\ UNCHANGED <<journal, runner, begun, undone, verified>>
    BY <1>1, RowOfStored DEF CancelRead, TypeOK, observed
  <2>2. row.step = jobs[j].step /\ row.recoveryOf = jobs[j].recoveryOf
          /\ jobs[j].state # "partial"
    BY <2>1 DEF Row, Terminal, Finished
  <2> HIDE DEF row
  <2>3. RequestProgress'
    BY <2>1, <2>2 DEF RequestProgress, journal
  <2> QED
    BY <2>1, <2>3, QuietProgress
<1>2. ASSUME NEW j \in Jobs, ReconcileRead(j)
      PROVE  Progress'
  <2>1. RequestProgress'
    BY <1>2 DEF ReconcileRead, RequestProgress, journal, Unresolved
  <2> QED
    BY <1>2, <2>1, QuietProgress DEF ReconcileRead, observed
<1>3. ~MutexFree =>
        /\ request \in RequestState /\ request.job \in Jobs /\ request.row \in Row
        /\ Stored(request.job) /\ LastStep(request.job) \in Nat
        /\ request.row.planID = jobs[request.job].planID
        /\ request.row.step \in Nat
        /\ request.row.step = jobs[request.job].step
        /\ request.row.recoveryOf = jobs[request.job].recoveryOf
        /\ jobs[request.job].state # "partial"
  <2> SUFFICES ASSUME ~MutexFree
               PROVE  /\ request \in RequestState /\ request.job \in Jobs
                      /\ request.row \in Row /\ request.row.step \in Nat
                      /\ Stored(request.job) /\ LastStep(request.job) \in Nat
    BY DEF Ownership, RequestIsCurrent, Progress, RequestProgress
  <2>1. request \in RequestState /\ Stored(request.job)
    BY DEF MutexFree, TypeOK, Ownership, RequestIsCurrent
  <2>2. request.job \in Jobs /\ request.row \in Row
    BY <2>1 DEF RequestState
  <2> QED
    BY <2>1, <2>2, LastStepIsNat DEF Row
<1>4. CASE CancelWrite
  <2>1. request.row.state \in Active /\ ~MutexFree
    BY <1>4 DEF CancelWrite, Ownership, RequestIsCurrent
  <2>2. /\ Update(request.job, request.row) /\ request' = NoRequest
        /\ UNCHANGED <<runner, observed>>
    BY <1>4 DEF CancelWrite
  <2>3. request.row.state \notin Finished
    BY <2>1 DEF Active, Finished
  <2>4. request.row.state # "partial"
    BY <2>1 DEF Active
  <2>5. PICK j \in Jobs, row \in Row : j = request.job /\ row = request.row
    BY <1>3, <2>1
  <2>6. /\ Update(j, row) /\ request' = NoRequest /\ UNCHANGED <<runner, observed>>
        /\ row.planID = jobs[j].planID /\ row.recoveryOf = jobs[j].recoveryOf
        /\ row.step = jobs[j].step /\ jobs[j].state # "partial"
        /\ row.state # "partial" /\ row.state \notin Finished
    BY <1>3, <2>1, <2>2, <2>3, <2>4, <2>5
  <2> QED
    BY <2>6, WriteProgress
<1>5. CASE ReconcileSettle
  <2>1. /\ request.row.state = "succeeded" /\ ~MutexFree
        /\ Confirmed(request.job, LastStep(request.job) + 1)
    BY <1>5 DEF ReconcileSettle, Ownership, RequestIsCurrent, Progress, RequestProgress
  <2>2. /\ Update(request.job, request.row) /\ request' = NoRequest
        /\ UNCHANGED <<runner, observed>>
    BY <1>5 DEF ReconcileSettle
  <2>3. PICK j \in Jobs, row \in Row : j = request.job /\ row = request.row
    BY <1>3, <2>1
  <2>4. /\ Update(j, row) /\ request' = NoRequest /\ UNCHANGED <<runner, observed>>
        /\ row.planID = jobs[j].planID /\ row.recoveryOf = jobs[j].recoveryOf
        /\ row.step = jobs[j].step /\ jobs[j].state # "partial"
        /\ row.state = "succeeded" /\ Confirmed(j, LastStep(j) + 1)
    BY <1>3, <2>1, <2>2, <2>3
  <2> QED
    BY <2>4, WriteProgress
<1>6. CASE ReconcileObserve
  <2> DEFINE step == request.row.step
             settling == [request EXCEPT !.op = "settle", !.row.state = "succeeded"]
  <2>1. /\ ~MutexFree /\ UNCHANGED <<journal, runner, begun, undone>>
        /\ verified' = verified \cup {<<request.job, step>>}
    BY <1>6 DEF ReconcileObserve
  <2>2. /\ settling.job = request.job /\ settling.row.step = step
        /\ settling.row.recoveryOf = request.row.recoveryOf
    BY <1>3, <2>1 DEF RequestState, Row
  <2>3. step = LastStep(request.job) =>
          \A i \in Nat : i < LastStep(request.job) + 1 => <<request.job, i>> \in verified'
    <3>1. Confirmed(request.job, step)
      BY <1>3, <2>1 DEF Progress, RowsProgress
    <3>2. \A i \in Nat : i < step + 1 => i < step \/ i = step
      BY <1>3, <2>1
    <3> QED
      BY <2>1, <3>1, <3>2 DEF Confirmed
  <2>4. request' = IF step = LastStep(request.job) THEN settling ELSE NoRequest
    BY <1>6 DEF ReconcileObserve
  <2>5. jobs' = jobs /\ LastStep(request.job)' = Steps[jobs[request'.job].planID] - 1
    BY <2>1 DEF journal, LastStep
  <2>6. RequestProgress'
    <3> HIDE DEF step, settling
    <3>1. CASE step = LastStep(request.job)
      <4>1. LastStep(request.job)' = LastStep(request.job)
        BY <2>2, <2>4, <2>5, <3>1 DEF LastStep
      <4>2. Confirmed(request.job, LastStep(request.job) + 1)'
        BY <2>2, <2>3, <2>4, <3>1, <4>1 DEF Confirmed
      <4>3. request'.row.step = step /\ request'.job = request.job
              /\ request'.row.recoveryOf = request.row.recoveryOf
        BY <2>2, <2>4, <3>1
      <4>4. step = request.row.step
        BY DEF step
      <4> QED
        BY <1>3, <2>1, <2>5, <4>2, <4>3, <4>4 DEF RequestProgress
    <3>2. CASE step # LastStep(request.job)
      BY <2>4, <3>2 DEF RequestProgress, MutexFree
    <3> QED
      BY <3>1, <3>2
  <2> QED
    BY <2>1, <2>6, QuietProgress
<1>7. CASE RequestFails
  BY <1>7, QuietProgress DEF RequestFails, RequestProgress, MutexFree, observed
<1> QED
  BY <1>1, <1>2, <1>4, <1>5, <1>6, <1>7

LEMMA ProcessProgress ==
  ASSUME TypeOK, QuietUntilServing, Ownership, Progress,
         \/ Crash \/ Open \/ Serve
         \/ \E j \in Jobs : Recover(j) \/ JournalWriteFails(j)
  PROVE  Progress'
<1>1. CASE Crash
  BY <1>1, QuietProgress DEF Crash, RequestProgress, MutexFree, observed
<1>2. CASE Open \/ Serve
  <2>1. UNCHANGED <<journal, runner, request, begun, undone, verified>>
    BY <1>2 DEF Open, Serve, volatile, observed
  <2>2. RequestProgress'
    BY <2>1 DEF Progress, RequestProgress, MutexFree, Confirmed, LastStep, journal
  <2> QED
    BY <2>1, <2>2, QuietProgress
<1>3. ASSUME NEW j \in Jobs, JournalWriteFails(j)
      PROVE  Progress'
  <2>1. /\ Live(j) /\ ~Live(j)' /\ \A m \in Jobs : m # j => runner'[m] = runner[m]
        /\ UNCHANGED <<journal, request, begun, undone, verified>>
    BY <1>3 DEF JournalWriteFails, Live, Idle, TypeOK, observed
  <2>2. runner[j].i \in Nat
    BY <2>1, RunnerOfLive DEF RunnerState
  <2> QED
    BY <2>1, <2>2, SilentProgress
<1>4. ASSUME NEW j \in Jobs, Recover(j)
      PROVE  Progress'
  <2> DEFINE row == [jobs[j] EXCEPT !.state = "recovery-required"]
  <2>1. jobs[j] \in Row /\ ~Terminal(jobs[j].state)
    BY <1>4, RowOfStored DEF Recover, Interrupted, TypeOK
  <2>2. /\ row \in Row /\ row.state = "recovery-required" /\ row.planID = jobs[j].planID
        /\ row.step = jobs[j].step /\ row.recoveryOf = jobs[j].recoveryOf
    BY <2>1, RowWithState, StatesOfJobs DEF Row
  <2>3. Update(j, row) /\ UNCHANGED <<runner, request, observed>> /\ MutexFree
    BY <1>4 DEF Recover, volatile, QuietUntilServing
  <2>4. jobs[j].state # "partial"
    BY <2>1 DEF Terminal, Finished
  <2> HIDE DEF row
  <2> QED
    BY <2>2, <2>3, <2>4, WriteProgress DEF Finished
<1> QED
  BY <1>1, <1>2, <1>3, <1>4

LEMMA InitDoubt == Init => DoubtInv
<1> SUFFICES ASSUME Init PROVE DoubtInv
  OBVIOUS
<1>1. \A j \in Jobs : ~Live(j) /\ ~Stored(j)
  BY DEF Init, JournalInit, Live, Idle, Stored
<1>2. begun = {} /\ MutexFree
  BY DEF Init, MutexFree
<1>3. Progress
  BY <1>1, <1>2 DEF Progress, RowsProgress, RunnersProgress, RequestProgress,
                    SuccessIsObserved, DoubtKeepsLocks, BegunBelow
<1> QED
  BY <1>3, InitOwnership DEF DoubtInv

LEMMA NextDoubt ==
  ASSUME DoubtInv, [Next]_vars
  PROVE  DoubtInv'
<1>1. TypeOK /\ QuietUntilServing /\ Ownership /\ Progress
  BY DEF DoubtInv, OwnershipInv
<1>2. OwnershipInv' /\ Ownership'
  BY NextOwnership DEF DoubtInv, OwnershipInv
<1>3. ASSUME NEW j \in Jobs, NEW k \in Keys, NEW p \in Plans, Apply(j, k, p)
      PROVE  Progress'
  <2> DEFINE q == [by |-> Author[p], planID |-> p, parent |-> NoJob]
  <2>1. q \in Request /\ q.planID = p
    BY PlansAreComplete DEF Request
  <2>2. /\ Accept(j, k, q) /\ Start(j, NewRow(p, NoJob)) /\ MutexFree
        /\ UNCHANGED <<request, observed>>
    BY <1>3 DEF Apply
  <2> HIDE DEF q
  <2> QED
    BY <1>1, <1>2, <2>1, <2>2, StartProgress
<1>4. ASSUME NEW j \in Jobs, NEW k \in Keys, NEW p \in Plans, NEW c \in Jobs,
             ApplyRecovery(j, k, p, c)
      PROVE  Progress'
  <2> DEFINE q == [by |-> Author[p], planID |-> p, parent |-> c]
  <2>1. q \in Request /\ q.planID = p /\ q.parent = c
    BY PlansAreComplete DEF Request
  <2>2. /\ AcceptRecovery(j, k, q) /\ Start(j, NewRow(p, c)) /\ MutexFree
        /\ UNCHANGED <<request, observed>>
    BY <1>4 DEF ApplyRecovery
  <2> HIDE DEF q
  <2> QED
    BY <1>1, <1>2, <2>1, <2>2, StartProgress
<1>5. ASSUME UNCHANGED vars
      PROVE  Progress'
  <2>1. UNCHANGED <<journal, runner, request, begun, undone, verified>>
    BY <1>5 DEF vars, volatile, observed
  <2>2. RequestProgress'
    BY <1>1, <2>1 DEF Progress, RequestProgress, MutexFree, Confirmed, LastStep, journal
  <2> QED
    BY <1>1, <2>1, <2>2, QuietProgress
<1>6. Progress'
  BY <1>1, <1>3, <1>4, <1>5, RunProgress, RequestsProgress, ProcessProgress DEF Next
<1> QED
  BY <1>2, <1>6 DEF DoubtInv

LEMMA DoubtInvHolds == Spec => []DoubtInv
<1> QED
  BY InitDoubt, NextDoubt, PTL DEF Spec

\* While an effect is in doubt, its job or the recovery that took over holds
\* every resource it may have touched (Engine.run, Engine.Recover, Store.Update,
\* Store.AcceptRecovery).
THEOREM DoubtIsGuarded == Spec => []DoubtKeepsLocks
<1>1. DoubtInv => DoubtKeepsLocks
  BY DEF DoubtInv, Progress
<1> QED
  BY <1>1, DoubtInvHolds, PTL

\* No job is reported successful before each of its steps was observed complete
\* (Engine.run, Engine.Reconcile).
THEOREM SuccessIsEarned == Spec => []SuccessIsObserved
<1>1. DoubtInv => SuccessIsObserved
  BY DEF DoubtInv, Progress
<1> QED
  BY <1>1, DoubtInvHolds, PTL

-----------------------------------------------------------------------------
(* What one step does to the journal, and what follows: the promises about  *)
(* acceptances and cancellations, and that the engine implements Lease.     *)
(* The invariant is strengthened by what links jobs to one another and to   *)
(* the keys of their requests.                                              *)

\* RecoveriesAreChained is not inductive: a link must lead to a stored job.
LinksAreStored ==
  \A j \in Jobs : Stored(j) =>
    /\ jobs[j].recoveryOf # NoJob => Stored(jobs[j].recoveryOf)
    /\ jobs[j].recoveryOperationID # NoJob => Stored(jobs[j].recoveryOperationID)

\* The copies that will be written back were read before any hand-over.
CopiesAreUnlinked ==
  /\ \A j \in Jobs :
       /\ Live(j) => runner[j].row.recoveryOperationID = NoJob
       /\ At(j, "note") => runner[j].note.recoveryOperationID = NoJob
  /\ ~MutexFree => request.row.recoveryOperationID = NoJob

\* Each key leads to a stored job, no two lead to the same one, and none is lost.
KeysNameJobs ==
  /\ \A k \in Keys : dedup[k] # NoEntry => Stored(dedup[k].job)
  /\ \A k, l \in Keys :
       dedup[k] # NoEntry /\ dedup[l] # NoEntry /\ dedup[k].job = dedup[l].job => k = l
  /\ \A j \in Jobs : Stored(j) => \E k \in Keys : dedup[k] # NoEntry /\ dedup[k].job = j

NothingUnstoredVerified == \A j \in Jobs, i \in Nat : <<j, i>> \in verified => Stored(j)

Acceptances ==
  /\ RecoveriesAreChained /\ LinksAreStored /\ CopiesAreUnlinked
  /\ KeysNameJobs /\ NothingUnstoredVerified

AcceptanceInv == DoubtInv /\ Acceptances

-----------------------------------------------------------------------------
(* The effect of a step on the journal and on what is known of the effects. *)

\* Only job j may have a step begun, confirmed or excluded.
Observes(j) ==
  /\ UNCHANGED journal /\ Stored(j)
  /\ \A m \in Jobs, i \in Nat :
       m # j => /\ <<m, i>> \in begun' <=> <<m, i>> \in begun
                /\ <<m, i>> \in verified' <=> <<m, i>> \in verified
                /\ <<m, i>> \in undone' <=> <<m, i>> \in undone

\* A row is written back by someone who holds a true copy of it.  Only a goroutine
\* at a boundary moves the step on.
Writes(j, row) ==
  /\ Update(j, row) /\ UNCHANGED observed
  /\ row.planID = jobs[j].planID
  /\ row.recoveryOf = jobs[j].recoveryOf
  /\ row.recoveryOperationID = NoJob
  /\ row.state # "partial" /\ jobs[j].state # "partial"
  /\ row.step = jobs[j].step \/ (jobs[j].cancelRequested => Terminal(row.state))

Accepts(j, k, q) == Accept(j, k, q) /\ UNCHANGED observed

AcceptsRecovery(j, k, q) == q.parent \in Jobs /\ AcceptRecovery(j, k, q) /\ UNCHANGED observed

JournalStep ==
  \/ UNCHANGED <<journal, observed>>
  \/ \E j \in Jobs : Observes(j)
  \/ \E j \in Jobs, row \in Row : Writes(j, row)
  \/ \E j \in Jobs, k \in Keys, q \in Request : Accepts(j, k, q) \/ AcceptsRecovery(j, k, q)

\* A goroutine writes its copy of the row with another state.
LEMMA CopyWrites ==
  ASSUME TypeOK, Ownership, Progress, CopiesAreUnlinked, NEW j \in Jobs, Live(j),
         ~At(j, "boundary"), NEW state \in JobState, state # "partial",
         Update(j, Copy(j, state)), UNCHANGED observed
  PROVE  Writes(j, Copy(j, state))
<1>1. /\ Copy(j, state) \in Row /\ Copy(j, state).state = state
      /\ Copy(j, state).planID = runner[j].row.planID
      /\ Copy(j, state).recoveryOf = runner[j].row.recoveryOf
      /\ Copy(j, state).step = runner[j].row.step
  BY CopyFields
<1>2. Copy(j, state).recoveryOperationID = runner[j].row.recoveryOperationID
  BY LiveFacts DEF Copy, Row
<1>3. /\ runner[j].row.planID = jobs[j].planID /\ jobs[j].state # "partial"
      /\ runner[j].row.recoveryOf = jobs[j].recoveryOf
      /\ runner[j].row.step = jobs[j].step
      /\ runner[j].row.recoveryOperationID = NoJob
  BY LiveFacts DEF Ownership, RunnersHold, Active, RunnerProgress, CopiesAreUnlinked
<1> QED
  BY <1>1, <1>2, <1>3 DEF Writes

LEMMA RunJournal ==
  ASSUME TypeOK, Ownership, Progress, CopiesAreUnlinked, NEW j \in Jobs, Run(j)
  PROVE  JournalStep
<1>1. CASE Boundary(j)
  <2>1. /\ Live(j) /\ At(j, "boundary") /\ Stored(j) /\ UNCHANGED observed
    BY <1>1 DEF Boundary, At, Live, Return, Continue, Update
  <2>2. /\ runner[j].row \in Row /\ jobs[j] \in Row /\ AtBoundary(j) \in Row
        /\ RunnerProgress(j) /\ runner[j].i \in Nat
    BY <2>1, LiveFacts, BoundaryRow
  <2>3. ASSUME NEW state \in JobState \ {"partial"}, Update(j, [AtBoundary(j) EXCEPT !.state = state]),
               jobs[j].cancelRequested => Terminal(state)
        PROVE  JournalStep
    <3> DEFINE row == [AtBoundary(j) EXCEPT !.state = state]
    <3>1. /\ row \in Row /\ row.state = state
          /\ row.planID = runner[j].row.planID
          /\ row.recoveryOf = runner[j].row.recoveryOf
          /\ row.recoveryOperationID = runner[j].row.recoveryOperationID
      BY <2>2, RowWithState DEF AtBoundary, Row
    <3>2. /\ runner[j].row.planID = jobs[j].planID /\ jobs[j].state # "partial"
          /\ runner[j].row.recoveryOf = jobs[j].recoveryOf
          /\ runner[j].row.recoveryOperationID = NoJob
      BY <2>1, <2>2 DEF Ownership, RunnersHold, Active, RunnerProgress, CopiesAreUnlinked
    <3>3. Update(j, row)
      BY <2>3
    <3> HIDE DEF row
    <3>4. Writes(j, row)
      BY <2>1, <2>3, <3>1, <3>2, <3>3 DEF Writes
    <3> QED
      BY <3>1, <3>4 DEF JournalStep
  <2>4. AtBoundary(j).cancelRequested = jobs[j].cancelRequested
    BY <2>2 DEF AtBoundary, Row
  <2>5. CASE AtBoundary(j).cancelRequested
    <3> DEFINE kept == IF KeepsLocks(j) THEN "recovery-required" ELSE "canceled"
    <3>1. kept \in JobState \ {"partial"} /\ Terminal(kept)
      BY StatesOfJobs DEF Terminal, Finished
    <3>2. Update(j, [AtBoundary(j) EXCEPT !.state = kept])
      BY <1>1, <2>5 DEF Boundary, Return
    <3> HIDE DEF kept
    <3> QED
      BY <2>3, <3>1, <3>2
  <2>6. CASE ~AtBoundary(j).cancelRequested
    <3>1. Update(j, [AtBoundary(j) EXCEPT !.state = "validating"])
      BY <1>1, <2>6 DEF Boundary, Continue
    <3> QED
      BY <2>3, <2>4, <2>6, <3>1, StatesOfJobs
  <2> QED
    BY <2>5, <2>6
<1>2. CASE \/ ValidateFails(j) \/ RecordIntent(j) \/ ExecuteFailed(j)
           \/ StartVerifying(j) \/ StepNotVerified(j) \/ Finish(j)
  <2>1. Live(j) /\ ~At(j, "boundary") /\ UNCHANGED observed
    BY <1>2 DEF ValidateFails, RecordIntent, ExecuteFailed, StartVerifying, StepNotVerified,
                Finish, At, Live
  <2>2. PICK state \in JobState \ {"partial"} : Update(j, Copy(j, state))
    <3>1. CASE ValidateFails(j)
      BY <3>1, StatesOfJobs DEF ValidateFails, Return
    <3>2. CASE RecordIntent(j)
      BY <3>2, StatesOfJobs DEF RecordIntent, Continue
    <3>3. CASE ExecuteFailed(j)
      BY <3>3, StatesOfJobs DEF ExecuteFailed, Return
    <3>4. CASE StartVerifying(j)
      BY <3>4, StatesOfJobs DEF StartVerifying, Continue
    <3>5. CASE StepNotVerified(j)
      BY <3>5, StatesOfJobs DEF StepNotVerified, Return
    <3>6. CASE Finish(j)
      BY <3>6, StatesOfJobs DEF Finish, Return
    <3> QED
      BY <1>2, <3>1, <3>2, <3>3, <3>4, <3>5, <3>6
  <2>3. Writes(j, Copy(j, state)) /\ Copy(j, state) \in Row
    BY <2>1, <2>2, CopyWrites, CopyFields
  <2> QED
    BY <2>3 DEF JournalStep
<1>3. CASE NoteWrite(j)
  <2>1. Live(j) /\ At(j, "note") /\ UNCHANGED observed /\ Update(j, runner[j].note)
    BY <1>3 DEF NoteWrite, At, Live
  <2>2. /\ runner[j] \in RunnerState /\ RunnerProgress(j) /\ jobs[j].state \in Active
    BY <2>1, LiveFacts
  <2>3. /\ runner[j].note \in Row /\ runner[j].note.state \in Active
        /\ runner[j].note.planID = jobs[j].planID
        /\ runner[j].note.step = jobs[j].step
        /\ runner[j].note.recoveryOf = jobs[j].recoveryOf
        /\ runner[j].note.recoveryOperationID = NoJob
    BY <2>1, <2>2 DEF RunnerState, At, Ownership, NotesAreCurrent, RunnerProgress, CopiesAreUnlinked
  <2>4. Writes(j, runner[j].note)
    BY <2>1, <2>2, <2>3 DEF Writes, Active
  <2> QED
    BY <2>3, <2>4 DEF JournalStep
<1>4. CASE NoteRead(j)
  BY <1>4 DEF NoteRead, JournalStep
<1>5. ASSUME \/ \E outcome \in Outcome : Execute(j, outcome)
             \/ StepVerified(j)
      PROVE  JournalStep
  <2>1. Live(j) /\ UNCHANGED journal
    BY <1>5 DEF Execute, StepVerified, At, Live
  <2>2. /\ begun' \in {begun, begun \cup {<<j, runner[j].i>>}}
        /\ verified' \in {verified, verified \cup {<<j, runner[j].i>>}}
        /\ undone' \in {undone, undone \cup {<<j, runner[j].i>>}}
    BY <1>5 DEF Execute, StepVerified
  <2>3. Observes(j)
    BY <2>1, <2>2, LiveFacts DEF Observes
  <2> QED
    BY <2>3 DEF JournalStep
<1> QED
  BY <1>1, <1>2, <1>3, <1>4, <1>5 DEF Run

LEMMA NextJournal ==
  ASSUME AcceptanceInv, [Next]_vars
  PROVE  JournalStep
<1>1. TypeOK /\ QuietUntilServing /\ Ownership /\ Progress /\ CopiesAreUnlinked
  BY DEF AcceptanceInv, Acceptances, DoubtInv, OwnershipInv
<1>2. ASSUME NEW j \in Jobs, NEW k \in Keys, NEW p \in Plans, Apply(j, k, p)
      PROVE  JournalStep
  <2> DEFINE q == [by |-> Author[p], planID |-> p, parent |-> NoJob]
  <2>1. q \in Request /\ Accepts(j, k, q)
    BY <1>2, PlansAreComplete DEF Request, Apply, Accepts
  <2> QED
    BY <2>1 DEF JournalStep
<1>3. ASSUME NEW j \in Jobs, NEW k \in Keys, NEW p \in Plans, NEW c \in Jobs,
             ApplyRecovery(j, k, p, c)
      PROVE  JournalStep
  <2> DEFINE q == [by |-> Author[p], planID |-> p, parent |-> c]
  <2>1. q \in Request /\ AcceptsRecovery(j, k, q)
    BY <1>3, PlansAreComplete DEF Request, ApplyRecovery, AcceptsRecovery
  <2> QED
    BY <2>1 DEF JournalStep
<1>4. ASSUME NEW j \in Jobs, Recover(j)
      PROVE  JournalStep
  <2> DEFINE row == [jobs[j] EXCEPT !.state = "recovery-required"]
  <2>1. jobs[j] \in Row /\ ~Terminal(jobs[j].state) /\ Stored(j)
    BY <1>1, <1>4, RowOfStored DEF Recover, Interrupted, TypeOK
  <2>2. /\ row \in Row /\ row.state = "recovery-required" /\ row.planID = jobs[j].planID
        /\ row.step = jobs[j].step /\ row.recoveryOf = jobs[j].recoveryOf
        /\ row.recoveryOperationID = jobs[j].recoveryOperationID
    BY <2>1, RowWithState, StatesOfJobs DEF Row
  <2>3. jobs[j].state # "partial" /\ Update(j, row) /\ UNCHANGED observed
    BY <1>4, <2>1 DEF Recover, Terminal, Finished
  <2>4. jobs[j].recoveryOperationID = NoJob
    BY <2>1, <2>3 DEF AcceptanceInv, Acceptances, RecoveriesAreChained
  <2> HIDE DEF row
  <2>5. Writes(j, row)
    BY <2>2, <2>3, <2>4 DEF Writes
  <2> QED
    BY <2>2, <2>5 DEF JournalStep
<1>5. CASE CancelWrite \/ ReconcileSettle
  <2>1. /\ ~MutexFree /\ UNCHANGED observed /\ Update(request.job, request.row)
        /\ request.op \in {"cancel", "settle"}
    BY <1>5 DEF CancelWrite, ReconcileSettle
  <2>2. request \in RequestState
    BY <1>1, <2>1 DEF MutexFree, TypeOK
  <2>3. /\ request.job \in Jobs /\ request.row \in Row
        /\ request.row.state # "partial"
        /\ request.row.planID = jobs[request.job].planID
    BY <1>1, <2>1, <2>2 DEF RequestState, Ownership, RequestIsCurrent, Active
  <2>4. /\ request.row.step = jobs[request.job].step
        /\ request.row.recoveryOf = jobs[request.job].recoveryOf
        /\ request.row.recoveryOperationID = NoJob
        /\ jobs[request.job].state # "partial"
    BY <1>1, <2>1 DEF Progress, RequestProgress, CopiesAreUnlinked
  <2>5. Writes(request.job, request.row)
    BY <2>1, <2>3, <2>4 DEF Writes
  <2> QED
    BY <2>3, <2>5 DEF JournalStep
<1>6. CASE ReconcileObserve
  <2>1. /\ ~MutexFree /\ UNCHANGED <<journal, begun, undone>>
        /\ verified' = verified \cup {<<request.job, request.row.step>>}
    BY <1>6 DEF ReconcileObserve
  <2>2. request.job \in Jobs /\ Stored(request.job)
    BY <1>1, <2>1 DEF MutexFree, TypeOK, RequestState, Ownership, RequestIsCurrent
  <2>3. Observes(request.job)
    BY <2>1, <2>2 DEF Observes
  <2> QED
    BY <2>2, <2>3 DEF JournalStep
<1>7. CASE \/ \E j \in Jobs : CancelRead(j) \/ ReconcileRead(j) \/ JournalWriteFails(j)
           \/ RequestFails \/ Crash \/ Open \/ Serve \/ UNCHANGED vars
  BY <1>7 DEF CancelRead, ReconcileRead, JournalWriteFails, RequestFails, Crash, Open, Serve,
              vars, JournalStep
<1> QED
  BY <1>1, <1>2, <1>3, <1>4, <1>5, <1>6, <1>7, RunJournal DEF Next

-----------------------------------------------------------------------------
(* Acceptances.  *)

\* What a write changes in the row, besides what UpdateEffect says of it.
LEMMA WriteEffect ==
  ASSUME TypeOK, NEW j \in Jobs, NEW row \in Row, Writes(j, row)
  PROVE  /\ jobs'[j].recoveryOf = jobs[j].recoveryOf
         /\ jobs'[j].recoveryOperationID = NoJob
         /\ jobs'[j].step = row.step
         /\ jobs[j].cancelRequested => jobs'[j].cancelRequested
<1>1. jobs[j] \in Row
  BY RowOfStored DEF Writes, Update, TypeOK
<1>2. /\ Merged(j, row).recoveryOf = row.recoveryOf /\ Merged(j, row).step = row.step
      /\ Merged(j, row).recoveryOperationID = row.recoveryOperationID
      /\ jobs[j].cancelRequested => Merged(j, row).cancelRequested
  BY <1>1 DEF Merged, Row
<1> QED
  BY <1>2 DEF Writes, Update, TypeOK, JournalTypeOK

\* Accepting a job with a parent also links the parent to it.
LEMMA HandOverEffect ==
  ASSUME TypeOK, NEW j \in Jobs, NEW k \in Keys, NEW q \in Request, AcceptsRecovery(j, k, q)
  PROVE  /\ jobs[q.parent].recoveryOperationID = NoJob /\ Resource(q.parent) \subseteq ResourceIDs[q.planID]
         /\ jobs'[q.parent].recoveryOperationID = j
         /\ jobs'[q.parent].cancelRequested = jobs[q.parent].cancelRequested
<1> DEFINE c == q.parent
           new == [jobs[c] EXCEPT !.state = "partial", !.recoveryOperationID = j]
<1>1. /\ c \in Jobs /\ c # j /\ Stored(c) /\ jobs[c].recoveryOperationID = NoJob
      /\ Resource(c) \subseteq ResourceIDs[q.planID]
  BY DEF AcceptsRecovery, AcceptRecovery, Recoverable
<1>2. jobs[c] \in Row
  BY <1>1, RowOfStored DEF TypeOK
<1>3. new.recoveryOperationID = j /\ new.cancelRequested = jobs[c].cancelRequested
  BY <1>2 DEF Row
<1>4. jobs' = [jobs EXCEPT ![j] = NewRow(q.planID, c), ![c] = new]
  BY <1>1 DEF AcceptsRecovery, AcceptRecovery, TypeOK, JournalTypeOK
<1> HIDE DEF new
<1> QED
  BY <1>1, <1>3, <1>4 DEF TypeOK, JournalTypeOK

LEMMA StepChains ==
  ASSUME TypeOK, RecoveriesAreChained, LinksAreStored, JournalStep
  PROVE  RecoveriesAreChained' /\ LinksAreStored'
<1> USE NullsAreNotValues
<1>1. ASSUME UNCHANGED journal
      PROVE  RecoveriesAreChained' /\ LinksAreStored'
  BY <1>1 DEF journal, RecoveriesAreChained, LinksAreStored, Stored, Resource
<1>2. ASSUME NEW j \in Jobs, NEW row \in Row, Writes(j, row)
      PROVE  RecoveriesAreChained' /\ LinksAreStored'
  <2>1. /\ Stored(j) /\ jobs'[j].state = row.state
        /\ \A m \in Jobs : m # j => jobs'[m] = jobs[m]
        /\ \A m \in Jobs : Stored(m)' <=> Stored(m)
        /\ \A m \in Jobs : Stored(m) => Resource(m)' = Resource(m)
    BY <1>2, UpdateEffect DEF Writes
  <2>2. jobs'[j].recoveryOf = jobs[j].recoveryOf /\ jobs'[j].recoveryOperationID = NoJob
    BY <1>2, WriteEffect
  <2>3. row.state # "partial" /\ jobs[j].state # "partial"
    BY <1>2 DEF Writes
  <2>4. jobs[j].recoveryOperationID = NoJob
    BY <2>1, <2>3 DEF RecoveriesAreChained
  <2>5. \A m \in Jobs : Stored(m) =>
          /\ jobs'[m].recoveryOf = jobs[m].recoveryOf
          /\ jobs'[m].recoveryOperationID = jobs[m].recoveryOperationID
          /\ jobs'[m].state = "partial" <=> jobs[m].state = "partial"
    BY <2>1, <2>2, <2>3, <2>4
  <2>6. \A m \in Jobs : Stored(m) => jobs[m] \in Row
    BY RowOfStored DEF TypeOK
  <2>7. \A m \in Jobs : Stored(m) => /\ jobs[m].recoveryOf \in Jobs \cup {NoJob}
                                     /\ jobs[m].recoveryOperationID \in Jobs \cup {NoJob}
    BY <2>6 DEF Row
  <2> QED
    BY <2>1, <2>5, <2>7 DEF RecoveriesAreChained, LinksAreStored
<1>3. ASSUME NEW j \in Jobs, NEW k \in Keys, NEW q \in Request, NEW c \in Jobs \cup {NoJob},
             \/ Accepts(j, k, q) /\ c = NoJob
             \/ AcceptsRecovery(j, k, q) /\ c = q.parent /\ c \in Jobs
      PROVE  RecoveriesAreChained' /\ LinksAreStored'
  <2>1. /\ ~Stored(j) /\ jobs'[j] = NewRow(q.planID, c)
        /\ \A m \in Jobs \ {j, c} : jobs'[m] = jobs[m]
        /\ c \in Jobs =>
             /\ c # j /\ Stored(c) /\ jobs[c].state \in Unresolved
             /\ jobs'[c].state = "partial" /\ jobs'[c].planID = jobs[c].planID
             /\ jobs'[c].recoveryOf = jobs[c].recoveryOf
        /\ \A m \in Jobs : Stored(m)' <=> Stored(m) \/ m = j
    BY <1>3, StartEffect DEF Accepts, AcceptsRecovery
  <2>2. /\ jobs'[j].state = "queued" /\ jobs'[j].recoveryOf = c
        /\ jobs'[j].recoveryOperationID = NoJob /\ jobs'[j].planID = q.planID
    BY <2>1 DEF NewRow
  <2>3. c \in Jobs => /\ jobs[c].recoveryOperationID = NoJob /\ jobs'[c].recoveryOperationID = j
                      /\ Resource(c) \subseteq ResourceIDs[q.planID]
    BY <1>3, HandOverEffect
  <2>4. \A m \in Jobs : Stored(m) =>
          /\ jobs[m].recoveryOf \in Jobs \cup {NoJob} /\ jobs[m].recoveryOf # j
          /\ jobs[m].recoveryOperationID \in Jobs \cup {NoJob} /\ jobs[m].recoveryOperationID # j
    <3>1. \A m \in Jobs : Stored(m) => jobs[m] \in Row
      BY RowOfStored DEF TypeOK
    <3> QED
      BY <2>1, <3>1 DEF Row, LinksAreStored
  <2>5. \A m \in Jobs : Stored(m) /\ m # c =>
          /\ jobs'[m] = jobs[m] /\ jobs[m].recoveryOf # j
    BY <2>1, <2>4
  <2>6. c \in Jobs => \A m \in Jobs : Stored(m) => jobs[m].recoveryOf # c
    BY <2>1, <2>3 DEF RecoveriesAreChained
  <2>7. LinksAreStored'
    BY <2>1, <2>2, <2>3, <2>4, <2>5 DEF LinksAreStored
  <2>8. \A m \in Jobs : Stored(m)' =>
          (jobs'[m].state = "partial" <=> jobs'[m].recoveryOperationID # NoJob)
    <3> SUFFICES ASSUME NEW m \in Jobs, Stored(m)'
                 PROVE  jobs'[m].state = "partial" <=> jobs'[m].recoveryOperationID # NoJob
      OBVIOUS
    <3>1. CASE m = j
      BY <2>2, <3>1
    <3>2. CASE m = c
      BY <2>1, <2>3, <3>2
    <3>3. CASE m # j /\ m # c
      BY <2>1, <3>3 DEF RecoveriesAreChained
    <3> QED
      BY <3>1, <3>2, <3>3
  <2>9. \A m, n \in Jobs : Stored(m)' /\ Stored(n)' =>
          (jobs'[m].recoveryOperationID = n <=> jobs'[n].recoveryOf = m)
    <3> SUFFICES ASSUME NEW m \in Jobs, NEW n \in Jobs, Stored(m)', Stored(n)'
                 PROVE  jobs'[m].recoveryOperationID = n <=> jobs'[n].recoveryOf = m
      OBVIOUS
    <3>1. CASE m = j /\ n = j
      BY <2>1, <2>2, <3>1
    <3>2. CASE m = j /\ n # j
      BY <2>1, <2>2, <2>4, <3>2
    <3>3. CASE m # j /\ n = j
      BY <2>1, <2>2, <2>3, <2>4, <3>3
    <3>4. CASE m # j /\ n # j
      <4>1. Stored(m) /\ Stored(n) /\ jobs'[n].recoveryOf = jobs[n].recoveryOf
        BY <2>1, <3>4
      <4>2. CASE m = c
        BY <2>3, <2>6, <3>4, <4>1, <4>2
      <4>3. CASE m # c
        BY <2>5, <4>1, <4>3 DEF RecoveriesAreChained
      <4> QED
        BY <4>2, <4>3
    <3> QED
      BY <3>1, <3>2, <3>3, <3>4
  <2>10. \A m \in Jobs : Stored(m)' /\ jobs'[m].recoveryOf # NoJob =>
           Resource(jobs[m].recoveryOf)' \subseteq Resource(m)'
    <3> SUFFICES ASSUME NEW m \in Jobs, Stored(m)', jobs'[m].recoveryOf # NoJob
                 PROVE  Resource(jobs[m].recoveryOf)' \subseteq Resource(m)'
      OBVIOUS
    <3>1. \A n \in Jobs : Stored(n) => Resource(n)' = Resource(n)
      BY <2>1, <2>5 DEF Resource
    <3>2. CASE m = j
      BY <2>1, <2>2, <2>3, <3>1, <3>2 DEF Resource
    <3>3. CASE m # j
      <4>1. Stored(m) /\ jobs'[m].recoveryOf = jobs[m].recoveryOf
        BY <2>1, <3>3
      <4>2. jobs[m].recoveryOf \in Jobs /\ Stored(jobs[m].recoveryOf)
        BY <2>4, <4>1 DEF LinksAreStored
      <4>3. Resource(jobs[m].recoveryOf) \subseteq Resource(m)
        BY <4>1 DEF RecoveriesAreChained
      <4> QED
        BY <3>1, <4>1, <4>2, <4>3
    <3> QED
      BY <3>2, <3>3
  <2> QED
    BY <2>7, <2>8, <2>9, <2>10 DEF RecoveriesAreChained
<1>4. ASSUME NEW j \in Jobs, NEW k \in Keys, NEW q \in Request, Accepts(j, k, q)
      PROVE  RecoveriesAreChained' /\ LinksAreStored'
  BY <1>3, <1>4
<1>5. ASSUME NEW j \in Jobs, NEW k \in Keys, NEW q \in Request, AcceptsRecovery(j, k, q)
      PROVE  RecoveriesAreChained' /\ LinksAreStored'
  BY <1>3, <1>5 DEF AcceptsRecovery
<1> QED
  BY <1>1, <1>2, <1>4, <1>5 DEF JournalStep, Observes

LEMMA StepKeys ==
  ASSUME TypeOK, KeysNameJobs, JournalStep
  PROVE  KeysNameJobs'
<1>1. ASSUME dedup' = dedup, \A m \in Jobs : Stored(m)' <=> Stored(m)
      PROVE  KeysNameJobs'
  BY <1>1 DEF KeysNameJobs, TypeOK, JournalTypeOK
<1>2. ASSUME UNCHANGED journal
      PROVE  KeysNameJobs'
  BY <1>1, <1>2 DEF journal, Stored
<1>3. ASSUME NEW j \in Jobs, NEW row \in Row, Writes(j, row)
      PROVE  KeysNameJobs'
  <2>1. \A m \in Jobs : Stored(m)' <=> Stored(m)
    BY <1>3, UpdateEffect DEF Writes
  <2> QED
    BY <1>1, <1>3, <2>1 DEF Writes, Update
<1>4. ASSUME NEW j \in Jobs, NEW k \in Keys, NEW q \in Request,
             Accepts(j, k, q) \/ AcceptsRecovery(j, k, q)
      PROVE  KeysNameJobs'
  <2>1. ~Stored(j) /\ \A m \in Jobs : Stored(m)' <=> Stored(m) \/ m = j
    BY <1>4, StartEffect DEF Accepts, AcceptsRecovery
  <2>2. /\ dedup[k] = NoEntry /\ dedup'[k] = [request |-> q, job |-> j]
        /\ \A l \in Keys : l # k => dedup'[l] = dedup[l]
    BY <1>4 DEF Accepts, AcceptsRecovery, Accept, AcceptRecovery, TypeOK, JournalTypeOK
  <2>3. dedup'[k] # NoEntry /\ dedup'[k].job = j
    BY <2>2, NullsAreNotValues
  <2>4. \A l \in Keys : dedup[l] # NoEntry => dedup[l].job \in Jobs /\ dedup[l].job # j
    BY <2>1 DEF KeysNameJobs, TypeOK, JournalTypeOK
  <2>5. \A l \in Keys : dedup'[l] # NoEntry => Stored(dedup[l].job)'
    BY <2>1, <2>2, <2>3, <2>4 DEF KeysNameJobs
  <2>6. \A l, m \in Keys :
          dedup'[l] # NoEntry /\ dedup'[m] # NoEntry /\ dedup'[l].job = dedup'[m].job => l = m
    BY <2>2, <2>3, <2>4 DEF KeysNameJobs
  <2>7. \A m \in Jobs : Stored(m)' => \E l \in Keys : dedup'[l] # NoEntry /\ dedup'[l].job = m
    <3> SUFFICES ASSUME NEW m \in Jobs, Stored(m)'
                 PROVE  \E l \in Keys : dedup'[l] # NoEntry /\ dedup'[l].job = m
      OBVIOUS
    <3>1. CASE m = j
      BY <2>3, <3>1
    <3>2. CASE m # j
      <4>1. PICK l \in Keys : dedup[l] # NoEntry /\ dedup[l].job = m
        BY <2>1, <3>2 DEF KeysNameJobs
      <4> QED
        BY <2>2, <4>1
    <3> QED
      BY <3>1, <3>2
  <2> QED
    BY <2>5, <2>6, <2>7 DEF KeysNameJobs
<1> QED
  BY <1>2, <1>3, <1>4 DEF JournalStep, Observes

LEMMA StepVerifiesStored ==
  ASSUME TypeOK, NothingUnstoredVerified, JournalStep
  PROVE  NothingUnstoredVerified'
<1>1. CASE UNCHANGED <<journal, observed>>
  BY <1>1 DEF NothingUnstoredVerified, journal, observed, Stored
<1>2. ASSUME NEW j \in Jobs, Observes(j)
      PROVE  NothingUnstoredVerified'
  BY <1>2 DEF NothingUnstoredVerified, Observes, journal, Stored
<1>3. ASSUME NEW j \in Jobs, NEW row \in Row, Writes(j, row)
      PROVE  NothingUnstoredVerified'
  <2>1. \A m \in Jobs : Stored(m)' <=> Stored(m)
    BY <1>3, UpdateEffect DEF Writes
  <2> QED
    BY <1>3, <2>1 DEF NothingUnstoredVerified, Writes, observed
<1>4. ASSUME NEW j \in Jobs, NEW k \in Keys, NEW q \in Request,
             Accepts(j, k, q) \/ AcceptsRecovery(j, k, q)
      PROVE  NothingUnstoredVerified'
  <2>1. \A m \in Jobs : Stored(m)' <=> Stored(m) \/ m = j
    BY <1>4, StartEffect DEF Accepts, AcceptsRecovery
  <2> QED
    BY <1>4, <2>1 DEF NothingUnstoredVerified, Accepts, AcceptsRecovery, observed
<1> QED
  BY <1>1, <1>2, <1>3, <1>4 DEF JournalStep

\* A job whose row is not "partial" has no recovery to be linked to.
LEMMA NotPartialUnlinked ==
  ASSUME RecoveriesAreChained, NEW j \in Jobs, Stored(j), jobs[j].state # "partial"
  PROVE  jobs[j].recoveryOperationID = NoJob
BY DEF RecoveriesAreChained

LEMMA RunUnlinked ==
  ASSUME AcceptanceInv, NEW j \in Jobs, Run(j) \/ JournalWriteFails(j)
  PROVE  CopiesAreUnlinked'
<1>1. TypeOK /\ Ownership /\ Progress /\ RecoveriesAreChained /\ CopiesAreUnlinked
  BY DEF AcceptanceInv, Acceptances, DoubtInv, OwnershipInv
<1>2. /\ Live(j) /\ UNCHANGED request
      /\ \A m \in Jobs : m # j => runner'[m] = runner[m]
  <2>1. Live(j)
    BY DEF Run, JournalWriteFails, At, Live, Boundary, ValidateFails, RecordIntent, Execute,
           NoteRead, NoteWrite, ExecuteFailed, StartVerifying, StepVerified, StepNotVerified, Finish
  <2>2. UNCHANGED request
    BY DEF Run, JournalWriteFails, Boundary, ValidateFails, RecordIntent, Execute,
           NoteRead, NoteWrite, ExecuteFailed, StartVerifying, StepVerified, StepNotVerified, Finish
  <2>3. \A m \in Jobs : m # j => runner'[m] = runner[m]
    BY <1>1 DEF Run, JournalWriteFails, Boundary, ValidateFails, RecordIntent, Execute,
           NoteRead, NoteWrite, ExecuteFailed, StartVerifying, StepVerified, StepNotVerified, Finish,
           Return, Continue, TypeOK
  <2> QED
    BY <2>1, <2>2, <2>3
<1>3. /\ runner[j] \in RunnerState /\ runner[j].row \in Row /\ Stored(j) /\ jobs[j] \in Row
      /\ runner[j].row.recoveryOperationID = NoJob
      /\ jobs[j].recoveryOperationID = NoJob
  BY <1>1, <1>2, LiveFacts, NotPartialUnlinked DEF Active, CopiesAreUnlinked
<1>4. /\ Live(j)' => runner'[j].row.recoveryOperationID = NoJob
      /\ At(j, "note")' => runner'[j].note.recoveryOperationID = NoJob
  <2>1. ASSUME NEW row \in Row, NEW pc \in {"validate", "execute", "reconcile"},
               Continue(j, row, pc), row.recoveryOperationID = NoJob
        PROVE  <1>4!1 /\ <1>4!2
    BY <1>1, <1>3, <2>1 DEF Continue, TypeOK, RunnerState, At
  <2>2. ASSUME runner' = [runner EXCEPT ![j] = Idle]
        PROVE  <1>4!1 /\ <1>4!2
    BY <1>1, <2>2 DEF TypeOK, Live, At, Idle
  <2>3. ASSUME NEW state \in JobState
        PROVE  Copy(j, state) \in Row /\ Copy(j, state).recoveryOperationID = NoJob
    BY <1>1, <1>2, <1>3, CopyFields DEF Copy, Row
  <2>4. CASE \/ ValidateFails(j) \/ ExecuteFailed(j) \/ StepNotVerified(j) \/ Finish(j)
             \/ JournalWriteFails(j)
    BY <2>2, <2>4 DEF ValidateFails, ExecuteFailed, StepNotVerified, Finish, JournalWriteFails, Return
  <2>5. CASE Boundary(j)
    <3>1. /\ [AtBoundary(j) EXCEPT !.state = "validating"] \in Row
          /\ [AtBoundary(j) EXCEPT !.state = "validating"].recoveryOperationID = NoJob
      <4>1. AtBoundary(j) \in Row
        BY <1>1, <1>2, <1>3, BoundaryRow
      <4>2. AtBoundary(j).recoveryOperationID = NoJob
        BY <1>3 DEF AtBoundary, Row
      <4> QED
        BY <4>1, <4>2, RowWithState, StatesOfJobs DEF Row
    <3> QED
      BY <2>1, <2>2, <2>5, <3>1 DEF Boundary, Return
  <2>6. CASE RecordIntent(j) \/ StartVerifying(j)
    BY <2>1, <2>3, <2>6, StatesOfJobs DEF RecordIntent, StartVerifying
  <2>7. CASE \/ \E outcome \in Outcome : Execute(j, outcome)
             \/ NoteRead(j) \/ NoteWrite(j) \/ StepVerified(j)
    BY <1>1, <1>3, <2>7 DEF Execute, NoteRead, NoteWrite, StepVerified, At, TypeOK, RunnerState
  <2> QED
    BY <2>4, <2>5, <2>6, <2>7 DEF Run
<1> QED
  BY <1>1, <1>2, <1>4 DEF CopiesAreUnlinked, Live, At, MutexFree

LEMMA NextUnlinked ==
  ASSUME AcceptanceInv, [Next]_vars
  PROVE  CopiesAreUnlinked'
<1>1. TypeOK /\ Ownership /\ Progress /\ RecoveriesAreChained /\ CopiesAreUnlinked
  BY DEF AcceptanceInv, Acceptances, DoubtInv, OwnershipInv
<1>2. ASSUME NEW j \in Jobs, NEW p, NEW c, Start(j, NewRow(p, c)), MutexFree, UNCHANGED request
      PROVE  CopiesAreUnlinked'
  <2>1. /\ runner'[j].pc = "boundary" /\ runner'[j].row = NewRow(p, c)
        /\ \A m \in Jobs : m # j => runner'[m] = runner[m]
    BY <1>1, <1>2 DEF Start, Idle, TypeOK
  <2>2. runner'[j].row.recoveryOperationID = NoJob
    BY <2>1 DEF NewRow
  <2> QED
    BY <1>1, <1>2, <2>1, <2>2 DEF CopiesAreUnlinked, Live, At, MutexFree
<1>3. ASSUME NEW j \in Jobs, CancelRead(j) \/ ReconcileRead(j)
      PROVE  CopiesAreUnlinked'
  <2>1. /\ Stored(j) /\ jobs[j].state # "partial" /\ UNCHANGED runner
        /\ jobs[j] \in Row
    BY <1>1, <1>3, RowOfStored DEF CancelRead, ReconcileRead, Terminal, Finished, Unresolved, TypeOK
  <2>2. jobs[j].recoveryOperationID = NoJob
    BY <1>1, <2>1, NotPartialUnlinked
  <2>3. request'.row.recoveryOperationID = NoJob
    BY <1>3, <2>1, <2>2 DEF CancelRead, ReconcileRead, Row
  <2> QED
    BY <1>1, <2>1, <2>3 DEF CopiesAreUnlinked, Live, At
<1>4. CASE ReconcileObserve
  <2>1. ~MutexFree /\ UNCHANGED runner /\ request \in RequestState
    BY <1>1, <1>4 DEF ReconcileObserve, MutexFree, TypeOK
  <2>2. MutexFree' \/ request'.row.recoveryOperationID = request.row.recoveryOperationID
    BY <1>4, <2>1 DEF ReconcileObserve, MutexFree, RequestState, Row
  <2> QED
    BY <1>1, <2>1, <2>2 DEF CopiesAreUnlinked, Live, At
<1>5. CASE CancelWrite \/ ReconcileSettle \/ RequestFails
  BY <1>1, <1>5 DEF CancelWrite, ReconcileSettle, RequestFails, CopiesAreUnlinked, Live, At, MutexFree
<1>6. CASE Crash
  BY <1>6 DEF Crash, CopiesAreUnlinked, Live, At, MutexFree, Idle
<1>7. CASE Open \/ Serve \/ (\E j \in Jobs : Recover(j)) \/ UNCHANGED vars
  BY <1>1, <1>7 DEF Open, Serve, Recover, vars, volatile, CopiesAreUnlinked, Live, At, MutexFree
<1>8. ASSUME NEW j \in Jobs, NEW k \in Keys, NEW p \in Plans,
             Apply(j, k, p) \/ \E c \in Jobs : ApplyRecovery(j, k, p, c)
      PROVE  CopiesAreUnlinked'
  BY <1>2, <1>8 DEF Apply, ApplyRecovery
<1> QED
  BY <1>3, <1>4, <1>5, <1>6, <1>7, <1>8, RunUnlinked DEF Next

LEMMA InitAcceptance == Init => AcceptanceInv
<1> SUFFICES ASSUME Init PROVE AcceptanceInv
  OBVIOUS
<1>1. /\ \A j \in Jobs : ~Live(j) /\ ~At(j, "note") /\ ~Stored(j)
      /\ \A k \in Keys : dedup[k] = NoEntry
      /\ verified = {} /\ MutexFree
  BY DEF Init, JournalInit, Live, At, Idle, Stored, MutexFree
<1>2. DoubtInv
  BY InitDoubt
<1> QED
  BY <1>1, <1>2 DEF AcceptanceInv, Acceptances, RecoveriesAreChained, LinksAreStored,
                    CopiesAreUnlinked, KeysNameJobs, NothingUnstoredVerified

LEMMA NextAcceptance ==
  ASSUME AcceptanceInv, [Next]_vars
  PROVE  AcceptanceInv'
<1>1. JournalStep
  BY NextJournal
<1>2. TypeOK /\ Acceptances /\ DoubtInv'
  BY NextDoubt DEF AcceptanceInv, DoubtInv, OwnershipInv
<1> QED
  BY <1>1, <1>2, StepChains, StepKeys, StepVerifiesStored, NextUnlinked DEF AcceptanceInv, Acceptances

LEMMA AcceptanceInvHolds == Spec => []AcceptanceInv
<1> QED
  BY InitAcceptance, NextAcceptance, PTL DEF Spec

\* One entry per key and one key per job, in the terms of OneJobPerKey.
LEMMA KeysAreCounted ==
  ASSUME KeysNameJobs
  PROVE  OneJobPerKey
<1> SUFFICES ASSUME NEW j \in Jobs
             PROVE  Cardinality({k \in Keys : dedup[k] # NoEntry /\ dedup[k].job = j})
                      = IF Stored(j) THEN 1 ELSE 0
  BY DEF OneJobPerKey
<1> DEFINE S == {k \in Keys : dedup[k] # NoEntry /\ dedup[k].job = j}
<1>1. CASE Stored(j)
  <2>1. PICK k \in Keys : dedup[k] # NoEntry /\ dedup[k].job = j
    BY <1>1 DEF KeysNameJobs
  <2>2. S = {k}
    BY <2>1 DEF KeysNameJobs
  <2>3. Cardinality({k}) = 1
    BY FS_Singleton
  <2> QED
    BY <1>1, <2>2, <2>3
<1>2. CASE ~Stored(j)
  <2>1. S = {}
    BY <1>2 DEF KeysNameJobs
  <2> QED
    BY <1>2, <2>1, FS_EmptySet
<1> QED
  BY <1>1, <1>2

\* Jobs are kept, with their plans.
LEMMA JobsAreKept ==
  ASSUME AcceptanceInv, [Next]_vars
  PROVE  \A j \in Jobs : Stored(j) => Stored(j)' /\ jobs'[j].planID = jobs[j].planID
<1>1. TypeOK /\ JournalStep
  BY NextJournal DEF AcceptanceInv, DoubtInv, OwnershipInv
<1>2. CASE UNCHANGED journal
  BY <1>2 DEF journal, Stored
<1>3. ASSUME NEW i \in Jobs, NEW row \in Row, Writes(i, row), NEW j \in Jobs, Stored(j)
      PROVE  Stored(j)' /\ jobs'[j].planID = jobs[j].planID
  BY <1>1, <1>3, UpdateEffect DEF Writes
<1>4. ASSUME NEW i \in Jobs, NEW k \in Keys, NEW q \in Request,
             Accepts(i, k, q) \/ AcceptsRecovery(i, k, q), NEW j \in Jobs, Stored(j)
      PROVE  Stored(j)' /\ jobs'[j].planID = jobs[j].planID
  <2>1. CASE Accepts(i, k, q)
    BY <1>1, <1>4, <2>1 DEF Accepts, Accept, Stored, TypeOK, JournalTypeOK
  <2>2. CASE AcceptsRecovery(i, k, q)
    <3> DEFINE c == q.parent
               new == [jobs[c] EXCEPT !.state = "partial", !.recoveryOperationID = i]
    <3>1. c \in Jobs /\ c # i /\ ~Stored(i) /\ jobs[c] \in Row
      BY <1>1, <2>2, RowOfStored DEF AcceptsRecovery, AcceptRecovery, Recoverable, TypeOK
    <3>2. new \in Row /\ new.planID = jobs[c].planID
      BY <3>1 DEF Row, JobState, Finished
    <3>3. jobs'[c] = new /\ \A m \in Jobs \ {i, c} : jobs'[m] = jobs[m]
      BY <1>1, <2>2, <3>1 DEF AcceptsRecovery, AcceptRecovery, TypeOK, JournalTypeOK
    <3> QED
      BY <1>4, <3>1, <3>2, <3>3, NullsAreNotValues DEF Stored
  <2> QED
    BY <1>4, <2>1, <2>2
<1> QED
  BY <1>1, <1>2, <1>3, <1>4 DEF JournalStep, Observes

\* Every acceptance is recorded once: recovery links agree in both directions and
\* every job is found by exactly one idempotency key, also after crashes
\* (Store.Accept, Store.AcceptRecovery, Store.Update).
THEOREM AcceptedOnce == Spec => []AcceptancesAreSingle
<1>1. AcceptanceInv => AcceptancesAreSingle
  BY KeysAreCounted DEF AcceptanceInv, Acceptances, AcceptancesAreSingle
<1> QED
  BY <1>1, AcceptanceInvHolds, PTL

-----------------------------------------------------------------------------
(* Steps that must not happen. *)

\* No step of a job is executed a second time: its goroutine is at "execute" only
\* for a step that was never begun (Engine.run, Engine.Recover).
THEOREM NoStepIsReplayed == Spec => NoReplay
<1>1. AcceptanceInv /\ [Next]_vars =>
        [\A j \in Jobs :
           At(j, "execute") /\ runner'[j].pc = "returned" => <<j, runner[j].i>> \notin begun]_vars
  <2> SUFFICES ASSUME AcceptanceInv, NEW j \in Jobs, At(j, "execute")
               PROVE  <<j, runner[j].i>> \notin begun
    OBVIOUS
  <2>1. Live(j)
    BY DEF Live, At
  <2>2. runner[j].i \in Nat /\ RunnerProgress(j)
    BY <2>1, LiveFacts DEF AcceptanceInv, DoubtInv, OwnershipInv
  <2> QED
    BY <2>2 DEF RunnerProgress, At, BegunBelow
<1> QED
  BY <1>1, AcceptanceInvHolds, PTL DEF Spec, NoReplay

\* A recorded cancellation request is never lost (Store.Update).
THEOREM CancellationsLast == Spec => CancellationIsKept
<1>1. AcceptanceInv /\ [Next]_vars =>
        [\A j \in Jobs : Stored(j) /\ jobs[j].cancelRequested => jobs'[j].cancelRequested]_vars
  <2> SUFFICES ASSUME AcceptanceInv, [Next]_vars, NEW m \in Jobs, Stored(m), jobs[m].cancelRequested
               PROVE  jobs'[m].cancelRequested
    OBVIOUS
  <2>1. TypeOK /\ JournalStep
    BY NextJournal DEF AcceptanceInv, DoubtInv, OwnershipInv
  <2>2. CASE UNCHANGED journal
    BY <2>2 DEF journal
  <2>3. ASSUME NEW j \in Jobs, NEW row \in Row, Writes(j, row)
        PROVE  jobs'[m].cancelRequested
    BY <2>1, <2>3, WriteEffect, UpdateEffect DEF Writes
  <2>4. ASSUME NEW j \in Jobs, NEW k \in Keys, NEW q \in Request, Accepts(j, k, q)
        PROVE  jobs'[m].cancelRequested
    BY <2>1, <2>4 DEF Accepts, Accept, TypeOK, JournalTypeOK
  <2>5. ASSUME NEW j \in Jobs, NEW k \in Keys, NEW q \in Request, AcceptsRecovery(j, k, q)
        PROVE  jobs'[m].cancelRequested
    <3>1. ~Stored(j) /\ \A n \in Jobs \ {j, q.parent} : jobs'[n] = jobs[n]
      BY <2>1, <2>5, StartEffect DEF AcceptsRecovery
    <3>2. jobs'[q.parent].cancelRequested = jobs[q.parent].cancelRequested
      BY <2>1, <2>5, HandOverEffect
    <3> QED
      BY <3>1, <3>2
  <2> QED
    BY <2>1, <2>2, <2>3, <2>4, <2>5 DEF JournalStep, Observes
<1> QED
  BY <1>1, AcceptanceInvHolds, PTL DEF Spec, CancellationIsKept

\* With a cancellation on record, the write that moves the step on also ends the
\* job (Engine.run, Engine.Cancel).
THEOREM CancellationEnds == Spec => CancellationStopsSteps
<1>1. AcceptanceInv /\ [Next]_vars =>
        [\A j \in Jobs :
           Stored(j) /\ jobs[j].cancelRequested /\ jobs'[j].step # jobs[j].step =>
             Terminal(jobs'[j].state)]_vars
  <2> SUFFICES ASSUME AcceptanceInv, [Next]_vars, NEW m \in Jobs,
                      Stored(m), jobs[m].cancelRequested, jobs'[m].step # jobs[m].step
               PROVE  Terminal(jobs'[m].state)
    OBVIOUS
  <2>1. TypeOK /\ JournalStep
    BY NextJournal DEF AcceptanceInv, DoubtInv, OwnershipInv
  <2>2. CASE UNCHANGED journal
    BY <2>2 DEF journal
  <2>3. ASSUME NEW j \in Jobs, NEW row \in Row, Writes(j, row)
        PROVE  Terminal(jobs'[m].state)
    <3>1. jobs'[j].step = row.step /\ jobs'[j].state = row.state
      BY <2>1, <2>3, WriteEffect, UpdateEffect DEF Writes
    <3>2. m = j
      BY <2>1, <2>3, UpdateEffect DEF Writes
    <3> QED
      BY <2>3, <3>1, <3>2 DEF Writes
  <2>4. ASSUME NEW j \in Jobs, NEW k \in Keys, NEW q \in Request, Accepts(j, k, q)
        PROVE  FALSE
    BY <2>1, <2>4 DEF Accepts, Accept, TypeOK, JournalTypeOK
  <2>5. ASSUME NEW j \in Jobs, NEW k \in Keys, NEW q \in Request, AcceptsRecovery(j, k, q)
        PROVE  FALSE
    <3>1. /\ ~Stored(j) /\ \A n \in Jobs \ {j, q.parent} : jobs'[n] = jobs[n]
          /\ jobs'[q.parent].step = jobs[q.parent].step
      BY <2>1, <2>5, StartEffect DEF AcceptsRecovery
    <3> QED
      BY <3>1
  <2> QED
    BY <2>1, <2>2, <2>3, <2>4, <2>5 DEF JournalStep, Observes
<1> QED
  BY <1>1, AcceptanceInvHolds, PTL DEF Spec, CancellationStopsSteps

-----------------------------------------------------------------------------
(* The engine implements Lease. *)

InDoubtJob(j) == Stored(j) /\ jobs[j].state # "partial" /\ InDoubt(j)

LEMMA InDoubtResources == ResourcesInDoubt = UNION {Resource(j) : j \in {k \in Jobs : InDoubtJob(k)}}
BY DEF ResourcesInDoubt, InDoubtJob

\* What a job in doubt leases is what its plan names.
LEMMA LeaseOfHolder ==
  ASSUME TypeOK, LocksServeUnfinishedJobs, NEW j \in Jobs, Stored(j), Holds(j)
  PROVE  L!Leased(j) = Resource(j)
<1>1. Resource(j) \subseteq Resources
  BY PlansAreComplete, RowOfStored DEF TypeOK, Resource, Row
<1>2. \A r \in Resources : locks[r] = j => r \in Resource(j)
  BY NullsAreNotValues DEF LocksServeUnfinishedJobs
<1> QED
  BY <1>1, <1>2 DEF L!Leased, Holds

\* A resource in doubt is locked by the one job whose effect it may have.
LEMMA DoubtNamesHolder ==
  ASSUME TypeOK, Progress, NEW r \in ResourcesInDoubt
  PROVE  \E j \in Jobs : InDoubtJob(j) /\ r \in Resource(j) /\ locks[r] = j
<1>1. PICK j \in Jobs : InDoubtJob(j) /\ r \in Resource(j)
  BY InDoubtResources
<1>2. Holds(j)
  BY <1>1 DEF InDoubtJob, Progress, DoubtKeepsLocks
<1> QED
  BY <1>1, <1>2 DEF Holds

\* The doubts of one job may come or go while the journal stays: Begin or Settle.
LEMMA ObservationIsLease ==
  ASSUME DoubtInv, DoubtInv', NEW j \in Jobs, Observes(j)
  PROVE  [L!Next]_(L!vars)
<1>1. /\ TypeOK /\ Progress /\ LocksServeUnfinishedJobs
      /\ DoubtKeepsLocks /\ DoubtKeepsLocks'
  BY DEF DoubtInv, OwnershipInv, Ownership, Progress
<1>2. /\ locks' = locks
      /\ \A m \in Jobs : /\ jobs'[m] = jobs[m] /\ Stored(m)' = Stored(m) /\ Holds(m)' = Holds(m)
                         /\ Resource(m)' = Resource(m) /\ LastStep(m)' = LastStep(m)
  BY DEF Observes, journal, Stored, Holds, Resource, LastStep
<1>3. \A m \in Jobs : m # j => (InDoubtJob(m)' <=> InDoubtJob(m))
  <2> SUFFICES ASSUME NEW m \in Jobs, m # j, Stored(m)
               PROVE  InDoubt(m)' <=> InDoubt(m)
    BY <1>2 DEF InDoubtJob
  <2>1. LastStep(m) \in Nat
    BY <1>1, LastStepIsNat
  <2>2. \A i \in 0..LastStep(m) : i \in Nat
    BY <2>1
  <2> QED
    BY <1>2, <2>2 DEF InDoubt, Observes
<1>4. Stored(j)
  BY DEF Observes
<1> DEFINE Others == UNION {Resource(m) : m \in {n \in Jobs \ {j} : InDoubtJob(n)}}
<1>5. /\ ResourcesInDoubt = Others \cup (IF InDoubtJob(j) THEN Resource(j) ELSE {})
      /\ ResourcesInDoubt' = Others \cup (IF InDoubtJob(j)' THEN Resource(j) ELSE {})
  <2>1. ResourcesInDoubt = Others \cup (IF InDoubtJob(j) THEN Resource(j) ELSE {})
    BY InDoubtResources
  <2>2. ResourcesInDoubt' = UNION {Resource(m)' : m \in {n \in Jobs : InDoubtJob(n)'}}
    BY DEF ResourcesInDoubt, InDoubtJob
  <2> QED
    BY <1>2, <1>3, <2>1, <2>2
<1>6. CASE InDoubtJob(j)'
  <2>1. Holds(j)
    BY <1>1, <1>2, <1>6 DEF InDoubtJob, DoubtKeepsLocks
  <2>2. L!Leased(j) = Resource(j)
    BY <1>1, <1>4, <2>1, LeaseOfHolder
  <2>3. ResourcesInDoubt' = ResourcesInDoubt \cup Resource(j)
    BY <1>5, <1>6
  <2> QED
    BY <1>2, <2>2, <2>3 DEF L!Next, L!Begin
<1>7. CASE ~InDoubtJob(j)' /\ InDoubtJob(j)
  <2>1. Holds(j)
    BY <1>1, <1>7 DEF InDoubtJob, DoubtKeepsLocks
  <2>2. L!Leased(j) = Resource(j)
    BY <1>1, <1>4, <2>1, LeaseOfHolder
  <2>3. Others \cap Resource(j) = {}
    BY <1>1, <2>1 DEF InDoubtJob, DoubtKeepsLocks, Holds
  <2>4. ResourcesInDoubt' = ResourcesInDoubt \ Resource(j)
    BY <1>5, <1>7, <2>3
  <2> QED
    BY <1>2, <2>2, <2>4 DEF L!Next, L!Settle
<1>8. CASE ~InDoubtJob(j)' /\ ~InDoubtJob(j)
  BY <1>2, <1>5, <1>8 DEF L!vars
<1> QED
  BY <1>6, <1>7, <1>8

\* A write leaves every doubt as it is; if it ends the job, its lease goes too.
LEMMA WriteIsLease ==
  ASSUME DoubtInv, DoubtInv', NEW j \in Jobs, NEW row \in Row, Writes(j, row)
  PROVE  [L!Next]_(L!vars)
<1>1. /\ TypeOK /\ Progress /\ LocksServeUnfinishedJobs
      /\ DoubtKeepsLocks' /\ LocksServeUnfinishedJobs' /\ TypeOK'
  BY DEF DoubtInv, OwnershipInv, Ownership, Progress
<1>2. /\ Stored(j) /\ jobs'[j].state = row.state /\ jobs'[j].planID = jobs[j].planID
      /\ \A m \in Jobs : m # j => jobs'[m] = jobs[m]
      /\ \A m \in Jobs : Stored(m)' <=> Stored(m)
      /\ \A m \in Jobs : Stored(m) => Resource(m)' = Resource(m)
      /\ \A r \in Resources :
           locks'[r] = IF locks[r] = j /\ row.state \in Finished THEN NoJob ELSE locks[r]
  BY <1>1, UpdateEffect DEF Writes
<1>3. jobs'[j].recoveryOf = jobs[j].recoveryOf
  BY <1>1, WriteEffect
<1>4. \A m \in Jobs : InDoubtJob(m)' <=> InDoubtJob(m)
  <2> SUFFICES ASSUME NEW m \in Jobs
               PROVE  InDoubtJob(m)' <=> InDoubtJob(m)
    OBVIOUS
  <2>1. InDoubt(m)' <=> InDoubt(m)
    BY <1>2, <1>3, SameDoubt DEF Writes
  <2>2. m = j => jobs[m].state # "partial" /\ jobs'[m].state # "partial"
    BY <1>2 DEF Writes
  <2> QED
    BY <1>2, <2>1, <2>2 DEF InDoubtJob
<1>5. ResourcesInDoubt' = ResourcesInDoubt
  <2>1. ResourcesInDoubt' = UNION {Resource(m)' : m \in {n \in Jobs : InDoubtJob(n)'}}
    BY DEF ResourcesInDoubt, InDoubtJob
  <2>2. \A m \in Jobs : InDoubtJob(m) => Resource(m)' = Resource(m)
    BY <1>2 DEF InDoubtJob
  <2> QED
    BY <1>4, <2>1, <2>2, InDoubtResources
<1>6. CASE row.state \notin Finished
  <2>1. locks' = locks
    BY <1>1, <1>2, <1>6 DEF TypeOK, JournalTypeOK
  <2> QED
    BY <1>5, <2>1 DEF L!vars
<1>7. CASE row.state \in Finished
  <2>1. L!Leased(j) \cap ResourcesInDoubt = {}
    <3> SUFFICES ASSUME NEW r \in ResourcesInDoubt, locks[r] = j, r \in Resources
                 PROVE  FALSE
      BY DEF L!Leased
    <3>1. InDoubtJob(j) /\ r \in Resource(j)
      BY <1>1, DoubtNamesHolder
    <3>2. Holds(j)' /\ r \in Resource(j)'
      BY <1>1, <1>2, <1>4, <3>1 DEF InDoubtJob, DoubtKeepsLocks
    <3> QED
      BY <1>2, <1>7, <3>2, NullsAreNotValues DEF Holds
  <2>2. locks' = [r \in Resources |-> IF r \in L!Leased(j) THEN NoJob ELSE locks[r]]
    BY <1>1, <1>2, <1>7 DEF L!Leased, TypeOK, JournalTypeOK
  <2> QED
    BY <1>5, <2>1, <2>2 DEF L!Next, L!Release, L!Give
<1> QED
  BY <1>6, <1>7

\* An acceptance takes the lease: from nobody, or the whole of it from its parent.
LEMMA AcceptanceIsLease ==
  ASSUME DoubtInv, NothingUnstoredVerified, NEW j \in Jobs, NEW k \in Keys, NEW q \in Request,
         NEW c \in Jobs \cup {NoJob},
         \/ Accepts(j, k, q) /\ c = NoJob
         \/ AcceptsRecovery(j, k, q) /\ c = q.parent /\ c \in Jobs
  PROVE  [L!Next]_(L!vars)
<1> DEFINE S == ResourceIDs[q.planID]
<1>1. /\ TypeOK /\ Progress /\ LocksServeUnfinishedJobs /\ RowsProgress
  BY DEF DoubtInv, OwnershipInv, Ownership, Progress
<1>2. /\ ~Stored(j) /\ jobs'[j] = NewRow(q.planID, c)
      /\ \A m \in Jobs \ {j, c} : jobs'[m] = jobs[m]
      /\ c \in Jobs =>
           /\ c # j /\ Stored(c) /\ jobs[c].state \in Unresolved
           /\ jobs'[c].state = "partial" /\ jobs'[c].planID = jobs[c].planID
      /\ \A m \in Jobs : Stored(m)' <=> Stored(m) \/ m = j
  BY <1>1, StartEffect DEF Accepts, AcceptsRecovery
<1>3. /\ jobs'[j].planID = q.planID /\ jobs'[j].state = "queued" /\ jobs'[j].recoveryOf = c
      /\ S \subseteq Resources /\ UNCHANGED observed /\ Steps[q.planID] - 1 \in Nat
  BY <1>2, PlansAreComplete DEF NewRow, Request, Accepts, AcceptsRecovery
<1>4. locks' = [r \in Resources |-> IF r \in S THEN j ELSE locks[r]]
  BY DEF Accepts, AcceptsRecovery, Accept, AcceptRecovery
<1>5. L!Leased(j) = {}
  BY <1>1, <1>2, NullsAreNotValues DEF L!Leased, LocksServeUnfinishedJobs
<1>6. \A m \in Jobs : m # j => /\ m # c => (InDoubtJob(m)' <=> InDoubtJob(m))
                               /\ Stored(m) => Resource(m)' = Resource(m)
  <2> SUFFICES ASSUME NEW m \in Jobs, m # j
               PROVE  /\ m # c => (InDoubtJob(m)' <=> InDoubtJob(m))
                      /\ Stored(m) => Resource(m)' = Resource(m)
    OBVIOUS
  <2>1. m # c => (InDoubt(m)' <=> InDoubt(m))
    BY <1>2, <1>3, SameDoubt
  <2> QED
    BY <1>2, <2>1 DEF InDoubtJob, Resource
<1>7. Resource(j)' = S
  BY <1>3 DEF Resource
<1>8. ResourcesInDoubt' = UNION {Resource(m)' : m \in {n \in Jobs : InDoubtJob(n)'}}
  BY DEF ResourcesInDoubt, InDoubtJob
<1>9. ~InDoubtJob(j)
  BY <1>2 DEF InDoubtJob
<1>10. CASE c = NoJob
  <2>1. ~InDoubtJob(j)'
    <3>1. \A i \in 0..LastStep(j)' : <<j, i>> \notin begun
      BY <1>1, <1>2, <1>3 DEF RowsProgress, BegunBelow, LastStep
    <3> QED
      BY <1>3, <1>10, <3>1 DEF InDoubtJob, InDoubt, observed
  <2>2. ResourcesInDoubt' = ResourcesInDoubt
    <3>1. \A m \in Jobs : InDoubtJob(m)' <=> InDoubtJob(m)
      BY <1>6, <1>9, <1>10, <2>1, NullsAreNotValues
    <3>2. \A m \in Jobs : InDoubtJob(m) => Resource(m)' = Resource(m)
      BY <1>6, <1>9 DEF InDoubtJob
    <3> QED
      BY <1>8, <3>1, <3>2, InDoubtResources
  <2>3. S \subseteq L!Free
    <3>1. Accept(j, k, q)
      BY <1>10, NullsAreNotValues DEF Accepts
    <3> QED
      BY <1>3, <3>1 DEF Accept, L!Free, L!Leased
  <2> QED
    BY <1>3, <1>4, <1>5, <2>2, <2>3 DEF L!Next, L!Acquire, L!Give
<1>11. CASE c \in Jobs
  <2>1. /\ c # j /\ Resource(c) \subseteq S /\ L!Leased(c) \subseteq S
        /\ S \subseteq L!Leased(c) \cup L!Free
    BY <1>3, <1>11, NullsAreNotValues
       DEF Accepts, AcceptsRecovery, AcceptRecovery, Recoverable, Held, L!Leased, L!Free
  <2>2. InDoubtJob(j)'
    <3>1. LastStep(j)' \in Nat
      BY <1>3 DEF LastStep
    <3>2. 0 \in 0..LastStep(j)' /\ <<j, 0>> \notin verified'
      BY <1>2, <1>3, <3>1 DEF NothingUnstoredVerified, observed
    <3> QED
      BY <1>2, <1>3, <1>11, <3>2, NullsAreNotValues DEF InDoubtJob, InDoubt
  <2>3. ~InDoubtJob(c)'
    BY <1>2, <1>11 DEF InDoubtJob
  <2>4. InDoubtJob(c) => Resource(c) \subseteq S
    BY <2>1
  <2>5. \A m \in Jobs : m # j /\ m # c /\ InDoubtJob(m) => Resource(m)' = Resource(m)
    BY <1>6 DEF InDoubtJob
  <2>6. ResourcesInDoubt' = ResourcesInDoubt \cup S
    <3>1. ASSUME NEW r \in ResourcesInDoubt'
          PROVE  r \in ResourcesInDoubt \cup S
      <4>1. PICK m \in Jobs : InDoubtJob(m)' /\ r \in Resource(m)'
        BY <1>8, <3>1
      <4>2. CASE m = j
        BY <1>7, <4>1, <4>2
      <4>3. CASE m # j
        <5>1. m # c /\ InDoubtJob(m) /\ r \in Resource(m)
          BY <1>6, <2>3, <2>5, <4>1, <4>3
        <5> QED
          BY <5>1, InDoubtResources
      <4> QED
        BY <4>2, <4>3
    <3>2. ASSUME NEW r \in ResourcesInDoubt
          PROVE  r \in ResourcesInDoubt'
      <4>1. PICK m \in Jobs : InDoubtJob(m) /\ r \in Resource(m)
        BY InDoubtResources, <3>2
      <4>2. CASE m = c
        BY <1>7, <1>8, <2>1, <2>2, <4>1, <4>2
      <4>3. CASE m # c
        <5>1. m # j /\ InDoubtJob(m)' /\ r \in Resource(m)'
          BY <1>6, <1>9, <2>5, <4>1, <4>3
        <5> QED
          BY <1>8, <5>1
      <4> QED
        BY <4>2, <4>3
    <3>3. S \subseteq ResourcesInDoubt'
      BY <1>7, <1>8, <2>2
    <3> QED
      BY <3>1, <3>2, <3>3
  <2> QED
    BY <1>3, <1>4, <1>5, <1>11, <2>1, <2>6 DEF L!Next, L!HandOver, L!Give
<1> QED
  BY <1>10, <1>11

LEMMA StepIsLease ==
  ASSUME AcceptanceInv, [Next]_vars
  PROVE  [L!Next]_(L!vars)
<1>1. JournalStep /\ DoubtInv /\ DoubtInv' /\ NothingUnstoredVerified
  BY NextJournal, NextDoubt DEF AcceptanceInv, Acceptances
<1>2. CASE UNCHANGED <<journal, observed>>
  <2>1. locks' = locks /\ ResourcesInDoubt' = ResourcesInDoubt
    BY <1>2 DEF journal, observed, ResourcesInDoubt, Stored, Resource, InDoubt, LastStep
  <2> QED
    BY <2>1 DEF L!vars
<1>3. ASSUME NEW j \in Jobs, NEW k \in Keys, NEW q \in Request, Accepts(j, k, q)
      PROVE  [L!Next]_(L!vars)
  BY <1>1, <1>3, AcceptanceIsLease
<1>4. ASSUME NEW j \in Jobs, NEW k \in Keys, NEW q \in Request, AcceptsRecovery(j, k, q)
      PROVE  [L!Next]_(L!vars)
  BY <1>1, <1>4, AcceptanceIsLease DEF AcceptsRecovery
<1> QED
  BY <1>1, <1>2, <1>3, <1>4, ObservationIsLease, WriteIsLease DEF JournalStep

\* The engine is a lease: whatever goroutines, requests, crashes and failed writes
\* do, resources are leased whole before any effect, kept while one is in doubt, and
\* change hands only to a recovery (Engine.run, Store.Accept, .AcceptRecovery, .Update).
THEOREM EngineIsLease == Spec => ImplementsLease
<1>1. Init => L!Init
  BY DEF Init, JournalInit, L!Init, ResourcesInDoubt, Stored
<1>2. AcceptanceInv /\ [Next]_vars => [L!Next]_(L!vars)
  BY StepIsLease
<1> QED
  BY <1>1, <1>2, AcceptanceInvHolds, PTL DEF Spec, ImplementsLease, L!Spec

LEMMA DoubtsAreLeased ==
  ASSUME DoubtInv
  PROVE  L!DoubtIsLeased
<1>1. /\ TypeOK /\ Progress
  BY DEF DoubtInv, OwnershipInv
<1>2. ASSUME NEW r \in ResourcesInDoubt
      PROVE  \E j \in Jobs : r \in L!Leased(j)
  <2>1. PICK j \in Jobs : InDoubtJob(j) /\ r \in Resource(j) /\ locks[r] = j
    BY <1>1, DoubtNamesHolder
  <2>2. r \in Resources
    BY <1>1, <2>1, PlansAreComplete, RowOfStored DEF InDoubtJob, TypeOK, Resource, Row
  <2> QED
    BY <2>1, <2>2 DEF L!Leased
<1> QED
  BY <1>2 DEF L!DoubtIsLeased

\* So a resource with an effect in doubt is never free, and it changes hands only to
\* one recovery that takes all its parent leases with it (Store.AcceptRecovery).
THEOREM DoubtMovesOnlyWhole == Spec => []L!DoubtIsLeased /\ L!DoubtMovesWhole
<1>1. AcceptanceInv => L!DoubtIsLeased
  BY DoubtsAreLeased DEF AcceptanceInv
<1>2. AcceptanceInv /\ [Next]_vars => [L!MovesWhole]_(L!vars)
  <2> SUFFICES ASSUME AcceptanceInv, [Next]_vars, NEW r \in ResourcesInDoubt, locks'[r] # locks[r]
               PROVE  locks'[r] # NoJob /\ \A q \in L!Leased(locks[r]) : locks'[q] = locks'[r]
    BY DEF L!MovesWhole
  <2>1. PICK o \in Jobs : r \in L!Leased(o)
    BY <1>1 DEF L!DoubtIsLeased
  <2>2. /\ r \in Resources /\ locks[r] = o /\ o # NoJob
    BY <2>1, NullsAreNotValues DEF L!Leased
  <2>3. L!Next
    BY StepIsLease DEF L!vars
  <2>4. PICK c \in Jobs, p \in Jobs, S \in SUBSET Resources : L!HandOver(p, c, S)
    BY <2>2, <2>3 DEF L!Next, L!Begin, L!Settle, L!Release, L!Acquire, L!Give, L!Free, L!Leased
  <2>5. p = o /\ r \in S
    BY <2>2, <2>4 DEF L!HandOver, L!Give, L!Free, L!Leased
  <2> QED
    BY <2>2, <2>4, <2>5, NullsAreNotValues DEF L!HandOver, L!Give, L!Leased
<1> QED
  BY <1>1, <1>2, AcceptanceInvHolds, PTL DEF Spec, L!DoubtMovesWhole

=============================================================================
