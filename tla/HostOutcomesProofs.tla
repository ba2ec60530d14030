-------------------------- MODULE HostOutcomesProofs --------------------------
(***************************************************************************)
(* Why what the coordinator reports is true of the host.  What Reconcile   *)
(* saw complete stays so while the job has its locks, and a job that ends  *)
(* without effect has either executed nothing, or its handler says that    *)
(* nothing was done and looks at the host before it says so.               *)
(***************************************************************************)
EXTENDS HostProofs

-----------------------------------------------------------------------------
(* The engine: why an outcome is written.                                    *)

\* The engine is about to write that j has succeeded.
Assured(j) == At(j, "finish") \/ (~MutexFree /\ request.op = "settle" /\ request.job = j)

\* What Execute returns when nothing was done.
Harmless == {"canceled-safely", "not-done"}

\* Execute of j is about to say, or has said, that nothing was done.
Declines(j) ==
  \/ At(j, "execute") /\ work[j].at \in Harmless
  \/ At(j, "returned") /\ runner[j].outcome \in Harmless

\* No step of j was begun.
Untried(j) == ~Stored(j) \/ ((At(j, "boundary") \/ At(j, "validate")) /\ runner[j].i = 0)

\* The runner of j may stop before its next step and leave no locks behind.
EndsEarly(j) == (At(j, "boundary") \/ At(j, "validate")) /\ ~KeepsLocks(j)

LEMMA EngineFacts ==
  ASSUME HandlersInv
  PROVE  /\ TypeOK /\ RunnersHold /\ RequestIsCurrent /\ Ownership /\ Progress /\ AcceptanceInv /\ WorkShape
         /\ jobs \in [Jobs -> Row \cup {NoRow}] /\ runner \in [Jobs -> RunnerState \cup {Idle}]
         /\ locks \in [Resources -> Jobs \cup {NoJob}]
BY DEF HandlersInv, AcceptanceInv, DoubtInv, OwnershipInv, Ownership, TypeOK, JournalTypeOK

\* What is stored stays, under its plan and with its review, and keeps or loses its locks.
LEMMA StoredStays ==
  ASSUME HandlersInv, HostNext, NEW j \in Jobs, Stored(j)
  PROVE  /\ Stored(j)' /\ jobs'[j].planID = jobs[j].planID
         /\ jobs[j].planID \in Plans /\ Planned(jobs[j].planID) /\ Planned(jobs[j].planID)'
         /\ review'[jobs[j].planID] = review[jobs[j].planID]
<1>1. [Next]_vars /\ AcceptanceInv /\ WorkShape
  BY StepImplements DEF HandlersInv
<1>2. /\ Stored(j)' /\ jobs'[j].planID = jobs[j].planID
      /\ jobs[j].planID \in Plans /\ Planned(jobs[j].planID)
  BY <1>1, JobsAreKept, ReviewOfStored
<1>3. review'[jobs[j].planID] = review[jobs[j].planID]
  BY <1>1, <1>2, ReviewsAreKept
<1> QED
  BY <1>2, <1>3 DEF Planned

\* A step of the host is one of the engine, or the engine stands, or the power is lost.
LEMMA HostCases ==
  ASSUME HostNext
  PROVE  \/ /\ EngineMoves
            /\ UNCHANGED <<networks, accesses, recipes, call, captures, imports, machines, pools, configurations>>
         \/ UNCHANGED vars
         \/ PowerLoss
BY WorkFrame, PlansFrame, ChangesFrame DEF HostNext, EngineMoves, KeepsEngine

LEMMA UnchangedEngine ==
  ASSUME UNCHANGED vars, NEW j \in Jobs
  PROVE  /\ Stored(j)' <=> Stored(j)
         /\ Live(j)' <=> Live(j)
         /\ Holds(j)' <=> Holds(j)
         /\ Assured(j)' <=> Assured(j)
         /\ Untried(j)' <=> Untried(j)
         /\ \A pc : At(j, pc)' <=> At(j, pc)
         /\ runner' = runner /\ jobs' = jobs
BY DEF vars, volatile, journal, Stored, Live, Holds, Resource, Assured, Untried, At, MutexFree

\* What has not been tried was not tried before, and nobody works on it or looks for it.
LEMMA UntriedWas ==
  ASSUME HandlersInv, HostNext, NEW j \in Jobs, Untried(j)'
  PROVE  Untried(j) /\ ~At(j, "execute") /\ ~Reconciling(j)
<1>1. Stored(j) => Stored(j)'
  BY StoredStays
<1>2. Untried(j)
  <2>1. CASE ~Stored(j)
    BY <2>1 DEF Untried
  <2>2. CASE Stored(j)
    <3>1. (At(j, "boundary") \/ At(j, "validate"))' /\ runner'[j].i = 0
      BY <1>1, <2>2 DEF Untried
    <3>2. CASE EngineMoves
      <4>1. RunnerSteps(j)
        BY <3>2, EngineRuns
      <4>2. \A n : Live(j) /\ n = runner[j].i => n \in Nat
        BY EngineFacts, RunnerOfLive DEF RunnerState
      <4> QED
        BY <2>2, <3>1, <4>1, <4>2 DEF RunnerSteps, Untried, At, Live, Idle
    <3>3. CASE UNCHANGED vars
      BY <3>3, UnchangedEngine
    <3>4. CASE PowerLoss
      BY <3>1, <3>4 DEF PowerLoss, Crash, At, Idle
    <3> QED
      BY <3>2, <3>3, <3>4, HostCases
  <2> QED
    BY <2>1, <2>2
<1>3. RequestIsCurrent /\ RunnersHold
  BY EngineFacts
<1> QED
  BY <1>2, <1>3 DEF Untried, Reconciling, RequestIsCurrent, RunnersHold, At, Live, Active

\* A job has the locks it has since it was stored.
LEMMA HeldBefore ==
  ASSUME HandlersInv, HostNext, NEW j \in Jobs, Stored(j), Holds(j)'
  PROVE  Holds(j)
<1>1. jobs'[j].planID = jobs[j].planID
  BY StoredStays
<1> SUFFICES ASSUME NEW r \in Resource(j)
             PROVE  locks[r] = j
  BY DEF Holds
<1>2. locks'[r] = j /\ r \in Resources
  BY <1>1, StoredStays, PlansAreComplete DEF Holds, Resource
<1>3. CASE UNCHANGED vars
  BY <1>2, <1>3 DEF vars, journal
<1>4. CASE PowerLoss
  BY <1>2, <1>4 DEF PowerLoss, Crash, journal
<1>5. CASE EngineMoves
  <2>1. CASE UNCHANGED locks
    BY <1>2, <2>1
  <2>2. ASSUME NEW i, NEW row, Update(i, row)
        PROVE  locks[r] = j
    BY <1>2, <2>2, NullsAreNotValues DEF Update
  <2>3. ASSUME NEW i, NEW k, NEW q, Accept(i, k, q) \/ AcceptRecovery(i, k, q)
        PROVE  locks[r] = j
    BY <1>2, <2>3 DEF Accept, AcceptRecovery, Stored
  <2>4. ASSUME NEW i \in Jobs, EngineSteps(i, HostValid, HostDone)
        PROVE  locks[r] = j
    <3>1. CASE Applied(i, HostValid)
      BY <2>3, <3>1 DEF Applied, Apply, ApplyRecovery
    <3>2. CASE ~Applied(i, HostValid)
      <4>1. UNCHANGED locks \/ \E m, row : Update(m, row)
        BY <2>4, <3>2 DEF EngineSteps, Boundary, ValidateFails, RecordIntent, ExecuteFailed, StartVerifying,
           StepVerified, StepNotVerified, Finish, CancelRead, ReconcileRead, Recover, Return, Continue, journal
      <4> QED
        BY <2>1, <2>2, <4>1
    <3> QED
      BY <3>1, <3>2
  <2>5. ASSUME ProcessSteps(HostDone)
        PROVE  locks[r] = j
    <3>1. UNCHANGED locks \/ \E m, row : Update(m, row)
      BY <2>5 DEF ProcessSteps, CancelWrite, ReconcileObserve, ReconcileSettle, RequestFails, Open, Serve, Crash, journal
    <3> QED
      BY <2>1, <2>2, <3>1
  <2>6. ASSUME NEW i \in Jobs, HostWorkFails(i) \/ ExecuteReturns(i)
        PROVE  locks[r] = j
    BY <2>1, <2>6 DEF HostWorkFails, KeepsEngine, ExecuteReturns, Execute, vars, journal
  <2> QED
    BY <1>5, <2>4, <2>5, <2>6 DEF EngineMoves
<1> QED
  BY <1>3, <1>4, <1>5, HostCases

\* A goroutine that goes on, or returns, is alone to move.
LEMMA ReturnEnds ==
  ASSUME TypeOK, NEW j \in Jobs, NEW row, Return(j, row)
  PROVE  /\ ~At(j, "finish")' /\ ~At(j, "returned")'
         /\ \A m \in Jobs : m # j => runner'[m] = runner[m]
BY DEF Return, At, Idle, TypeOK

LEMMA ContinueGoes ==
  ASSUME TypeOK, NEW j \in Jobs, NEW row, NEW pc, Continue(j, row, pc), pc \notin {"finish", "returned"}
  PROVE  /\ ~At(j, "finish")' /\ ~At(j, "returned")'
         /\ \A m \in Jobs : m # j => runner'[m] = runner[m]
BY DEF Continue, At, TypeOK

\* All steps of a goroutine but the end of Execute and the confirmation of its step.
LEMMA OthersStand ==
  ASSUME TypeOK, NEW j \in Jobs,
         Boundary(j) \/ ValidateFails(j) \/ RecordIntent(j) \/ ExecuteFailed(j) \/ StartVerifying(j)
         \/ StepNotVerified(j) \/ Finish(j)
  PROVE  /\ ~At(j, "finish")' /\ ~At(j, "returned")' /\ UNCHANGED request
         /\ \A m \in Jobs : m # j => runner'[m] = runner[m]
<1>1. CASE Boundary(j)
  BY <1>1, ReturnEnds, ContinueGoes DEF Boundary
<1>2. CASE ValidateFails(j) \/ RecordIntent(j)
  BY <1>2, ReturnEnds, ContinueGoes DEF ValidateFails, RecordIntent
<1>3. CASE ExecuteFailed(j) \/ StartVerifying(j)
  BY <1>3, ReturnEnds, ContinueGoes DEF ExecuteFailed, StartVerifying
<1>4. CASE StepNotVerified(j) \/ Finish(j)
  BY <1>4, ReturnEnds DEF StepNotVerified, Finish
<1> QED
  BY <1>1, <1>2, <1>3, <1>4

\* A step of the engine that may change who is assured of what.
LEMMA AssuredComes ==
  ASSUME HandlersInv, EngineMoves, NEW j \in Jobs, Assured(j)'
  PROVE  Stored(j) /\ (Assured(j) \/ HostDone(jobs[j].planID, LastStep(j), j))
<1>1. /\ TypeOK /\ RunnersHold /\ RequestIsCurrent
      /\ runner \in [Jobs -> RunnerState \cup {Idle}]
  BY EngineFacts
<1>2. Assured(j) => Stored(j)
  BY <1>1 DEF Assured, RunnersHold, RequestIsCurrent, At, Live
<1>3. ASSUME NEW i \in Jobs, ExecuteReturns(i)
      PROVE  Assured(j)
  BY <1>1, <1>3 DEF ExecuteReturns, Execute, Assured, At, MutexFree
<1>4. ASSUME NEW i \in Jobs, EngineSteps(i, HostValid, HostDone)
      PROVE  Assured(j) \/ (Stored(j) /\ HostDone(jobs[j].planID, LastStep(j), j))
  <2>1. CASE Applied(i, HostValid)
    <3>1. (\E row : Start(i, row)) /\ UNCHANGED request
      BY <2>1 DEF Applied, Apply, ApplyRecovery
    <3> QED
      BY <1>1, <3>1 DEF Start, Assured, At, MutexFree, Idle
  <2>2. CASE \/ Boundary(i) \/ ValidateFails(i) \/ RecordIntent(i) \/ ExecuteFailed(i) \/ StartVerifying(i)
             \/ StepNotVerified(i) \/ Finish(i)
    <3>1. /\ ~At(i, "finish")' /\ UNCHANGED request
          /\ \A m \in Jobs : m # i => runner'[m] = runner[m]
      BY <1>1, <2>2, OthersStand
    <3> QED
      BY <3>1 DEF Assured, At, MutexFree
  <2>5. CASE At(i, "reconcile") /\ HostDone(PlanOf(i), runner[i].i, i) /\ StepVerified(i)
    <3>1. CASE i = j
      <4>1. Stored(j) /\ PlanOf(j) = jobs[j].planID
        BY <1>1, <2>5, <3>1 DEF RunnersHold, At, Live, PlanOf
      <4>2. runner[j].i = LastStep(j) \/ Assured(j)
        BY <1>1, <2>5, <3>1 DEF StepVerified, Assured, At, MutexFree, TypeOK
      <4> QED
        BY <2>5, <3>1, <4>1, <4>2
    <3>2. CASE i # j
      BY <1>1, <2>5, <3>2 DEF StepVerified, Assured, At, MutexFree
    <3> QED
      BY <3>1, <3>2
  <2>6. CASE CancelRead(i) \/ ReconcileRead(i) \/ Recover(i)
    BY <1>1, <2>6 DEF CancelRead, ReconcileRead, Recover, volatile, Assured, At, MutexFree
  <2> QED
    BY <1>4, <2>1, <2>2, <2>5, <2>6 DEF EngineSteps
<1>5. CASE ProcessSteps(HostDone)
  <2>1. CASE CancelWrite \/ ReconcileSettle \/ RequestFails
    BY <1>2, <2>1 DEF CancelWrite, ReconcileSettle, RequestFails, Assured, At, MutexFree
  <2>2. CASE Open \/ Serve
    BY <1>2, <2>2 DEF Open, Serve, volatile, Assured, At, MutexFree
  <2>3. CASE ~MutexFree /\ HostDone(request.row.planID, request.row.step, request.job) /\ ReconcileObserve
    <3>1. request.row.planID = jobs[request.job].planID /\ Stored(request.job)
      BY <1>1, <2>3 DEF RequestIsCurrent
    <3>2. CASE At(j, "finish")'
      BY <2>3, <3>2, <1>2 DEF ReconcileObserve, Assured, At
    <3>3. CASE ~At(j, "finish")'
      <4>1. request'.job = j /\ ~MutexFree'
        BY <3>3 DEF Assured
      <4>2. request'.job = request.job
        BY <1>1, <2>3, <4>1 DEF ReconcileObserve, MutexFree, TypeOK
      <4>3. request.row.step = LastStep(j)
        BY <2>3, <4>1, <4>2 DEF ReconcileObserve, MutexFree
      <4> QED
        BY <2>3, <3>1, <4>1, <4>2, <4>3
    <3> QED
      BY <3>2, <3>3
  <2>4. CASE Crash
    BY <1>1, <2>4 DEF Crash, Assured, At, MutexFree, Idle
  <2> QED
    BY <1>2, <1>5, <2>1, <2>2, <2>3, <2>4 DEF ProcessSteps
<1>6. ASSUME NEW i \in Jobs, HostWorkFails(i)
      PROVE  Assured(j)
  BY <1>6 DEF HostWorkFails, KeepsEngine, vars, volatile, Assured, At, MutexFree
<1> QED
  BY <1>2, <1>3, <1>4, <1>5, <1>6 DEF EngineMoves

\* Whoever changes the state of a row to an outcome has reason to.
LEMMA OutcomesHaveReason ==
  ASSUME HandlersInv, EngineMoves, NEW j \in Jobs, Stored(j), jobs'[j].state # jobs[j].state
  PROVE  /\ jobs'[j].state = "succeeded" => Assured(j)
         /\ jobs'[j].state \in {"failed", "canceled"} => EndsEarly(j) \/ Declines(j)
<1>1. /\ TypeOK /\ RunnersHold /\ RequestIsCurrent
      /\ jobs \in [Jobs -> Row \cup {NoRow}]
  BY EngineFacts
<1>2. ASSUME NEW i \in Jobs, NEW row, Update(i, row)
      PROVE  i = j /\ jobs'[j].state = row.state
  BY <1>1, <1>2 DEF Update, Merged
<1>3. ASSUME NEW i \in Jobs, NEW state, Update(i, Copy(i, state)), Live(i)
      PROVE  i = j /\ jobs'[j].state = state
  <2>1. runner[i] \in RunnerState
    BY <1>1, <1>3, RunnerOfLive
  <2>2. Copy(i, state).state = state
    BY <2>1 DEF Copy, RunnerState, Row
  <2> QED
    BY <1>2, <1>3, <2>2
<1>4. ASSUME NEW i \in Jobs, ExecuteReturns(i)
      PROVE  FALSE
  BY <1>4 DEF ExecuteReturns, Execute, journal
<1>5. ASSUME NEW i \in Jobs, EngineSteps(i, HostValid, HostDone)
      PROVE  /\ jobs'[j].state = "succeeded" => Assured(j)
             /\ jobs'[j].state \in {"failed", "canceled"} => EndsEarly(j) \/ Declines(j)
  <2>1. CASE Applied(i, HostValid)
    <3>1. PICK k, p, c : Apply(i, k, p) \/ ApplyRecovery(i, k, p, c)
      BY <2>1 DEF Applied
    <3>2. CASE Apply(i, k, p)
      <4>1. jobs' = [jobs EXCEPT ![i] = NewRow(p, NoJob)] /\ ~Stored(i)
        BY <3>2 DEF Apply, Accept
      <4> QED
        BY <1>1, <4>1 DEF Stored
    <3>3. CASE ApplyRecovery(i, k, p, c)
      <4>1. /\ jobs' = [jobs EXCEPT ![i] = NewRow(p, c), ![c].state = "partial", ![c].recoveryOperationID = i]
            /\ ~Stored(i)
        BY <3>3 DEF ApplyRecovery, AcceptRecovery
      <4>2. jobs'[j].state = "partial"
        BY <1>1, <4>1 DEF Stored, Row
      <4> QED
        BY <4>2
    <3> QED
      BY <3>1, <3>2, <3>3
  <2>2. CASE Boundary(i)
    <3>1. PICK state \in {"recovery-required", "canceled", "validating"} :
            /\ Update(i, [AtBoundary(i) EXCEPT !.state = state])
            /\ state = "canceled" => ~KeepsLocks(i)
      BY <2>2 DEF Boundary, Return, Continue
    <3>2. Live(i) /\ Stored(i) /\ At(i, "boundary")
      BY <2>2, <3>1 DEF Boundary, At, Live, Update
    <3>3. AtBoundary(i) \in Row
      BY <1>1, <3>2, BoundaryRow
    <3>4. [AtBoundary(i) EXCEPT !.state = state].state = state
      BY <3>3 DEF Row
    <3>5. i = j /\ jobs'[j].state = state
      BY <1>2, <3>1, <3>4
    <3> QED
      BY <3>1, <3>2, <3>5 DEF EndsEarly
  <2>3. CASE ValidateFails(i)
    <3>1. PICK state \in {"recovery-required", "failed"} :
            Update(i, Copy(i, state)) /\ (state = "failed" => ~KeepsLocks(i))
      BY <2>3 DEF ValidateFails, Return
    <3>2. Live(i) /\ At(i, "validate")
      BY <2>3 DEF ValidateFails, At, Live
    <3>3. i = j /\ jobs'[j].state = state
      BY <1>3, <3>1, <3>2
    <3> QED
      BY <3>1, <3>2, <3>3 DEF EndsEarly
  <2>4. CASE RecordIntent(i)
    <3>1. Live(i) /\ Update(i, Copy(i, "running"))
      BY <2>4 DEF RecordIntent, Continue, At, Live
    <3> QED
      BY <1>3, <3>1
  <2>5. CASE ExecuteFailed(i)
    <3>1. Live(i) /\ At(i, "returned") /\ Update(i, Copy(i, AfterError(i)))
      BY <2>5 DEF ExecuteFailed, Return, At, Live
    <3>2. AfterError(i) # "succeeded" /\ (AfterError(i) # "recovery-required" => runner[i].outcome \in Harmless)
      BY DEF AfterError, Harmless
    <3>3. i = j /\ jobs'[j].state = AfterError(i)
      BY <1>3, <3>1
    <3> QED
      BY <3>1, <3>2, <3>3 DEF Declines
  <2>6. CASE StartVerifying(i)
    <3>1. Live(i) /\ Update(i, Copy(i, "verifying"))
      BY <2>6 DEF StartVerifying, Continue, At, Live
    <3> QED
      BY <1>3, <3>1
  <2>7. CASE StepNotVerified(i)
    <3>1. Live(i) /\ Update(i, Copy(i, "recovery-required"))
      BY <2>7 DEF StepNotVerified, Return, At, Live
    <3> QED
      BY <1>3, <3>1
  <2>8. CASE Finish(i)
    <3>1. Live(i) /\ At(i, "finish") /\ Update(i, Copy(i, "succeeded"))
      BY <2>8 DEF Finish, Return, At, Live
    <3> QED
      BY <1>3, <3>1 DEF Assured
  <2>9. CASE StepVerified(i) \/ CancelRead(i) \/ ReconcileRead(i)
    BY <2>9 DEF StepVerified, CancelRead, ReconcileRead, journal
  <2>10. CASE Recover(i)
    <3>1. Update(i, [jobs[i] EXCEPT !.state = "recovery-required"])
      BY <2>10 DEF Recover
    <3>2. jobs[i] \in Row
      BY <1>1, <3>1 DEF Update, Stored
    <3>3. [jobs[i] EXCEPT !.state = "recovery-required"].state = "recovery-required"
      BY <3>2 DEF Row
    <3> QED
      BY <1>2, <3>1, <3>3
  <2> QED
    BY <1>5, <2>1, <2>2, <2>3, <2>4, <2>5, <2>6, <2>7, <2>8, <2>9, <2>10 DEF EngineSteps
<1>6. CASE ProcessSteps(HostDone)
  <2>1. CASE CancelWrite
    <3>1. Update(request.job, request.row) /\ request.row.state \in Active /\ request.job \in Jobs
      BY <1>1, <2>1 DEF CancelWrite, RequestIsCurrent, TypeOK, MutexFree, RequestState
    <3>2. jobs'[j].state \in Active
      BY <1>2, <3>1
    <3> QED
      BY <3>2 DEF Active
  <2>2. CASE ReconcileSettle
    <3>1. Update(request.job, request.row) /\ request.row.state = "succeeded" /\ request.job \in Jobs
      BY <1>1, <2>2 DEF ReconcileSettle, RequestIsCurrent, TypeOK, MutexFree, RequestState
    <3>2. request.job = j /\ jobs'[j].state = "succeeded"
      BY <1>2, <3>1
    <3> QED
      BY <2>2, <3>2 DEF Assured, ReconcileSettle
  <2>3. CASE RequestFails \/ Open \/ Serve \/ ReconcileObserve \/ Crash
    BY <2>3 DEF RequestFails, Open, Serve, ReconcileObserve, Crash, journal
  <2> QED
    BY <1>6, <2>1, <2>2, <2>3 DEF ProcessSteps
<1>7. ASSUME NEW i \in Jobs, HostWorkFails(i)
      PROVE  FALSE
  BY <1>7 DEF HostWorkFails, KeepsEngine, vars, journal
<1> QED
  BY <1>4, <1>5, <1>6, <1>7 DEF EngineMoves

\* The same of every step of the host: only the engine writes outcomes.
LEMMA ReasonsAreGiven ==
  ASSUME HandlersInv, HostNext, NEW j \in Jobs, Stored(j), jobs'[j].state # jobs[j].state
  PROVE  /\ jobs'[j].state = "succeeded" => Assured(j)
         /\ jobs'[j].state \in {"failed", "canceled"} => EndsEarly(j) \/ Declines(j)
<1>1. jobs' # jobs
  OBVIOUS
<1>2. EngineMoves
  BY <1>1, HostCases DEF vars, journal, PowerLoss, Crash
<1> QED
  BY <1>2, OutcomesHaveReason

\* Who is assured was so before, or just looked.
LEMMA AssuredWas ==
  ASSUME HandlersInv, HostNext, NEW j \in Jobs, Assured(j)'
  PROVE  /\ Stored(j)
         /\ \/ Assured(j) /\ ~PowerLoss
            \/ /\ HostDone(jobs[j].planID, LastStep(j), j)
               /\ UNCHANGED <<networks, accesses, recipes, call, captures, imports, machines, pools, configurations>>
<1>1. ~PowerLoss
  BY DEF PowerLoss, Crash, Assured, At, Idle, MutexFree
<1>2. Assured(j) => Stored(j)
  BY EngineFacts DEF Assured, RunnersHold, RequestIsCurrent, At, Live
<1>3. CASE UNCHANGED vars
  BY <1>1, <1>2, <1>3, UnchangedEngine
<1>4. CASE EngineMoves /\ UNCHANGED <<networks, accesses, recipes, call, captures, imports, machines, pools, configurations>>
  BY <1>1, <1>4, AssuredComes
<1> QED
  BY <1>1, <1>3, <1>4, HostCases

\* Nothing is done for who is assured any more: its Execute is over.
LEMMA AssuredRest ==
  ASSUME HandlersInv, NEW j \in Jobs, Assured(j)
  PROVE  /\ Stored(j) /\ ~At(j, "execute") /\ ~At(j, "returned")
         /\ ~At(j, "boundary") /\ ~At(j, "validate")
<1>1. RunnersHold /\ RequestIsCurrent
  BY EngineFacts
<1> QED
  BY <1>1 DEF Assured, At, RunnersHold, RequestIsCurrent, Live, Active

\* A plan that retains nothing has one step: who ends early has not begun.
LEMMA EarlyIsUntried ==
  ASSUME HandlersInv, NEW j \in Jobs, EndsEarly(j),
         jobs[j].planID \in Retaining \/ Steps[jobs[j].planID] = 1
  PROVE  Live(j) /\ Stored(j) /\ Holds(j) /\ Untried(j) /\ runner[j].i = 0
<1>1. Live(j)
  BY DEF EndsEarly, At, Live
<1>2. /\ Stored(j) /\ Holds(j) /\ runner[j].row.planID = jobs[j].planID
      /\ runner[j].i \in Nat /\ runner[j].i <= LastStep(j)
  BY <1>1, EngineFacts, LiveFacts DEF RunnersHold, RunnerProgress
<1>3. runner[j].i = 0
  BY <1>2 DEF EndsEarly, KeepsLocks, LastStep
<1> QED
  BY <1>1, <1>2, <1>3 DEF Untried, EndsEarly

\* Only the handler of j says that nothing was done for it.
LEMMA DeclinesComes ==
  ASSUME HandlersInv, WorkIsExecuted, HostNext, NEW j \in Jobs, Declines(j)'
  PROVE  \/ Declines(j)
         \/ Stored(j) /\ HostWork(j) /\ At(j, "execute") /\ work'[j].at \in Harmless
<1>1. WorkShape /\ ("ok" \notin Harmless /\ "error" \notin Harmless /\ "idle" \notin Harmless)
  BY DEF HandlersInv, Harmless
<1>2. CASE UNCHANGED vars
  <2>1. runner' = runner
    BY <1>2, UnchangedEngine
  <2> QED
    BY <1>1, <2>1, WorkStep DEF Declines, At
<1>3. CASE EngineMoves
  <2>1. CASE At(j, "execute")' /\ work'[j].at \in Harmless
    <3>1. CASE runner'[j] = runner[j]
      BY <1>1, <1>3, <2>1, <3>1, EngineRuns DEF Declines, At, ExecuteReturns, Idly
    <3>2. CASE runner'[j] # runner[j]
      <4>1. ~At(j, "execute")
        BY <1>1, <1>3, <2>1, <3>2, EngineRuns DEF Idly, Busy
      <4>2. work[j].at = "idle"
        BY <4>1 DEF WorkIsExecuted
      <4> QED
        BY <1>1, <1>3, <2>1, <4>1, <4>2, EngineRuns DEF Idly, Busy, ExecuteReturns, Results
    <3> QED
      BY <3>1, <3>2
  <2>2. CASE At(j, "returned")' /\ runner'[j].outcome \in Harmless
    <3>1. RunnerSteps(j)
      BY <1>3, EngineRuns
    <3>2. ExecuteReturns(j) => At(j, "execute")
      BY DEF ExecuteReturns, Execute
    <3> QED
      BY <2>2, <3>1, <3>2 DEF RunnerSteps, Declines, At, Idle
  <2> QED
    BY <2>1, <2>2 DEF Declines
<1>4. CASE PowerLoss
  BY <1>4 DEF PowerLoss, Crash, Declines, At, Idle
<1> QED
  BY <1>2, <1>3, <1>4, HostCases

-----------------------------------------------------------------------------
(* How a job comes to be: its plan was found valid the moment it was        *)
(* accepted, and what it takes over from is never forgotten.                *)

LEMMA AcceptedWasValid ==
  ASSUME HandlersInv, HostNext, NEW j \in Jobs, ~Stored(j), Stored(j)'
  PROVE  /\ HostValid(jobs'[j].planID, NoJob) /\ Planned(jobs'[j].planID) /\ jobs'[j].planID \in Plans
         /\ jobs'[j].planID \in RecoveryPlans => jobs'[j].recoveryOf # NoJob
         /\ UNCHANGED <<networks, accesses, recipes, call, captures, imports, machines, pools, configurations>>
         /\ UNCHANGED <<review, work>>
         /\ runner'[j].pc = "boundary" /\ runner'[j].i = 0
<1>1. TypeOK
  BY EngineFacts
<1>2. jobs' # jobs
  BY DEF Stored
<1>3. /\ EngineMoves
      /\ UNCHANGED <<networks, accesses, recipes, call, captures, imports, machines, pools, configurations>>
  BY <1>2, HostCases DEF vars, journal, PowerLoss, Crash
<1>4. \E i \in Jobs : EngineSteps(i, HostValid, HostDone) /\ Applied(i, HostValid)
  <2>1. SUFFICES ASSUME ~(\E i \in Jobs : EngineSteps(i, HostValid, HostDone) /\ Applied(i, HostValid))
                 PROVE  FALSE
    OBVIOUS
  <2>2. ASSUME NEW i \in Jobs, EngineSteps(i, HostValid, HostDone)
        PROVE  jobs' = jobs \/ \E m, row : Update(m, row)
    BY <2>1, <2>2 DEF EngineSteps, Boundary, ValidateFails, RecordIntent, ExecuteFailed, StartVerifying, StepVerified,
       StepNotVerified, Finish, CancelRead, ReconcileRead, Recover, Return, Continue, journal
  <2>3. ASSUME ProcessSteps(HostDone)
        PROVE  jobs' = jobs \/ \E m, row : Update(m, row)
    BY <2>3 DEF ProcessSteps, CancelWrite, ReconcileObserve, ReconcileSettle, RequestFails, Open, Serve, Crash, journal
  <2>4. ASSUME NEW i \in Jobs, HostWorkFails(i) \/ ExecuteReturns(i)
        PROVE  jobs' = jobs
    BY <2>4 DEF HostWorkFails, ExecuteReturns, Execute, KeepsEngine, vars, journal
  <2>5. jobs' = jobs \/ \E m, row : Update(m, row)
    BY <1>3, <2>2, <2>3, <2>4 DEF EngineMoves
  <2> QED
    BY <1>1, <1>2, <2>5, UpdateKeeps DEF Stored
<1>5. PICK i \in Jobs, p \in Made, k \in Keys, c \in Jobs \cup {NoJob} :
        /\ HostValid(p, NoJob) /\ UNCHANGED <<review, work>>
        /\ \/ Apply(i, k, p) /\ c = NoJob
           \/ c \in Jobs /\ ApplyRecovery(i, k, p, c)
  BY <1>4 DEF EngineSteps, Applied
<1>6. /\ i = j /\ jobs'[j].planID = p
      /\ (p \in RecoveryPlans => jobs'[j].recoveryOf # NoJob)
  <2>1. CASE Apply(i, k, p)
    BY <1>1, <2>1 DEF Apply, Accept, Stored, NewRow, Made, TypeOK, JournalTypeOK
  <2>2. CASE c \in Jobs /\ ApplyRecovery(i, k, p, c)
    <3>1. c # i /\ Stored(c) /\ jobs'[i] = NewRow(p, c) /\ \A m \in Jobs \ {i, c} : jobs'[m] = jobs[m]
      BY <1>1, <2>2 DEF ApplyRecovery, AcceptRecovery, Recoverable, TypeOK, JournalTypeOK
    <3> QED
      BY <2>2, <3>1, NullsAreNotValues DEF Stored, NewRow, Made
  <2> QED
    BY <1>5, <2>1, <2>2
<1>7. runner'[j].pc = "boundary" /\ runner'[j].i = 0
  <2>1. \E row : runner' = [runner EXCEPT ![j] = [Idle EXCEPT !.pc = "boundary", !.row = row]]
    BY <1>5, <1>6 DEF Apply, ApplyRecovery, Start
  <2> QED
    BY <1>1, <2>1 DEF Idle, TypeOK
<1> QED
  BY <1>3, <1>5, <1>6, <1>7 DEF Made

\* What a job takes over from stays on record.
LEMMA OriginsStay ==
  ASSUME HandlersInv, HostNext, NEW j \in Jobs, Stored(j)
  PROVE  jobs'[j].recoveryOf = jobs[j].recoveryOf
<1>1. TypeOK /\ JournalStep
  BY StepImplements, NextJournal DEF HandlersInv, AcceptanceInv, DoubtInv, OwnershipInv
<1>2. CASE UNCHANGED journal
  BY <1>2 DEF journal
<1>3. ASSUME NEW i \in Jobs, NEW row \in Row, Writes(i, row)
      PROVE  jobs'[j].recoveryOf = jobs[j].recoveryOf
  BY <1>1, <1>3, WriteEffect, UpdateEffect DEF Writes
<1>4. ASSUME NEW i \in Jobs, NEW k \in Keys, NEW q \in Request, Accepts(i, k, q) \/ AcceptsRecovery(i, k, q)
      PROVE  jobs'[j].recoveryOf = jobs[j].recoveryOf
  <2>1. CASE Accepts(i, k, q)
    BY <1>1, <2>1, StartEffect DEF Accepts
  <2>2. CASE AcceptsRecovery(i, k, q)
    <3>1. q.parent \in Jobs
      BY <2>2 DEF AcceptsRecovery, AcceptRecovery, Recoverable
    <3> QED
      BY <1>1, <2>2, <3>1, StartEffect DEF AcceptsRecovery
  <2> QED
    BY <1>4, <2>1, <2>2
<1> QED
  BY <1>1, <1>2, <1>3, <1>4 DEF JournalStep, Observes

RecoveriesContinue == \A j \in Jobs : Stored(j) /\ jobs[j].planID \in RecoveryPlans => jobs[j].recoveryOf # NoJob

LEMMA NextContinue ==
  ASSUME HandlersInv, RecoveriesContinue, HostNext
  PROVE  RecoveriesContinue'
<1> SUFFICES ASSUME NEW j \in Jobs, Stored(j)', jobs'[j].planID \in RecoveryPlans
             PROVE  jobs'[j].recoveryOf # NoJob
  BY DEF RecoveriesContinue
<1>1. CASE Stored(j)
  BY <1>1, StoredStays, OriginsStay DEF RecoveriesContinue
<1>2. CASE ~Stored(j)
  BY <1>2, AcceptedWasValid
<1> QED
  BY <1>1, <1>2

\* A job that took over from another never ends early.
LEMMA RecoveriesGoOn ==
  ASSUME HandlersInv, RecoveriesContinue, NEW j \in Jobs, jobs[j].planID \in RecoveryPlans
  PROVE  ~EndsEarly(j)
<1> SUFFICES ASSUME EndsEarly(j)
             PROVE  FALSE
  OBVIOUS
<1>1. Live(j)
  BY DEF EndsEarly, At, Live
<1>2. Stored(j) /\ runner[j].row.recoveryOf = jobs[j].recoveryOf
  BY <1>1, EngineFacts, LiveFacts DEF RunnerProgress
<1> QED
  BY <1>2 DEF EndsEarly, KeepsLocks, RecoveriesContinue

-----------------------------------------------------------------------------
(* Which handler answers, and works.                                        *)

\* The engine calls one handler for each kind.
LEMMA KindsAreApart ==
  ASSUME NEW k
  PROVE  /\ k \in NetworkKinds => k \notin AccessKinds \cup {"recipe"} \cup CaptureKinds \cup ImportKinds
                                         \cup MachineKinds \cup PoolKinds \cup ConfigurationKinds
         /\ k \in AccessKinds => k \notin {"recipe"} \cup CaptureKinds \cup ImportKinds
                                         \cup MachineKinds \cup PoolKinds \cup ConfigurationKinds
         /\ k = "recipe" => k \notin CaptureKinds \cup ImportKinds \cup MachineKinds \cup PoolKinds \cup ConfigurationKinds
         /\ k \in CaptureKinds => k \notin ImportKinds \cup MachineKinds \cup PoolKinds \cup ConfigurationKinds
         /\ k \in ImportKinds => k \notin MachineKinds \cup PoolKinds \cup ConfigurationKinds
         /\ k \in MachineKinds => k \notin PoolKinds \cup ConfigurationKinds
         /\ k \in PoolKinds => k \notin ConfigurationKinds
BY DEF NetworkKinds, AccessKinds, CaptureKinds, ImportKinds, MachineKinds, Lifecycle, PoolKinds,
       ConfigurationKinds, DefiningKinds

LEMMA DoneIs ==
  ASSUME NEW p, NEW i, NEW j, HostDone(p, i, j)
  PROVE  /\ Kind[p] \in NetworkKinds => NetworkDone(p, i, j)
         /\ Kind[p] \in AccessKinds => AccessDone(p, j)
         /\ Kind[p] = "recipe" => RecipeDone(i, j)
         /\ Kind[p] \in CaptureKinds => CapturesDone(p, j)
         /\ Kind[p] \in ImportKinds => ImportsDone(p, i)
         /\ Kind[p] \in MachineKinds => MachineDone(p, j)
         /\ Kind[p] \in PoolKinds => PoolDone(p, i, j)
<1> DEFINE k == Kind[p]
<1>1. CASE k \in NetworkKinds
  BY <1>1, KindsAreApart, Zenon DEF HostDone
<1>2. CASE k \in AccessKinds
  BY <1>2, KindsAreApart, Zenon DEF HostDone
<1>3. CASE k = "recipe"
  BY <1>3, KindsAreApart, Zenon DEF HostDone
<1>4. CASE k \in CaptureKinds
  BY <1>4, KindsAreApart, Zenon DEF HostDone
<1>5. CASE k \in ImportKinds
  BY <1>5, KindsAreApart, Zenon DEF HostDone
<1>6. CASE k \in MachineKinds
  BY <1>6, KindsAreApart, Zenon DEF HostDone
<1>7. CASE k \in PoolKinds
  BY <1>7, KindsAreApart, Zenon DEF HostDone
<1> QED
  BY <1>1, <1>2, <1>3, <1>4, <1>5, <1>6, <1>7

LEMMA ValidIs ==
  ASSUME NEW p, NEW j, HostValid(p, j)
  PROVE  /\ Kind[p] \in NetworkKinds => NetworkValid(p, j)
         /\ Kind[p] \in AccessKinds => AccessValid(p, j)
         /\ Kind[p] \in CaptureKinds => CaptureValid(p, j)
         /\ Kind[p] \in ImportKinds => ImportValid(p, j)
         /\ Kind[p] \in MachineKinds => MachineValid(p)
         /\ Kind[p] \in PoolKinds => PoolValid(p, j)
<1> DEFINE k == Kind[p]
<1>1. CASE k \in NetworkKinds
  BY <1>1, KindsAreApart, Zenon DEF HostValid
<1>2. CASE k \in AccessKinds
  BY <1>2, KindsAreApart, Zenon DEF HostValid
<1>4. CASE k \in CaptureKinds
  BY <1>4, KindsAreApart, Zenon DEF HostValid
<1>5. CASE k \in ImportKinds
  BY <1>5, KindsAreApart, Zenon DEF HostValid
<1>6. CASE k \in MachineKinds
  BY <1>6, KindsAreApart, Zenon DEF HostValid
<1>7. CASE k \in PoolKinds
  BY <1>7, KindsAreApart, Zenon DEF HostValid
<1> QED
  BY <1>1, <1>2, <1>4, <1>5, <1>6, <1>7

LEMMA WorkIs ==
  ASSUME NEW j, HostWork(j)
  PROVE  LET k == Kind[jobs[j].planID] IN
         /\ k \in NetworkKinds => NetworkWork(j)
         /\ k \in AccessKinds => AccessWork(j)
         /\ k \in CaptureKinds => CaptureWork(j)
         /\ k \in ImportKinds => ImportWork(j)
         /\ k \in MachineKinds => MachineWork(j)
         /\ k \in PoolKinds => PoolWork(j)
         /\ k \in ConfigurationKinds => ConfigurationWork(j)
         /\ k \in NetworkKinds \cup AccessKinds \cup {"recipe"} \cup CaptureKinds \cup ImportKinds \cup MachineKinds
                  \cup PoolKinds \cup ConfigurationKinds
BY KindsAreApart DEF HostWork, IsAbout

\* Few handlers ever say that nothing was done.  (That of a recipe records each of
\* its endings, see below.)
DeclinesAreFew ==
  \A j \in Jobs : Declines(j) => Kind[jobs[j].planID] \in AccessKinds \cup MachineKinds \cup {"prepare", "recipe"}

LEMMA NextFew ==
  ASSUME HandlersInv, WorkIsExecuted, DeclinesAreFew, HostNext
  PROVE  DeclinesAreFew'
<1> SUFFICES ASSUME NEW j \in Jobs, Declines(j)'
             PROVE  Kind[jobs'[j].planID] \in AccessKinds \cup MachineKinds \cup {"prepare", "recipe"}
  BY DEF DeclinesAreFew
<1>1. WorkShape
  BY DEF HandlersInv
<1>2. CASE Declines(j)
  <2>1. Stored(j)
    BY <1>2, LivePlan DEF Declines, At, Live
  <2> QED
    BY <1>2, <2>1, StoredStays DEF DeclinesAreFew
<1>3. CASE Stored(j) /\ HostWork(j) /\ At(j, "execute") /\ work'[j].at \in Harmless
  <2> DEFINE k == Kind[jobs[j].planID]
  <2>1. jobs'[j].planID = jobs[j].planID /\ PlanOf(j) = jobs[j].planID
    BY <1>3, StoredStays, LivePlan DEF At, Live
  <2>2. ASSUME NEW at, Go(j, at) \/ \E i : GoTo(j, at, i)
        PROVE  work'[j].at = at
    BY <1>1, <2>2 DEF WorkShape, Go, GoTo
  <2>3. CASE k \in NetworkKinds
    <3>1. NetworkWork(j)
      BY <1>3, <2>3, WorkIs
    <3>2. \E at \in {"reserve", "define", "ok", "asked", "activate"} : Go(j, at)
      BY <3>1 DEF NetworkWork, CheckSubnet, ReserveSubnet, DefineNetwork, AskForFilter, CheckFilter, ActivateNetwork, Asks
    <3> QED
      BY <1>3, <2>2, <3>2 DEF Harmless
  <2>4. CASE k \in CaptureKinds
    <3>1. CaptureWork(j)
      BY <1>3, <2>4, WorkIs
    <3>2. CASE UNCHANGED work
      BY <1>2, <1>3, <3>2 DEF Declines
    <3>3. CASE \E at : at \notin Harmless /\ (Go(j, at) \/ \E i : GoTo(j, at, i))
      BY <1>3, <2>2, <3>3
    <3>4. CASE ConvertDisk(j) \/ StartCapture(j) \/ IntendRestore(j) \/ RecordVolume(j)
      BY <3>3, <3>4 DEF Harmless, ConvertDisk, StartCapture, IntendRestore, RecordVolume
    <3>5. CASE \/ CheckSource(j) \/ RecheckSource(j) \/ RecordPublication(j) \/ NamePartial(j)
               \/ WriteMembers(j) \/ RenameSet(j) \/ InspectPublished(j) \/ RemoveStaging(j)
      BY <3>3, <3>5 DEF Harmless, CheckSource, RecheckSource, RecordPublication, NamePartial, WriteMembers,
         RenameSet, InspectPublished, RemoveStaging
    <3>6. CASE \/ IntendBackup(j) \/ Upload(j) \/ RecordSnapshot(j) \/ IntendRoundtrip(j)
               \/ DownloadRoundtrip(j) \/ RecordRoundtrip(j)
      BY <3>3, <3>6 DEF Harmless, IntendBackup, Upload, RecordSnapshot, IntendRoundtrip, DownloadRoundtrip,
         RecordRoundtrip
    <3>7. CASE \/ IntendRecovery(j) \/ DownloadSet(j) \/ SealSet(j) \/ RecordRecovery(j)
               \/ RestoreVolume(j) \/ DefineRestored(j)
      BY <3>3, <3>7 DEF Harmless, IntendRecovery, DownloadSet, SealSet, RecordRecovery, RestoreVolume, DefineRestored
    <3>8. ObserveSet(j) \/ ObserveRecovery(j) => UNCHANGED work
      BY DEF ObserveSet, ObserveRecovery
    <3> QED
      BY <3>1, <3>2, <3>4, <3>5, <3>6, <3>7, <3>8 DEF CaptureWork
  <2>5. CASE k \in ImportKinds
    <3>1. ImportWork(j)
      BY <1>3, <2>5, WorkIs
    <3>2. k # "prepare" => k = "discard"
      BY <2>5 DEF ImportKinds
    <3>3. CASE k = "discard"
      <4>1. \E at \in {"remove", "removing", "ok"} : Go(j, at)
        BY <2>1, <3>1, <3>3 DEF ImportWork, StartPreparation, CopyPiece, RecheckOriginal, RecordArtifact, PublishCopies,
           SyncParent, CancelPreparation, RecordDiscard, BeginRemoval, EndRemoval, ImportStep, Does
      <4> QED
        BY <1>3, <2>2, <4>1 DEF Harmless
    <3> QED
      BY <2>1, <3>2, <3>3
  <2>6. CASE k \in PoolKinds
    <3>1. PoolWork(j)
      BY <1>3, <2>6, WorkIs
    <3>2. \E at \in {"reserve", "define", "read back", "ok", "error"} : Go(j, at)
      BY <3>1 DEF PoolWork, CheckPool, ReservePool, DefinePool, StartPool, SetPoolAutostart, ReadPoolBack
    <3> QED
      BY <1>3, <2>2, <3>2 DEF Harmless
  <2>7. CASE k \in ConfigurationKinds
    <3>1. ConfigurationWork(j)
      BY <1>3, <2>7, WorkIs
    <3>2. \E at \in {"check", "base", "define", "read back", "ok", "error"} : Go(j, at)
      BY <3>1 DEF ConfigurationWork, ReadyVolumes, CheckDefinition, ReadBase, DefineConfiguration, ReadDefinitionBack
    <3> QED
      BY <1>3, <2>2, <3>2 DEF Harmless
  <2> QED
    BY <1>3, <2>1, <2>3, <2>4, <2>5, <2>6, <2>7, WorkIs
<1> QED
  BY <1>2, <1>3, DeclinesComes

-----------------------------------------------------------------------------
(* Guests: a receipt says that the script was sent, and stays.              *)

\* What the stages of j say was sent to the guest.
ReceiptsWereSent ==
  \A j \in Jobs :
    /\ \A s \in Stages : stage[j][s] \in Receipts \ {"skip-apply"} => IsSent(j, s)
    /\ At(j, "execute") /\ Recipe(j) /\ work[j].at \in (Receipts \ {"skip-apply"}) \cup {"waiting"} =>
         IsSent(j, StageOf(j))

GuestsAreSetUp == \A j \in Jobs : Recipe(j) /\ Assured(j) => CompleteUpTo(j, Verify)

LEMMA InitReceiptsSent == HostInit => ReceiptsWereSent /\ GuestsAreSetUp
<1> SUFFICES ASSUME HostInit
             PROVE  ReceiptsWereSent /\ GuestsAreSetUp
  OBVIOUS
<1>1. \A j \in Jobs, s \in Stages : stage[j][s] = NoIntent
  BY DEF HostInit, GuestSetupInit
<1>2. \A j \in Jobs : ~Stored(j)
  BY DEF HostInit, HandlersInit, Init, JournalInit, Stored
<1> QED
  BY <1>1, <1>2, ReceiptsAre DEF ReceiptsWereSent, GuestsAreSetUp, Recipe

\* What was sent stays sent.
LEMMA SentStays ==
  ASSUME StagesInv, HostNext, NEW j \in Jobs, NEW s \in Stages, IsSent(j, s)
  PROVE  IsSent(j, s)'
<1>1. CASE sent' = sent
  BY <1>1 DEF IsSent
<1>2. ASSUME NEW m \in Jobs, SendScript(m)
      PROVE  IsSent(j, s)'
  <2>1. sent' = [sent EXCEPT ![m] = Append(@, StageOf(m))] /\ sent \in [Jobs -> Seq(Stages)]
    BY <1>2 DEF SendScript, StagesInv, GuestSetupTypeOK
  <2>2. CASE m = j
    <3>1. sent'[j] = Append(sent[j], StageOf(j)) /\ sent[j] \in Seq(Stages)
      BY <2>1, <2>2
    <3>2. PICK i \in 1..Len(sent[j]) : sent[j][i] = s
      BY DEF IsSent
    <3>3. Len(sent'[j]) = Len(sent[j]) + 1 /\ sent'[j][i] = s
      BY <3>1, <3>2
    <3>4. i \in 1..Len(sent'[j])
      BY <3>1, <3>2, <3>3
    <3> QED
      BY <3>3, <3>4 DEF IsSent
  <2>3. CASE m # j
    BY <2>1, <2>3 DEF IsSent
  <2> QED
    BY <2>2, <2>3
<1>3. sent' = sent \/ \E m \in Jobs : SendScript(m)
  BY RecipesStep DEF recipes, GuestsLosePower, RecipeMoves, RecipeWork, IntendStage, CancelScript, RecordStage,
                     EndStage, ScriptEnds
<1> QED
  BY <1>1, <1>2, <1>3

LEMMA SendSends ==
  ASSUME StagesInv, NEW j \in Jobs, SendScript(j), StageOf(j) \in Stages
  PROVE  IsSent(j, StageOf(j))'
<1>1. /\ sent'[j] = Append(sent[j], StageOf(j)) /\ sent[j] \in Seq(Stages) /\ UNCHANGED runner
  BY DEF SendScript, RecipeStep, KeepsEngine, vars, volatile, StagesInv, GuestSetupTypeOK
<1>2. Len(sent'[j]) = Len(sent[j]) + 1 /\ sent'[j][Len(sent[j]) + 1] = StageOf(j) /\ Len(sent[j]) \in Nat
  BY <1>1
<1>3. Len(sent[j]) + 1 \in 1..Len(sent'[j]) /\ StageOf(j)' = StageOf(j)
  BY <1>1, <1>2 DEF StageOf
<1> QED
  BY <1>2, <1>3 DEF IsSent

LEMMA NextReceiptsSent ==
  ASSUME HandlersInv, RecipeInv, ReceiptsWereSent, WorkIsExecuted, HostNext
  PROVE  ReceiptsWereSent'
<1>1. StagesInv /\ WorkShape
  BY DEF RecipeInv, HandlersInv
<1>2. ASSUME NEW j \in Jobs, NEW s \in Stages, stage'[j][s] \in Receipts \ {"skip-apply"}
      PROVE  IsSent(j, s)'
  <2>1. CASE stage'[j][s] = stage[j][s]
    BY <1>1, <1>2, <2>1, SentStays DEF ReceiptsWereSent
  <2>2. CASE stage'[j][s] # stage[j][s]
    <3>1. PICK m \in Jobs : RecipeMoves(m)
      BY <2>2, RecipesStep DEF recipes, GuestsLosePower
    <3>2. m = j
      BY <1>1, <2>2, <3>1, RecipeMovesItself
    <3>3. CASE IntendStage(j)
      <4>1. stage'[j][s] = Unknown
        BY <1>1, <2>2, <3>3 DEF IntendStage, Notes, StagesInv, GuestSetupTypeOK
      <4> QED
        BY <1>2, <4>1, ReceiptsAre
    <3>4. CASE RecordStage(j)
      <4>1. /\ s = StageOf(j) /\ stage'[j][s] = work[j].at
            /\ At(j, "execute") /\ Recipe(j)
        BY <1>1, <2>2, <3>1, <3>2, <3>4
           DEF RecordStage, Notes, Does, StagesInv, GuestSetupTypeOK, RecipeMoves, IsAbout, Recipe
      <4>2. IsSent(j, s)
        BY <1>2, <4>1 DEF ReceiptsWereSent
      <4> QED
        BY <1>1, <4>2, SentStays
    <3> QED
      BY <2>2, <3>1, <3>2, <3>3, <3>4
         DEF RecipeMoves, RecipeWork, SendScript, CancelScript, EndStage, ScriptEnds, recipes
  <2> QED
    BY <2>1, <2>2
<1>3. ASSUME NEW j \in Jobs, At(j, "execute")', Recipe(j)', work'[j].at \in (Receipts \ {"skip-apply"}) \cup {"waiting"}
      PROVE  IsSent(j, StageOf(j))'
  <2>1. /\ work'[j].at \notin {"idle", "ok", "error"}
        /\ work'[j] = work[j] \/ (Stored(j) /\ HostWork(j))
    BY <1>1, <1>3, ReceiptsAre, WorkStep
  <2>2. CASE HostWork(j) /\ Stored(j)
    <3>1. KeepsEngine
      BY <2>2, WorkFrame
    <3>2. Recipe(j) /\ At(j, "execute") /\ StageOf(j)' = StageOf(j) /\ Live(j)
      BY <1>3, <3>1, StayFollowing DEF At, Live
    <3>3. StageOf(j) \in Stages
      BY <3>2, StageOfRecipe
    <3>4. RecipeWork(j) \/ \E s \in Stages : ScriptEnds(j, s)
      BY <2>2, <3>2, RecipeIsRecipes DEF Recipe
    <3>5. CASE SendScript(j)
      BY <1>1, <3>3, <3>5, SendSends
    <3>6. CASE ~SendScript(j)
      <4>1. work[j].at \in (Receipts \ {"skip-apply"}) \cup {"waiting"}
        <5>1. CASE IntendStage(j)
          BY <1>1, <1>3, <5>1, ReceiptsAre DEF IntendStage, Go, WorkShape
        <5>2. CASE CancelScript(j) \/ RecordStage(j) \/ EndStage(j)
          <6>1. work'[j].at \in {"noted", "ok", "error"}
            BY <1>1, <5>2 DEF CancelScript, RecordStage, EndStage, Go, WorkShape
          <6> QED
            BY <1>3, <6>1, ReceiptsAre
        <5>3. ASSUME NEW s \in Stages, ScriptEnds(j, s)
              PROVE  work[j].at \in (Receipts \ {"skip-apply"}) \cup {"waiting"}
          BY <1>1, <1>3, <5>3 DEF ScriptEnds, In, Go, WorkShape
        <5> QED
          BY <3>4, <3>6, <5>1, <5>2, <5>3 DEF RecipeWork
      <4>2. IsSent(j, StageOf(j))
        BY <3>2, <4>1 DEF ReceiptsWereSent
      <4>3. IsSent(j, StageOf(j))' <=> \E i \in 1..Len(sent'[j]) : sent'[j][i] = StageOf(j)
        BY <3>2 DEF IsSent
      <4> QED
        BY <1>1, <3>3, <4>2, <4>3, SentStays DEF IsSent
    <3> QED
      BY <3>5, <3>6
  <2>3. CASE work'[j] = work[j]
    <3>1. At(j, "execute")
      BY <2>1, <2>3 DEF WorkIsExecuted
    <3>2. runner'[j] = runner[j]
      <4>1. CASE EngineMoves
        BY <1>3, <2>1, <2>3, <3>1, <4>1, EngineRuns DEF RunnerSteps, At, Idle
      <4>2. CASE UNCHANGED vars
        BY <4>2, UnchangedEngine
      <4>3. CASE PowerLoss
        BY <1>3, <4>3 DEF PowerLoss, Crash, At, Idle
      <4> QED
        BY <4>1, <4>2, <4>3, HostCases
    <3>3. Stored(j) /\ Recipe(j) /\ Live(j)
      <4>1. Live(j) /\ Stored(j)
        BY <3>1, LivePlan DEF At, Live
      <4> QED
        BY <1>3, <4>1, StoredStays DEF Recipe
    <3>4. StageOf(j)' = StageOf(j) /\ StageOf(j) \in Stages
      BY <3>2, <3>3, StageOfRecipe DEF StageOf
    <3>5. IsSent(j, StageOf(j))
      BY <1>3, <2>3, <3>1, <3>3 DEF ReceiptsWereSent
    <3>6. IsSent(j, StageOf(j))' <=> \E i \in 1..Len(sent'[j]) : sent'[j][i] = StageOf(j)
      BY <3>4 DEF IsSent
    <3> QED
      BY <1>1, <3>4, <3>5, <3>6, SentStays DEF IsSent
  <2> QED
    BY <2>1, <2>2, <2>3
<1> QED
  BY <1>2, <1>3 DEF ReceiptsWereSent

LEMMA NextSetUp ==
  ASSUME HandlersInv, RecipeInv, GuestsAreSetUp, HostNext
  PROVE  GuestsAreSetUp'
<1> SUFFICES ASSUME NEW j \in Jobs, Recipe(j)', Assured(j)'
             PROVE  CompleteUpTo(j, Verify)'
  BY DEF GuestsAreSetUp
<1>1. Stored(j)
  BY AssuredWas
<1>2. Recipe(j) /\ jobs[j].planID \in RecipePlans
  BY <1>1, StoredStays DEF Recipe, RecipePlans
<1>3. CompleteUpTo(j, Verify)
  <2>1. CASE Assured(j)
    BY <1>2, <2>1 DEF GuestsAreSetUp
  <2>2. CASE HostDone(jobs[j].planID, LastStep(j), j)
    <3>1. RecipeDone(LastStep(j), j) /\ LastStep(j) = 3
      BY <1>2, <2>2, DoneIs, RecipePlansAreComplete DEF Recipe, LastStep
    <3> QED
      BY <3>1 DEF RecipeDone, Verify
  <2> QED
    BY <2>1, <2>2, AssuredWas
<1>4. \A s \in 1..Verify : s \in Stages
  BY DEF Stages, Readiness, Check, ApplyStage, Verify
<1> QED
  BY <1>3, <1>4, ReceiptsAreKept DEF CompleteUpTo, RecipeInv

\* What is said of a recipe.
LEMMA RecipesAchieve ==
  ASSUME HandlersInv, RecipeInv, ReceiptsWereSent, GuestsAreSetUp, NEW j \in Jobs, Recipe(j), Assured(j)
  PROVE  RecipeAchieved(j)
<1>1. CompleteUpTo(j, Verify) /\ StagesAreOrdered(j)
  BY DEF GuestsAreSetUp, RecipeInv, StagesInv
<1>2. \A s \in Stages : stage[j][s] \in Receipts
  <2>1. \A s \in Stages : s \in 1..Verify
    BY DEF Stages, Readiness, Check, ApplyStage, Verify
  <2> QED
    BY <1>1, <2>1 DEF CompleteUpTo, Complete
<1>3. \A s \in Stages : <<j, s>> \notin running
  BY <1>1, <1>2, ReceiptsAre DEF StagesAreOrdered
<1>4. Verify \in Stages /\ Verify # ApplyStage
  BY DEF Stages, Verify, ApplyStage
<1>5. stage[j][Verify] # "skip-apply"
  <2>1. MayNote(Verify) = {"verified", "stage failed"}
    BY <1>4 DEF MayNote, Meanings, Readiness, Check, ApplyStage, Verify
  <2> QED
    BY <1>1, <1>2, <1>4, <2>1, ReceiptsAre DEF StagesAreOrdered
<1>6. IsSent(j, Verify)
  BY <1>2, <1>4, <1>5 DEF ReceiptsWereSent
<1> QED
  BY <1>1, <1>3, <1>6 DEF RecipeAchieved, IsSent

LEMMA RecipesStayAway ==
  ASSUME HandlersInv, RecipeInv, NEW j \in Jobs, Recipe(j), EndsEarly(j) \/ Declines(j)
  PROVE  RecipeUntouched(j)
<1>1. StagesFollowRunner(j) /\ StagesAreOrdered(j) /\ sent[j] \in Seq(Stages) /\ jobs[j].planID \in RecipePlans
  BY ReviewOfStored DEF RecipeInv, StagesInv, GuestSetupTypeOK, Recipe, RecipePlans
<1>2. ~Declines(j)
  BY <1>1, ReceiptsAre DEF Declines, Harmless, StagesFollowRunner, StagesFollowWork
<1>3. runner[j].i = 0 /\ Live(j) /\ (At(j, "boundary") \/ At(j, "validate"))
  BY <1>1, <1>2, EarlyIsUntried, RecipePlansAreComplete DEF EndsEarly
<1>4. \A s \in Stages : stage[j][s] = NoIntent
  BY <1>1, <1>3 DEF StagesFollowRunner, StageOf, Stages, Readiness, Check, ApplyStage, Verify
<1>5. \A s \in Stages : ~IsSent(j, s)
  BY <1>1, <1>4 DEF StagesAreOrdered
<1>6. Len(sent[j]) = 0
  <2>1. SUFFICES ASSUME Len(sent[j]) # 0
                 PROVE  FALSE
    OBVIOUS
  <2>2. 1 \in 1..Len(sent[j]) /\ sent[j][1] \in Stages
    BY <1>1, <2>1
  <2> QED
    BY <1>5, <2>2 DEF IsSent
<1> QED
  BY <1>1, <1>6 DEF RecipeUntouched

-----------------------------------------------------------------------------
(* Networks: what nobody tried to create is not there, and one that was seen *)
(* active stays so while the host has power.                                 *)

NetworksStand ==
  /\ DOMAIN network = NetworkPlans /\ DOMAIN reserved = NetworkPlans
  /\ \A j \in Jobs :
       /\ Stored(j) /\ jobs[j].planID \in NetworkPlans /\ Untried(j) =>
            network[jobs[j].planID] = "absent" /\ reserved[jobs[j].planID] = NoJob
       /\ Assured(j) /\ Kind[jobs[j].planID] \in NetworkKinds => network[NetworkOf(j)] = "active"

LEMMA InitStand ==
  ASSUME HostInit
  PROVE  NetworksStand
<1>1. \A j \in Jobs : ~Stored(j) /\ ~Assured(j)
  BY DEF HostInit, HandlersInit, Init, JournalInit, Stored, Assured, At, Idle, MutexFree
<1> QED
  BY <1>1 DEF HostInit, NetworksInit, NetworksStand

LEMMA ContinuedNetwork ==
  ASSUME NEW p \in Plans, Kind[p] \in NetworkKinds
  PROVE  Continues[p] \in NetworkPlans
BY NetworkPlansAreComplete DEF NetworkKinds, NetworkPlans

LEMMA NetworkChanges ==
  ASSUME HostNext
  PROVE  \/ PowerLoss /\ NetworksLosePower
         \/ /\ network' = network
            /\ \/ reserved' = reserved
               \/ \E i \in Jobs : IsAbout(i, NetworkKinds) /\ ReserveSubnet(i)
         \/ \E i \in Jobs :
              /\ IsAbout(i, NetworkKinds) /\ (DefineNetwork(i) \/ ActivateNetwork(i))
              /\ reserved' = reserved
<1>1. ASSUME NEW p \in Plannable, HostPlans(p)
      PROVE  UNCHANGED networks
  BY <1>1 DEF HostPlans, PlanNetwork, PlanNetworkResume
<1>2. ASSUME NEW i \in Jobs, HostWork(i)
      PROVE  \/ UNCHANGED networks
             \/ IsAbout(i, NetworkKinds) /\ NetworkWork(i)
  BY <1>2 DEF HostWork
<1>3. \/ UNCHANGED networks
      \/ \E i \in Jobs : IsAbout(i, NetworkKinds) /\ NetworkWork(i)
      \/ NetworkHelper \/ ReloadFirewall \/ PowerLoss
  BY <1>1, <1>2 DEF HostNext, HostChanges
<1>4. PowerLoss => NetworksLosePower
  BY DEF PowerLoss
<1> QED
  BY <1>3, <1>4 DEF networks, NetworkWork, CheckSubnet, ReserveSubnet, DefineNetwork, AskForFilter, CheckFilter,
     ActivateNetwork, NetworkHelper, IntendFilter, IntendRule, AddRule, FilterDone, FilterBreaks, ReloadFirewall

LEMMA NextStand ==
  ASSUME HandlersInv, NetworksStand, HostNext
  PROVE  NetworksStand'
<1>1. /\ DOMAIN network' = NetworkPlans /\ DOMAIN reserved' = NetworkPlans
  BY NetworkChanges DEF NetworksStand, NetworksLosePower, ReserveSubnet, DefineNetwork, ActivateNetwork
<1>2. ASSUME NEW j \in Jobs, Stored(j)', jobs'[j].planID \in NetworkPlans, Untried(j)'
      PROVE  network'[jobs'[j].planID] = "absent" /\ reserved'[jobs'[j].planID] = NoJob
  <2>1. CASE ~Stored(j)
    <3>1. HostValid(jobs'[j].planID, NoJob) /\ UNCHANGED networks
      BY <1>2, <2>1, AcceptedWasValid
    <3>2. Kind[jobs'[j].planID] = "network" /\ Continues[jobs'[j].planID] = jobs'[j].planID
      BY <1>2, NetworkPlansAreComplete DEF NetworkPlans
    <3>3. NetworkValid(jobs'[j].planID, NoJob)
      BY <3>1, <3>2, ValidIs DEF NetworkKinds
    <3>4. reserved[jobs'[j].planID] = NoJob /\ network[jobs'[j].planID] = "absent"
      BY <3>2, <3>3 DEF NetworkValid, ReservationAgrees, NetworkAgrees
    <3> QED
      BY <3>1, <3>4 DEF networks
  <2>2. CASE Stored(j)
    <3> DEFINE n == jobs[j].planID
    <3>1. jobs'[j].planID = n /\ n \in NetworkPlans /\ Untried(j) /\ ~At(j, "execute") /\ Live(j)
      BY <1>2, <2>2, StoredStays, UntriedWas DEF Untried, At, Live
    <3>2. network[n] = "absent" /\ reserved[n] = NoJob
      BY <2>2, <3>1 DEF NetworksStand
    <3>3. ASSUME NEW i \in Jobs, IsAbout(i, NetworkKinds), ReserveSubnet(i) \/ DefineNetwork(i)
          PROVE  PlanOf(i) # n
      <4>1. At(i, "execute") /\ Live(i)
        BY <3>3 DEF ReserveSubnet, DefineNetwork, NetworkStep, In, At, Live
      <4>2. PlanOf(i) = jobs[i].planID
        BY <4>1, LivePlan
      <4> QED
        BY <3>1, <4>1, <4>2, OneNetworkRuns
    <3>4. CASE \E i \in Jobs : IsAbout(i, NetworkKinds) /\ ReserveSubnet(i)
      BY <3>1, <3>2, <3>3, <3>4, NetworkChanges DEF NetworksStand, ReserveSubnet
    <3>5. CASE \E i \in Jobs : IsAbout(i, NetworkKinds) /\ DefineNetwork(i)
      BY <3>1, <3>2, <3>3, <3>5, NetworkChanges DEF NetworksStand, DefineNetwork
    <3>6. CASE \E i \in Jobs : IsAbout(i, NetworkKinds) /\ ActivateNetwork(i)
      BY <3>1, <3>2, <3>6, NetworkChanges DEF NetworksStand, ActivateNetwork
    <3>7. CASE NetworksLosePower
      BY <3>1, <3>2, <3>7 DEF NetworksLosePower
    <3> QED
      BY <3>1, <3>2, <3>4, <3>5, <3>6, <3>7, NetworkChanges
  <2> QED
    BY <2>1, <2>2
<1>3. ASSUME NEW j \in Jobs, Assured(j)', Kind[jobs'[j].planID] \in NetworkKinds
      PROVE  network'[NetworkOf(j)'] = "active"
  <2> DEFINE p == jobs[j].planID
  <2>1. Stored(j) /\ jobs'[j].planID = p /\ p \in Plans /\ Kind[p] \in NetworkKinds
    BY <1>3, AssuredWas, StoredStays
  <2>2. NetworkOf(j)' = Continues[p] /\ NetworkOf(j) = Continues[p] /\ Continues[p] \in NetworkPlans
    BY <2>1, ContinuedNetwork DEF NetworkOf
  <2>3. CASE Assured(j) /\ ~PowerLoss
    <3>1. network[Continues[p]] = "active"
      BY <2>1, <2>2, <2>3 DEF NetworksStand
    <3>2. ASSUME NEW i \in Jobs, DefineNetwork(i)
          PROVE  network'[Continues[p]] = "active"
      BY <2>2, <3>1, <3>2 DEF NetworksStand, DefineNetwork
    <3>3. ASSUME NEW i \in Jobs, ActivateNetwork(i)
          PROVE  network'[Continues[p]] = "active"
      BY <2>2, <3>1, <3>3 DEF NetworksStand, ActivateNetwork
    <3> QED
      BY <2>2, <2>3, <3>1, <3>2, <3>3, NetworkChanges
  <2>4. CASE HostDone(p, LastStep(j), j) /\ UNCHANGED networks
    <3>1. NetworkDone(p, LastStep(j), j) /\ StepOf(p, LastStep(j)) = "activate"
      BY <2>1, <2>4, DoneIs, NetworkPlansAreComplete DEF LastStep, StepOf, NetworkKinds
    <3>2. network[Continues[p]] = "active"
      BY <3>1 DEF NetworkDone
    <3> QED
      BY <2>2, <2>4, <3>2 DEF networks
  <2> QED
    BY <1>3, <2>3, <2>4, AssuredWas
<1> QED
  BY <1>1, <1>2, <1>3 DEF NetworksStand

\* What is said of a network.
LEMMA NetworksAchieve ==
  ASSUME NetworksStand, NEW j \in Jobs, Kind[jobs[j].planID] \in NetworkKinds, Assured(j)
  PROVE  NetworkAchieved(j)
BY DEF NetworksStand, NetworkAchieved

\* A plan of networks, pools or definitions leaves no trace if no step was begun.
LEMMA StopsUntried ==
  ASSUME HandlersInv, RecoveriesContinue, DeclinesAreFew, NEW j \in Jobs,
         Kind[jobs[j].planID] \in NetworkKinds \cup PoolKinds \cup ConfigurationKinds, EndsEarly(j) \/ Declines(j)
  PROVE  Live(j) /\ Stored(j) /\ Untried(j) /\ jobs[j].planID \in Plans \ RecoveryPlans
<1>1. ~Declines(j) /\ EndsEarly(j)
  BY KindsAreApart DEF DeclinesAreFew, ImportKinds
<1>2. Stored(j) /\ jobs[j].planID \in Plans
  BY <1>1, LivePlan DEF EndsEarly, At, Live
<1>3. jobs[j].planID \in Retaining \/ Steps[jobs[j].planID] = 1
  BY <1>2, NetworkPlansAreComplete, PoolPlansAreComplete, ConfigurationPlansAreComplete
     DEF NetworkKinds, PoolPlans, ConfigurationPlans
<1> QED
  BY <1>1, <1>2, <1>3, EarlyIsUntried, RecoveriesGoOn

LEMMA NetworksStayAway ==
  ASSUME HandlersInv, RecoveriesContinue, DeclinesAreFew, NetworksStand, NEW j \in Jobs,
         Kind[jobs[j].planID] \in NetworkKinds, EndsEarly(j) \/ Declines(j)
  PROVE  NetworkUntouched(j)
<1>1. Stored(j) /\ Untried(j) /\ jobs[j].planID \in Plans \ RecoveryPlans
  BY StopsUntried
<1>2. Kind[jobs[j].planID] = "network" /\ Continues[jobs[j].planID] = jobs[j].planID
  BY <1>1, NetworkPlansAreComplete DEF NetworkKinds
<1> QED
  BY <1>1, <1>2 DEF NetworkUntouched, NetworkOf, NetworksStand, NetworkPlans

-----------------------------------------------------------------------------
(* Definitions: they are written by who was begun.                           *)

DefinersTried == \A j \in Jobs : j \in defined => ~Untried(j)

LEMMA InitDefiners == HostInit => DefinersTried
BY DEF HostInit, ConfigurationsInit, DefinersTried

LEMMA NextDefiners ==
  ASSUME HandlersInv, DefinersTried, HostNext
  PROVE  DefinersTried'
<1> SUFFICES ASSUME NEW j \in Jobs, j \in defined', Untried(j)'
             PROVE  FALSE
  BY DEF DefinersTried
<1>1. Untried(j) /\ ~At(j, "execute")
  BY UntriedWas
<1>2. j \notin defined
  BY <1>1 DEF DefinersTried
<1>3. UNCHANGED defined \/ \E i \in Jobs : ConfigurationWork(i)
  BY DEF HostNext, HostPlans, PlanConfiguration, HostWork, HostChanges, OthersMeddle, OthersDefine, OthersSwitch,
         PowerLoss, ConfigurationsLosePower, configurations
<1>4. UNCHANGED defined \/ \E i \in Jobs : At(i, "execute") /\ defined' = defined \cup {i}
  BY <1>3 DEF ConfigurationWork, ReadyVolumes, CheckDefinition, ReadBase, DefineConfiguration, ReadDefinitionBack,
              KeepsMachine, ConfigurationStep, In
<1> QED
  BY <1>1, <1>2, <1>4

LEMMA ConfigurationsStayAway ==
  ASSUME HandlersInv, RecoveriesContinue, DeclinesAreFew, DefinersTried, NEW j \in Jobs,
         Kind[jobs[j].planID] \in ConfigurationKinds, EndsEarly(j) \/ Declines(j)
  PROVE  ConfigurationUntouched(j)
BY StopsUntried DEF DefinersTried, ConfigurationUntouched

-----------------------------------------------------------------------------
(* Pools: a new one has its folder to itself, and what was seen to run runs   *)
(* while the host has power.                                                  *)

\* What Reconcile of j would answer.
PoolIsDone(j) == PoolDone(jobs[j].planID, LastStep(j), j)

PoolsStand ==
  /\ PoolsTypeOK
  /\ \A x \in NewPools : \A y \in Pools \ {x} :
       pool[x].at # "absent" /\ pool[y].at # "absent" => PoolFolder[y] # PoolFolder[x]
  /\ \A j \in Jobs :
       /\ \A x \in Pools : pool[x].by = j => ~Untried(j)
       /\ \A x \in NewPools : poolReserved[x] = j => ~Untried(j)
       /\ Assured(j) /\ Kind[jobs[j].planID] \in PoolKinds => PoolIsDone(j)

LEMMA PoolsArePools == NewPools \subseteq Pools /\ \A p \in PoolPlans : PoolOf[p] \in Pools
BY PoolPlansAreComplete DEF NewPools, PoolPlans, Pools, PoolKinds

\* The last step of a plan starts the pool, or makes it start by itself.
LEMMA PoolEnds ==
  ASSUME NEW p \in PoolPlans
  PROVE  PoolStepOf(p, Steps[p] - 1) = (IF Autostarts(p) THEN "autostart" ELSE "start")
<1>1. (Kind[p] = "pool" /\ Steps[p] \in {2, 3}) \/ (Kind[p] = "pool-start" /\ Steps[p] \in {1, 2})
  BY PoolPlansAreComplete DEF PoolPlans, PoolKinds
<1>2. CASE Kind[p] = "pool" /\ Steps[p] = 2
  BY <1>2 DEF PoolStepOf, Autostarts
<1>3. CASE Kind[p] = "pool" /\ Steps[p] = 3
  BY <1>3 DEF PoolStepOf, Autostarts
<1>4. CASE Kind[p] = "pool-start" /\ Steps[p] = 1
  BY <1>4 DEF PoolStepOf, Autostarts
<1>5. CASE Kind[p] = "pool-start" /\ Steps[p] = 2
  BY <1>5 DEF PoolStepOf, Autostarts
<1> QED
  BY <1>1, <1>2, <1>3, <1>4, <1>5

LEMMA InitPools ==
  ASSUME HostInit
  PROVE  PoolsStand
<1>1. \A j \in Jobs : ~Assured(j)
  BY DEF HostInit, HandlersInit, Init, Assured, At, Idle, MutexFree
<1>2. /\ pool = [x \in Pools |-> [at |-> IF x \in NewPools THEN "absent" ELSE "inactive",
                                  autostart |-> FALSE, by |-> NoJob]]
      /\ poolReserved = [x \in NewPools |-> NoJob]
  BY DEF HostInit, PoolsInit
<1>3. PoolsTypeOK
  BY <1>2 DEF PoolsTypeOK, Pool
<1> QED
  BY <1>1, <1>2, <1>3, PoolsArePools, NullsAreNotValues DEF PoolsStand

\* Everything that changes a pool.
LEMMA PoolChanges ==
  ASSUME HostNext
  PROVE  \/ UNCHANGED pools
         \/ \E i \in Jobs : IsAbout(i, PoolKinds) /\ (ReservePool(i) \/ DefinePool(i) \/ StartPool(i) \/ SetPoolAutostart(i))
         \/ OthersStartPool
         \/ PowerLoss /\ PoolsLosePower
BY DEF HostNext, HostPlans, PlanPool, HostWork, HostChanges, PowerLoss, PoolWork, CheckPool, ReadPoolBack

\* What a step makes of one pool.
PoolMoves(x) ==
  \/ pool'[x] = pool[x]
  \/ /\ pool[x].at = "absent" /\ pool'[x] = [pool[x] EXCEPT !.at = "inactive"]
     /\ NoCollision(x)
  \/ \E i \in Jobs : At(i, "execute") /\ pool'[x] = [pool[x] EXCEPT !.at = "active", !.by = i] /\ pool[x].at = "inactive"
  \/ pool[x].at = "inactive" /\ pool'[x] = [pool[x] EXCEPT !.at = "active"]
  \/ pool[x].at = "active" /\ pool'[x] = [pool[x] EXCEPT !.autostart = TRUE]
  \/ /\ PowerLoss /\ pool[x].at # "absent"
     /\ pool'[x] = [pool[x] EXCEPT !.at = IF pool[x].autostart THEN "active" ELSE "inactive"]

LEMMA PoolsMove ==
  ASSUME HandlersInv, PoolsTypeOK, HostNext
  PROVE  /\ pool' = [x \in Pools |-> pool'[x]] /\ \A x \in Pools : PoolMoves(x)
         /\ \A x \in Pools, y \in Pools : x # y /\ pool[x].at = "absent" /\ pool'[x].at # "absent" => pool'[y] = pool[y]
         /\ \/ poolReserved' = poolReserved
            \/ \E i \in Jobs, x \in NewPools :
                 /\ At(i, "execute") /\ poolReserved[x] = NoJob
                 /\ poolReserved' = [poolReserved EXCEPT ![x] = i]
<1>1. pool \in [Pools -> Pool] /\ poolReserved \in [NewPools -> Jobs \cup {NoJob}]
  BY DEF PoolsTypeOK
<1>2. CASE UNCHANGED pools
  BY <1>1, <1>2 DEF pools, PoolMoves
<1>3. ASSUME NEW i \in Jobs, IsAbout(i, PoolKinds), ReservePool(i) \/ DefinePool(i) \/ StartPool(i) \/ SetPoolAutostart(i)
      PROVE  /\ At(i, "execute") /\ PlanOf(i) = jobs[i].planID /\ PoolOf[PlanOf(i)] \in Pools
             /\ Kind[PlanOf(i)] = "pool" => PoolOf[PlanOf(i)] \in NewPools
  <2>1. At(i, "execute")
    BY <1>3 DEF ReservePool, DefinePool, StartPool, SetPoolAutostart, PoolStep, In
  <2>2. PlanOf(i) = jobs[i].planID /\ PlanOf(i) \in PoolPlans
    BY <1>3, <2>1, LivePlan DEF At, Live, IsAbout, PoolPlans
  <2> QED
    BY <2>1, <2>2, PoolsArePools, PoolPlansAreComplete DEF NewPools, PoolPlans
<1>4. ASSUME NEW i \in Jobs, IsAbout(i, PoolKinds), ReservePool(i)
      PROVE  /\ pool' = pool
             /\ \/ poolReserved' = poolReserved
                \/ \E x \in NewPools :
                     poolReserved[x] = NoJob /\ poolReserved' = [poolReserved EXCEPT ![x] = i]
  BY <1>1, <1>4 DEF ReservePool
<1>5. ASSUME NEW i \in Jobs, IsAbout(i, PoolKinds), DefinePool(i)
      PROVE  \E x \in Pools :
               /\ pool[x].at = "absent" /\ NoCollision(x) /\ poolReserved' = poolReserved
               /\ pool' = [pool EXCEPT ![x].at = "inactive"]
  BY <1>3, <1>5 DEF DefinePool
<1>6. ASSUME NEW i \in Jobs, IsAbout(i, PoolKinds), StartPool(i)
      PROVE  \E x \in Pools :
               /\ pool[x].at = "inactive" /\ poolReserved' = poolReserved
               /\ pool' = [pool EXCEPT ![x].at = "active", ![x].by = i]
  BY <1>3, <1>6 DEF StartPool
<1>7. ASSUME NEW i \in Jobs, IsAbout(i, PoolKinds), SetPoolAutostart(i)
      PROVE  \E x \in Pools :
               /\ pool[x].at = "active" /\ poolReserved' = poolReserved
               /\ pool' = [pool EXCEPT ![x].autostart = TRUE]
  BY <1>3, <1>7 DEF SetPoolAutostart
<1>8. ASSUME OthersStartPool
      PROVE  \E x \in Pools :
               /\ pool[x].at = "inactive" /\ poolReserved' = poolReserved
               /\ pool' = [pool EXCEPT ![x].at = "active"]
  BY <1>8, PoolsArePools DEF OthersStartPool
<1>9. CASE PowerLoss /\ PoolsLosePower
  BY <1>1, <1>9 DEF PoolsLosePower, PoolMoves, Pool
<1>10. CASE \E i \in Jobs : IsAbout(i, PoolKinds) /\ ReservePool(i)
  BY <1>1, <1>3, <1>4, <1>10 DEF PoolMoves
<1>11. CASE \E i \in Jobs : IsAbout(i, PoolKinds) /\ DefinePool(i)
  <2>1. PICK x \in Pools :
          /\ pool[x].at = "absent" /\ NoCollision(x) /\ poolReserved' = poolReserved
          /\ pool' = [pool EXCEPT ![x].at = "inactive"]
    BY <1>5, <1>11
  <2> QED
    BY <1>1, <2>1 DEF PoolMoves
<1>12. CASE \E i \in Jobs : IsAbout(i, PoolKinds) /\ StartPool(i)
  <2>1. PICK i \in Jobs, x \in Pools :
          /\ pool[x].at = "inactive" /\ poolReserved' = poolReserved /\ At(i, "execute")
          /\ pool' = [pool EXCEPT ![x].at = "active", ![x].by = i]
    BY <1>3, <1>6, <1>12
  <2> QED
    BY <1>1, <2>1 DEF PoolMoves, Pool
<1>13. CASE \E i \in Jobs : IsAbout(i, PoolKinds) /\ SetPoolAutostart(i)
  <2>1. PICK x \in Pools :
          /\ pool[x].at = "active" /\ poolReserved' = poolReserved
          /\ pool' = [pool EXCEPT ![x].autostart = TRUE]
    BY <1>7, <1>13
  <2> QED
    BY <1>1, <2>1 DEF PoolMoves, Pool
<1>14. CASE OthersStartPool
  <2>1. PICK x \in Pools :
          /\ pool[x].at = "inactive" /\ poolReserved' = poolReserved
          /\ pool' = [pool EXCEPT ![x].at = "active"]
    BY <1>8, <1>14
  <2> QED
    BY <1>1, <2>1 DEF PoolMoves, Pool
<1> QED
  BY <1>2, <1>9, <1>10, <1>11, <1>12, <1>13, <1>14, PoolChanges

LEMMA NextPools ==
  ASSUME HandlersInv, PoolsStand, HostNext
  PROVE  PoolsStand'
<1>1. /\ pool \in [Pools -> Pool] /\ poolReserved \in [NewPools -> Jobs \cup {NoJob}]
      /\ pool' = [x \in Pools |-> pool'[x]] /\ \A x \in Pools : PoolMoves(x)
      /\ \A x \in Pools, y \in Pools : x # y /\ pool[x].at = "absent" /\ pool'[x].at # "absent" => pool'[y] = pool[y]
      /\ \/ poolReserved' = poolReserved
         \/ \E i \in Jobs, x \in NewPools :
              /\ At(i, "execute") /\ poolReserved[x] = NoJob
              /\ poolReserved' = [poolReserved EXCEPT ![x] = i]
  BY PoolsMove DEF PoolsStand, PoolsTypeOK
<1>2. ASSUME NEW x \in Pools
      PROVE  /\ pool'[x] \in Pool
             /\ pool[x].autostart => pool'[x].autostart
             /\ pool[x].at # "absent" => pool'[x].at # "absent"
             /\ pool[x].at = "active" /\ ~PowerLoss => pool'[x].at = "active"
             /\ pool[x].at = "absent" /\ pool'[x].at # "absent" => NoCollision(x)
             /\ pool'[x].by = pool[x].by \/ \E i \in Jobs : At(i, "execute") /\ pool'[x].by = i
  <2>1. pool[x] \in Pool /\ PoolMoves(x)
    BY <1>1
  <2>2. CASE pool'[x] = pool[x]
    BY <2>1, <2>2
  <2>3. CASE \E i \in Jobs : At(i, "execute") /\ pool'[x] = [pool[x] EXCEPT !.at = "active", !.by = i] /\ pool[x].at = "inactive"
    BY <2>1, <2>3 DEF Pool
  <2> QED
    BY <2>1, <2>2, <2>3 DEF PoolMoves, Pool
<1>3. PoolsTypeOK'
  <2>1. pool' \in [Pools -> Pool]
    BY <1>1, <1>2
  <2>2. poolReserved' \in [NewPools -> Jobs \cup {NoJob}]
    BY <1>1
  <2> QED
    BY <2>1, <2>2 DEF PoolsTypeOK
<1>4. ASSUME NEW x \in NewPools, NEW y \in Pools \ {x}, pool'[x].at # "absent", pool'[y].at # "absent"
      PROVE  PoolFolder[y] # PoolFolder[x]
  <2>1. x \in Pools
    BY PoolsArePools
  <2>2. CASE pool[x].at # "absent" /\ pool[y].at # "absent"
    BY <2>2 DEF PoolsStand
  <2>3. CASE pool[x].at = "absent"
    <3>1. NoCollision(x) /\ pool'[y] = pool[y]
      BY <1>1, <1>2, <1>4, <2>1, <2>3
    <3> QED
      BY <1>4, <3>1 DEF NoCollision
  <2>4. CASE pool[y].at = "absent"
    <3>1. NoCollision(y) /\ pool'[x] = pool[x]
      BY <1>1, <1>2, <1>4, <2>1, <2>4
    <3> QED
      BY <1>4, <2>1, <3>1 DEF NoCollision
  <2> QED
    BY <2>2, <2>3, <2>4
<1>5. ASSUME NEW j \in Jobs, NEW x \in Pools, pool'[x].by = j, Untried(j)'
      PROVE  FALSE
  <2>1. Untried(j) /\ ~At(j, "execute")
    BY <1>5, UntriedWas
  <2> QED
    BY <1>2, <1>5, <2>1 DEF PoolsStand
<1>6. ASSUME NEW j \in Jobs, NEW x \in NewPools, poolReserved'[x] = j, Untried(j)'
      PROVE  FALSE
  <2>1. Untried(j) /\ ~At(j, "execute")
    BY <1>6, UntriedWas
  <2> QED
    BY <1>1, <1>6, <2>1 DEF PoolsStand
<1>7. ASSUME NEW j \in Jobs, Assured(j)', Kind[jobs'[j].planID] \in PoolKinds
      PROVE  PoolIsDone(j)'
  <2> DEFINE p == jobs[j].planID
             x == PoolOf[p]
  <2>1. Stored(j) /\ jobs'[j].planID = p /\ p \in Plans /\ Kind[p] \in PoolKinds
    BY <1>7, AssuredWas, StoredStays
  <2>2. LastStep(j)' = LastStep(j) /\ x \in Pools /\ (Kind[p] = "pool" => x \in NewPools)
    BY <2>1, PoolsArePools, PoolPlansAreComplete DEF LastStep, PoolPlans, NewPools
  <2>3. PoolDone(p, LastStep(j), j) /\ (~PowerLoss \/ UNCHANGED pools)
    BY <1>7, <2>1, AssuredWas, DoneIs DEF PoolsStand, PoolIsDone
  <2>4. PoolStepOf(p, LastStep(j)) # "define"
    BY <2>1, PoolEnds DEF LastStep, PoolPlans
  <2>5. /\ pool[x].at = "active" /\ (PoolStepOf(p, LastStep(j)) = "autostart" => pool[x].autostart)
        /\ Kind[p] = "pool" => poolReserved[x] = j
    BY <2>3, <2>4 DEF PoolDone
  <2>6. /\ pool'[x].at = "active" /\ (PoolStepOf(p, LastStep(j)) = "autostart" => pool'[x].autostart)
    BY <1>2, <2>2, <2>3, <2>5 DEF pools
  <2>7. Kind[p] = "pool" => poolReserved'[x] = j
    BY <1>1, <2>2, <2>5, NullsAreNotValues
  <2> QED
    BY <2>1, <2>2, <2>6, <2>7 DEF PoolDone, PoolStepOf, PoolIsDone
<1> QED
  BY <1>3, <1>4, <1>5, <1>6, <1>7 DEF PoolsStand

LEMMA PoolsAchieve ==
  ASSUME HandlersInv, PoolsStand, NEW j \in Jobs, Kind[jobs[j].planID] \in PoolKinds, Assured(j)
  PROVE  PoolAchieved(j)
<1> DEFINE p == jobs[j].planID
           x == PoolOf[p]
<1>1. Stored(j) /\ p \in PoolPlans
  BY AssuredRest, ReviewOfStored DEF PoolPlans
<1>2. PoolStepOf(p, LastStep(j)) = (IF Autostarts(p) THEN "autostart" ELSE "start")
  BY <1>1, PoolEnds DEF LastStep
<1>3. /\ pool[x].at = "active" /\ (Autostarts(p) => pool[x].autostart)
      /\ Kind[p] = "pool" => poolReserved[x] = j
  BY <1>2 DEF PoolsStand, PoolIsDone, PoolDone
<1>4. x \in Pools
  BY <1>1, PoolsArePools
<1>5. OwnFolder(x)
  <2>1. SUFFICES ASSUME NEW y \in Pools \ {x}, pool[y].at # "absent", x \in NewPools \/ y \in NewPools
                 PROVE  PoolFolder[y] # PoolFolder[x]
    BY DEF OwnFolder
  <2>2. CASE x \in NewPools
    BY <1>3, <2>1, <2>2 DEF PoolsStand
  <2>3. CASE y \in NewPools
    BY <1>3, <1>4, <2>1, <2>3 DEF PoolsStand
  <2> QED
    BY <2>1, <2>2, <2>3
<1> QED
  BY <1>3, <1>5 DEF PoolAchieved

LEMMA PoolsStayAway ==
  ASSUME HandlersInv, RecoveriesContinue, DeclinesAreFew, PoolsStand, NEW j \in Jobs,
         Kind[jobs[j].planID] \in PoolKinds, EndsEarly(j) \/ Declines(j)
  PROVE  PoolUntouched(j)
BY StopsUntried, PoolsArePools DEF PoolsStand, PoolUntouched, PoolPlans

-----------------------------------------------------------------------------
(* Machines: what was asked for is noted as soon as it is so, and who says that *)
(* nothing was done has looked; the guest alone acts on the machine then.       *)

MachineState ==
  [defined : BOOLEAN, state : {"stopped", "running", "paused"}, saved : BOOLEAN,
   autostart : BOOLEAN, config : Setting, cpus : Setting, memory : Setting, target : Setting]

MachinesStand ==
  /\ machine \in MachineState
  /\ \A j \in Jobs :
       /\ j \in called => ~Untried(j) /\ Kind[jobs[j].planID] # "stop"
       /\ j \in machineReceipt => Stored(j) /\ (Kind[jobs[j].planID] = "reboot" => j \in rebooted)
       /\ Assured(j) /\ Kind[jobs[j].planID] \in MachineKinds => MachineAchieved(j)
       /\ Declines(j) /\ Kind[jobs[j].planID] \in MachineKinds => MachineUntouched(j)

LEMMA InitMachines ==
  ASSUME HostInit
  PROVE  MachinesStand
<1>1. \A j \in Jobs : ~Assured(j) /\ ~Declines(j)
  BY DEF HostInit, HandlersInit, Init, Assured, Declines, At, Idle, MutexFree
<1>2. machine \in MachineState
  BY DEF HostInit, MachinesInit, MachineState, Setting
<1> QED
  BY <1>1, <1>2 DEF HostInit, MachinesInit, MachinesStand

\* Who waits for the machine to be as requested is noted when it is.
Awaits(j) ==
  Stored(j) /\ Kind[jobs[j].planID] \in MachineKinds /\ jobs[j].state \notin {"succeeded", "failed", "canceled"}

LEMMA BecomeNotes ==
  ASSUME NEW m, Become(m)
  PROVE  /\ machine' = m /\ reached \subseteq reached'
         /\ \A j \in Jobs : Awaits(j) /\ Meets(jobs[j].planID, machine) => j \in reached'
<1>1. /\ machine' = m
      /\ reached' = reached \cup {j \in {j \in Jobs : Awaits(j)} : \E n \in {machine, m} : Meets(jobs[j].planID, n)}
  BY DEF Become, Awaits
<1> QED
  BY <1>1

LEMMA MachinesRun ==
  ASSUME NEW m \in MachineState
  PROVE  Running(m) \in MachineState /\ Stopped(m) \in MachineState
BY DEF Running, Stopped, MachineState, Setting

LEMMA EffectsAreMachines ==
  ASSUME NEW m \in MachineState, NEW kind \in SingleCalls
  PROVE  Effect(kind, m) \in MachineState
<1>1. CASE kind \in {"start", "restore-saved"}
  BY <1>1, MachinesRun DEF Effect
<1>2. CASE kind = "hard-stop"
  BY <1>2, MachinesRun DEF Effect
<1>3. CASE kind = "pause"
  BY <1>3 DEF Effect, MachineState
<1>4. CASE kind = "resume"
  BY <1>4 DEF Effect, MachineState
<1>5. CASE kind = "save"
  BY <1>5 DEF Effect, MachineState
<1>6. CASE kind = "autostart"
  BY <1>6 DEF Effect, MachineState
<1> QED
  BY <1>1, <1>2, <1>3, <1>4, <1>5, <1>6 DEF SingleCalls, Lifecycle

\* What a handler does to the machine.
LEMMA MachineWorks ==
  ASSUME machine \in MachineState, NEW i \in Jobs, MachineWork(i)
  PROVE  /\ At(i, "execute") /\ work[i].at \notin Harmless
         /\ \/ UNCHANGED <<machine, reached>>
            \/ \E m \in MachineState : Become(m)
         /\ UNCHANGED rebooted
         /\ called' = called \/ (called' = called \cup {i} /\ Kind[PlanOf(i)] # "stop")
         /\ \/ machineReceipt' = machineReceipt
            \/ machineReceipt' = machineReceipt \cup {i} /\ (Kind[PlanOf(i)] = "reboot" => i \in rebooted)
<1>1. CASE CallMachine(i)
  <2>1. Effect(Kind[PlanOf(i)], machine) \in MachineState
    BY <1>1, EffectsAreMachines DEF CallMachine, MachineStep
  <2>2. Kind[PlanOf(i)] # "stop"
    BY <1>1 DEF CallMachine, MachineStep, SingleCalls
  <2> QED
    BY <1>1, <2>1, <2>2 DEF CallMachine, MachineStep, In, Harmless
<1>2. CASE CallAnswered(i) \/ BootFails(i) \/ AskToShutDown(i) \/ SeeShutDown(i) \/ GiveUpShutDown(i) \/ CheckEdit(i)
           \/ ReadEditBack(i)
  BY <1>2 DEF CallAnswered, BootFails, AskToShutDown, SeeShutDown, GiveUpShutDown, CheckEdit, ReadEditBack, machines,
     MachineStep, In, Harmless
<1>3. CASE SeeMemory(i) \/ SeeMemoryBack(i) \/ LiveRefused(i) \/ LiveRechecked(i) \/ Subscribe(i) \/ ArmReboot(i)
  BY <1>3 DEF SeeMemory, SeeMemoryBack, LiveRefused, LiveRechecked, Subscribe, ArmReboot, machines,
     LiveStep, MachineStep, In, Harmless
<1>4. CASE DefineEdit(i) \/ RemoveDefinition(i)
  <2>1. [machine EXCEPT !.config = "new"] \in MachineState /\ [machine EXCEPT !.defined = FALSE] \in MachineState
    BY DEF MachineState, Setting
  <2> QED
    BY <1>4, <2>1 DEF DefineEdit, RemoveDefinition, MachineStep, In, Harmless
<1>5. CASE SetProcessors(i) \/ AskForMemory(i) \/ AskForMemoryBack(i)
  <2>1. /\ [machine EXCEPT !.cpus = "new"] \in MachineState
        /\ [machine EXCEPT !.target = "new"] \in MachineState
        /\ [machine EXCEPT !.target = "old"] \in MachineState
    BY DEF MachineState, Setting
  <2> QED
    BY <1>5, <2>1 DEF SetProcessors, AskForMemory, AskForMemoryBack, LiveStep, MachineStep, In, Harmless
<1>6. CASE RequestReboot(i) \/ RecordReboot(i) \/ RecordRemoval(i)
  BY <1>6 DEF RequestReboot, RecordReboot, RecordRemoval, MachineStep, In, Harmless
<1> QED
  BY <1>1, <1>2, <1>3, <1>4, <1>5, <1>6 DEF MachineWork

\* Everything that changes the machine, or what is known of it.
LEMMA MachinesMove ==
  ASSUME machine \in MachineState, HostNext
  PROVE  \/ UNCHANGED machines
         \/ \E i \in Jobs : IsAbout(i, MachineKinds) /\ MachineWork(i)
         \/ /\ GuestShutsDown \/ GuestReboots \/ GuestAnswers
            /\ UNCHANGED <<called, machineReceipt>>
         \/ /\ PowerLoss /\ (\E m \in MachineState : Become(m))
            /\ UNCHANGED <<called, rebooted, machineReceipt>>
<1>1. \/ UNCHANGED machines
      \/ \E i \in Jobs : IsAbout(i, MachineKinds) /\ MachineWork(i)
      \/ GuestActs
      \/ PowerLoss /\ MachinesLosePower
  BY DEF HostNext, HostPlans, PlanMachine, HostWork, HostChanges, PowerLoss
<1>2. ASSUME MachinesLosePower
      PROVE  \E m \in MachineState : Become(m)
  <2> DEFINE off == IF machine.state = "stopped" THEN machine ELSE Stopped(machine)
  <2>1. off \in MachineState /\ Running(off) \in MachineState
    BY MachinesRun
  <2> HIDE DEF off
  <2>2. (CASE ~Followed -> machine [] Followed /\ machine.autostart -> Running(off) [] OTHER -> off) \in MachineState
    BY <2>1
  <2> QED
    BY <1>2, <2>2 DEF MachinesLosePower, off
<1> QED
  BY <1>1, <1>2 DEF GuestActs, MachinesLosePower

\* A machine is worked on by one job at a time.
LEMMA OneMachineJob ==
  ASSUME HandlersInv, NEW i \in Jobs, NEW j \in Jobs, Live(i), Live(j),
         Kind[jobs[i].planID] \in MachineKinds, Kind[jobs[j].planID] \in MachineKinds
  PROVE  i = j
<1>1. RunnersAreExclusive
  BY DEF HandlersInv, AcceptanceInv, DoubtInv, OwnershipInv, Ownership, RunnersHold, RunnersAreExclusive, Holds
<1>2. jobs[i].planID \in MachinePlans /\ jobs[j].planID \in MachinePlans
  BY LivePlan DEF MachinePlans
<1> QED
  BY <1>1, <1>2, MachinesAreChangedAlone DEF RunnersAreExclusive, Resource

\* Who says that nothing was done has looked.
LEMMA MachineDeclines ==
  ASSUME HandlersInv, MachinesStand, NEW j \in Jobs, MachineWork(j), Stored(j), Kind[jobs[j].planID] \in MachineKinds,
         work'[j].at \in Harmless
  PROVE  UNCHANGED machines /\ MachineUntouched(j)
<1>1. /\ WorkShape /\ At(j, "execute") /\ PlanOf(j) = jobs[j].planID /\ machine \in MachineState
  BY MachineWorks, LivePlan DEF HandlersInv, MachinesStand, At, Live
<1>2. ASSUME NEW at, Go(j, at)
      PROVE  work'[j].at = at
  BY <1>1, <1>2 DEF WorkShape, Go
<1>3. BootFails(j) \/ GiveUpShutDown(j) \/ LiveRechecked(j)
  <2>1. ASSUME NEW at \in {"called", "ok", "waiting", "define", "read back", "error", "ask", "settle", "settle back",
                           "refused", "subscribed", "armed", "requested", "record"}, Go(j, at)
        PROVE  FALSE
    BY <1>2, <2>1 DEF Harmless
  <2>2. ~(CallMachine(j) \/ CallAnswered(j) \/ AskToShutDown(j) \/ SeeShutDown(j) \/ CheckEdit(j) \/ DefineEdit(j)
          \/ ReadEditBack(j))
    BY <2>1 DEF CallMachine, CallAnswered, AskToShutDown, SeeShutDown, CheckEdit, DefineEdit, ReadEditBack
  <2>3. ~(SetProcessors(j) \/ AskForMemory(j) \/ SeeMemory(j) \/ AskForMemoryBack(j) \/ SeeMemoryBack(j)
          \/ LiveRefused(j))
    BY <2>1 DEF SetProcessors, AskForMemory, SeeMemory, AskForMemoryBack, SeeMemoryBack, LiveRefused
  <2>4. ~(Subscribe(j) \/ ArmReboot(j) \/ RequestReboot(j) \/ RecordReboot(j) \/ RemoveDefinition(j) \/ RecordRemoval(j))
    BY <2>1 DEF Subscribe, ArmReboot, RequestReboot, RecordReboot, RemoveDefinition, RecordRemoval
  <2> QED
    BY <2>2, <2>3, <2>4 DEF MachineWork
<1>4. CASE BootFails(j)
  <2>1. Kind[jobs[j].planID] \in {"start", "restore-saved"}
    BY <1>1, <1>4 DEF BootFails, MachineStep
  <2>2. machine.state = "stopped" /\ (Kind[jobs[j].planID] = "restore-saved" => machine.saved)
    BY <1>1, <1>2, <1>4 DEF BootFails, Harmless
  <2> QED
    BY <1>4, <2>1, <2>2 DEF BootFails, MachineUntouched
<1>5. CASE GiveUpShutDown(j)
  <2>1. Kind[jobs[j].planID] = "stop"
    BY <1>1, <1>5 DEF GiveUpShutDown, MachineStep
  <2> QED
    BY <1>5, <2>1 DEF GiveUpShutDown, MachineUntouched, MachinesStand
<1>6. CASE LiveRechecked(j)
  <2> DEFINE p == jobs[j].planID
  <2>1. Kind[p] = "set-live"
    BY <1>1, <1>6 DEF LiveRechecked, LiveStep, MachineStep
  <2>2. machine.state = "running" /\ Unchanged(p, review[p])
    BY <1>1, <1>2, <1>6 DEF LiveRechecked, Harmless
  <2>3. review[p].live = <<machine.cpus, machine.memory>>
    BY <2>1, <2>2 DEF Unchanged, LiveValues
  <2> QED
    BY <1>6, <2>1, <2>3 DEF LiveRechecked, MachineUntouched
<1> QED
  BY <1>3, <1>4, <1>5, <1>6

LEMMA NextMachines ==
  ASSUME HandlersInv, WorkIsExecuted, MachinesStand, HostNext
  PROVE  MachinesStand'
<1>1. machine \in MachineState
  BY DEF MachinesStand
<1>2. ASSUME NEW i \in Jobs, IsAbout(i, MachineKinds), MachineWork(i)
      PROVE  Live(i) /\ At(i, "execute") /\ PlanOf(i) = jobs[i].planID /\ work[i].at \notin Harmless
  BY <1>1, <1>2, MachineWorks, LivePlan DEF At, Live
<1>3. UNCHANGED <<machine, reached>> \/ \E m \in MachineState : Become(m)
  <2>1. ASSUME GuestShutsDown \/ GuestAnswers
        PROVE  \E m \in MachineState : Become(m)
    <3>1. [machine EXCEPT !.memory = machine.target] \in MachineState
      BY <1>1 DEF MachineState
    <3> QED
      BY <1>1, <2>1, <3>1, MachinesRun DEF GuestShutsDown, GuestAnswers
  <2> QED
    BY <1>1, <2>1, MachinesMove, MachineWorks DEF GuestReboots, machines
<1>4. /\ machine' \in MachineState /\ reached \subseteq reached'
      /\ \A j \in Jobs : Awaits(j) /\ Meets(jobs[j].planID, machine) => machine' = machine \/ j \in reached'
  BY <1>1, <1>3, BecomeNotes
<1>5. rebooted \subseteq rebooted'
  BY <1>1, MachinesMove, MachineWorks DEF GuestShutsDown, GuestReboots, GuestAnswers, machines
<1>6. /\ \/ called' = called
         \/ \E i \in Jobs :
              /\ IsAbout(i, MachineKinds) /\ At(i, "execute") /\ Kind[jobs[i].planID] # "stop"
              /\ called' = called \cup {i}
      /\ \/ machineReceipt' = machineReceipt
         \/ \E i \in Jobs :
              /\ IsAbout(i, MachineKinds) /\ (Kind[jobs[i].planID] = "reboot" => i \in rebooted)
              /\ machineReceipt' = machineReceipt \cup {i}
  BY <1>1, <1>2, MachinesMove, MachineWorks DEF machines
<1>7. ASSUME NEW j \in Jobs, j \in called'
      PROVE  ~Untried(j)' /\ Kind[jobs'[j].planID] # "stop"
  <2>1. Untried(j)' => Untried(j) /\ ~At(j, "execute")
    BY UntriedWas
  <2>2. CASE j \in called
    BY <2>1, <2>2, StoredStays DEF MachinesStand, Untried
  <2>3. CASE j \notin called
    <3>1. IsAbout(j, MachineKinds) /\ At(j, "execute") /\ Kind[jobs[j].planID] # "stop"
      BY <1>6, <1>7, <2>3
    <3> QED
      BY <2>1, <3>1, StoredStays DEF IsAbout
  <2> QED
    BY <2>2, <2>3
<1>8. ASSUME NEW j \in Jobs, j \in machineReceipt'
      PROVE  Stored(j)' /\ (Kind[jobs'[j].planID] = "reboot" => j \in rebooted')
  <2>1. Stored(j) /\ (Kind[jobs[j].planID] = "reboot" => j \in rebooted)
    BY <1>6, <1>8 DEF MachinesStand, IsAbout
  <2> QED
    BY <1>5, <2>1, StoredStays
<1>9. ASSUME NEW j \in Jobs, Assured(j)', Kind[jobs'[j].planID] \in MachineKinds
      PROVE  MachineAchieved(j)'
  <2> DEFINE p == jobs[j].planID
  <2>1. Stored(j) /\ jobs'[j].planID = p /\ Kind[p] \in MachineKinds
    BY <1>9, AssuredWas, StoredStays
  <2>2. CASE HostDone(p, LastStep(j), j) /\ UNCHANGED machines
    <3>1. MachineDone(p, j)
      BY <2>1, <2>2, DoneIs
    <3>2. IF Kind[p] = "reboot" THEN j \in rebooted ELSE Meets(p, machine)
      BY <3>1 DEF MachineDone, MachinesStand
    <3> QED
      BY <2>1, <2>2, <3>2 DEF MachineAchieved, machines, Meets, Settled
  <2>3. CASE Assured(j)
    <3>1. MachineAchieved(j) /\ Awaits(j)
      <4>1. jobs[j].state \in Active \cup {"recovery-required"}
        BY <2>3, EngineFacts DEF Assured, RunnersHold, RequestIsCurrent, At, Live
      <4> QED
        BY <2>1, <2>3, <4>1 DEF MachinesStand, Awaits, Active
    <3>2. CASE Kind[p] = "reboot"
      BY <1>5, <2>1, <3>1, <3>2 DEF MachineAchieved
    <3>3. CASE Kind[p] # "reboot" /\ j \in reached'
      BY <2>1, <3>3 DEF MachineAchieved
    <3>4. CASE Kind[p] # "reboot" /\ j \notin reached'
      <4>1. Meets(p, machine) /\ machine' = machine
        BY <1>4, <3>1, <3>4 DEF MachineAchieved
      <4> QED
        BY <2>1, <3>4, <4>1 DEF MachineAchieved, Meets, Settled
    <3> QED
      BY <3>2, <3>3, <3>4
  <2> QED
    BY <1>9, <2>1, <2>2, <2>3, AssuredWas
<1>10. ASSUME NEW j \in Jobs, Declines(j)', Kind[jobs'[j].planID] \in MachineKinds
       PROVE  MachineUntouched(j)'
  <2> DEFINE p == jobs[j].planID
  <2>1. Stored(j)
    BY <1>10, LivePlan, DeclinesComes DEF Declines, At, Live
  <2>2. jobs'[j].planID = p /\ review'[p] = review[p] /\ Kind[p] \in MachineKinds
    BY <1>10, <2>1, StoredStays
  <2>3. CASE HostWork(j) /\ work'[j].at \in Harmless
    <3>1. UNCHANGED machines /\ MachineUntouched(j)
      BY <2>1, <2>2, <2>3, WorkIs, MachineDeclines
    <3> QED
      BY <2>2, <3>1 DEF MachineUntouched, machines
  <2>4. CASE Declines(j)
    <3>1. MachineUntouched(j) /\ Live(j)
      BY <2>2, <2>4 DEF MachinesStand, Declines, At, Live
    <3>2. ~PowerLoss
      BY <1>10 DEF PowerLoss, Crash, Declines, At, Idle
    <3>3. ~\E i \in Jobs : IsAbout(i, MachineKinds) /\ MachineWork(i)
      <4>1. SUFFICES ASSUME NEW i \in Jobs, IsAbout(i, MachineKinds), MachineWork(i)
                     PROVE  FALSE
        OBVIOUS
      <4>2. i = j
        BY <1>2, <2>2, <3>1, <4>1, OneMachineJob DEF IsAbout
      <4> QED
        BY <1>2, <2>4, <4>1, <4>2 DEF Declines, At
    <3>4. CASE UNCHANGED machines \/ (GuestReboots /\ UNCHANGED called)
      BY <2>2, <3>1, <3>4 DEF MachineUntouched, machines, GuestReboots
    <3>5. CASE GuestShutsDown /\ UNCHANGED called
      <4>1. machine.state = "running" /\ machine' = Stopped(machine)
        BY <3>5, BecomeNotes DEF GuestShutsDown
      <4>2. machine'.state = "stopped"
        BY <1>1, <4>1 DEF Stopped, MachineState
      <4> QED
        BY <2>2, <3>1, <3>5, <4>1, <4>2 DEF MachineUntouched
    <3>6. CASE GuestAnswers /\ UNCHANGED called
      <4>1. /\ machine.state = "running" /\ machine'.state = "running" /\ machine'.cpus = machine.cpus
            /\ machine'.memory = machine.target /\ machine'.target = machine.target
        BY <1>1, <3>6, BecomeNotes DEF GuestAnswers, MachineState
      <4> QED
        BY <2>2, <3>1, <3>6, <4>1 DEF MachineUntouched
    <3> QED
      BY <1>1, <3>2, <3>3, <3>4, <3>5, <3>6, MachinesMove
  <2> QED
    BY <1>10, <2>3, <2>4, DeclinesComes
<1> QED
  BY <1>4, <1>7, <1>8, <1>9, <1>10 DEF MachinesStand

LEMMA MachinesStayAway ==
  ASSUME HandlersInv, MachinesStand, NEW j \in Jobs, Kind[jobs[j].planID] \in MachineKinds, EndsEarly(j) \/ Declines(j)
  PROVE  MachineUntouched(j)
<1>1. CASE Declines(j)
  BY <1>1 DEF MachinesStand
<1>2. CASE EndsEarly(j)
  <2>1. jobs[j].planID \in MachinePlans
    BY <1>2, LivePlan DEF EndsEarly, At, Live, MachinePlans
  <2>2. Untried(j)
    BY <1>2, <2>1, EarlyIsUntried, MachinePlansAreComplete
  <2> QED
    BY <2>2 DEF MachinesStand, MachineUntouched
<1> QED
  BY <1>1, <1>2

-----------------------------------------------------------------------------
(* Access.  A call of the helper belongs to a job that keeps its locks, has *)
(* said nothing yet, and is confirmed by nobody until the helper is free;   *)
(* so nobody else changes the file a job has locked.                        *)

AccessJob(j) == Stored(j) /\ Kind[jobs[j].planID] \in AccessKinds

\* Execute has not begun to work.
Begins(j) == At(j, "execute") /\ work[j].at = "idle"

CallsFollow ==
  \A c \in Jobs : ~HelperFree /\ call.job = c /\ AccessJob(c) =>
    Holds(c) /\ ~Untried(c) /\ ~Declines(c) /\ ~Assured(c) /\ ~Begins(c)

RevocationsBringBack ==
  \A j \in Jobs : Readable(accessIntent[j]) /\ Kind[jobs[j].planID] = "revoke" =>
    LET p == jobs[j].planID IN
    Readable(accessIntent[review[p].grant]) /\ accessIntent[j].desired = DesiredFor(p)

FilesStand ==
  \A j \in Jobs : AccessJob(j) =>
    /\ Untried(j) \/ Begins(j) \/ Declines(j) => AccessUntouched(j)
    /\ Assured(j) /\ Holds(j) => Readable(accessIntent[j]) /\ file.readers = accessIntent[j].desired

AccessesStand == CallsFollow /\ RevocationsBringBack /\ FilesStand

LEMMA InitAccesses ==
  ASSUME HostInit
  PROVE  AccessesStand
<1>1. \A j \in Jobs : ~Stored(j)
  BY DEF HostInit, HandlersInit, Init, JournalInit, Stored
<1> QED
  BY <1>1 DEF HostInit, HelperInit, AccessInit, HelperFree, AccessesStand, CallsFollow, RevocationsBringBack,
              FilesStand, AccessJob, Readable

\* Two jobs that keep the locks of the file are one.
LEMMA OneAccessJob ==
  ASSUME HandlersInv, NEW i \in Jobs, NEW j \in Jobs, AccessJob(i), AccessJob(j), Holds(i), Holds(j)
  PROVE  i = j
<1>1. jobs[i].planID \in AccessPlans /\ jobs[j].planID \in AccessPlans
  BY ReviewOfStored DEF AccessJob, AccessPlans, HandlersInv
<1>2. PICK r : r \in Resource(i) /\ r \in Resource(j)
  BY <1>1, FilesAreChangedAlone DEF Resource
<1> QED
  BY <1>2 DEF Holds

\* Who has the locks of the file has not ended.
LEMMA HoldersGoOn ==
  ASSUME HandlersInv, NEW j \in Jobs, AccessJob(j), Holds(j)
  PROVE  jobs[j].state \notin Finished
<1>1. jobs[j].planID \in AccessPlans
  BY ReviewOfStored DEF AccessJob, AccessPlans, HandlersInv
<1>2. PICK r : r \in Resource(j)
  BY <1>1, FilesAreChangedAlone DEF Resource
<1>3. r \in Resources /\ LocksServeUnfinishedJobs
  BY <1>1, <1>2, PlansAreComplete DEF Resource, AccessPlans, HandlersInv, AcceptanceInv, DoubtInv, OwnershipInv, Ownership
<1> QED
  BY <1>2, <1>3, NullsAreNotValues DEF Holds, LocksServeUnfinishedJobs

\* Locks go with an outcome.
LEMMA LocksGo ==
  ASSUME HandlersInv, RecoveriesAreOfNetworks, HostNext, NEW j \in Jobs, AccessJob(j), Holds(j), ~Holds(j)'
  PROVE  EndsEarly(j) \/ Declines(j) \/ Assured(j)
<1>1. EngineMoves
  <2>1. Resource(j)' = Resource(j)
    BY StoredStays DEF Resource, AccessJob
  <2>2. locks' # locks
    BY <2>1 DEF Holds
  <2> QED
    BY <2>2, HostCases DEF vars, journal, PowerLoss, Crash
<1>2. CASE (At(j, "boundary") \/ At(j, "validate")) /\ ~KeepsLocks(j)
  BY <1>2 DEF EndsEarly
<1>3. CASE At(j, "returned") /\ runner[j].outcome \in {"canceled-safely", "not-done"}
  BY <1>3 DEF Declines, Harmless
<1>4. CASE jobs'[j].state = "succeeded"
  <2>1. jobs[j].state # "succeeded"
    BY HoldersGoOn DEF Finished
  <2> QED
    BY <1>4, <2>1, ReasonsAreGiven DEF AccessJob
<1>5. CASE \E p \in RecoveryPlans : Planned(p) /\ review[p].parent = j
  BY <1>5, KindsAreApart DEF RecoveriesAreOfNetworks, AccessJob
<1> QED
  BY <1>1, <1>2, <1>3, <1>4, <1>5, LocksEnd DEF AccessJob

\* What the work of a job on access comes to.
LEMMA AccessWorks ==
  ASSUME HandlersInv, NEW j \in Jobs, AccessWork(j)
  PROVE  /\ file' = file
         /\ \/ CancelAccess(j) /\ work'[j].at = "canceled-safely" /\ Begins(j)
            \/ Asks(j) /\ work'[j].at = "asked" /\ Begins(j)
            \/ UNCHANGED <<work, call>>
BY DEF HandlersInv, WorkShape, AccessWork, CancelAccess, AskForAccess, ObserveAccess, StoreAccessReceipt, accesses, Asks, Go,
       AccessStep, In, Begins

\* Execute begins after Validate, and only then has it done nothing.
LEMMA ExecuteBegins ==
  ASSUME HandlersInv, WorkIsExecuted, HostNext, NEW j \in Jobs, Stored(j), Begins(j)',
         HostWork(j) => work'[j] = work[j] \/ work'[j].at # "idle"
  PROVE  Begins(j) \/ (At(j, "validate") /\ Live(j))
<1>1. WorkShape
  BY DEF HandlersInv
<1>2. ASSUME KeepsEngine, work'[j] = work[j] \/ work'[j].at # "idle"
      PROVE  Begins(j)
  BY <1>2 DEF KeepsEngine, vars, volatile, Begins, At
<1>5. ASSUME NEW p \in Plannable, HostPlans(p)
      PROVE  Begins(j)
  BY <1>5, PlansFrame DEF Begins, At, vars, volatile
<1>6. ASSUME NEW i \in Jobs, HostWork(i)
      PROVE  Begins(j)
  <2>1. CASE i = j
    BY <1>2, <1>6, <2>1, WorkFrame
  <2>2. CASE i # j
    BY <1>1, <1>2, <1>6, <2>2, WorkFrame DEF Progresses, WorkShape
  <2> QED
    BY <2>1, <2>2
<1>7. CASE HostChanges
  <2>1. work'[j] = work[j] \/ work'[j].at # "idle"
    BY <1>1, <1>7, ChangesFrame, HelperFrame DEF Go, WorkShape
  <2> QED
    BY <1>2, <1>7, <2>1, ChangesFrame
<1>3. CASE EngineMoves
  <2>1. At(j, "validate") => Live(j)
    BY DEF At, Live
  <2>2. RunnerSteps(j) => runner'[j] = runner[j] \/ At(j, "validate")
    BY DEF RunnerSteps, Begins, At, Idle
  <2>3. ~ExecuteReturns(j) /\ runner'[j] # Idle
    <3>1. runner \in [Jobs -> RunnerState \cup {Idle}]
      BY EngineFacts
    <3>2. ExecuteReturns(j) => runner'[j].pc = "returned"
      BY <3>1 DEF ExecuteReturns, Execute, At, RunnerState, Idle
    <3> QED
      BY <3>2 DEF Begins, At, Idle
  <2> QED
    BY <1>3, <2>1, <2>2, <2>3, EngineRuns DEF Begins, At
<1>4. CASE PowerLoss
  BY <1>4 DEF PowerLoss, Crash, Begins, At, Idle
<1> QED
  BY <1>3, <1>4, <1>5, <1>6, <1>7 DEF HostNext, EngineMoves

\* The helper goes on with a call, or takes up that of a job at work.
LEMMA CallComes ==
  ASSUME HandlersInv, AccessInv, HostNext, call' # NoCall
  PROVE  \/ ~HelperFree /\ call'.job = call.job
         \/ \E j \in Jobs : HostWork(j) /\ Asks(j)
<1>1. ASSUME NEW p \in Plannable, HostPlans(p)
      PROVE  call' = call
  BY <1>1 DEF HostPlans, PlanNetwork, PlanNetworkResume, PlanGrant, PlanRevocation
<1>2. ASSUME NEW j \in Jobs, HostWork(j)
      PROVE  call' = call \/ Asks(j)
  <2>1. CASE NetworkWork(j) \/ AccessWork(j)
    BY <1>2, <2>1
       DEF NetworkWork, CheckSubnet, ReserveSubnet, DefineNetwork, AskForFilter, CheckFilter, ActivateNetwork,
           AccessWork, CancelAccess, AskForAccess, ObserveAccess, StoreAccessReceipt
  <2> QED
    BY <1>2, <2>1 DEF HostWork
<1>3. CASE HostChanges
  <2>1. CASE NetworkHelper \/ AccessHelper
    BY <2>1 DEF AccessInv, IntentsAreSound, NetworkHelper, IntendFilter, IntendRule, AddRule, FilterDone, FilterBreaks, FiltersFor,
       AccessHelper, IntendAccess, SetACL, RecordAccess, AccessBreaks, SetsFor, Proceeds, Answers, Breaks
  <2>2. CASE ~(NetworkHelper \/ AccessHelper)
    BY <1>3, <2>2 DEF HostChanges, ReloadFirewall, HelperFree
  <2> QED
    BY <2>1, <2>2
<1>4. call' = call => ~HelperFree /\ call'.job = call.job
  BY DEF HelperFree
<1>5. PowerLoss => call' = NoCall
  BY DEF PowerLoss
<1> QED
  BY <1>1, <1>2, <1>3, <1>4, <1>5 DEF HostNext

LEMMA AccessOnce ==
  ASSUME HandlersInv, NEW j \in Jobs, AccessJob(j)
  PROVE  /\ Live(j) => runner[j].i = 0
         /\ EndsEarly(j) => Untried(j)
<1>1. jobs[j].planID \in AccessPlans
  BY ReviewOfStored DEF AccessJob, AccessPlans, HandlersInv
<1>2. Steps[jobs[j].planID] = 1
  BY <1>1, AccessPlansAreComplete
<1>3. Live(j) => runner[j].i \in Nat /\ runner[j].i <= LastStep(j)
  BY EngineFacts, LiveFacts DEF RunnerProgress
<1> QED
  BY <1>2, <1>3, EarlyIsUntried DEF LastStep

\* What a job may say that has not said it before.
LEMMA AccessGoesOn ==
  ASSUME HandlersInv, WorkIsExecuted, HostNext, NEW j \in Jobs, AccessJob(j)
  PROVE  /\ Declines(j)' => Declines(j) \/ Begins(j)
         /\ Begins(j)' => Begins(j) \/ Untried(j)
         /\ Untried(j)' => Untried(j)
<1>1. Declines(j)' => Declines(j) \/ Begins(j)
  <2>1. SUFFICES ASSUME Declines(j)', ~Declines(j)
                 PROVE  Begins(j)
    OBVIOUS
  <2>2. HostWork(j) /\ At(j, "execute") /\ work'[j].at \in Harmless
    BY <2>1, DeclinesComes
  <2>3. AccessWork(j)
    BY <2>2, WorkIs DEF AccessJob
  <2> QED
    BY <2>1, <2>2, <2>3, AccessWorks DEF Declines
<1>2. Begins(j)' => Begins(j) \/ Untried(j)
  <2>1. HostWork(j) => work'[j] = work[j] \/ work'[j].at # "idle"
    BY WorkIs, AccessWorks DEF AccessJob
  <2> QED
    BY <2>1, ExecuteBegins, AccessOnce DEF Untried, AccessJob
<1> QED
  BY <1>1, <1>2, UntriedWas

LEMMA NextCalls ==
  ASSUME HandlersInv, WorkIsExecuted, RecoveriesAreOfNetworks, AccessInv, CallsFollow, HostNext
  PROVE  CallsFollow'
<1> SUFFICES ASSUME NEW c \in Jobs, call' # NoCall, call'.job = c, AccessJob(c)'
             PROVE  Holds(c)' /\ ~Untried(c)' /\ ~Declines(c)' /\ ~Assured(c)' /\ ~Begins(c)'
  BY DEF CallsFollow, HelperFree
<1>1. CASE ~HelperFree /\ call'.job = call.job
  <2>1. AccessJob(c) /\ jobs'[c].planID = jobs[c].planID
    BY <1>1, StoredStays DEF AccessInv, IntentsAreSound, AccessJob
  <2>2. Holds(c) /\ ~Untried(c) /\ ~Declines(c) /\ ~Assured(c) /\ ~Begins(c)
    BY <1>1, <2>1 DEF CallsFollow
  <2>3. Holds(c)'
    BY <2>1, <2>2, LocksGo, AccessOnce
  <2>4. ~Untried(c)' /\ ~Declines(c)' /\ ~Begins(c)'
    BY <2>1, <2>2, AccessGoesOn
  <2>5. ~Assured(c)'
    <3>1. ~HostDone(jobs[c].planID, LastStep(c), c)
      BY <1>1, <2>1, DoneIs DEF AccessDone, ObservedAccess, ObservesAccess, AccessJob
    <3> QED
      BY <2>1, <2>2, <3>1, AssuredWas
  <2> QED
    BY <2>3, <2>4, <2>5
<1>2. ASSUME NEW j \in Jobs, HostWork(j), Asks(j)
      PROVE  Holds(c)' /\ ~Untried(c)' /\ ~Declines(c)' /\ ~Assured(c)' /\ ~Begins(c)'
  <2>1. KeepsEngine /\ Stored(j) /\ j = c
    BY <1>2, WorkFrame DEF Asks
  <2>2. AccessJob(c)
    BY <2>1 DEF AccessJob, KeepsEngine, vars, journal, Stored
  <2>3. AccessWork(c)
    BY <1>2, <2>1, <2>2, WorkIs DEF AccessJob
  <2>4. work'[c].at = "asked" /\ call' # call
    BY <1>2, <2>1 DEF Asks, HelperFree, Go, HandlersInv, WorkShape
  <2>5. Begins(c)
    BY <2>3, <2>4, AccessWorks
  <2>6. Holds(c) /\ ~Untried(c) /\ ~Assured(c) /\ ~At(c, "returned")
    BY <2>1, <2>5, AssuredRest, EngineFacts DEF RunnersHold, Begins, At, Live, Untried
  <2> QED
    BY <2>1, <2>4, <2>6, UnchangedEngine DEF KeepsEngine, Declines, Begins, Harmless
<1> QED
  BY <1>1, <1>2, CallComes

\* The records of the helper are written once.
LEMMA IntentsLast ==
  ASSUME HandlersInv, AccessInv, HostNext, NEW j \in Jobs, Readable(accessIntent[j])
  PROVE  accessIntent'[j] = accessIntent[j]
BY AccessesStep
   DEF Readable, AccessInv, IntentsAreSound, accesses, AccessWork, CancelAccess, AskForAccess, ObserveAccess,
       StoreAccessReceipt, AccessHelper, IntendAccess, SetACL, RecordAccess, AccessBreaks

LEMMA NextBringBack ==
  ASSUME HandlersInv, AccessInv, RevocationsBringBack, HostNext
  PROVE  RevocationsBringBack'
<1> SUFFICES ASSUME NEW j \in Jobs, Readable(accessIntent'[j]), Kind[jobs'[j].planID] = "revoke"
             PROVE  LET p == jobs'[j].planID IN
                    /\ Readable(accessIntent'[review'[p].grant])
                    /\ accessIntent'[j].desired = accessIntent'[review'[p].grant].before.readers
  BY DEF RevocationsBringBack, DesiredFor, Readable
<1> DEFINE p == jobs[j].planID
           g == review[p].grant
<1>1. ASSUME Stored(j), Kind[p] = "revoke"
      PROVE  g \in Jobs /\ jobs'[j].planID = p /\ review'[p] = review[p]
  <2>1. p \in AccessPlans /\ Planned(p)
    BY <1>1, StoredStays DEF AccessPlans, AccessKinds
  <2> QED
    BY <1>1, <2>1, StoredStays DEF AccessInv, RevocationsNameGrants
<1>2. CASE accessIntent'[j] = accessIntent[j]
  <2>1. Stored(j)
    BY <1>2 DEF AccessInv, IntentsAreSound, Sound, Readable
  <2>2. Kind[p] = "revoke"
    BY <2>1, StoredStays
  <2>3. Readable(accessIntent[g]) /\ accessIntent[j].desired = accessIntent[g].before.readers
    BY <1>2, <2>2 DEF RevocationsBringBack, DesiredFor, Readable
  <2> QED
    BY <1>1, <1>2, <2>1, <2>2, <2>3, IntentsLast
<1>3. CASE IntendAccess /\ j = call.job
  <2>1. /\ Stored(j) /\ KeepsEngine /\ HelperAllows(p)
        /\ accessIntent' = [accessIntent EXCEPT ![j] = [before |-> file, desired |-> DesiredFor(p)]]
    BY <1>3 DEF IntendAccess, SetsFor, AccessInv, IntentsAreSound
  <2>2. Kind[p] = "revoke"
    BY <2>1, StoredStays
  <2>3. Readable(accessIntent[g])
    BY <2>1, <2>2 DEF HelperAllows, Revocable
  <2>4. accessIntent'[j].desired = accessIntent[g].before.readers
    BY <2>1, <2>2 DEF AccessInv, IntentsAreSound, DesiredFor
  <2> QED
    BY <1>1, <2>1, <2>2, <2>3, <2>4, IntentsLast
<1> QED
  BY <1>2, <1>3, IntentsAreKept DEF Readable

\* The file changes for the job the helper works for, which has it locked.
LEMMA FileChanges ==
  ASSUME HandlersInv, AccessInv, CallsFollow, HostNext, file' # file
  PROVE  \E c \in Jobs :
           /\ AccessJob(c) /\ Holds(c) /\ ~Untried(c) /\ ~Declines(c) /\ ~Assured(c) /\ ~Begins(c)
<1>1. SetACL
  BY AccessesStep, AccessWorks DEF accesses, AccessHelper, IntendAccess, RecordAccess, AccessBreaks
<1>2. ~HelperFree /\ call.job \in Jobs /\ AccessJob(call.job)
  BY <1>1 DEF SetACL, SetsFor, AccessInv, IntentsAreSound, AccessJob
<1>3. PICK c \in Jobs : c = call.job
  BY <1>2
<1> QED
  BY <1>2, <1>3 DEF CallsFollow

LEMMA NextFiles ==
  ASSUME HandlersInv, WorkIsExecuted, AccessInv, CallsFollow, FilesStand, HostNext
  PROVE  FilesStand'
<1>1. ASSUME NEW j \in Jobs, AccessJob(j), file' # file
      PROVE  ~Untried(j) /\ ~Begins(j) /\ ~Declines(j) /\ ~(Assured(j) /\ Holds(j))
  <2>1. PICK c \in Jobs :
          AccessJob(c) /\ Holds(c) /\ ~Untried(c) /\ ~Declines(c) /\ ~Assured(c) /\ ~Begins(c)
    BY <1>1, FileChanges
  <2>2. Holds(j) => j = c
    BY <1>1, <2>1, OneAccessJob
  <2>3. Untried(j) \/ Begins(j) \/ Declines(j) => Holds(j)
    BY <1>1, EngineFacts DEF RunnersHold, Untried, Begins, Declines, At, Live, AccessJob
  <2> QED
    BY <2>1, <2>2, <2>3
<1>2. ASSUME NEW j \in Jobs, AccessJob(j)', Untried(j)' \/ Begins(j)' \/ Declines(j)'
      PROVE  AccessUntouched(j)'
  <2>1. CASE ~Stored(j)
    <3>1. HostValid(jobs'[j].planID, NoJob) /\ UNCHANGED <<accesses, review>>
      BY <1>2, <2>1, AcceptedWasValid DEF AccessJob
    <3>2. AccessValid(jobs'[j].planID, NoJob)
      BY <1>2, <3>1, ValidIs DEF AccessJob
    <3> QED
      BY <3>1, <3>2 DEF AccessValid, HelperAllows, AccessUntouched, accesses
  <2>2. CASE Stored(j)
    <3>1. AccessJob(j) /\ jobs'[j].planID = jobs[j].planID /\ review'[jobs[j].planID] = review[jobs[j].planID]
      BY <1>2, <2>2, StoredStays DEF AccessJob
    <3>2. Untried(j) \/ Begins(j) \/ Declines(j)
      BY <1>2, <3>1, AccessGoesOn
    <3>3. AccessUntouched(j) /\ file' = file
      BY <1>1, <3>1, <3>2 DEF FilesStand
    <3> QED
      BY <3>1, <3>3 DEF AccessUntouched
  <2> QED
    BY <2>1, <2>2
<1>3. ASSUME NEW j \in Jobs, AccessJob(j)', Assured(j)', Holds(j)'
      PROVE  Readable(accessIntent'[j]) /\ file'.readers = accessIntent'[j].desired
  <2>1. Stored(j)
    BY <1>3, AssuredWas
  <2>2. AccessJob(j) /\ Holds(j)
    BY <1>3, <2>1, StoredStays, HeldBefore DEF AccessJob
  <2>3. CASE Assured(j)
    <3>1. Readable(accessIntent[j]) /\ file.readers = accessIntent[j].desired /\ file' = file
      BY <1>1, <2>2, <2>3 DEF FilesStand
    <3> QED
      BY <3>1, IntentsLast
  <2>4. CASE HostDone(jobs[j].planID, LastStep(j), j) /\ UNCHANGED accesses
    <3>1. AccessDone(jobs[j].planID, j)
      BY <2>2, <2>4, DoneIs DEF AccessJob
    <3> QED
      BY <2>4, <3>1 DEF AccessDone, ObservedAccess, ObservesAccess, MatchesAccess, accesses
  <2> QED
    BY <1>3, <2>3, <2>4, AssuredWas
<1> QED
  BY <1>2, <1>3 DEF FilesStand

LEMMA NextAccesses ==
  ASSUME HandlersInv, WorkIsExecuted, RecoveriesAreOfNetworks, AccessInv, AccessesStand, HostNext
  PROVE  AccessesStand'
BY NextCalls, NextBringBack, NextFiles DEF AccessesStand

LEMMA AccessesAchieve ==
  ASSUME AccessInv, AccessesStand, NEW j \in Jobs, AccessJob(j), Assured(j), Holds(j)
  PROVE  AccessAchieved(j)
<1>1. Readable(accessIntent[j]) /\ file.readers = accessIntent[j].desired
  BY DEF AccessesStand, FilesStand
<1>2. Sound(j)
  BY <1>1 DEF AccessInv, IntentsAreSound
<1> QED
  BY <1>1, <1>2 DEF Sound, AccessAchieved, AccessesStand, RevocationsBringBack, AccessJob, AccessKinds

LEMMA AccessesStayAway ==
  ASSUME HandlersInv, AccessesStand, NEW j \in Jobs, AccessJob(j), EndsEarly(j) \/ Declines(j)
  PROVE  AccessUntouched(j)
BY AccessOnce DEF AccessesStand, FilesStand

-----------------------------------------------------------------------------
(* Imports.  A folder is made by a job that has begun, and by no other; the *)
(* job that made one has it alone until it has written its receipt.  An     *)
(* image is on record as removed by a job that is past all cancellation.    *)

PrepareJob(j) == Stored(j) /\ jobs[j].planID \in PreparePlans
DiscardJob(j) == Stored(j) /\ jobs[j].planID \in DiscardPlans

MarksAreMade ==
  \A x \in Places, j \in Jobs : folder[x].by = j \/ onDisk[x].by = j =>
    PrepareJob(j) /\ ~Untried(j) /\ ~Begins(j)

Copying == {"copy", "recheck", "record"}

CopiesAreOwn ==
  \A j \in Jobs : Preparing(j, Copying) =>
    /\ folder[WorkFolder(jobs[j].planID)].by = j
    /\ \A x \in Places : folder[x].by = j => x = WorkFolder(jobs[j].planID)

NothingIsLeft == \A j \in Jobs, x \in Places : PrepareJob(j) /\ Declines(j) => folder[x].by # j

ArtifactsHaveMakers ==
  \A p \in PreparePlans : artifacts[p] # NoFolder =>
    \E k \in Jobs : Stored(k) /\ jobs[k].planID = p /\ artifacts[p].by = k

RemovalsGoOn ==
  \A j \in Jobs, k \in Jobs : discarded[k] = j =>
    /\ DiscardJob(j) /\ ~At(j, "boundary") /\ ~At(j, "validate")
    /\ Live(j) => runner[j].i = 1

CopyStands(j) ==
  /\ PrepareJob(j) => PreparationDone(jobs[j].planID)
  /\ DiscardJob(j) => ~Exists(Doomed(jobs[j].planID, 1))

CopiesStand == \A j \in Jobs : Assured(j) /\ Holds(j) => CopyStands(j)

ImportsStand ==
  MarksAreMade /\ CopiesAreOwn /\ NothingIsLeft /\ ArtifactsHaveMakers /\ RemovalsGoOn /\ CopiesStand

LEMMA InitImportsStand ==
  ASSUME HostInit
  PROVE  ImportsStand
<1>1. \A j \in Jobs : ~Stored(j) /\ ~Live(j) /\ ~Assured(j)
  BY DEF HostInit, HandlersInit, Init, JournalInit, Stored, Live, Idle, Assured, At, MutexFree
<1>2. NoJob \notin Jobs
  BY NullsAreNotValues
<1> QED
  BY <1>1, <1>2 DEF HostInit, ImportsInit, ImportsStand, MarksAreMade, CopiesAreOwn, NothingIsLeft, ArtifactsHaveMakers,
     RemovalsGoOn, CopiesStand, PrepareJob, Preparing, NoFolder

\* Two jobs at one destination that keep their locks are one.
LEMMA OneHolderAtASite ==
  ASSUME HandlersInv, DiscardsAreBound, NEW i \in Jobs, NEW j \in Jobs, Live(i), Stored(j), Holds(j),
         jobs[i].planID \in PreparePlans \cup DiscardPlans, jobs[j].planID \in PreparePlans \cup DiscardPlans,
         SiteOf(i) = SiteOf(j)
  PROVE  i = j
<1>1. Holds(i)
  BY EngineFacts DEF RunnersHold
<1>2. SiteOf(i) \in Resource(i) /\ SiteOf(j) \in Resource(j)
  BY LivePlan, ReviewOfStored, ImportPlansAreComplete DEF SiteOf, Resource, DiscardsAreBound, Removes, PreparePlans
<1> QED
  BY <1>1, <1>2 DEF Holds

LEMMA PreparesOnce ==
  ASSUME HandlersInv, NEW j \in Jobs, PrepareJob(j)
  PROVE  /\ Live(j) => runner[j].i = 0
         /\ EndsEarly(j) => Untried(j)
<1>1. Steps[jobs[j].planID] = 1
  BY ImportPlansAreComplete DEF PrepareJob, PreparePlans
<1>2. Live(j) => runner[j].i \in Nat /\ runner[j].i <= LastStep(j)
  BY EngineFacts, LiveFacts DEF RunnerProgress
<1> QED
  BY <1>1, <1>2, EarlyIsUntried DEF LastStep

\* What the work of a job on imports comes to.
LEMMA ImportWorks ==
  ASSUME HandlersInv, ImportInv, NEW j \in Jobs, ImportMoves(j)
  PROVE  /\ work'[j].at # "idle"
         /\ work'[j].at \in Harmless => CancelPreparation(j)
         /\ work'[j].at \in {"recheck", "record"} => CopyPiece(j) \/ RecheckOriginal(j)
         /\ work'[j].at = "copy" => StartPreparation(j) \/ CopyPiece(j)
<1>1. \A at : Go(j, at) => work'[j].at = at
  BY ImportMovesAre DEF Go
<1>2. CASE StartPreparation(j) \/ CopyPiece(j) \/ RecheckOriginal(j)
  BY <1>1, <1>2 DEF StartPreparation, CopyPiece, RecheckOriginal, Harmless
<1>3. CASE RecordArtifact(j) \/ PublishCopies(j) \/ SyncParent(j) \/ CancelPreparation(j)
  BY <1>1, <1>3 DEF RecordArtifact, PublishCopies, SyncParent, CancelPreparation, Harmless
<1>4. CASE RecordDiscard(j) \/ BeginRemoval(j) \/ EndRemoval(j)
  BY <1>1, <1>4 DEF RecordDiscard, BeginRemoval, EndRemoval, Harmless
<1> QED
  BY <1>2, <1>3, <1>4, ImportMovesAre

LEMMA PreparationGoesOn ==
  ASSUME HandlersInv, ImportInv, HostNext, NEW j \in Jobs, PrepareJob(j)
  PROVE  /\ PrepareJob(j)' /\ jobs'[j].planID = jobs[j].planID
         /\ Declines(j)' => Declines(j) \/ (ImportMoves(j) /\ CancelPreparation(j) /\ At(j, "execute"))
         /\ Begins(j)' => Begins(j) \/ Untried(j)
         /\ Untried(j)' => Untried(j)
<1>1. WorkIsExecuted
  BY DEF ImportInv
<1>2. PrepareJob(j)' /\ jobs'[j].planID = jobs[j].planID
  BY StoredStays DEF PrepareJob
<1>3. HostWork(j) => ImportMoves(j)
  BY ImportIsImports DEF PrepareJob, PreparePlans, ImportKinds
<1>4. Declines(j)' => Declines(j) \/ (ImportMoves(j) /\ CancelPreparation(j) /\ At(j, "execute"))
  BY <1>1, <1>3, DeclinesComes, ImportWorks
<1>5. Begins(j)' => Begins(j) \/ Untried(j)
  BY <1>1, <1>3, ImportWorks, ExecuteBegins, PreparesOnce DEF Untried, PrepareJob
<1> QED
  BY <1>2, <1>4, <1>5, UntriedWas

\* Who made a folder, and what of that is on disk.
LEMMA MarksMove ==
  ASSUME HandlersInv, ImportInv, HostNext, NEW x \in Places
  PROVE  /\ onDisk'[x].by \in {onDisk[x].by, folder[x].by}
         /\ \/ folder'[x].by \in {folder[x].by, NoJob}
            \/ \E i \in Jobs :
                 /\ ImportMoves(i) /\ PrepareJob(i) /\ Live(i)
                 /\ \/ /\ StartPreparation(i)
                       /\ x = WorkFolder(jobs[i].planID) /\ folder'[x].by = i
                    \/ /\ PublishCopies(i) /\ x = Destination[jobs[i].planID]
                       /\ folder'[x].by = folder[WorkFolder(jobs[i].planID)].by
            \/ PowerLoss /\ folder'[x].by = onDisk[x].by
<1>1. folder \in [Places -> Folder] /\ onDisk \in [Places -> Folder]
  BY DEF ImportInv, ImportsTypeOK
<1>2. CASE UNCHANGED imports \/ EditSource
  BY <1>2 DEF imports, EditSource
<1>3. CASE ImportsLosePower /\ PowerLoss
  BY <1>1, <1>3 DEF ImportsLosePower
<1>4. ASSUME NEW i \in Jobs, ImportMoves(i), PrepareJob(i)
      PROVE  /\ onDisk'[x].by \in {onDisk[x].by, folder[x].by}
             /\ \/ folder'[x].by \in {folder[x].by, NoJob}
                \/ /\ StartPreparation(i)
                   /\ x = WorkFolder(jobs[i].planID) /\ folder'[x].by = i
                \/ /\ PublishCopies(i) /\ x = Destination[jobs[i].planID]
                   /\ folder'[x].by = folder[WorkFolder(jobs[i].planID)].by
  <2>1. /\ PlanOf(i) = jobs[i].planID /\ Live(i)
        /\ \/ StartPreparation(i) \/ CopyPiece(i) \/ RecheckOriginal(i) \/ RecordArtifact(i)
           \/ PublishCopies(i) \/ SyncParent(i) \/ CancelPreparation(i)
    BY <1>4, ImportMovesAre DEF PrepareJob, PreparePlans, DiscardPlans
  <2>2. PICK p : p = jobs[i].planID
    OBVIOUS
  <2>3. WorkFolder(p) \in Places /\ Destination[p] \in Places /\ WorkFolder(p) # Destination[p]
    BY <1>4, <2>1, <2>2, SitesArePlaces DEF PrepareJob
  <2>4. CASE StartPreparation(i)
    BY <1>1, <2>1, <2>2, <2>3, <2>4 DEF StartPreparation
  <2>5. CASE CopyPiece(i)
    <3>1. PICK copies : folder' = [folder EXCEPT ![WorkFolder(p)].copies = copies] /\ onDisk' = onDisk
      BY <2>1, <2>2, <2>5 DEF CopyPiece
    <3> QED
      BY <1>1, <2>3, <3>1 DEF Folder
  <2>6. CASE RecheckOriginal(i) \/ RecordArtifact(i)
    BY <2>6 DEF RecheckOriginal, RecordArtifact, imports
  <2>7. CASE PublishCopies(i)
    <3>1. /\ folder' = [folder EXCEPT ![Destination[p]] = folder[WorkFolder(p)], ![WorkFolder(p)].copies = <<>>]
          /\ onDisk' = onDisk
      BY <2>1, <2>2, <2>7 DEF PublishCopies
    <3>2. folder'[x].by = IF x = Destination[p] THEN folder[WorkFolder(p)].by ELSE folder[x].by
      BY <1>1, <2>3, <3>1 DEF Folder
    <3> QED
      BY <2>2, <2>7, <3>1, <3>2
  <2>8. CASE SyncParent(i)
    BY <2>8 DEF SyncParent
  <2>9. CASE CancelPreparation(i)
    BY <1>1, <2>1, <2>2, <2>3, <2>9 DEF CancelPreparation, NoFolder
  <2> QED
    BY <2>1, <2>4, <2>5, <2>6, <2>7, <2>8, <2>9
<1>5. ASSUME NEW i \in Jobs, ImportMoves(i), jobs[i].planID \in DiscardPlans
      PROVE  /\ onDisk'[x].by \in {onDisk[x].by, folder[x].by}
             /\ folder'[x].by \in {folder[x].by, NoJob}
  <2>1. RecordDiscard(i) \/ BeginRemoval(i) \/ EndRemoval(i)
    BY <1>5, ImportMovesAre DEF PreparePlans, DiscardPlans
  <2>2. CASE RecordDiscard(i)
    BY <2>2 DEF RecordDiscard
  <2>3. CASE BeginRemoval(i)
    <3>1. PICK y : folder' = [folder EXCEPT ![y].copies = <<>>] /\ onDisk' = onDisk
      BY <2>3 DEF BeginRemoval
    <3> QED
      BY <1>1, <3>1 DEF Folder
  <2>4. CASE EndRemoval(i)
    <3>1. PICK y : folder' = [folder EXCEPT ![y] = NoFolder] /\ onDisk' = onDisk
      BY <2>4 DEF EndRemoval
    <3> QED
      BY <1>1, <3>1 DEF NoFolder
  <2> QED
    BY <2>1, <2>2, <2>3, <2>4
<1>6. ASSUME NEW i \in Jobs, ImportMoves(i)
      PROVE  Live(i) /\ (PrepareJob(i) \/ jobs[i].planID \in DiscardPlans)
  BY <1>6, ImportMovesAre DEF PrepareJob, ImportMoves, IsAbout
<1> QED
  BY <1>2, <1>3, <1>4, <1>5, <1>6, ImportsStep

LEMMA NextMarks ==
  ASSUME HandlersInv, ImportInv, MarksAreMade, HostNext
  PROVE  MarksAreMade'
<1> SUFFICES ASSUME NEW x \in Places, NEW j \in Jobs, folder'[x].by = j \/ onDisk'[x].by = j
             PROVE  PrepareJob(j)' /\ ~Untried(j)' /\ ~Begins(j)'
  BY DEF MarksAreMade
<1>1. ASSUME NEW y \in Places, folder[y].by = j \/ onDisk[y].by = j
      PROVE  PrepareJob(j)' /\ ~Untried(j)' /\ ~Begins(j)'
  BY <1>1, PreparationGoesOn DEF MarksAreMade
<1>2. ASSUME ImportMoves(j), PrepareJob(j), Live(j), StartPreparation(j)
      PROVE  PrepareJob(j)' /\ ~Untried(j)' /\ ~Begins(j)'
  <2>1. At(j, "execute") /\ work'[j].at # "idle"
    BY <1>2, ImportMovesAre, ImportWorks
  <2>2. ~Untried(j)
    BY <2>1, <1>2 DEF Untried, At, PrepareJob
  <2> QED
    BY <1>2, <2>1, <2>2, PreparationGoesOn DEF Begins
<1>3. ASSUME NEW i \in Jobs, Live(i), PrepareJob(i)
      PROVE  WorkFolder(jobs[i].planID) \in Places
  BY <1>3, SitesArePlaces DEF PrepareJob
<1> QED
  BY <1>1, <1>2, <1>3, MarksMove, NullsAreNotValues

LEMMA NextOwn ==
  ASSUME HandlersInv, ImportInv, MarksAreMade, CopiesAreOwn, HostNext
  PROVE  CopiesAreOwn'
<1> SUFFICES ASSUME NEW j \in Jobs, Preparing(j, Copying)'
             PROVE  /\ folder'[WorkFolder(jobs'[j].planID)].by = j
                    /\ \A x \in Places : folder'[x].by = j => x = WorkFolder(jobs'[j].planID)
  BY DEF CopiesAreOwn, WorkFolder
<1>1. /\ Live(j) /\ Stored(j) /\ jobs'[j].planID = jobs[j].planID /\ PrepareJob(j) /\ ~PowerLoss
      /\ (work'[j] = work[j] /\ AtWork(j)) \/ ImportMoves(j)
  <2>1. WorkIsExecuted /\ AtWork(j)'
    BY DEF ImportInv, Preparing, Copying, AtWork
  <2>2. /\ Live(j) /\ Stored(j) /\ jobs'[j].planID = jobs[j].planID
        /\ (work'[j] = work[j] /\ AtWork(j)) \/ ImportMoves(j)
    BY <2>1, AtWorkWas
  <2>3. ~PowerLoss
    BY DEF PowerLoss, Crash, Preparing, Live, Idle
  <2> QED
    BY <2>2, <2>3 DEF Preparing, PrepareJob
<1>2. PICK w : w = WorkFolder(jobs[j].planID) /\ w \in Places /\ w # Destination[jobs[j].planID]
  BY <1>1, SitesArePlaces DEF PrepareJob
<1>3. CASE StartPreparation(j) /\ ImportMoves(j)
  <2>1. Begins(j)
    BY <1>3 DEF StartPreparation, ImportStep, In, Begins
  <2>2. folder' = [folder EXCEPT ![w] = [by |-> j, copies |-> <<>>]] /\ folder \in [Places -> Folder]
    BY <1>1, <1>2, <1>3, ImportMovesAre DEF StartPreparation, ImportInv, ImportsTypeOK
  <2>3. \A x \in Places : folder[x].by # j
    BY <2>1 DEF MarksAreMade
  <2> QED
    BY <1>1, <1>2, <2>2, <2>3
<1>4. CASE Preparing(j, Copying) /\ ~(StartPreparation(j) /\ ImportMoves(j)) /\ ~(ImportMoves(j) /\ CancelPreparation(j))
           /\ ~(ImportMoves(j) /\ PublishCopies(j))
  <2>1. folder[w].by = j /\ \A x \in Places : folder[x].by = j => x = w
    BY <1>2, <1>4 DEF CopiesAreOwn
  <2>2. ASSUME NEW x \in Places, folder'[x].by = j
        PROVE  x = w
    <3>1. ASSUME NEW i \in Jobs, ImportMoves(i), PrepareJob(i), Live(i), PublishCopies(i), x = Destination[jobs[i].planID],
                 folder[WorkFolder(jobs[i].planID)].by = j
          PROVE  FALSE
      <4>1. WorkFolder(jobs[i].planID) = w
        BY <2>1, <3>1, SitesArePlaces DEF PrepareJob
      <4>2. i = j
        BY <1>1, <1>2, <3>1, <4>1, OneJobAtASite DEF ImportInv, WorkFolder, SiteOf, PrepareJob
      <4> QED
        BY <1>4, <3>1, <4>2
    <3> QED
      BY <1>1, <1>4, <2>1, <2>2, <3>1, MarksMove, NullsAreNotValues
  <2>3. folder'[w].by = j
    <3>1. \/ folder'[w] = folder[w]
          \/ \E i \in Jobs :
               /\ ImportMoves(i) /\ Live(i) /\ jobs[i].planID \in PreparePlans
               /\ \/ w = WorkFolder(jobs[i].planID)
                  \/ w = Destination[jobs[i].planID] /\ ~Exists(w)
          \/ \E i \in Jobs :
               /\ ImportMoves(i) /\ Live(i) /\ jobs[i].planID \in DiscardPlans
               /\ w = Doomed(jobs[i].planID, runner[i].i)
      BY <1>1, <1>2, FolderStep
    <3>2. ASSUME NEW i \in Jobs, ImportMoves(i), Live(i), jobs[i].planID \in PreparePlans,
                 w = WorkFolder(jobs[i].planID)
          PROVE  folder'[w].by = j
      <4>1. i = j
        BY <1>1, <1>2, <3>2, OneJobAtASite DEF ImportInv, WorkFolder, SiteOf, PrepareJob
      <4>2. PlanOf(j) = jobs[j].planID /\ (CopyPiece(j) \/ RecheckOriginal(j) \/ RecordArtifact(j) \/ SyncParent(j))
        BY <1>1, <1>4, <3>2, <4>1, ImportMovesAre DEF PrepareJob, PreparePlans, DiscardPlans
      <4>3. folder \in [Places -> Folder]
        BY DEF ImportInv, ImportsTypeOK
      <4>4. CASE CopyPiece(j)
        <5>1. PICK copies : folder' = [folder EXCEPT ![w].copies = copies]
          BY <1>2, <4>2, <4>4 DEF CopyPiece
        <5> QED
          BY <2>1, <4>3, <5>1 DEF Folder
      <4> QED
        BY <2>1, <4>2, <4>4 DEF RecheckOriginal, RecordArtifact, SyncParent, imports
    <3>3. ASSUME NEW i \in Jobs, Live(i), jobs[i].planID \in PreparePlans, w = Destination[jobs[i].planID], ~Exists(w)
          PROVE  FALSE
      BY <2>1, <3>3, NullsAreNotValues DEF Exists
    <3>4. ASSUME NEW i \in Jobs, ImportMoves(i), Live(i), jobs[i].planID \in DiscardPlans,
                 w = Doomed(jobs[i].planID, runner[i].i)
          PROVE  FALSE
      <4>1. i = j
        <5> DEFINE made == jobs[review[jobs[i].planID].of].planID
        <5>1. /\ SiteOf(i) = Destination[made] /\ made \in PreparePlans
              /\ w = WorkFolder(made) \/ w = Destination[made]
          BY <3>4, SitesArePlaces
        <5>2. w \in PreparePlans /\ SiteOf(j) = Destination[w]
          BY <1>1, <1>2 DEF WorkFolder, SiteOf, PrepareJob
        <5>3. w # Destination[made]
          BY <5>1, <5>2, ImportPlansAreComplete DEF PreparePlans
        <5> QED
          BY <1>1, <3>4, <5>1, <5>2, <5>3, OneJobAtASite DEF ImportInv, WorkFolder, PrepareJob
      <4> QED
        BY <1>1, <3>4, <4>1 DEF PrepareJob, PreparePlans, DiscardPlans
    <3> QED
      BY <2>1, <3>1, <3>2, <3>3, <3>4
  <2> QED
    BY <1>1, <1>2, <2>2, <2>3
<1>5. ~(ImportMoves(j) /\ (CancelPreparation(j) \/ PublishCopies(j)))
  <2>1. ASSUME ImportMoves(j), CancelPreparation(j) \/ PublishCopies(j)
        PROVE  work'[j].at \in {"canceled-safely", "sync"}
    BY <2>1, ImportMovesAre DEF CancelPreparation, PublishCopies, Go
  <2> QED
    BY <2>1 DEF Preparing, Copying
<1>6. Preparing(j, Copying) \/ (ImportMoves(j) /\ StartPreparation(j))
  <2>1. CASE work'[j] = work[j] /\ AtWork(j)
    BY <1>1, <2>1 DEF Preparing, PrepareJob
  <2>2. CASE ImportMoves(j) /\ ~StartPreparation(j)
    <3>1. CopyPiece(j) \/ RecheckOriginal(j)
      BY <2>2, ImportWorks DEF Preparing, Copying
    <3>2. work[j].at \in Copying
      BY <3>1 DEF CopyPiece, RecheckOriginal, ImportStep, In, Copying
    <3> QED
      BY <1>1, <3>2 DEF Preparing, PrepareJob
  <2> QED
    BY <1>1, <2>1, <2>2
<1> QED
  BY <1>3, <1>4, <1>5, <1>6

LEMMA NextNothing ==
  ASSUME HandlersInv, ImportInv, MarksAreMade, CopiesAreOwn, NothingIsLeft, HostNext
  PROVE  NothingIsLeft'
<1> SUFFICES ASSUME NEW j \in Jobs, NEW x \in Places, PrepareJob(j)', Declines(j)', folder'[x].by = j
             PROVE  FALSE
  BY DEF NothingIsLeft
<1>1. PrepareJob(j)
  <2>1. CASE ~Stored(j)
    BY <2>1, AcceptedWasValid DEF Declines, At, PrepareJob
  <2>2. CASE Stored(j)
    BY <2>2, StoredStays DEF PrepareJob
  <2> QED
    BY <2>1, <2>2
<1>2. ~PowerLoss
  BY DEF PowerLoss, Crash, Declines, At, Idle
<1>3. CASE Declines(j)
  <2>1. \A y \in Places : folder[y].by # j
    BY <1>1, <1>3 DEF NothingIsLeft
  <2>2. ~StartPreparation(j)
    BY <1>3 DEF StartPreparation, ImportStep, In, At, Declines, Harmless
  <2>3. \A i \in Jobs : Live(i) /\ PrepareJob(i) => WorkFolder(jobs[i].planID) \in Places
    BY SitesArePlaces DEF PrepareJob
  <2> QED
    BY <1>2, <2>1, <2>2, <2>3, MarksMove, NullsAreNotValues
<1>4. CASE ImportMoves(j) /\ CancelPreparation(j)
  <2>1. Live(j) /\ PlanOf(j) = jobs[j].planID
    BY <1>4, ImportMovesAre
  <2>2. CASE In(j, "idle")
    <3>1. Begins(j) /\ folder' = folder
      BY <1>4, <2>2 DEF CancelPreparation, In, Begins
    <3> QED
      BY <3>1 DEF MarksAreMade
  <2>3. CASE ~In(j, "idle")
    <3>1. Preparing(j, Copying) /\ folder' = [folder EXCEPT ![WorkFolder(jobs[j].planID)] = NoFolder]
      BY <1>1, <1>4, <2>1, <2>3 DEF CancelPreparation, Does, In, Preparing, Copying, PrepareJob
    <3>2. folder \in [Places -> Folder] /\ NoFolder.by = NoJob
      BY DEF ImportInv, ImportsTypeOK, NoFolder
    <3> QED
      BY <3>1, <3>2, NullsAreNotValues DEF CopiesAreOwn
  <2> QED
    BY <2>2, <2>3
<1> QED
  BY <1>1, <1>3, <1>4, PreparationGoesOn

\* A receipt is written once.
LEMMA ArtifactsMove ==
  ASSUME HandlersInv, ImportInv, HostNext, NEW p \in PreparePlans
  PROVE  \/ artifacts'[p] = artifacts[p]
         \/ \E i \in Jobs :
              /\ ImportMoves(i) /\ RecordArtifact(i) /\ p = jobs[i].planID
              /\ artifacts[p] = NoFolder /\ artifacts'[p] = folder[WorkFolder(p)]
<1>1. ASSUME NEW i \in Jobs, ImportMoves(i)
      PROVE  artifacts' = artifacts \/ RecordArtifact(i)
  BY <1>1 DEF ImportMoves, ImportWork, StartPreparation, CopyPiece, RecheckOriginal, PublishCopies, SyncParent,
     CancelPreparation, RecordDiscard, BeginRemoval, EndRemoval, imports
<1>2. ASSUME NEW i \in Jobs, ImportMoves(i), RecordArtifact(i), artifacts'[p] # artifacts[p]
      PROVE  p = jobs[i].planID /\ artifacts[p] = NoFolder /\ artifacts'[p] = folder[WorkFolder(p)]
  BY <1>2, ImportMovesAre DEF RecordArtifact, ImportInv, ImportsTypeOK
<1> QED
  BY <1>1, <1>2, ImportsStep DEF imports, EditSource, ImportsLosePower

LEMMA NextMakers ==
  ASSUME HandlersInv, ImportInv, CopiesAreOwn, ArtifactsHaveMakers, HostNext
  PROVE  ArtifactsHaveMakers'
<1> SUFFICES ASSUME NEW p \in PreparePlans, artifacts'[p] # NoFolder
             PROVE  \E k \in Jobs : Stored(k)' /\ jobs'[k].planID = p /\ artifacts'[p].by = k
  BY DEF ArtifactsHaveMakers
<1>1. CASE artifacts'[p] = artifacts[p]
  BY <1>1, StoredStays DEF ArtifactsHaveMakers
<1>2. ASSUME NEW i \in Jobs, ImportMoves(i), RecordArtifact(i), p = jobs[i].planID,
             artifacts'[p] = folder[WorkFolder(p)]
      PROVE  Stored(i) /\ artifacts'[p].by = i
  <2>1. Preparing(i, Copying) /\ Stored(i)
    BY <1>2, ImportMovesAre DEF RecordArtifact, ImportStep, In, Preparing, Copying, ImportMoves, IsAbout
  <2> QED
    BY <1>2, <2>1 DEF CopiesAreOwn
<1> QED
  BY <1>1, <1>2, ArtifactsMove, StoredStays

LEMMA NextRemovals ==
  ASSUME HandlersInv, ImportInv, RemovalsGoOn, HostNext
  PROVE  RemovalsGoOn'
<1> SUFFICES ASSUME NEW j \in Jobs, NEW k \in Jobs, discarded'[k] = j
             PROVE  /\ DiscardJob(j)' /\ ~At(j, "boundary")' /\ ~At(j, "validate")'
                    /\ Live(j)' => runner'[j].i = 1
  BY DEF RemovalsGoOn
<1>1. CASE discarded[k] = j
  <2>1. DiscardJob(j) /\ ~At(j, "boundary") /\ ~At(j, "validate") /\ (Live(j) => runner[j].i = 1)
    BY <1>1 DEF RemovalsGoOn
  <2>2. DiscardJob(j)'
    BY <2>1, StoredStays DEF DiscardJob
  <2>3. CASE UNCHANGED vars
    BY <2>1, <2>2, <2>3, UnchangedEngine
  <2>4. CASE EngineMoves
    <3>1. RunnerSteps(j)
      BY <2>4, EngineRuns
    <3>2. Live(j)' => runner'[j].i <= 1
      <4>1. Steps[jobs'[j].planID] = 2
        BY <2>2, ImportPlansAreComplete DEF DiscardJob, DiscardPlans
      <4>2. Live(j)' => runner'[j].i <= LastStep(j)'
        BY NextHandlers DEF HandlersInv, AcceptanceInv, DoubtInv, Progress, RunnersProgress, RunnerProgress
      <4> QED
        BY <4>1, <4>2 DEF LastStep
    <3>3. ExecuteReturns(j) => At(j, "execute")
      BY DEF ExecuteReturns, Execute
    <3> QED
      BY <2>1, <2>2, <3>1, <3>2, <3>3 DEF RunnerSteps, At, Live, Idle, DiscardJob
  <2>5. CASE PowerLoss
    BY <2>2, <2>5 DEF PowerLoss, Crash, At, Live, Idle
  <2> QED
    BY <2>3, <2>4, <2>5, HostCases
<1>2. CASE discarded[k] # j
  <2>1. ASSUME NEW i \in Jobs, ImportMoves(i)
        PROVE  i = j /\ RecordDiscard(i)
    <3>1. discarded' = discarded \/ RecordDiscard(i)
      BY <2>1 DEF ImportMoves, ImportWork, StartPreparation, CopyPiece, RecheckOriginal, RecordArtifact, PublishCopies,
         SyncParent, CancelPreparation, BeginRemoval, EndRemoval, imports
    <3>2. RecordDiscard(i) => discarded'[k] = discarded[k] \/ discarded'[k] = i
      BY DEF RecordDiscard, ImportInv, ImportsTypeOK
    <3> QED
      BY <1>2, <3>1, <3>2
  <2>2. ImportMoves(j) /\ RecordDiscard(j)
    BY <1>2, <2>1, ImportsStep DEF imports, EditSource, ImportsLosePower
  <2>3. /\ At(j, "execute") /\ runner[j].i = 1 /\ jobs' = jobs /\ runner' = runner
        /\ jobs[j].planID \in DiscardPlans /\ Stored(j)
    BY <2>2, ImportMovesAre DEF RecordDiscard, ImportStep, Does, PreparePlans, DiscardPlans, ImportMoves, IsAbout
  <2> QED
    BY <2>3 DEF At, DiscardJob, Stored
<1> QED
  BY <1>1, <1>2

\* Nobody else changes what is at a destination a job has locked.
LEMMA SiteStays ==
  ASSUME HandlersInv, ImportInv, HostNext, ~PowerLoss, NEW j \in Jobs, PrepareJob(j) \/ DiscardJob(j), Holds(j),
         ~At(j, "execute")
  PROVE  /\ SiteOf(j) \in Places /\ folder'[SiteOf(j)] = folder[SiteOf(j)]
         /\ PrepareJob(j) => SiteOf(j) = Destination[jobs[j].planID]
         /\ DiscardJob(j) => SiteOf(j) = Doomed(jobs[j].planID, 1) /\ review[jobs[j].planID].of \in Jobs
                             /\ Stored(review[jobs[j].planID].of)
<1>1. /\ PrepareJob(j) => SiteOf(j) = Destination[jobs[j].planID]
      /\ DiscardJob(j) => /\ SiteOf(j) = Doomed(jobs[j].planID, 1)
                          /\ \E made \in PreparePlans : SiteOf(j) = Destination[made]
                          /\ review[jobs[j].planID].of \in Jobs /\ Stored(review[jobs[j].planID].of)
  BY ReviewOfStored DEF SiteOf, PrepareJob, DiscardJob, PreparePlans, DiscardPlans, Doomed, ImportInv, DiscardsAreBound,
                        Removes
<1>2. PICK made \in PreparePlans : SiteOf(j) = Destination[made]
  BY <1>1 DEF PrepareJob
<1>3. SiteOf(j) \in Places
  BY <1>2 DEF Places
<1>4. ASSUME NEW i \in Jobs, Live(i), ImportMoves(i), jobs[i].planID \in PreparePlans \cup DiscardPlans, SiteOf(i) = SiteOf(j)
      PROVE  FALSE
  <2>1. i = j
    BY <1>4, OneHolderAtASite DEF ImportInv, PrepareJob, DiscardJob
  <2> QED
    BY <1>4, <2>1, ImportMovesAre
<1>5. \A p \in PreparePlans : WorkFolder(p) # SiteOf(j)
  BY <1>2, ImportPlansAreComplete DEF PreparePlans, WorkFolder
<1>6. ASSUME NEW i \in Jobs, ImportMoves(i), Live(i), jobs[i].planID \in PreparePlans,
             SiteOf(j) = WorkFolder(jobs[i].planID) \/ SiteOf(j) = Destination[jobs[i].planID]
      PROVE  FALSE
  BY <1>4, <1>5, <1>6 DEF SiteOf
<1>7. ASSUME NEW i \in Jobs, ImportMoves(i), Live(i), jobs[i].planID \in DiscardPlans,
             SiteOf(j) = Doomed(jobs[i].planID, runner[i].i)
      PROVE  FALSE
  BY <1>4, <1>5, <1>7, SitesArePlaces
<1> QED
  BY <1>1, <1>3, <1>6, <1>7, FolderStep

LEMMA AssuredCopiesStand ==
  ASSUME HandlersInv, ImportInv, CopiesStand, HostNext
  PROVE  CopiesStand'
<1> SUFFICES ASSUME NEW j \in Jobs, Assured(j)', Holds(j)', PrepareJob(j)' \/ DiscardJob(j)'
             PROVE  CopyStands(j)'
  BY DEF CopiesStand, CopyStands
<1>1. Stored(j) /\ Holds(j)
  BY AssuredWas, HeldBefore
<1>2. PICK p : p = jobs[j].planID /\ jobs'[j].planID = p /\ review'[p] = review[p] /\ p \in PreparePlans \cup DiscardPlans
  BY <1>1, StoredStays DEF PrepareJob, DiscardJob
<1>3. PrepareJob(j) \/ DiscardJob(j)
  BY <1>1, <1>2 DEF PrepareJob, DiscardJob
<1>4. p \in DiscardPlans => \E made \in Plans :
        made = jobs[review[p].of].planID /\ jobs'[review[p].of].planID = made
  BY <1>1, <1>2, ReviewOfStored, StoredStays DEF ImportInv, DiscardsAreBound, Removes
<1>5. /\ PrepareJob(j)' => p \in PreparePlans
      /\ DiscardJob(j)' => p \in DiscardPlans
  BY <1>2 DEF PrepareJob, DiscardJob
<1>6. CASE HostDone(p, LastStep(j), j) /\ UNCHANGED imports
  <2>1. ImportsDone(p, LastStep(j))
    BY <1>2, <1>6, DoneIs DEF PreparePlans, DiscardPlans, ImportKinds
  <2>2. p \in PreparePlans => PreparationDone(p)
    BY <2>1 DEF ImportsDone, PreparePlans
  <2>3. p \in DiscardPlans => ~Exists(Doomed(p, 1))
    <3>1. p \in DiscardPlans => LastStep(j) = 1
      BY <1>2, ImportPlansAreComplete DEF DiscardPlans, LastStep
    <3> QED
      BY <2>1, <3>1 DEF ImportsDone, DiscardPlans
  <2>4. artifacts' = artifacts /\ folder' = folder
    BY <1>6 DEF imports
  <2>5. PrepareJob(j)' => PreparationDone(jobs[j].planID)'
    BY <1>2, <1>5, <2>2, <2>4 DEF PreparationDone
  <2>6. DiscardJob(j)' => ~Exists(Doomed(jobs[j].planID, 1))'
    BY <1>2, <1>4, <1>5, <2>3, <2>4 DEF Doomed, Exists
  <2> QED
    BY <2>5, <2>6 DEF CopyStands
<1>7. CASE Assured(j) /\ ~PowerLoss
  <2>1. ~At(j, "execute")
    BY <1>7, AssuredRest
  <2>2. CopyStands(j)
    BY <1>1, <1>7 DEF CopiesStand
  <2>3. folder'[SiteOf(j)] = folder[SiteOf(j)]
    BY <1>1, <1>3, <1>7, <2>1, SiteStays
  <2>4. PrepareJob(j)' => PreparationDone(jobs[j].planID)'
    <3>1. ASSUME p \in PreparePlans
          PROVE  PreparationDone(p) /\ SiteOf(j) = Destination[p]
      BY <1>1, <1>2, <1>3, <1>7, <2>1, <2>2, <3>1, SiteStays DEF CopyStands, PrepareJob
    <3>2. ASSUME p \in PreparePlans
          PROVE  artifacts'[p] = artifacts[p] /\ folder'[Destination[p]] = folder[Destination[p]]
      BY <3>1, <3>2, <2>3, ArtifactsMove DEF PreparationDone
    <3> QED
      BY <1>2, <1>5, <3>1, <3>2 DEF PreparationDone
  <2>5. DiscardJob(j)' => ~Exists(Doomed(jobs[j].planID, 1))'
    <3>1. ASSUME p \in DiscardPlans
          PROVE  ~Exists(Doomed(p, 1)) /\ folder'[Doomed(p, 1)] = folder[Doomed(p, 1)]
      BY <1>1, <1>2, <1>3, <1>7, <2>1, <2>2, <2>3, <3>1, SiteStays DEF CopyStands, DiscardJob
    <3> QED
      BY <1>2, <1>4, <1>5, <3>1 DEF Doomed, Exists
  <2> QED
    BY <2>4, <2>5 DEF CopyStands
<1> QED
  BY <1>2, <1>6, <1>7, AssuredWas

LEMMA NextImportsStand ==
  ASSUME HandlersInv, ImportInv, ImportsStand, HostNext
  PROVE  ImportsStand'
BY NextMarks, NextOwn, NextNothing, NextMakers, NextRemovals, AssuredCopiesStand DEF ImportsStand

LEMMA ImportsAchieve ==
  ASSUME HandlersInv, ImportInv, ImportsStand, NEW j \in Jobs, Stored(j), Kind[jobs[j].planID] \in ImportKinds,
         Assured(j), Holds(j)
  PROVE  ImportAchieved(j)
<1>1. PICK p \in Plans : p = jobs[j].planID
  BY ReviewOfStored
<1>2. CASE Kind[p] = "prepare"
  <2>1. p \in PreparePlans /\ PreparationDone(p)
    BY <1>1, <1>2 DEF ImportsStand, CopiesStand, CopyStands, PrepareJob, PreparePlans
  <2>2. artifacts[p] \in Folder /\ artifacts[p].copies = AllCopied(review[p].version)
    BY <2>1 DEF PreparationDone, ImportInv, ImportsTypeOK, ArtifactsAreWhole
  <2>3. PICK k \in Jobs : Stored(k) /\ jobs[k].planID = p /\ artifacts[p].by = k
    BY <2>1 DEF PreparationDone, ImportsStand, ArtifactsHaveMakers
  <2>4. folder[Destination[p]] = [by |-> k, copies |-> AllCopied(review[p].version)]
    BY <2>1, <2>2, <2>3 DEF PreparationDone, Folder
  <2> QED
    BY <1>1, <1>2, <2>3, <2>4 DEF ImportAchieved
<1>3. CASE Kind[p] = "discard"
  BY <1>1, <1>3 DEF ImportsStand, CopiesStand, CopyStands, DiscardJob, DiscardPlans, ImportAchieved
<1> QED
  BY <1>1, <1>2, <1>3 DEF ImportKinds

LEMMA ImportsStayAway ==
  ASSUME HandlersInv, ImportInv, ImportsStand, DeclinesAreFew, NEW j \in Jobs, Stored(j),
         Kind[jobs[j].planID] \in ImportKinds, EndsEarly(j) \/ Declines(j)
  PROVE  ImportUntouched(j)
<1>1. PICK p \in Plans : p = jobs[j].planID
  BY ReviewOfStored
<1>2. CASE Kind[p] = "prepare"
  <2>1. PrepareJob(j) /\ WorkFolder(p) \in Places /\ Destination[p] \in Places
    BY <1>1, <1>2 DEF PrepareJob, PreparePlans, Places, WorkFolder
  <2>2. Untried(j) \/ Declines(j)
    BY <2>1, PreparesOnce
  <2>3. folder[WorkFolder(p)].by # j /\ folder[Destination[p]].by # j
    BY <2>1, <2>2 DEF ImportsStand, MarksAreMade, NothingIsLeft
  <2> QED
    BY <1>1, <1>2, <2>3 DEF ImportUntouched
<1>3. CASE Kind[p] = "discard"
  <2>1. review[p].of \in Jobs
    BY <1>1, <1>3, ReviewOfStored DEF ImportInv, DiscardsAreBound, Removes, DiscardPlans
  <2>2. ~Declines(j)
    BY <1>1, <1>3 DEF DeclinesAreFew, AccessKinds, MachineKinds, Lifecycle
  <2> QED
    BY <1>1, <1>3, <2>1, <2>2 DEF ImportsStand, RemovalsGoOn, EndsEarly, ImportUntouched
<1> QED
  BY <1>1, <1>2, <1>3 DEF ImportKinds

-----------------------------------------------------------------------------
(* Captures: a set has one content wherever it is kept, a snapshot and the   *)
(* volumes of a restored machine have the content of their set, and what a   *)
(* job made carries its name.                                                *)

\* All snapshots of a set are of what was captured.
SnapshotsAreTrue ==
  \A s \in repository :
    \/ s.set \in Archived /\ s.data = FirstVersion
    \/ \E p \in CapturePlans : SetOf[p] = s.set /\ Planned(p) /\ s.data = review[p].source

\* What a plan is to back up, recover or restore is known.
ReviewsAreOfSets ==
  \A p \in BackupPlans \cup RecoverPlans \cup RestorePlans : Planned(p) => Known(SetOf[p], review[p].data)

\* What was restored to verify a backup comes from its snapshot.
RoundtripsAreTrue ==
  /\ DOMAIN roundtrip = Jobs
  /\ \A j \in Jobs : roundtrip[j] # Nothing => \E s \in repository : s.by = j /\ s.data = roundtrip[j]

\* At this work, a job on the restoration of a machine has come to its volumes.
Restoring(j, ats) == At(j, "execute") /\ jobs[j].planID \in RestorePlans /\ work[j].at \in ats

RestorationsAreTrue ==
  /\ restored \in [RestorePlans -> [by : Jobs \cup {NoJob}, verified : Nat, volumes : Seq(0..MaxWrites), defined : BOOLEAN]]
  /\ \A p \in RestorePlans :
       /\ Len(restored[p].volumes) <= DiskCount
       /\ \A n \in 1..Len(restored[p].volumes) : restored[p].volumes[n] = review[p].data[n]
       /\ restored[p].by = NoJob => restored[p].volumes = <<>>
       /\ restored[p].by # NoJob => Planned(p)
       /\ restored[p].defined => Len(restored[p].volumes) = DiskCount

RestorationsGoOn ==
  \A j \in Jobs :
    LET now == restored[jobs[j].planID] IN
    /\ Restoring(j, {"allocate", "verified", "define"}) => now.by = j
    /\ Restoring(j, {"allocate", "verified"}) => "i" \in DOMAIN work[j] /\ work[j].i \in CapturedDisks
    /\ Restoring(j, {"allocate"}) => Len(now.volumes) = work[j].i - 1
    /\ Restoring(j, {"verified"}) => Len(now.volumes) = work[j].i
    /\ Restoring(j, {"define"}) => Len(now.volumes) = DiskCount

\* Sets, snapshots and restorations are made by Execute.
CapturesAreTried ==
  \A j \in Jobs : Untried(j) =>
    /\ \A c \in CaptureIDs : catalog[c].by # j
    /\ \A s \in repository : s.by # j
    /\ \A p \in RestorePlans : restored[p].by # j

\* What Reconcile saw.
SawCapture(j) ==
  LET p == jobs[j].planID IN
  /\ Kind[p] \in {"capture", "recover"} => Lasts(SetOf[p])
  /\ Kind[p] = "backup" => roundtrip[j] # Nothing
  /\ Kind[p] = "restore" => restored[p].defined

CapturesStand ==
  /\ SnapshotsAreTrue /\ ReviewsAreOfSets /\ RoundtripsAreTrue /\ RestorationsAreTrue /\ RestorationsGoOn
  /\ CapturesAreTried
  /\ \A j \in Jobs : Assured(j) => SawCapture(j)

\* What is known of a set is one thing.
LEMMA OneContent ==
  ASSUME StagingInv, SnapshotsAreTrue, NEW c, NEW d, NEW e, Known(c, d), Known(c, e)
  PROVE  d = e /\ d \in Versions
<1>1. ASSUME NEW x, Known(c, x)
      PROVE  /\ x \in Versions
             /\ \/ c \in Archived /\ x = FirstVersion
                \/ \E p \in CapturePlans : SetOf[p] = c /\ x = review[p].source
  <2>1. FirstVersion \in Versions
    BY CapturePlansAreComplete DEF FirstVersion, Versions
  <2> QED
    BY <1>1, <2>1 DEF Known, SnapshotsAreTrue, StagingInv, ReviewsPrecede
<1> QED
  BY <1>1, CapturesAreTheirOwn

LEMMA NextSnapshots ==
  ASSUME HandlersInv, CaptureInv, SnapshotsAreTrue, HostNext
  PROVE  SnapshotsAreTrue'
<1>1. \A p \in CapturePlans : Planned(p) => Planned(p)' /\ review'[p] = review[p]
  BY ReviewsAreKept DEF HandlersInv, CapturePlans, Planned
<1>2. CASE repository' = repository
  BY <1>1, <1>2 DEF SnapshotsAreTrue
<1>3. ASSUME NEW j \in Jobs, Upload(j)
      PROVE  SnapshotsAreTrue'
  <2>1. PICK c : c = SetOf[PlanOf(j)]
    OBVIOUS
  <2>2. c \in CaptureIDs
    BY <1>3, <2>1, LivePlan DEF Upload, CaptureStep, Does, At, Live, CaptureIDs
  <2>3. PICK s : s = [by |-> j, set |-> c, data |-> catalog[c].data]
    OBVIOUS
  <2>4. repository' = repository \cup {s} /\ Known(c, s.data) /\ s.set = c
    BY <1>3, <2>1, <2>2, <2>3 DEF Upload, Whole, CaptureInv, CatalogInv, DataAreKnown
  <2>5. \/ s.set \in Archived /\ s.data = FirstVersion
        \/ \E p \in CapturePlans : SetOf[p] = s.set /\ Planned(p) /\ s.data = review[p].source
    BY <2>4 DEF Known, SnapshotsAreTrue
  <2> QED
    BY <1>1, <2>4, <2>5 DEF SnapshotsAreTrue
<1>4. repository' = repository \/ \E j \in Jobs : Upload(j)
  BY CapturesStep, ZenonT(40) DEF captures, CaptureMoves, CaptureWork, Reads, PlanFromSet, CapturesLosePower, GuestWrites,
       StartCapture, CheckSource, ConvertDisk, RecheckSource, RecordPublication,
       NamePartial, WriteMembers, RenameSet, InspectPublished, RemoveStaging,
       IntendBackup, RecordSnapshot, IntendRoundtrip, DownloadRoundtrip, RecordRoundtrip,
       IntendRecovery, DownloadSet, SealSet, RecordRecovery,
       IntendRestore, RestoreVolume, RecordVolume, DefineRestored, ObserveSet, ObserveRecovery
<1> QED
  BY <1>2, <1>3, <1>4

LEMMA NextReviewsOfSets ==
  ASSUME HandlersInv, CaptureInv, ReviewsAreOfSets, HostNext
  PROVE  ReviewsAreOfSets'
<1> SUFFICES ASSUME NEW p \in BackupPlans \cup RecoverPlans \cup RestorePlans, Planned(p)'
             PROVE  Known(SetOf[p], review[p].data)'
  BY DEF ReviewsAreOfSets
<1> PICK c : c = SetOf[p]
  OBVIOUS
<1>1. p \in Plans /\ Kind[p] \in {"backup", "recover", "restore"} /\ c \in CaptureIDs
  BY DEF BackupPlans, RecoverPlans, RestorePlans, CaptureIDs
<1>2. \E d : Known(c, d) /\ review'[p].data = d
  <2>1. CASE Planned(p)
    BY <1>1, <2>1, ReviewsAreKept DEF HandlersInv, ReviewsAreOfSets
  <2>2. CASE ~Planned(p)
    <3>1. HostPlans(p)
      BY <1>1, <2>2, NewPlan
    <3>2. PlanFromSet(p) \/ PlanRecovery(p)
      BY <1>1, <3>1 DEF HostPlans, NetworkPlans, NetworkResumptions, GrantPlans, AccessPlans, AccessKinds,
         RecipePlans, CapturePlans, PreparePlans, DiscardPlans, MachinePlans,
         MachineKinds, Lifecycle, PoolPlans, PoolKinds, ConfigurationPlans, ConfigurationKinds, DefiningKinds
    <3>3. CASE PlanFromSet(p)
      <4>1. Whole(c) /\ review'[p].data = catalog[c].data
        BY <1>1, <3>3 DEF PlanFromSet, StorePlan, HandlersInv, WorkShape
      <4> QED
        BY <1>1, <4>1 DEF Whole, CaptureInv, CatalogInv, DataAreKnown
    <3>4. CASE PlanRecovery(p)
      <4>1. \E s \in repository : s.set = c /\ review'[p].data = s.data
        BY <1>1, <3>4 DEF PlanRecovery, StorePlan, HandlersInv, WorkShape
      <4> QED
        BY <4>1 DEF Known
    <3> QED
      BY <3>2, <3>3, <3>4
  <2> QED
    BY <2>1, <2>2
<1>3. PICK d : Known(c, d) /\ review'[p].data = d
  BY <1>2
<1>4. Known(c, d)'
  BY <1>3, KnownStays DEF CaptureInv
<1> QED
  BY <1>3, <1>4 DEF Known

LEMMA NextRoundtrips ==
  ASSUME HandlersInv, CaptureInv, RoundtripsAreTrue, HostNext
  PROVE  /\ RoundtripsAreTrue'
         /\ \A j \in Jobs : roundtrip[j] # Nothing => roundtrip'[j] # Nothing
<1>1. repository \subseteq repository' /\ \A s \in repository : s.data \in Versions
  BY RepositoryGrows DEF CaptureInv, CatalogInv, CatalogShape
<1>2. CASE roundtrip' = roundtrip
  BY <1>1, <1>2 DEF RoundtripsAreTrue
<1>3. ASSUME NEW i \in Jobs, DownloadRoundtrip(i)
      PROVE  RoundtripsAreTrue' /\ \A j \in Jobs : roundtrip[j] # Nothing => roundtrip'[j] # Nothing
  <2>1. PICK s \in repository : s.by = i /\ roundtrip' \in {roundtrip, [roundtrip EXCEPT ![i] = s.data]}
    BY <1>3 DEF DownloadRoundtrip
  <2>2. s.data # Nothing
    BY <1>1, CapturesAreTheirOwn
  <2> QED
    BY <1>1, <1>2, <2>1, <2>2 DEF RoundtripsAreTrue
<1>4. roundtrip' = roundtrip \/ \E i \in Jobs : DownloadRoundtrip(i)
  BY CapturesStep, ZenonT(40) DEF captures, CaptureMoves, CaptureWork, Reads, PlanFromSet, CapturesLosePower, GuestWrites,
       StartCapture, CheckSource, ConvertDisk, RecheckSource, RecordPublication,
       NamePartial, WriteMembers, RenameSet, InspectPublished, RemoveStaging,
       IntendBackup, Upload, RecordSnapshot, IntendRoundtrip, RecordRoundtrip,
       IntendRecovery, DownloadSet, SealSet, RecordRecovery,
       IntendRestore, RestoreVolume, RecordVolume, DefineRestored, ObserveSet, ObserveRecovery
<1> QED
  BY <1>2, <1>3, <1>4

\* Names are given to sets by who executes.
LEMMA SetsAreTagged ==
  ASSUME HandlersInv, CaptureInv, HostNext, NEW c \in CaptureIDs
  PROVE  \/ catalog'[c].by \in {catalog[c].by, NoJob}
         \/ \E i \in Jobs : At(i, "execute") /\ catalog'[c].by = i
<1>1. catalog \in [CaptureIDs -> SetRecord]
  BY DEF CaptureInv, CatalogInv, CatalogShape
<1>2. ASSUME NEW d, Inspected(d) \/ Seals(d)
      PROVE  catalog'[c].by = catalog[c].by
  BY <1>1, <1>2 DEF Inspected, Refreshed, Seals, SetRecord
<1>3. CASE CapturesLosePower
  <2>1. catalog'[c] \in MayRemain(catalog[c])
    BY <1>3 DEF CapturesLosePower
  <2>2. PICK r \in SetRecord : r = catalog[c]
    BY <1>1
  <2>3. catalog'[c] \in {r, NoSet, [r EXCEPT !.data = Nothing], [r EXCEPT !.at = "partial", !.durable = TRUE]}
    BY <2>1, <2>2 DEF MayRemain
  <2>4. /\ NoSet.by = NoJob /\ [r EXCEPT !.data = Nothing].by = r.by
        /\ [r EXCEPT !.at = "partial", !.durable = TRUE].by = r.by
    BY <2>2 DEF NoSet, SetRecord
  <2>5. catalog'[c].by \in {r.by, NoJob}
    BY <2>3, <2>4
  <2> QED
    BY <2>2, <2>5
<1>4. ASSUME NEW j \in Jobs, NamePartial(j) \/ DownloadSet(j)
      PROVE  catalog'[c].by = catalog[c].by \/ (At(j, "execute") /\ catalog'[c].by = j)
  <2>1. CASE NamePartial(j)
    BY <1>1, <2>1 DEF NamePartial, CaptureStep, Does, NoSet
  <2>2. CASE DownloadSet(j)
    BY <1>1, <2>2 DEF DownloadSet, CaptureStep, Does
  <2> QED
    BY <1>4, <2>1, <2>2
<1>5. ASSUME NEW j \in Jobs, WriteMembers(j) \/ RenameSet(j)
      PROVE  catalog'[c].by = catalog[c].by
  BY <1>1, <1>5 DEF WriteMembers, RenameSet, SetRecord
<1>6. \/ catalog' = catalog \/ CapturesLosePower
      \/ \E d : Inspected(d) \/ Seals(d)
      \/ \E j \in Jobs : NamePartial(j) \/ DownloadSet(j) \/ WriteMembers(j) \/ RenameSet(j)
  BY CapturesStep, ZenonT(40) DEF captures, CaptureMoves, CaptureWork, Reads, PlanFromSet, GuestWrites,
       StartCapture, CheckSource, ConvertDisk, RecheckSource, RecordPublication, InspectPublished, RemoveStaging,
       IntendBackup, Upload, RecordSnapshot, IntendRoundtrip, DownloadRoundtrip, RecordRoundtrip,
       IntendRecovery, SealSet, RecordRecovery,
       IntendRestore, RestoreVolume, RecordVolume, DefineRestored, ObserveSet, ObserveRecovery
<1> QED
  BY <1>2, <1>3, <1>4, <1>5, <1>6

LEMMA SnapshotsAreTagged ==
  ASSUME HostNext, NEW s \in repository' \ repository
  PROVE  \E i \in Jobs : At(i, "execute") /\ s.by = i
<1>1. PICK i \in Jobs : Upload(i)
  BY CapturesStep, ZenonT(40) DEF captures, CaptureMoves, CaptureWork, Reads, PlanFromSet, CapturesLosePower, GuestWrites,
       StartCapture, CheckSource, ConvertDisk, RecheckSource, RecordPublication,
       NamePartial, WriteMembers, RenameSet, InspectPublished, RemoveStaging,
       IntendBackup, RecordSnapshot, IntendRoundtrip, DownloadRoundtrip, RecordRoundtrip,
       IntendRecovery, DownloadSet, SealSet, RecordRecovery,
       IntendRestore, RestoreVolume, RecordVolume, DefineRestored, ObserveSet, ObserveRecovery
<1> QED
  BY <1>1 DEF Upload, CaptureStep, Does

RestoreSteps(j) == IntendRestore(j) \/ RestoreVolume(j) \/ RecordVolume(j) \/ DefineRestored(j)

LEMMA RestoringMoves ==
  ASSUME HandlersInv, HostNext
  PROVE  restored' = restored \/ \E j \in Jobs :
           /\ RestoreSteps(j) /\ CaptureMoves(j) /\ At(j, "execute") /\ Live(j) /\ Stored(j) /\ PlanOf(j) = jobs[j].planID
           /\ jobs[j].planID \in RestorePlans /\ Planned(jobs[j].planID)
<1>1. restored' = restored \/ \E j \in Jobs : CaptureMoves(j) /\ RestoreSteps(j)
  BY CapturesStep, ZenonT(40) DEF captures, CaptureMoves, CaptureWork, Reads, PlanFromSet, CapturesLosePower, GuestWrites,
       StartCapture, CheckSource, ConvertDisk, RecheckSource, RecordPublication,
       NamePartial, WriteMembers, RenameSet, InspectPublished, RemoveStaging,
       IntendBackup, Upload, RecordSnapshot, IntendRoundtrip, DownloadRoundtrip, RecordRoundtrip,
       IntendRecovery, DownloadSet, SealSet, RecordRecovery, ObserveSet, ObserveRecovery, RestoreSteps
<1>2. ASSUME NEW j \in Jobs, RestoreSteps(j)
      PROVE  At(j, "execute") /\ Live(j) /\ Kind[PlanOf(j)] = "restore"
  BY <1>2 DEF RestoreSteps, IntendRestore, RestoreVolume, RecordVolume, DefineRestored, CaptureStep, Does, At, Live
<1> QED
  BY <1>1, <1>2, LivePlan DEF RestorePlans

LEMMA NextTried ==
  ASSUME HandlersInv, CaptureInv, RestorationsAreTrue, CapturesAreTried, HostNext
  PROVE  CapturesAreTried'
<1> SUFFICES ASSUME NEW j \in Jobs, Untried(j)'
             PROVE  /\ \A c \in CaptureIDs : catalog'[c].by # j
                    /\ \A s \in repository' : s.by # j
                    /\ \A p \in RestorePlans : restored'[p].by # j
  BY DEF CapturesAreTried
<1>1. Untried(j) /\ ~At(j, "execute") /\ j # NoJob
  BY UntriedWas, NullsAreNotValues
<1>2. /\ \A c \in CaptureIDs : catalog[c].by # j
      /\ \A s \in repository : s.by # j
      /\ \A p \in RestorePlans : restored[p].by # j
  BY <1>1 DEF CapturesAreTried
<1>3. ASSUME NEW c \in CaptureIDs
      PROVE  catalog'[c].by # j
  BY <1>1, <1>2, SetsAreTagged
<1>4. ASSUME NEW s \in repository'
      PROVE  s.by # j
  BY <1>1, <1>2, SnapshotsAreTagged
<1>5. ASSUME NEW p \in RestorePlans
      PROVE  restored'[p].by # j
  <2>1. CASE restored' = restored
    BY <1>2, <2>1
  <2>2. ASSUME NEW i \in Jobs, RestoreSteps(i), At(i, "execute"), PlanOf(i) \in RestorePlans
        PROVE  restored'[p].by \in {restored[p].by, i}
    <3>1. DOMAIN restored = RestorePlans /\ \A q \in RestorePlans :
            restored[q] \in [by : Jobs \cup {NoJob}, verified : Nat, volumes : Seq(0..MaxWrites), defined : BOOLEAN]
      BY DEF RestorationsAreTrue
    <3>2. PICK now : restored' = [restored EXCEPT ![PlanOf(i)] = now] /\ now.by \in {restored[PlanOf(i)].by, i}
      BY <2>2, <3>1, SMTT(30) DEF RestoreSteps, IntendRestore, RestoreVolume, RecordVolume, DefineRestored, Restores
    <3> QED
      BY <2>2, <3>1, <3>2
  <2> QED
    BY <1>1, <1>2, <2>1, <2>2, RestoringMoves
<1> QED
  BY <1>3, <1>4, <1>5

RestoreWork == {"allocate", "verified", "define"}
RestoreRecord == [by : Jobs \cup {NoJob}, verified : Nat, volumes : Seq(0..MaxWrites), defined : BOOLEAN]

\* What the record of a restoration may be for plan p.
TrueRecord(p, now) ==
  /\ now \in RestoreRecord /\ Len(now.volumes) <= DiskCount
  /\ \A n \in 1..Len(now.volumes) : now.volumes[n] = review[p].data[n]
  /\ now.defined => Len(now.volumes) = DiskCount

\* The record and the work of a job that restores agree.
Agrees(done, now) ==
  /\ done.at \in {"allocate", "verified"} => "i" \in DOMAIN done /\ done.i \in CapturedDisks
  /\ done.at = "allocate" => Len(now.volumes) = done.i - 1
  /\ done.at = "verified" => Len(now.volumes) = done.i
  /\ done.at = "define" => Len(now.volumes) = DiskCount

LEMMA RestoringWas ==
  ASSUME HandlersInv, WorkIsExecuted, HostNext, NEW j \in Jobs, Restoring(j, RestoreWork)'
  PROVE  /\ At(j, "execute") /\ Live(j) /\ jobs'[j].planID = jobs[j].planID /\ jobs[j].planID \in RestorePlans
         /\ (work'[j] = work[j] /\ Restoring(j, RestoreWork)) \/ RestoreSteps(j)
<1>1. WorkShape /\ work'[j].at \in RestoreWork
  BY DEF HandlersInv, Restoring
<1>2. work'[j] = work[j] \/ (Stored(j) /\ HostWork(j))
  BY <1>1, WorkStep DEF RestoreWork
<1>3. CASE work'[j] = work[j]
  <2>1. At(j, "execute") /\ Live(j)
    BY <1>1, <1>3 DEF WorkIsExecuted, RestoreWork, At, Live
  <2> QED
    BY <1>1, <1>3, <2>1, LivePlan, StoredStays DEF Restoring
<1>4. CASE Stored(j) /\ HostWork(j) /\ work'[j] # work[j]
  <2>1. jobs'[j].planID = jobs[j].planID /\ jobs[j].planID \in RestorePlans /\ Kind[jobs[j].planID] = "restore"
    BY <1>4, StoredStays DEF Restoring, RestorePlans
  <2>2. CaptureWork(j)
    BY <1>4, <2>1, CaptureIsCaptures DEF CaptureKinds
  <2>3. At(j, "execute")
    BY <1>4, WorkExecutes
  <2>4. Kind[PlanOf(j)] = "restore" /\ Live(j)
    BY <2>1, <2>3, LivePlan DEF At, Live
  <2>5. RestoreSteps(j)
    BY <2>1, <2>2, <2>4 DEF CaptureWork, CaptureStep, Does, StartCapture, CheckSource, ConvertDisk, RecheckSource, RecordPublication,
       NamePartial, WriteMembers, RenameSet, InspectPublished, RemoveStaging,
       IntendBackup, Upload, RecordSnapshot, IntendRoundtrip, DownloadRoundtrip, RecordRoundtrip,
       IntendRecovery, DownloadSet, SealSet, RecordRecovery, ObserveSet, ObserveRecovery, RestoreSteps
  <2> QED
    BY <2>1, <2>3, <2>4, <2>5
<1> QED
  BY <1>2, <1>3, <1>4

LEMMA RestoreStepFollows ==
  ASSUME HandlersInv, CaptureInv, SnapshotsAreTrue, ReviewsAreOfSets, RestorationsAreTrue, RestorationsGoOn,
         NEW j \in Jobs, RestoreSteps(j), At(j, "execute"), Live(j),
         NEW p \in RestorePlans, jobs[j].planID = p
  PROVE  /\ \E now : restored' = [restored EXCEPT ![p] = now] /\ TrueRecord(p, now) /\ now.by = j
                     /\ Agrees(work'[j], now)
         /\ restored[p].by \in {NoJob, j}
         /\ restored[p].defined => restored'[p].defined
<1>1. /\ PlanOf(j) = p /\ Stored(j) /\ Planned(p) /\ "at" \in DOMAIN work[j] /\ DOMAIN work = Jobs
      /\ DiskCount \in Nat /\ DiskCount >= 1 /\ CapturedDisks = 1..DiskCount
  BY LivePlan, CapturePlansAreComplete DEF HandlersInv, WorkShape, CapturedDisks
<1>2. PICK old : old = restored[p]
  OBVIOUS
<1>3. restored \in [RestorePlans -> RestoreRecord] /\ old \in RestoreRecord /\ TrueRecord(p, old)
      /\ (old.by = NoJob => old.volumes = <<>>)
  BY <1>2 DEF RestorationsAreTrue, RestoreRecord, TrueRecord
<1>4. PICK done : done = work[j]
  OBVIOUS
<1>5. done.at \in RestoreWork => old.by = j /\ Agrees(done, old)
  BY <1>1, <1>2, <1>4 DEF RestorationsGoOn, Restoring, RestoreWork, Agrees
<1>6. CASE IntendRestore(j)
  <2>1. PICK now : now = [old EXCEPT !.by = j]
    OBVIOUS
  <2>2. restored' = [restored EXCEPT ![p] = now] /\ old.by = NoJob
    BY <1>1, <1>2, <1>6, <2>1 DEF IntendRestore, Restores
  <2>3. now \in RestoreRecord /\ now.by = j /\ now.volumes = old.volumes /\ now.defined = old.defined
    BY <1>3, <2>1 DEF RestoreRecord
  <2>4. work'[j] = [at |-> "allocate", i |-> 1]
    BY <1>1, <1>6 DEF IntendRestore, GoTo
  <2>5. Agrees(work'[j], now)
    BY <1>1, <1>3, <2>2, <2>3, <2>4 DEF Agrees
  <2>6. TrueRecord(p, now)
    BY <1>3, <2>3 DEF TrueRecord
  <2>7. restored[p].by \in {NoJob, j}
    BY <1>2, <2>2
  <2>8. restored'[p] = now
    BY <1>3, <2>2
  <2>9. restored[p].defined => restored'[p].defined
    BY <1>2, <2>3, <2>8
  <2> QED
    BY <2>2, <2>3, <2>5, <2>6, <2>7, <2>9
<1>7. CASE RestoreVolume(j)
  <2>1. done.at = "allocate" /\ "i" \in DOMAIN done /\ done.i \in CapturedDisks /\ Len(old.volumes) = done.i - 1 /\ old.by = j
    BY <1>4, <1>5, <1>7 DEF RestoreVolume, CaptureStep, In, RestoreWork, Agrees
  <2>2. Whole(SetOf[p]) /\ ~old.defined /\ SetOf[p] \in CaptureIDs
    BY <1>1, <1>2, <1>7 DEF RestoreVolume, CaptureIDs, RestorePlans
  <2>3. catalog[SetOf[p]].data = review[p].data /\ review[p].data \in Versions
    <3>1. Known(SetOf[p], catalog[SetOf[p]].data)
      BY <2>2 DEF Whole, CaptureInv, CatalogInv, DataAreKnown
    <3>2. Known(SetOf[p], review[p].data)
      BY <1>1 DEF ReviewsAreOfSets
    <3> QED
      BY <3>1, <3>2, OneContent DEF CaptureInv
  <2>4. PICK v : v = review[p].data[done.i] /\ v \in 0..MaxWrites
    BY <2>1, <2>3 DEF Versions
  <2>5. PICK all : all = Append(old.volumes, v)
    OBVIOUS
  <2>6. /\ all \in Seq(0..MaxWrites) /\ Len(all) = done.i
        /\ \A n \in 1..Len(all) : all[n] = review[p].data[n]
    <3>1. old.volumes \in Seq(0..MaxWrites) /\ \A n \in 1..Len(old.volumes) : old.volumes[n] = review[p].data[n]
      BY <1>3 DEF RestoreRecord, TrueRecord
    <3>2. all \in Seq(0..MaxWrites) /\ Len(all) = done.i
      BY <1>1, <2>1, <2>4, <2>5, <3>1
    <3>3. ASSUME NEW n \in 1..Len(all)
          PROVE  all[n] = review[p].data[n]
      BY <1>1, <2>1, <2>4, <2>5, <3>1, <3>2
    <3> QED
      BY <3>2, <3>3
  <2>7. PICK now : now = [old EXCEPT !.volumes = all]
    OBVIOUS
  <2>8. restored' = [restored EXCEPT ![p] = now]
    BY <1>1, <1>2, <1>4, <1>7, <2>3, <2>4, <2>5, <2>7 DEF RestoreVolume, Restores
  <2>9. now \in RestoreRecord /\ now.by = j /\ now.volumes = all /\ now.defined = old.defined
    BY <1>3, <2>1, <2>6, <2>7 DEF RestoreRecord
  <2>10. work'[j] = [done EXCEPT !.at = "verified"]
    BY <1>1, <1>4, <1>7 DEF RestoreVolume, Go
  <2>11. Agrees(work'[j], now)
    BY <1>1, <1>4, <2>1, <2>6, <2>9, <2>10 DEF Agrees
  <2>12. TrueRecord(p, now)
    BY <1>1, <2>1, <2>2, <2>6, <2>9 DEF TrueRecord
  <2> QED
    BY <1>2, <2>1, <2>2, <2>8, <2>9, <2>11, <2>12
<1>8. CASE RecordVolume(j)
  <2>1. done.at = "verified" /\ "i" \in DOMAIN done /\ done.i \in CapturedDisks /\ Len(old.volumes) = done.i /\ old.by = j
    BY <1>4, <1>5, <1>8 DEF RecordVolume, CaptureStep, In, RestoreWork, Agrees
  <2>2. PICK now : now = [old EXCEPT !.verified = done.i]
    OBVIOUS
  <2>3. restored' = [restored EXCEPT ![p] = now]
    BY <1>1, <1>2, <1>4, <1>8, <2>2 DEF RecordVolume, Restores
  <2>4. now \in RestoreRecord /\ now.by = j /\ now.volumes = old.volumes /\ now.defined = old.defined
    <3>1. PICK n \in Nat : n = done.i
      BY <1>1, <2>1
    <3>2. now = [old EXCEPT !.verified = n]
      BY <2>2, <3>1
    <3> QED
      BY <1>3, <2>1, <3>2 DEF RestoreRecord
  <2>5. Agrees(work'[j], now)
    <3>1. CASE done.i < DiskCount
      <4>1. work'[j] = [at |-> "allocate", i |-> done.i + 1]
        BY <1>1, <1>4, <1>8, <3>1 DEF RecordVolume, GoTo
      <4> QED
        BY <1>1, <2>1, <2>4, <3>1, <4>1 DEF Agrees
    <3>2. CASE ~(done.i < DiskCount)
      <4>1. work'[j] = [done EXCEPT !.at = "define"]
        BY <1>1, <1>4, <1>8, <3>2 DEF RecordVolume, Go
      <4>2. work'[j].at = "define" /\ done.i = DiskCount
        BY <1>1, <1>4, <2>1, <3>2, <4>1
      <4> QED
        BY <2>1, <2>4, <4>2 DEF Agrees
    <3> QED
      BY <3>1, <3>2
  <2>6. TrueRecord(p, now)
    BY <1>3, <2>4 DEF TrueRecord
  <2>7. restored[p].by \in {NoJob, j}
    BY <1>2, <2>1
  <2>8. restored'[p] = now
    BY <1>3, <2>3
  <2>9. restored[p].defined => restored'[p].defined
    BY <1>2, <2>4, <2>8
  <2> QED
    BY <2>3, <2>4, <2>5, <2>6, <2>7, <2>9
<1>9. CASE DefineRestored(j)
  <2>1. done.at = "define" /\ Len(old.volumes) = DiskCount /\ old.by = j
    BY <1>4, <1>5, <1>9 DEF DefineRestored, CaptureStep, In, RestoreWork, Agrees
  <2>2. PICK now : now = [old EXCEPT !.defined = TRUE]
    OBVIOUS
  <2>3. restored' = [restored EXCEPT ![p] = now]
    BY <1>1, <1>2, <1>9, <2>2 DEF DefineRestored, Restores
  <2>4. now \in RestoreRecord /\ now.by = j /\ now.volumes = old.volumes /\ now.defined
    BY <1>3, <2>1, <2>2 DEF RestoreRecord
  <2>5. work'[j].at = "ok"
    BY <1>1, <1>9 DEF DefineRestored, Go
  <2>6. Agrees(work'[j], now)
    BY <2>5 DEF Agrees
  <2>7. TrueRecord(p, now)
    BY <1>3, <2>1, <2>4 DEF TrueRecord
  <2>8. restored[p].by \in {NoJob, j}
    BY <1>2, <2>1
  <2>9. restored'[p] = now
    BY <1>3, <2>3
  <2>10. restored'[p].defined
    BY <2>4, <2>9
  <2> QED
    BY <2>3, <2>4, <2>6, <2>7, <2>8, <2>10
<1> QED
  BY <1>6, <1>7, <1>8, <1>9 DEF RestoreSteps

LEMMA NextRestorations ==
  ASSUME HandlersInv, WorkIsExecuted, CaptureInv, SnapshotsAreTrue, ReviewsAreOfSets, RestorationsAreTrue,
         RestorationsGoOn, HostNext
  PROVE  /\ RestorationsAreTrue' /\ RestorationsGoOn'
         /\ \A p \in RestorePlans : restored[p].defined => restored'[p].defined
<1>1. restored \in [RestorePlans -> RestoreRecord]
  BY DEF RestorationsAreTrue, RestoreRecord
<1>2. \A p \in RestorePlans : Planned(p) => Planned(p)' /\ review'[p] = review[p]
  BY ReviewsAreKept DEF HandlersInv, RestorePlans, Planned
<1>3. ASSUME NEW p \in RestorePlans
      PROVE  \/ restored'[p] = restored[p]
             \/ \E j \in Jobs :
                  /\ RestoreSteps(j) /\ At(j, "execute") /\ jobs[j].planID = p /\ Planned(p)
                  /\ TrueRecord(p, restored'[p]) /\ restored'[p].by = j /\ Agrees(work'[j], restored'[p])
                  /\ restored[p].by \in {NoJob, j}
                  /\ restored[p].defined => restored'[p].defined
  <2>1. SUFFICES ASSUME restored' # restored
                 PROVE  \/ restored'[p] = restored[p]
                        \/ \E j \in Jobs :
                             /\ RestoreSteps(j) /\ At(j, "execute") /\ jobs[j].planID = p /\ Planned(p)
                             /\ TrueRecord(p, restored'[p]) /\ restored'[p].by = j /\ Agrees(work'[j], restored'[p])
                             /\ restored[p].by \in {NoJob, j}
                             /\ restored[p].defined => restored'[p].defined
    OBVIOUS
  <2>2. PICK j \in Jobs : /\ RestoreSteps(j) /\ At(j, "execute") /\ Live(j)
                          /\ jobs[j].planID \in RestorePlans /\ Planned(jobs[j].planID)
    BY <2>1, RestoringMoves
  <2>3. PICK q \in RestorePlans : q = jobs[j].planID
    BY <2>2
  <2>4. /\ \E now : restored' = [restored EXCEPT ![q] = now] /\ TrueRecord(q, now) /\ now.by = j
                    /\ Agrees(work'[j], now)
        /\ restored[q].by \in {NoJob, j}
        /\ restored[q].defined => restored'[q].defined
    BY <2>2, <2>3, RestoreStepFollows
  <2>5. PICK now : restored' = [restored EXCEPT ![q] = now] /\ TrueRecord(q, now) /\ now.by = j
                   /\ Agrees(work'[j], now)
    BY <2>4
  <2>6. CASE p = q
    BY <1>1, <2>2, <2>3, <2>4, <2>5, <2>6
  <2>7. CASE p # q
    BY <1>1, <2>5, <2>7
  <2> QED
    BY <2>6, <2>7
<1>4. DOMAIN restored' = RestorePlans /\ restored' = [p \in RestorePlans |-> restored'[p]]
  <2>1. CASE restored' = restored
    BY <1>1, <2>1
  <2>2. CASE restored' # restored
    <3>1. PICK j \in Jobs : /\ RestoreSteps(j) /\ At(j, "execute") /\ Live(j)
                            /\ jobs[j].planID \in RestorePlans /\ Planned(jobs[j].planID)
      BY <2>2, RestoringMoves
    <3>2. \E now : restored' = [restored EXCEPT ![jobs[j].planID] = now]
      BY <3>1, RestoreStepFollows
    <3> QED
      BY <1>1, <3>2
  <2> QED
    BY <2>1, <2>2
<1>5. ASSUME NEW p \in RestorePlans
      PROVE  /\ restored'[p] \in RestoreRecord
             /\ Len(restored'[p].volumes) <= DiskCount
             /\ \A n \in 1..Len(restored'[p].volumes) : restored'[p].volumes[n] = review'[p].data[n]
             /\ restored'[p].by = NoJob => restored'[p].volumes = <<>>
             /\ restored'[p].by # NoJob => Planned(p)'
             /\ restored'[p].defined => Len(restored'[p].volumes) = DiskCount
             /\ restored[p].defined => restored'[p].defined
  <2>1. CASE restored'[p] = restored[p]
    <3>1. CASE Planned(p)
      BY <1>1, <1>2, <2>1, <3>1 DEF RestorationsAreTrue
    <3>2. CASE ~Planned(p)
      <4>1. restored[p].by = NoJob /\ restored[p].volumes = <<>>
        BY <3>2 DEF RestorationsAreTrue
      <4>2. Len(restored[p].volumes) = 0
        BY <4>1
      <4> QED
        BY <1>1, <2>1, <4>1, <4>2 DEF RestorationsAreTrue
    <3> QED
      BY <3>1, <3>2
  <2>2. CASE restored'[p] # restored[p]
    <3>1. PICK j \in Jobs : /\ Planned(p) /\ TrueRecord(p, restored'[p]) /\ restored'[p].by = j
                            /\ restored[p].defined => restored'[p].defined
      BY <1>3, <2>2
    <3> QED
      BY <1>2, <3>1, NullsAreNotValues DEF TrueRecord
  <2> QED
    BY <2>1, <2>2
<1>6. RestorationsAreTrue'
  <2>1. restored' \in [RestorePlans -> RestoreRecord]
    BY <1>4, <1>5
  <2> QED
    BY <1>5, <2>1 DEF RestorationsAreTrue, RestoreRecord
<1>7. ASSUME NEW j \in Jobs, Restoring(j, RestoreWork)'
      PROVE  restored'[jobs'[j].planID].by = j /\ Agrees(work'[j], restored'[jobs'[j].planID])
  <2>1. /\ At(j, "execute") /\ Live(j) /\ jobs'[j].planID = jobs[j].planID /\ jobs[j].planID \in RestorePlans
        /\ (work'[j] = work[j] /\ Restoring(j, RestoreWork)) \/ RestoreSteps(j)
    BY <1>7, RestoringWas
  <2>2. PICK p \in RestorePlans : p = jobs[j].planID
    BY <2>1
  <2>3. CASE RestoreSteps(j)
    <3>1. \E now : restored' = [restored EXCEPT ![p] = now] /\ now.by = j /\ Agrees(work'[j], now)
      BY <2>1, <2>2, <2>3, RestoreStepFollows
    <3> QED
      BY <1>1, <2>1, <2>2, <3>1
  <2>4. CASE work'[j] = work[j] /\ Restoring(j, RestoreWork) /\ ~RestoreSteps(j)
    <3>1. restored[p].by = j
      BY <2>2, <2>4 DEF RestorationsGoOn, Restoring, RestoreWork
    <3>2. Agrees(work[j], restored[p])
      BY <2>2, <2>4 DEF RestorationsGoOn, Restoring, RestoreWork, Agrees
    <3>3. restored'[p] = restored[p]
      BY <1>3, <2>4, <3>1, NullsAreNotValues
    <3> QED
      BY <2>1, <2>2, <2>4, <3>1, <3>2, <3>3
  <2> QED
    BY <2>1, <2>3, <2>4
<1>8. RestorationsGoOn'
  BY <1>7 DEF RestorationsGoOn, Restoring, RestoreWork, Agrees
<1> QED
  BY <1>5, <1>6, <1>8

LEMMA NextSeen ==
  ASSUME HandlersInv, CaptureInv, CapturesStand, HostNext,
         \A j \in Jobs : roundtrip[j] # Nothing => roundtrip'[j] # Nothing,
         \A p \in RestorePlans : restored[p].defined => restored'[p].defined,
         NEW j \in Jobs, Assured(j)'
  PROVE  SawCapture(j)'
<1>1. PICK p \in Plans : p = jobs[j].planID /\ jobs'[j].planID = p /\ Planned(p) /\ review'[p] = review[p]
  BY AssuredWas, StoredStays
<1>2. PICK c \in CaptureIDs : c = SetOf[p]
  BY DEF CaptureIDs
<1>3. CASE Assured(j)
  <2>1. SawCapture(j)
    BY <1>3 DEF CapturesStand
  <2>2. Lasts(c) => Lasts(c)'
    BY LastingStays DEF CaptureInv
  <2>3. Kind[p] \in {"capture", "recover"} => Lasts(c)'
    BY <1>1, <1>2, <2>1, <2>2 DEF SawCapture
  <2> QED
    BY <1>1, <1>2, <2>1, <2>3 DEF SawCapture, Lasts, RestorePlans
<1>4. CASE HostDone(p, LastStep(j), j) /\ UNCHANGED captures
  <2>1. Kind[p] \in CaptureKinds => CapturesDone(p, j)
    BY <1>4, DoneIs
  <2>2. Kind[p] = "capture" => CaptureDone(p, j)
    BY <2>1 DEF CapturesDone, CaptureKinds
  <2>3. Kind[p] = "recover" => RecoveryDone(p, j)
    BY <2>1 DEF CapturesDone, CaptureKinds
  <2>4. Kind[p] = "backup" => BackupDone(p, j)
    BY <2>1 DEF CapturesDone, CaptureKinds
  <2>5. Kind[p] = "restore" => RestoreDone(p, j)
    BY <2>1 DEF CapturesDone, CaptureKinds
  <2>6. catalog[c] \in SetRecord
    BY DEF CaptureInv, CatalogInv, CatalogShape
  <2>7. Kind[p] \in {"capture", "recover"} => Lasts(c)
    <3>1. Refreshed(catalog[c]) = catalog[c] => catalog[c].durable
      BY <2>6 DEF Refreshed, SetRecord
    <3> QED
      BY <1>2, <2>2, <2>3, <3>1 DEF CaptureDone, RecoveryDone, Whole, Lasts
  <2>8. Kind[p] = "backup" => roundtrip[j] # Nothing
    <3>1. ASSUME Kind[p] = "backup" PROVE Known(c, review[p].data)
      BY <1>1, <1>2, <3>1 DEF CapturesStand, ReviewsAreOfSets, BackupPlans
    <3>2. Kind[p] = "backup" => review[p].data # Nothing
      BY <3>1, OneContent, CapturesAreTheirOwn DEF CapturesStand, CaptureInv
    <3> QED
      BY <2>4, <3>2 DEF BackupDone
  <2> QED
    BY <1>1, <1>2, <1>4, <2>5, <2>7, <2>8 DEF captures, SawCapture, Lasts, RestoreDone
<1> QED
  BY <1>1, <1>3, <1>4, AssuredWas

LEMMA NextCaptured ==
  ASSUME HandlersInv, WorkIsExecuted, CaptureInv, CapturesStand, HostNext
  PROVE  CapturesStand'
<1>1. /\ SnapshotsAreTrue /\ ReviewsAreOfSets /\ RoundtripsAreTrue /\ RestorationsAreTrue /\ RestorationsGoOn
      /\ CapturesAreTried
  BY DEF CapturesStand
<1>2. SnapshotsAreTrue' /\ ReviewsAreOfSets'
  BY <1>1, NextSnapshots, NextReviewsOfSets
<1>3. RoundtripsAreTrue' /\ \A j \in Jobs : roundtrip[j] # Nothing => roundtrip'[j] # Nothing
  BY <1>1, NextRoundtrips
<1>4. RestorationsAreTrue' /\ RestorationsGoOn' /\ \A p \in RestorePlans : restored[p].defined => restored'[p].defined
  BY <1>1, NextRestorations
<1>5. CapturesAreTried'
  BY <1>1, NextTried
<1>6. \A j \in Jobs : Assured(j)' => SawCapture(j)'
  BY <1>3, <1>4, NextSeen
<1> QED
  BY <1>2, <1>3, <1>4, <1>5, <1>6 DEF CapturesStand

LEMMA InitCaptured ==
  ASSUME HostInit
  PROVE  CapturesStand
<1>1. \A j \in Jobs : ~Stored(j) /\ ~Live(j) /\ ~Assured(j) /\ ~At(j, "execute")
  BY DEF HostInit, HandlersInit, Init, JournalInit, Stored, Live, Idle, Assured, At, MutexFree
<1>2. (\A p \in Plans : ~Planned(p)) /\ NoJob \notin Jobs
  BY NullsAreNotValues DEF HostInit, HandlersInit, Planned
<1>3. SnapshotsAreTrue /\ ReviewsAreOfSets /\ RoundtripsAreTrue
  BY <1>2 DEF HostInit, CapturesInit, SnapshotsAreTrue, ReviewsAreOfSets, RoundtripsAreTrue, BackupPlans, RecoverPlans, RestorePlans
<1>4. RestorationsAreTrue /\ RestorationsGoOn
  <2>1. \A p \in RestorePlans : restored[p] = [by |-> NoJob, verified |-> 0, volumes |-> <<>>, defined |-> FALSE]
    BY DEF HostInit, CapturesInit
  <2>2. restored \in [RestorePlans -> RestoreRecord]
    BY DEF HostInit, CapturesInit, RestoreRecord
  <2>3. RestorationsAreTrue
    BY <2>1, <2>2, CapturePlansAreComplete DEF RestorationsAreTrue, RestoreRecord
  <2> QED
    BY <1>1, <2>3 DEF RestorationsGoOn, Restoring
<1>5. CapturesAreTried
  <2>1. /\ \A c \in CaptureIDs : catalog[c].by = NoJob
        /\ \A s \in repository : s.by = NoJob
        /\ \A p \in RestorePlans : restored[p].by = NoJob
    BY DEF HostInit, CapturesInit, NoSet
  <2> QED
    BY <1>2, <2>1 DEF CapturesAreTried
<1> QED
  BY <1>1, <1>3, <1>4, <1>5 DEF CapturesStand

LEMMA CapturesAchieve ==
  ASSUME HandlersInv, CaptureInv, CapturesStand, NEW j \in Jobs, Stored(j), Kind[jobs[j].planID] \in CaptureKinds,
         Assured(j)
  PROVE  CaptureAchieved(j)
<1>1. PICK p \in Plans : p = jobs[j].planID /\ Planned(p)
  BY ReviewOfStored
<1>2. PICK c \in CaptureIDs : c = SetOf[p]
  BY DEF CaptureIDs
<1>3. SawCapture(j)
  BY DEF CapturesStand
<1>4. CASE Kind[p] \in {"capture", "recover"}
  <2>1. Lasts(c) /\ Known(c, catalog[c].data)
    BY <1>1, <1>2, <1>3, <1>4 DEF SawCapture, Lasts, CaptureInv, CatalogInv, DataAreKnown
  <2>2. CASE Kind[p] = "capture"
    <3>1. Known(c, review[p].source)
      BY <1>1, <1>2, <2>2 DEF Known, CapturePlans
    <3>2. catalog[c].data = review[p].source
      BY <2>1, <3>1, OneContent DEF CapturesStand, CaptureInv
    <3> QED
      BY <1>1, <1>2, <2>1, <2>2, <3>2 DEF CaptureAchieved, Whole, Lasts
  <2>3. CASE Kind[p] = "recover"
    <3>1. Known(c, review[p].data)
      BY <1>1, <1>2, <2>3 DEF CapturesStand, ReviewsAreOfSets, RecoverPlans
    <3>2. catalog[c].data = review[p].data
      BY <2>1, <3>1, OneContent DEF CapturesStand, CaptureInv
    <3> QED
      BY <1>1, <1>2, <2>1, <2>3, <3>2 DEF CaptureAchieved, Whole, Lasts
  <2> QED
    BY <1>4, <2>2, <2>3
<1>5. CASE Kind[p] = "backup"
  BY <1>1, <1>3, <1>5 DEF SawCapture, CapturesStand, RoundtripsAreTrue, CaptureAchieved
<1>6. CASE Kind[p] = "restore"
  <2>1. p \in RestorePlans /\ restored[p].defined
    BY <1>1, <1>3, <1>6 DEF SawCapture, RestorePlans
  <2>2. PICK v : v = restored[p].volumes
    OBVIOUS
  <2>3. v \in Seq(0..MaxWrites) /\ Len(v) = DiskCount /\ \A n \in 1..Len(v) : v[n] = review[p].data[n]
    BY <2>1, <2>2 DEF CapturesStand, RestorationsAreTrue
  <2>4. review[p].data \in Versions
    BY <1>1, <2>1, OneContent DEF CapturesStand, ReviewsAreOfSets, CaptureInv
  <2>5. v = review[p].data
    <3>1. v \in [CapturedDisks -> 0..MaxWrites] /\ review[p].data \in [CapturedDisks -> 0..MaxWrites]
      BY <2>3, <2>4 DEF CapturedDisks, Versions
    <3>2. \A n \in CapturedDisks : v[n] = review[p].data[n]
      BY <2>3 DEF CapturedDisks
    <3> QED
      BY <3>1, <3>2
  <2> QED
    BY <1>1, <1>6, <2>1, <2>2, <2>5 DEF CaptureAchieved
<1> QED
  BY <1>1, <1>4, <1>5, <1>6 DEF CaptureKinds

LEMMA CapturesStayAway ==
  ASSUME HandlersInv, CapturesStand, DeclinesAreFew, NEW j \in Jobs, Stored(j),
         Kind[jobs[j].planID] \in CaptureKinds, EndsEarly(j) \/ Declines(j)
  PROVE  CaptureUntouched(j)
<1>1. PICK p \in Plans : p = jobs[j].planID
  BY ReviewOfStored
<1>2. ~Declines(j)
  BY KindsAreApart DEF DeclinesAreFew, CaptureKinds
<1>3. Steps[p] = 1
  BY <1>1, CapturePlansAreComplete DEF CaptureKinds
<1>4. Untried(j)
  BY <1>1, <1>2, <1>3, EarlyIsUntried
<1>5. /\ \A c \in CaptureIDs : catalog[c].by # j
      /\ \A s \in repository : s.by # j
      /\ \A q \in RestorePlans : restored[q].by # j
  BY <1>4 DEF CapturesStand, CapturesAreTried
<1>6. SetOf[p] \in CaptureIDs /\ (Kind[p] = "restore" => p \in RestorePlans)
  BY DEF CaptureIDs, RestorePlans
<1> QED
  BY <1>1, <1>5, <1>6 DEF CaptureUntouched, CaptureKinds

-----------------------------------------------------------------------------
(* Reports.                                                                  *)

HostKinds ==
  NetworkKinds \cup AccessKinds \cup {"recipe"} \cup CaptureKinds \cup ImportKinds \cup MachineKinds
  \cup PoolKinds \cup ConfigurationKinds

\* Every plan was stored by the planning of one of the handlers.
PlansHaveHandlers == \A p \in Plans : Planned(p) => Kind[p] \in HostKinds

LEMMA NextPlans ==
  ASSUME HandlersInv, PlansHaveHandlers, HostNext
  PROVE  PlansHaveHandlers'
<1> SUFFICES ASSUME NEW p \in Plans, Planned(p)'
             PROVE  Kind[p] \in HostKinds
  BY DEF PlansHaveHandlers
<1>1. CASE Planned(p)
  BY <1>1 DEF PlansHaveHandlers
<1>2. CASE ~Planned(p)
  <2>1. HostPlans(p)
    BY <1>2, NewPlan
  <2>2. \/ p \in NetworkPlans \cup NetworkResumptions \cup GrantPlans \cup AccessPlans \cup RecipePlans
        \/ p \in CapturePlans \cup BackupPlans \cup RestorePlans \cup RecoverPlans
        \/ p \in PreparePlans \cup DiscardPlans \cup MachinePlans \cup PoolPlans \cup ConfigurationPlans
    BY <2>1, ZenonT(40) DEF HostPlans
  <2>3. \/ Kind[p] \in NetworkKinds \cup AccessKinds \cup {"recipe"} \cup CaptureKinds \cup ImportKinds
        \/ Kind[p] \in MachineKinds \cup PoolKinds \cup ConfigurationKinds
    <3>1. CASE p \in NetworkPlans \cup NetworkResumptions
      BY <3>1 DEF NetworkPlans, NetworkResumptions, NetworkKinds
    <3>2. CASE p \in GrantPlans \cup AccessPlans \cup RecipePlans
      BY <3>2 DEF GrantPlans, AccessPlans, AccessKinds, RecipePlans
    <3>3. CASE p \in CapturePlans \cup BackupPlans \cup RestorePlans \cup RecoverPlans
      BY <3>3 DEF CapturePlans, BackupPlans, RestorePlans, RecoverPlans, CaptureKinds
    <3>4. CASE p \in PreparePlans \cup DiscardPlans
      BY <3>4 DEF PreparePlans, DiscardPlans, ImportKinds
    <3>5. CASE p \in MachinePlans \cup PoolPlans \cup ConfigurationPlans
      BY <3>5 DEF MachinePlans, PoolPlans, ConfigurationPlans
    <3> QED
      BY <2>2, <3>1, <3>2, <3>3, <3>4, <3>5
  <2> QED
    BY <2>3 DEF HostKinds
<1> QED
  BY <1>1, <1>2

HandledInv == HandlersInv /\ WorkIsExecuted /\ RecipeInv /\ AccessInv /\ CaptureInv /\ ImportInv

EffectsInv ==
  /\ PlansHaveHandlers /\ RecoveriesContinue /\ DeclinesAreFew
  /\ NetworksStand /\ AccessesStand /\ ReceiptsWereSent /\ GuestsAreSetUp /\ CapturesStand /\ ImportsStand
  /\ MachinesStand /\ PoolsStand /\ DefinersTried

LEMMA InitOutcomes == HostInit => HandledInv /\ EffectsInv
<1> SUFFICES ASSUME HostInit PROVE HandledInv /\ EffectsInv
  OBVIOUS
<1>1. \A j \in Jobs : ~Stored(j) /\ ~Declines(j)
  BY DEF HostInit, HandlersInit, Init, JournalInit, Stored, Declines, At, Idle
<1>2. \A p \in Plans : ~Planned(p)
  BY DEF HostInit, HandlersInit, Planned
<1>3. PlansHaveHandlers /\ RecoveriesContinue /\ DeclinesAreFew
  BY <1>1, <1>2 DEF PlansHaveHandlers, RecoveriesContinue, DeclinesAreFew
<1>4. HandledInv
  BY InitHandlers, InitRecipes, InitAccess, InitCaptures, InitImports DEF HandledInv, CaptureInv, ImportInv
<1> QED
  BY <1>3, <1>4, InitStand, InitAccesses, InitReceiptsSent, InitCaptured, InitImportsStand, InitMachines, InitPools,
     InitDefiners DEF EffectsInv

LEMMA NextHandled ==
  ASSUME HandledInv, [HostNext]_hostVars
  PROVE  HandledInv'
BY NextHandlers, NextExecuted, NextRecipes, NextAccess, NextCaptures, NextImports DEF HandledInv

LEMMA NextEffects ==
  ASSUME HandledInv, EffectsInv, HostNext
  PROVE  EffectsInv'
<1>1. HandlersInv /\ WorkIsExecuted /\ RecipeInv /\ RecoveriesAreOfNetworks /\ AccessInv /\ CaptureInv /\ ImportInv
  BY DEF HandledInv, RecipeInv
<1>2. PlansHaveHandlers' /\ RecoveriesContinue' /\ DeclinesAreFew'
  BY <1>1, NextPlans, NextContinue, NextFew DEF EffectsInv
<1>3. NetworksStand' /\ AccessesStand' /\ ReceiptsWereSent' /\ GuestsAreSetUp'
  BY <1>1, NextStand, NextAccesses, NextReceiptsSent, NextSetUp DEF EffectsInv
<1>4. CapturesStand' /\ ImportsStand'
  BY <1>1, NextCaptured, NextImportsStand DEF EffectsInv
<1>5. MachinesStand' /\ PoolsStand' /\ DefinersTried'
  BY <1>1, NextMachines, NextPools, NextDefiners DEF EffectsInv
<1> QED
  BY <1>2, <1>3, <1>4, <1>5 DEF EffectsInv

\* Nothing happens to what stands when nothing happens.
LEMMA StillEffects ==
  ASSUME EffectsInv, UNCHANGED hostVars
  PROVE  EffectsInv'
<1>1. UNCHANGED <<vars, review, work, call, networks, accesses, recipes, captures, imports, machines, pools, configurations>>
  BY DEF hostVars
<1>2. UNCHANGED <<jobs, runner, request, locks, review, work, call>>
  BY <1>1 DEF vars, journal, volatile
<1> USE DEF EffectsInv
<1>3. PlansHaveHandlers' /\ RecoveriesContinue' /\ DeclinesAreFew' /\ DefinersTried'
  BY <1>1, <1>2 DEF configurations, PlansHaveHandlers, Planned, RecoveriesContinue, Stored, DeclinesAreFew, Declines, At,
     DefinersTried, Untried
<1>4. NetworksStand'
  BY <1>1, <1>2 DEF networks, NetworksStand, Stored, Untried, Assured, At, MutexFree, NetworkOf
<1>5. AccessesStand'
  <2>1. CallsFollow'
    BY <1>2 DEF AccessesStand, CallsFollow, HelperFree, AccessJob, Holds, Resource, Stored, Untried, Declines, Assured,
       Begins, At, MutexFree
  <2>2. RevocationsBringBack'
    BY <1>1, <1>2 DEF AccessesStand, accesses, RevocationsBringBack, Readable, DesiredFor
  <2>3. FilesStand'
    BY <1>1, <1>2 DEF AccessesStand, accesses, FilesStand, AccessJob, AccessUntouched, Readable, Holds, Resource, Stored,
       Untried, Declines, Assured, Begins, At, MutexFree
  <2> QED
    BY <2>1, <2>2, <2>3 DEF AccessesStand
<1>6. ReceiptsWereSent' /\ GuestsAreSetUp'
  BY <1>1, <1>2 DEF recipes, ReceiptsWereSent, GuestsAreSetUp, IsSent, Recipe, StageOf, CompleteUpTo, Assured, At,
     MutexFree, Stored
<1>7. CapturesStand'
  <2>1. SnapshotsAreTrue' /\ ReviewsAreOfSets' /\ RoundtripsAreTrue' /\ RestorationsAreTrue'
    BY <1>1, <1>2 DEF CapturesStand, captures, SnapshotsAreTrue, ReviewsAreOfSets, Known, RoundtripsAreTrue,
       RestorationsAreTrue, Planned
  <2>2. RestorationsGoOn' /\ CapturesAreTried'
    BY <1>1, <1>2 DEF CapturesStand, captures, RestorationsGoOn, Restoring, CapturesAreTried, Untried, At, Stored
  <2>3. \A j \in Jobs : Assured(j)' => SawCapture(j)'
    BY <1>1, <1>2 DEF CapturesStand, captures, Assured, At, MutexFree, SawCapture, Lasts
  <2> QED
    BY <2>1, <2>2, <2>3 DEF CapturesStand
<1>8. ImportsStand'
  <2>1. MarksAreMade' /\ CopiesAreOwn' /\ NothingIsLeft'
    BY <1>1, <1>2 DEF ImportsStand, imports, MarksAreMade, CopiesAreOwn, NothingIsLeft, PrepareJob, Preparing, Untried,
       Begins, Declines, At, Stored, Live
  <2>2. ArtifactsHaveMakers' /\ RemovalsGoOn'
    BY <1>1, <1>2 DEF ImportsStand, imports, ArtifactsHaveMakers, RemovalsGoOn, DiscardJob, At, Stored, Live
  <2>3. CopiesStand'
    BY <1>1, <1>2 DEF ImportsStand, imports, CopiesStand, CopyStands, PrepareJob, DiscardJob, PreparationDone, Exists,
       Doomed, Assured, Holds, Resource, At, MutexFree, Stored
  <2> QED
    BY <2>1, <2>2, <2>3 DEF ImportsStand
<1>9. MachinesStand'
  BY <1>1, <1>2 DEF machines, MachinesStand, Untried, Stored, Assured, Declines, At, MutexFree, MachineAchieved, Meets,
     MachineUntouched
<1>10. PoolsStand'
  BY <1>1, <1>2 DEF pools, PoolsStand, PoolsTypeOK, Untried, Stored, Assured, At, MutexFree, PoolIsDone, PoolDone, LastStep
<1> QED
  BY <1>3, <1>4, <1>5, <1>6, <1>7, <1>8, <1>9, <1>10

LEMMA AchievedIs ==
  ASSUME NEW j, NEW k, k = Kind[jobs[j].planID]
  PROVE  /\ k \in NetworkKinds /\ NetworkAchieved(j) => Achieved(j)
         /\ k \in AccessKinds /\ AccessAchieved(j) => Achieved(j)
         /\ k = "recipe" /\ RecipeAchieved(j) => Achieved(j)
         /\ k \in CaptureKinds /\ CaptureAchieved(j) => Achieved(j)
         /\ k \in ImportKinds /\ ImportAchieved(j) => Achieved(j)
         /\ k \in MachineKinds /\ MachineAchieved(j) => Achieved(j)
         /\ k \in PoolKinds /\ PoolAchieved(j) => Achieved(j)
<1>1. CASE k \in NetworkKinds
  BY <1>1, KindsAreApart, Zenon DEF Achieved
<1>2. CASE k \in AccessKinds
  BY <1>2, KindsAreApart, Zenon DEF Achieved
<1>3. CASE k = "recipe"
  BY <1>3, KindsAreApart, Zenon DEF Achieved
<1>4. CASE k \in CaptureKinds
  BY <1>4, KindsAreApart, Zenon DEF Achieved
<1>5. CASE k \in ImportKinds
  BY <1>5, KindsAreApart, Zenon DEF Achieved
<1>6. CASE k \in MachineKinds
  BY <1>6, KindsAreApart, Zenon DEF Achieved
<1>7. CASE k \in PoolKinds
  BY <1>7, KindsAreApart, Zenon DEF Achieved
<1> QED
  BY <1>1, <1>2, <1>3, <1>4, <1>5, <1>6, <1>7

LEMMA UntouchedIs ==
  ASSUME NEW j, NEW k, k = Kind[jobs[j].planID]
  PROVE  /\ k \in NetworkKinds /\ NetworkUntouched(j) => Untouched(j)
         /\ k \in AccessKinds /\ AccessUntouched(j) => Untouched(j)
         /\ k = "recipe" /\ RecipeUntouched(j) => Untouched(j)
         /\ k \in CaptureKinds /\ CaptureUntouched(j) => Untouched(j)
         /\ k \in ImportKinds /\ ImportUntouched(j) => Untouched(j)
         /\ k \in MachineKinds /\ MachineUntouched(j) => Untouched(j)
         /\ k \in PoolKinds /\ PoolUntouched(j) => Untouched(j)
         /\ k \in ConfigurationKinds /\ ConfigurationUntouched(j) => Untouched(j)
<1>1. CASE k \in NetworkKinds
  BY <1>1, KindsAreApart, Zenon DEF Untouched
<1>2. CASE k \in AccessKinds
  BY <1>2, KindsAreApart, Zenon DEF Untouched
<1>3. CASE k = "recipe"
  BY <1>3, KindsAreApart, Zenon DEF Untouched
<1>4. CASE k \in CaptureKinds
  BY <1>4, KindsAreApart, Zenon DEF Untouched
<1>5. CASE k \in ImportKinds
  BY <1>5, KindsAreApart, Zenon DEF Untouched
<1>6. CASE k \in MachineKinds
  BY <1>6, KindsAreApart, Zenon DEF Untouched
<1>7. CASE k \in PoolKinds
  BY <1>7, KindsAreApart, Zenon DEF Untouched
<1>8. CASE k \in ConfigurationKinds
  BY <1>8, KindsAreApart, Zenon DEF Untouched
<1> QED
  BY <1>1, <1>2, <1>3, <1>4, <1>5, <1>6, <1>7, <1>8

\* What the engine is assured of is so, while the job has its locks.
LEMMA AssuredAchieve ==
  ASSUME HandledInv, EffectsInv, NEW j \in Jobs, Assured(j), Holds(j), Kind[jobs[j].planID] \notin ConfigurationKinds
  PROVE  Achieved(j)
<1>1. /\ HandlersInv /\ RecipeInv /\ AccessInv /\ CaptureInv /\ ImportInv /\ ReceiptsWereSent /\ GuestsAreSetUp
      /\ PlansHaveHandlers
      /\ NetworksStand /\ AccessesStand /\ CapturesStand /\ ImportsStand /\ MachinesStand /\ PoolsStand
  BY DEF HandledInv, EffectsInv
<1>2. Stored(j)
  BY <1>1, AssuredRest
<1>3. PICK k : k = Kind[jobs[j].planID]
  OBVIOUS
<1>4. k \in HostKinds \ ConfigurationKinds
  BY <1>1, <1>2, <1>3, ReviewOfStored DEF PlansHaveHandlers
<1>5. CASE k \in NetworkKinds
  BY <1>1, <1>3, <1>5, NetworksAchieve, AchievedIs
<1>6. CASE k \in AccessKinds
  BY <1>1, <1>2, <1>3, <1>6, AccessesAchieve, AchievedIs DEF AccessJob
<1>7. CASE k = "recipe"
  BY <1>1, <1>2, <1>3, <1>7, RecipesAchieve, AchievedIs DEF Recipe
<1>8. CASE k \in CaptureKinds
  BY <1>1, <1>2, <1>3, <1>8, CapturesAchieve, AchievedIs
<1>9. CASE k \in ImportKinds
  BY <1>1, <1>2, <1>3, <1>9, ImportsAchieve, AchievedIs
<1>10. CASE k \in MachineKinds
  BY <1>1, <1>3, <1>10, AchievedIs DEF MachinesStand
<1>11. CASE k \in PoolKinds
  BY <1>1, <1>3, <1>11, PoolsAchieve, AchievedIs
<1> QED
  BY <1>4, <1>5, <1>6, <1>7, <1>8, <1>9, <1>10, <1>11 DEF HostKinds

\* Who stops before a step, or says that nothing was done, left no trace.
LEMMA StoppedStayAway ==
  ASSUME HandledInv, EffectsInv, NEW j \in Jobs, Stored(j), EndsEarly(j) \/ Declines(j)
  PROVE  Untouched(j)
<1>1. /\ HandlersInv /\ RecipeInv /\ ImportInv /\ PlansHaveHandlers /\ RecoveriesContinue /\ DeclinesAreFew
      /\ NetworksStand /\ AccessesStand /\ CapturesStand /\ ImportsStand /\ MachinesStand /\ PoolsStand /\ DefinersTried
  BY DEF HandledInv, EffectsInv
<1>2. PICK k : k = Kind[jobs[j].planID]
  OBVIOUS
<1>3. k \in HostKinds
  BY <1>1, <1>2, ReviewOfStored DEF PlansHaveHandlers
<1>4. CASE k \in NetworkKinds
  BY <1>1, <1>2, <1>4, NetworksStayAway, UntouchedIs
<1>5. CASE k \in AccessKinds
  BY <1>1, <1>2, <1>5, AccessesStayAway, UntouchedIs DEF AccessJob
<1>6. CASE k = "recipe"
  BY <1>1, <1>2, <1>6, RecipesStayAway, UntouchedIs DEF Recipe
<1>7. CASE k \in CaptureKinds
  BY <1>1, <1>2, <1>7, CapturesStayAway, UntouchedIs
<1>8. CASE k \in ImportKinds
  BY <1>1, <1>2, <1>8, ImportsStayAway, UntouchedIs
<1>9. CASE k \in MachineKinds
  BY <1>1, <1>2, <1>9, MachinesStayAway, UntouchedIs
<1>10. CASE k \in PoolKinds
  BY <1>1, <1>2, <1>10, PoolsStayAway, UntouchedIs
<1>11. CASE k \in ConfigurationKinds
  BY <1>1, <1>2, <1>11, ConfigurationsStayAway, UntouchedIs
<1> QED
  BY <1>3, <1>4, <1>5, <1>6, <1>7, <1>8, <1>9, <1>10, <1>11 DEF HostKinds

LEMMA EffectsAreInvariant == HostSpec => [](HandledInv /\ EffectsInv)
<1>1. HostInit => HandledInv /\ EffectsInv
  BY InitOutcomes
<1>2. HandledInv /\ EffectsInv /\ [HostNext]_hostVars => (HandledInv /\ EffectsInv)'
  BY NextHandled, NextEffects, StillEffects
<1> QED
  BY <1>1, <1>2, PTL DEF HostSpec

\* Once Reconcile has seen a job complete, what it was to bring about stays so
\* until the outcome is written, as long as the job has its locks: whatever other
\* jobs, the helper, guests and administrators do meanwhile (Engine.run,
\* Engine.Reconcile, Reconcile of the handlers).  Changes of definitions are left
\* out: there administrators do interfere.
THEOREM SeenStaysDone ==
  HostSpec => [](\A j \in Jobs :
    Assured(j) /\ Holds(j) /\ Kind[jobs[j].planID] \notin ConfigurationKinds => Achieved(j))
<1>1. HandledInv /\ EffectsInv => \A j \in Jobs :
        Assured(j) /\ Holds(j) /\ Kind[jobs[j].planID] \notin ConfigurationKinds => Achieved(j)
  BY AssuredAchieve
<1> QED
  BY <1>1, EffectsAreInvariant, PTL

\* HostOutcomesAreTrue, but for the success of a change of a definition: that is a
\* fact about the edits of Definitions, for devices in any number.
ReportsAreTrue ==
  \A j \in Jobs :
    Stored(j) /\ Holds(j) /\ jobs'[j].state # jobs[j].state =>
      /\ jobs'[j].state = "succeeded" /\ Kind[jobs[j].planID] \notin ConfigurationKinds => Achieved(j)
      /\ jobs'[j].state \in {"failed", "canceled"} => Untouched(j)

\* The outcome written for a job that holds its locks is true of the host: a
\* success brought the reviewed change about, a failure or a cancellation left no
\* trace of it (Reconcile and Execute of the handlers, Engine.run,
\* Engine.Reconcile).
THEOREM HostReportsAreTrue == HostSpec => [][ReportsAreTrue]_hostVars
<1>1. HandledInv /\ EffectsInv /\ [HostNext]_hostVars => [ReportsAreTrue]_hostVars
  <2> SUFFICES ASSUME HandledInv, EffectsInv, HostNext
               PROVE  ReportsAreTrue
    OBVIOUS
  <2> SUFFICES ASSUME NEW j \in Jobs, Stored(j), Holds(j), jobs'[j].state # jobs[j].state
               PROVE  /\ jobs'[j].state = "succeeded" /\ Kind[jobs[j].planID] \notin ConfigurationKinds => Achieved(j)
                      /\ jobs'[j].state \in {"failed", "canceled"} => Untouched(j)
    BY DEF ReportsAreTrue
  <2>1. /\ jobs'[j].state = "succeeded" => Assured(j)
        /\ jobs'[j].state \in {"failed", "canceled"} => EndsEarly(j) \/ Declines(j)
    BY ReasonsAreGiven DEF HandledInv
  <2> QED
    BY <2>1, AssuredAchieve, StoppedStayAway
<1> QED
  BY <1>1, EffectsAreInvariant, PTL DEF HostSpec

=============================================================================
