------------------------------- MODULE Engine -------------------------------
(***************************************************************************)
(* The operation engine (internal/operations): it accepts reviewed plans   *)
(* as jobs, runs each job in a goroutine, and serves cancel and reconcile  *)
(* requests.  Requests hold the engine's mutex from their first read to    *)
(* their last write; a runner holds it only at a step boundary, so its     *)
(* other transactions interleave with a request.  A crash loses everything *)
(* but the journal; a restart only marks the jobs it interrupted.          *)
(*                                                                         *)
(* A refused request changes nothing and has no action: an expired plan or *)
(* one whose handler no longer validates is a plan nobody applies, and a   *)
(* repeated key returns the job that Dedup finds.  The handler's answers   *)
(* (Validate, Execute, Reconcile) are chosen freely.                       *)
(***************************************************************************)
EXTENDS Journal

CONSTANTS
  Retaining,      \* plans whose handler retains the effects of earlier steps
  RecoveryPlans,  \* plans whose handler is a RecoveryHandler
  NoRequest,      \* nobody holds the mutex across transactions
  WritesMayFail,  \* whether the transactions of runners and requests may fail
  MaxCancels,     \* bound on the cancel requests of a behaviour
  MaxNotes        \* bound on the progress notes of a behaviour

ASSUME PlanKinds == Retaining \subseteq Plans /\ RecoveryPlans \subseteq Plans
ASSUME Bounds == MaxCancels \in Nat /\ MaxNotes \in Nat /\ WritesMayFail \in BOOLEAN

VARIABLES
  phase,     \* the coordinator process: "down", "recovering" or "serving"
  runner,    \* the goroutine of each job and its copy of the row
  request,   \* the cancel or reconcile request holding the mutex
  begun,     \* <<j, i>>: Execute of step i of job j was called
  verified,  \* <<j, i>>: Reconcile confirmed the step's completion
  undone,    \* <<j, i>>: the handler proved that the step left no effect
  cancels,   \* cancel requests so far
  notes      \* progress notes so far

volatile == <<runner, request>>
observed == <<begun, verified, undone>>
spent == <<cancels, notes>>
vars == <<journal, phase, volatile, observed, spent>>

Outcome == {"none", "ok", "error", "canceled-safely", "not-done"}
Idle == [pc |-> "idle", i |-> 0, row |-> NoRow, outcome |-> "none", note |-> NoRow]

RunnerState ==
  [pc : {"boundary", "validate", "execute", "returned", "reconcile", "finish"},
   i : Nat, row : Row, outcome : Outcome, note : {NoRow}]
  \cup [pc : {"note"}, i : Nat, row : Row, outcome : Outcome, note : Row]

RequestState == [op : {"cancel", "reconcile", "settle"}, job : Jobs, row : Row]

ASSUME NoRequest \notin RequestState

TypeOK ==
  /\ JournalTypeOK
  /\ phase \in {"down", "recovering", "serving"}
  /\ runner \in [Jobs -> RunnerState \cup {Idle}]
  /\ request \in RequestState \cup {NoRequest}
  /\ begun \subseteq Jobs \X Nat
  /\ verified \subseteq Jobs \X Nat
  /\ undone \subseteq Jobs \X Nat
  /\ cancels \in Nat
  /\ notes \in Nat

Live(j) == runner[j].pc # "idle"
At(j, pc) == runner[j].pc = pc
MutexFree == request = NoRequest
LastStep(j) == Steps[jobs[j].planID] - 1

Init ==
  /\ JournalInit
  /\ phase = "recovering"
  /\ runner = [j \in Jobs |-> Idle]
  /\ request = NoRequest
  /\ begun = {} /\ verified = {} /\ undone = {}
  /\ cancels = 0 /\ notes = 0

-----------------------------------------------------------------------------
(* Engine.Apply: the goroutine starts as soon as the job is committed. *)

Start(j, row) ==
  runner' = [runner EXCEPT ![j] = [Idle EXCEPT !.pc = "boundary", !.row = row]]

Apply(j, k, p) ==
  /\ phase = "serving" /\ MutexFree
  /\ p \notin RecoveryPlans
  /\ Accept(j, k, [by |-> Author[p], planID |-> p, parent |-> NoJob])
  /\ Start(j, NewRow(p, NoJob))
  /\ UNCHANGED <<phase, request, observed, spent>>

ApplyRecovery(j, k, p, parent) ==
  /\ phase = "serving" /\ MutexFree
  /\ p \in RecoveryPlans
  /\ AcceptRecovery(j, k, [by |-> Author[p], planID |-> p, parent |-> parent])
  /\ Start(j, NewRow(p, parent))
  /\ UNCHANGED <<phase, request, observed, spent>>

-----------------------------------------------------------------------------
(* Engine.run: one loop iteration per step of the plan. *)

\* The copy a transition writes; the runner keeps it as its own.
Copy(j, state) == [runner[j].row EXCEPT !.state = state]

\* transition and go on to pc, or transition and return from the goroutine.
Continue(j, row, pc) ==
  /\ Update(j, row)
  /\ runner' = [runner EXCEPT ![j].row = row, ![j].pc = pc]

Return(j, row) ==
  /\ Update(j, row)
  /\ runner' = [runner EXCEPT ![j] = Idle]

\* Locks survive a stop before the step if other effects may be behind them.
KeepsLocks(j) ==
  \/ runner[j].row.recoveryOf # NoJob
  \/ runner[j].i > 0 /\ runner[j].row.planID \in Retaining

\* Mutant of AtBoundary: the runner trusts its own copy of the row.
AtBoundaryStale(j) == [runner[j].row EXCEPT !.step = runner[j].i]

\* The boundary takes the mutex, so it reads the cancellation on record.
AtBoundary(j) ==
  [runner[j].row EXCEPT !.cancelRequested = jobs[j].cancelRequested, !.step = runner[j].i]

Boundary(j) ==
  /\ At(j, "boundary") /\ MutexFree
  /\ LET row == AtBoundary(j) IN
       \/ /\ row.cancelRequested
          /\ Return(j, [row EXCEPT !.state =
                          IF KeepsLocks(j) THEN "recovery-required" ELSE "canceled"])
       \/ /\ ~row.cancelRequested
          /\ Continue(j, [row EXCEPT !.state = "validating"], "validate")
  /\ UNCHANGED <<phase, request, observed, spent>>

ValidateFails(j) ==
  /\ At(j, "validate")
  /\ Return(j, Copy(j, IF KeepsLocks(j) THEN "recovery-required" ELSE "failed"))
  /\ UNCHANGED <<phase, request, observed, spent>>

RecordIntent(j) ==
  /\ At(j, "validate")
  /\ Continue(j, Copy(j, "running"), "execute")
  /\ UNCHANGED <<phase, request, observed, spent>>

\* Whether an effect that returned, or failed to, took place shows only later;
\* the two safe errors promise that it did not.
Execute(j, outcome) ==
  LET step == <<j, runner[j].i>> IN
  /\ At(j, "execute")
  /\ runner' = [runner EXCEPT ![j].pc = "returned", ![j].outcome = outcome]
  /\ begun' = begun \cup {step}
  /\ undone' = IF outcome \in {"canceled-safely", "not-done"}
                 THEN undone \cup {step} ELSE undone
  /\ UNCHANGED <<journal, phase, request, verified, spent>>

\* operations.Note inside Execute: it reads the row and writes it back.
NoteRead(j) ==
  /\ At(j, "execute") /\ Stored(j) /\ notes < MaxNotes
  /\ runner' = [runner EXCEPT ![j].pc = "note", ![j].note = jobs[j]]
  /\ notes' = notes + 1
  /\ UNCHANGED <<journal, phase, request, observed, cancels>>

NoteWrite(j) ==
  /\ At(j, "note")
  /\ Update(j, runner[j].note)
  /\ runner' = [runner EXCEPT ![j].pc = "execute", ![j].note = NoRow]
  /\ UNCHANGED <<phase, request, observed, spent>>

\* Mutant of AfterError: what a recovery inherited is forgotten.
AfterErrorForgetful(j) ==
  LET outcome == runner[j].outcome IN
  CASE outcome = "canceled-safely" -> "canceled"
    [] outcome = "not-done" /\ runner[j].i = 0 -> "failed"
    [] OTHER -> "recovery-required"

\* Only an operation that inherited nothing may end without a recovery.
AfterError(j) ==
  LET outcome == runner[j].outcome
      fresh == runner[j].row.recoveryOf = NoJob IN
  CASE outcome = "canceled-safely" /\ fresh -> "canceled"
    [] outcome = "not-done" /\ fresh /\ runner[j].i = 0 -> "failed"
    [] OTHER -> "recovery-required"

ExecuteFailed(j) ==
  /\ At(j, "returned") /\ runner[j].outcome # "ok"
  /\ Return(j, Copy(j, AfterError(j)))
  /\ UNCHANGED <<phase, request, observed, spent>>

StartVerifying(j) ==
  /\ At(j, "returned") /\ runner[j].outcome = "ok"
  /\ Continue(j, Copy(j, "verifying"), "reconcile")
  /\ UNCHANGED <<phase, request, observed, spent>>

StepVerified(j) ==
  /\ At(j, "reconcile")
  /\ verified' = verified \cup {<<j, runner[j].i>>}
  /\ runner' =
       IF runner[j].i = LastStep(j)
         THEN [runner EXCEPT ![j].pc = "finish"]
         ELSE [runner EXCEPT ![j].pc = "boundary", ![j].i = runner[j].i + 1, ![j].outcome = "none"]
  /\ UNCHANGED <<journal, phase, request, begun, undone, spent>>

\* Mutant of StepNotVerified: the step is tried once more.
StepRetried(j) ==
  /\ At(j, "reconcile")
  /\ runner' = [runner EXCEPT ![j].pc = "execute"]
  /\ UNCHANGED <<journal, phase, request, observed, spent>>

StepNotVerified(j) ==
  /\ At(j, "reconcile")
  /\ Return(j, Copy(j, "recovery-required"))
  /\ UNCHANGED <<phase, request, observed, spent>>

Finish(j) ==
  /\ At(j, "finish")
  /\ Return(j, Copy(j, "succeeded"))
  /\ UNCHANGED <<phase, request, observed, spent>>

\* A runner whose transaction fails returns and leaves the row as it was.
JournalWriteFails(j) ==
  /\ WritesMayFail
  /\ Live(j) /\ ~At(j, "execute") /\ ~At(j, "note")
  /\ runner' = [runner EXCEPT ![j] = Idle]
  /\ UNCHANGED <<journal, phase, request, observed, spent>>

-----------------------------------------------------------------------------
(* Engine.Cancel and Engine.Reconcile: a read, then a write of that copy. *)

\* Mutant of CancelRead: the request is kept as a state of its own.
CancelReadMarking(j) ==
  /\ phase = "serving" /\ MutexFree
  /\ cancels < MaxCancels
  /\ Stored(j) /\ ~Terminal(jobs[j].state)
  /\ request' = [op |-> "cancel", job |-> j,
                 row |-> [jobs[j] EXCEPT !.state = "cancel-requested"]]
  /\ cancels' = cancels + 1
  /\ UNCHANGED <<journal, phase, runner, observed, notes>>

CancelRead(j) ==
  /\ phase = "serving" /\ MutexFree
  /\ cancels < MaxCancels
  /\ Stored(j) /\ ~Terminal(jobs[j].state)
  /\ request' = [op |-> "cancel", job |-> j,
                 row |-> [jobs[j] EXCEPT !.cancelRequested = TRUE]]
  /\ cancels' = cancels + 1
  /\ UNCHANGED <<journal, phase, runner, observed, notes>>

\* Mutant of CancelWrite: it waits for the goroutine under the mutex.
CancelWriteWaiting ==
  /\ ~MutexFree /\ request.op = "cancel"
  /\ ~Live(request.job)
  /\ Update(request.job, request.row)
  /\ request' = NoRequest
  /\ UNCHANGED <<phase, runner, observed, spent>>

CancelWrite ==
  /\ ~MutexFree /\ request.op = "cancel"
  /\ Update(request.job, request.row)
  /\ request' = NoRequest
  /\ UNCHANGED <<phase, runner, observed, spent>>

ReconcileRead(j) ==
  /\ phase = "serving" /\ MutexFree
  /\ Stored(j) /\ jobs[j].state \in Unresolved
  /\ request' = [op |-> "reconcile", job |-> j, row |-> jobs[j]]
  /\ UNCHANGED <<journal, phase, runner, observed, spent>>

\* Mutant of ReconcileObserve: one observed step stands for the whole plan.
ReconcileObserveAnyStep ==
  /\ ~MutexFree /\ request.op = "reconcile"
  /\ verified' = verified \cup {<<request.job, request.row.step>>}
  /\ request' = [request EXCEPT !.op = "settle", !.row.state = "succeeded"]
  /\ UNCHANGED <<journal, phase, runner, begun, undone, spent>>

\* Completion of an earlier step proves nothing about the later ones.
ReconcileObserve ==
  /\ ~MutexFree /\ request.op = "reconcile"
  /\ verified' = verified \cup {<<request.job, request.row.step>>}
  /\ request' = IF request.row.step = LastStep(request.job)
                  THEN [request EXCEPT !.op = "settle", !.row.state = "succeeded"]
                  ELSE NoRequest
  /\ UNCHANGED <<journal, phase, runner, begun, undone, spent>>

ReconcileSettle ==
  /\ ~MutexFree /\ request.op = "settle"
  /\ Update(request.job, request.row)
  /\ request' = NoRequest
  /\ UNCHANGED <<phase, runner, observed, spent>>

\* The observation is negative, the client is gone, or the write fails.
RequestFails ==
  /\ ~MutexFree
  /\ request.op = "reconcile" \/ WritesMayFail
  /\ request' = NoRequest
  /\ UNCHANGED <<journal, phase, runner, observed, spent>>

-----------------------------------------------------------------------------
(* The process: crash, store.Open, Engine.Recover, Serve. *)

Crash ==
  /\ phase # "down"
  /\ phase' = "down"
  /\ runner' = [j \in Jobs |-> Idle]
  /\ request' = NoRequest
  /\ UNCHANGED <<journal, observed, spent>>

Open ==
  /\ phase = "down"
  /\ phase' = "recovering"
  /\ UNCHANGED <<journal, volatile, observed, spent>>

\* Mutant of Interrupted: a job that had no effect yet needs no mark.
InterruptedInEffect(j) == Stored(j) /\ jobs[j].state \in {"running", "verifying"}

Interrupted(j) == Stored(j) /\ ~Terminal(jobs[j].state)

Recover(j) ==
  /\ phase = "recovering" /\ Interrupted(j)
  /\ Update(j, [jobs[j] EXCEPT !.state = "recovery-required"])
  /\ UNCHANGED <<phase, volatile, observed, spent>>

Serve ==
  /\ phase = "recovering"
  /\ \A j \in Jobs : ~Interrupted(j)
  /\ phase' = "serving"
  /\ UNCHANGED <<journal, volatile, observed, spent>>

-----------------------------------------------------------------------------

Run(j) ==
  \/ Boundary(j) \/ ValidateFails(j) \/ RecordIntent(j)
  \/ \E outcome \in Outcome \ {"none"} : Execute(j, outcome)
  \/ NoteRead(j) \/ NoteWrite(j)
  \/ ExecuteFailed(j) \/ StartVerifying(j)
  \/ StepVerified(j) \/ StepNotVerified(j) \/ Finish(j)

Next ==
  \/ \E j \in Jobs, k \in Keys, p \in Plans :
       \/ Apply(j, k, p)
       \/ \E parent \in Jobs : ApplyRecovery(j, k, p, parent)
  \/ \E j \in Jobs : Run(j) \/ JournalWriteFails(j)
  \/ \E j \in Jobs : CancelRead(j) \/ ReconcileRead(j)
  \/ CancelWrite \/ ReconcileObserve \/ ReconcileSettle \/ RequestFails
  \/ Crash \/ Open \/ Serve \/ \E j \in Jobs : Recover(j)

Spec == Init /\ [][Next]_vars
-----------------------------------------------------------------------------
(* What must hold. *)

Holds(j) == \A r \in Resource(j) : locks[r] = j

\* An effect of job j may exist that nobody has confirmed or excluded.  A
\* recovery job inherits such effects and owes every step of its own.
InDoubt(j) ==
  \/ \E i \in 0..LastStep(j) : <<j, i>> \in begun \ (verified \cup undone)
  \/ /\ jobs[j].recoveryOf # NoJob
     /\ \E i \in 0..LastStep(j) : <<j, i>> \notin verified

\* Two goroutines never work on one resource at a time, not even after a
\* cancel request has overwritten the row of one of them (Engine.run, Store
\* .Accept and .Update).
RunnersAreExclusive ==
  \A j, k \in Jobs :
    j # k /\ Live(j) /\ Live(k) => Resource(j) \cap Resource(k) = {}

\* Every lock is held by a stored, unfinished job whose plan names it: nothing
\* stays locked on behalf of a job that is over (Store.Update, AcceptRecovery).
LocksServeUnfinishedJobs ==
  \A r \in Resources : locks[r] # NoJob =>
    /\ Stored(locks[r])
    /\ jobs[locks[r]].state \notin Finished
    /\ r \in Resource(locks[r])

\* While an effect is in doubt the job keeps all its resources, through
\* crashes, cancellations and failed writes, until a recovery takes them over
\* (Engine.run, Engine.Recover, Store.AcceptRecovery).
DoubtKeepsLocks ==
  \A j \in Jobs :
    Stored(j) /\ jobs[j].state # "partial" /\ InDoubt(j) => Holds(j)

\* A job is reported successful only when every step of its plan was observed
\* complete, whether its runner or a later reconcile says so (Engine.run,
\* Engine.Reconcile).
SuccessIsObserved ==
  \A j \in Jobs :
    Stored(j) /\ jobs[j].state = "succeeded" =>
      \A i \in 0..LastStep(j) : <<j, i>> \in verified

\* Recovery links agree in both directions, a job has at most one recovery, and
\* each recovery covers the resources of the one before (Store.AcceptRecovery).
RecoveriesAreChained ==
  /\ \A j \in Jobs : Stored(j) =>
       (jobs[j].state = "partial" <=> jobs[j].recoveryOperationID # NoJob)
  /\ \A p, c \in Jobs : Stored(p) /\ Stored(c) =>
       (jobs[p].recoveryOperationID = c <=> jobs[c].recoveryOf = p)
  /\ \A c \in Jobs : Stored(c) /\ jobs[c].recoveryOf # NoJob =>
       Resource(jobs[c].recoveryOf) \subseteq Resource(c)

\* One accepted job per idempotency key and one key per job: a repeated request
\* finds the job of the first one, also after a crash (Engine.Apply, Accept).
OneJobPerKey ==
  \A j \in Jobs :
    Cardinality({k \in Keys : dedup[k] # NoEntry /\ dedup[k].job = j})
      = IF Stored(j) THEN 1 ELSE 0

\* What is accepted is accepted once: the two promises of an acceptance, which
\* both come from its one transaction (Store.Accept, Store.AcceptRecovery).
AcceptancesAreSingle == RecoveriesAreChained /\ OneJobPerKey

\* No step of a job is ever executed twice, across crashes, restarts and
\* reconciliations (Engine.run, Engine.Recover).
NoReplay ==
  [][\A j \in Jobs :
       At(j, "execute") /\ runner'[j].pc = "returned" => <<j, runner[j].i>> \notin begun]_vars

\* A recorded cancellation request survives every later write of the row, also
\* by a runner that has not read it (Store.Update).
CancellationIsKept ==
  [][\A j \in Jobs :
       Stored(j) /\ jobs[j].cancelRequested => jobs'[j].cancelRequested]_vars

\* Once a cancellation is recorded the job enters no further step: if its step
\* still advances, that same write ends it (Engine.run, Engine.Cancel).
CancellationStopsSteps ==
  [][\A j \in Jobs :
       Stored(j) /\ jobs[j].cancelRequested /\ jobs'[j].step # jobs[j].step =>
         Terminal(jobs'[j].state)]_vars

\* "Resource locks remain held until resolved" (Engine.Recover): a job that
\* waits for recovery holds every resource of its plan.
AwaitingRecoveryHolds ==
  \A j \in Jobs : Stored(j) /\ jobs[j].state = "recovery-required" => Holds(j)

-----------------------------------------------------------------------------
(* Progress.  The Go scheduler runs every goroutine that can run and its     *)
(* mutex is starvation-free, handlers return, systemd restarts the daemon.   *)

RunStep(j) == Run(j) /\ ~At(j, "boundary")

RequestEnds == CancelWrite \/ ReconcileObserve \/ ReconcileSettle \/ RequestFails

Fairness ==
  /\ \A j \in Jobs : WF_vars(RunStep(j)) /\ SF_vars(Boundary(j))
  /\ WF_vars(RequestEnds)
  /\ WF_vars(Open) /\ WF_vars(Serve) /\ \A j \in Jobs : WF_vars(Recover(j))

FairSpec == Spec /\ Fairness

\* If the daemon stops crashing, every job comes to rest: unless someone tried
\* to cancel it or its journal write failed, its state is eventually terminal
\* (Engine.run, Engine.Recover).
JobsComeToRest ==
  \A j \in Jobs :
    <>[](phase # "down") =>
      []<>(~Stored(j) \/ Terminal(jobs[j].state) \/ jobs[j].cancelRequested)

\* No goroutine runs for ever and no request keeps the mutex for ever.
NothingHangs ==
  /\ \A j \in Jobs : []<>(~Live(j))
  /\ []<>MutexFree
=============================================================================
