------------------------------ MODULE Handlers ------------------------------
(***************************************************************************)
(* What every handler of the operation engine has in common.  Planning     *)
(* observes the host and stores what it saw with the plan; the plan is     *)
(* applied, perhaps twice, at some later time.  Execute works through a    *)
(* number of effects, each of which may fail, be lost with the process, or *)
(* lose its answer.  Reconcile looks and changes nothing.                  *)
(*                                                                         *)
(* A module of handlers adds the host they work on, one action per effect, *)
(* and two operators it gives to the steps of the engine below:            *)
(*   Valid(p, owner)  what Validate answers for plan p and its owner: the  *)
(*                    runner's job, or NoJob while the plan is applied;    *)
(*   Done(p, i, j)    what Reconcile answers for step i of job j.          *)
(***************************************************************************)
EXTENDS Engine

CONSTANTS
  Kind,       \* Kind[p]: the operation plan p is about
  PlanSets,   \* bound: the sets of plans that are made in one behaviour
  Turns,      \* bound: plan p may be the n-th one applied for the n in Turns[p]
  Unplanned   \* the plan was not made yet

ASSUME PlanSetsArePlans ==
  Kind \in [Plans -> STRING] /\ PlanSets \subseteq SUBSET Plans /\ Turns \in [Plans -> SUBSET Nat]

VARIABLES
  review,   \* the stored input of each plan: what its planning observed
  work      \* how far Execute of each job has come, and at which item

Idly == [at |-> "idle", i |-> 0]
Results == {"ok", "error", "canceled-safely", "not-done"}

HandlersInit ==
  /\ Init
  /\ review = [p \in Plans |-> Unplanned]
  /\ work = [j \in Jobs |-> Idly]

Planned(p) == review[p] # Unplanned
Made == {p \in Plans : Planned(p)}

\* The plans that may be made besides those there are.
Plannable ==
  LET made == Made IN
  IF phase = "serving" THEN (UNION {S \in PlanSets : made \subseteq S}) \ made ELSE {}

\* Engine.Plan stores the plan with its input.
StorePlan(p, input) ==
  /\ phase = "serving" /\ ~Planned(p)
  /\ review' = [review EXCEPT ![p] = input]
  /\ UNCHANGED <<vars, work>>

-----------------------------------------------------------------------------
(* The steps of Execute. *)

PlanOf(j) == runner[j].row.planID
Canceled(j) == jobs[j].cancelRequested
In(j, at) == At(j, "execute") /\ work[j].at = at
Does(j, kind) == At(j, "execute") /\ Kind[PlanOf(j)] = kind
Go(j, at) == work' = [work EXCEPT ![j].at = at]
GoTo(j, at, i) == work' = [work EXCEPT ![j] = [at |-> at, i |-> i]]
Busy(j) == At(j, "execute") /\ work[j].at \notin Results
KeepsEngine == UNCHANGED <<vars, review>>

\* Who calls Reconcile for job j: its runner, or a request.
Reconciling(j) ==
  \/ At(j, "reconcile")
  \/ ~MutexFree /\ request.op = "reconcile" /\ request.job = j

\* Execute returns with what its last step came to.
ExecuteReturns(j) ==
  /\ work[j].at \in Results
  /\ Execute(j, work[j].at)
  /\ work' = [work EXCEPT ![j] = Idly]
  /\ UNCHANGED review

-----------------------------------------------------------------------------
(* The engine, with the answers of the handlers. *)

\* A job and its key are named at random; which names they get changes nothing.
NewJob == CHOOSE j \in Jobs : ~Stored(j)
NewKey == CHOOSE k \in Keys : dedup[k] = NoEntry

Applied(j, Valid(_, _)) ==
  /\ phase = "serving" /\ ~Stored(j) /\ j = NewJob
  /\ \E p \in Made, k \in Keys :
    /\ k = NewKey /\ Cardinality({i \in Jobs : Stored(i)}) + 1 \in Turns[p]
    /\ Valid(p, NoJob)
    /\ \/ Apply(j, k, p)
       \/ /\ p \in RecoveryPlans
          /\ \E parent \in Jobs : parent = review[p].parent /\ ApplyRecovery(j, k, p, parent)

EngineSteps(j, Valid(_, _), Done(_, _, _)) ==
  /\ \/ Applied(j, Valid)
     \/ Boundary(j) \/ ValidateFails(j) \/ ExecuteFailed(j) \/ StartVerifying(j)
     \/ At(j, "validate") /\ Valid(PlanOf(j), j) /\ RecordIntent(j)
     \/ At(j, "reconcile") /\ Done(PlanOf(j), runner[j].i, j) /\ StepVerified(j)
     \/ StepNotVerified(j) \/ Finish(j)
     \/ CancelRead(j) \/ ReconcileRead(j) \/ Recover(j)
  /\ UNCHANGED <<review, work>>

ProcessSteps(Done(_, _, _)) ==
  \/ /\ \/ CancelWrite \/ ReconcileSettle \/ RequestFails \/ Open \/ Serve
        \/ /\ ~MutexFree
           /\ Done(request.row.planID, request.row.step, request.job)
           /\ ReconcileObserve
     /\ UNCHANGED <<review, work>>
  \/ /\ Crash
     /\ work' = [j \in Jobs |-> Idly]
     /\ UNCHANGED review
=============================================================================
