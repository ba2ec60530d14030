--------------------------- MODULE CreationProofs ---------------------------
(***************************************************************************)
(* Creation behaves as Engine allows, so that what is proved of the engine *)
(* holds while machines are created and recovered; prepared files are      *)
(* released only once their hand-over is on record; machines are complete, *)
(* dispositions stay true, and so does what creations and recoveries       *)
(* report.  The last three follow from what each job may assume of the     *)
(* recipe it works on while it has it locked.                              *)
(***************************************************************************)
EXTENDS Creation, EngineProofs

-----------------------------------------------------------------------------
(* Every step of a handler is a step of the engine or none.                *)

LEMMA InitImplements == CreationInit => Init
BY DEF CreationInit

LEMMA HandlerImplements ==
  ASSUME NEW j \in Jobs, HandlerSteps(j) PROVE Next \/ UNCHANGED vars
<1>1. CASE ExecuteReturns(j)
  <2>1. PICK outcome \in {"ok", "error", "canceled-safely"} : Execute(j, outcome)
    BY <1>1 DEF ExecuteReturns
  <2>2. outcome \in Outcome \ {"none"}
    BY DEF Outcome
  <2> QED BY <2>1, <2>2 DEF Next, Run
<1>2. CASE Begin(j) \/ CancelSeen(j) \/ WorkFails(j)
  BY <1>2 DEF Begin, CancelSeen, WorkFails
<1>3. CASE AllocateVolume(j) \/ RecordAllocation(j) \/ HandOver(j) \/ PopulateVolume(j)
  BY <1>3 DEF AllocateVolume, RecordAllocation, HandOver, PopulateVolume
<1>4. CASE VerifyCreatedVolume(j) \/ VolumesVerified(j) \/ VerifyRetained(j) \/ ProveVerified(j)
  BY <1>4 DEF VerifyCreatedVolume, VolumesVerified, VerifyRetained, ProveVerified
<1>5. CASE DefineCreatedVM(j) \/ ObserveCreatedVM(j)
  BY <1>5 DEF DefineCreatedVM, ObserveCreatedVM
<1>6. CASE IntendDeletion(j) \/ DeleteCreationVolume(j) \/ ConfirmAbsent(j) \/ CommitDisposition(j)
  BY <1>6 DEF IntendDeletion, DeleteCreationVolume, ConfirmAbsent, CommitDisposition
<1>7. CASE ConfirmDefinition(j) \/ RecordOwnership(j) \/ ReconcileAcceptance(j) \/ ReconcileCleanup(j)
  BY <1>7 DEF ConfirmDefinition, RecordOwnership, ReconcileAcceptance, ReconcileCleanup, Own
<1> QED BY <1>1, <1>2, <1>3, <1>4, <1>5, <1>6, <1>7 DEF HandlerSteps

LEMMA ApplyImplements ==
  ASSUME NEW j \in Jobs, NEW k \in Keys, ApplySteps(j, k) PROVE Next
<1>1. CASE \E c \in Creations : Apply(j, k, c)
  BY <1>1 DEF Next, Creations
<1>2. CASE \E p \in RecoveryPlans, parent \in Jobs : ApplyRecovery(j, k, p, parent)
  BY <1>2, PlanKinds DEF Next
<1> QED BY <1>1, <1>2 DEF ApplySteps

LEMMA EngineStepImplements ==
  ASSUME NEW j \in Jobs, EngineSteps(j) PROVE Next
<1>1. CASE \E k \in Keys : ApplySteps(j, k)
  BY <1>1, ApplyImplements
<1>2. CASE Boundary(j) \/ ValidateFails(j) \/ RecordIntent(j) \/ ExecuteFailed(j) \/ StartVerifying(j)
  BY <1>2 DEF Next, Run
<1>3. CASE Finish(j) \/ StepVerified(j) \/ StepNotVerified(j)
  BY <1>3 DEF Next, Run
<1>4. CASE CancelRead(j) \/ ReconcileRead(j) \/ Recover(j)
  BY <1>4 DEF Next
<1> QED BY <1>1, <1>2, <1>3, <1>4 DEF EngineSteps

LEMMA StepImplements == [CreationNext]_creationVars => [Next]_vars
<1> SUFFICES ASSUME [CreationNext]_creationVars PROVE Next \/ UNCHANGED vars
  OBVIOUS
<1>1. CASE UNCHANGED creationVars
  BY <1>1 DEF creationVars
<1>2. CASE \E p \in Plans, parent \in Jobs : PlanRecovery(p, parent)
  BY <1>2 DEF PlanRecovery
<1>3. CASE \E j \in Jobs : HandlerSteps(j)
  BY <1>3, HandlerImplements
<1>4. CASE ProcessSteps
  BY <1>4 DEF ProcessSteps, Next
<1>5. CASE \E j \in Jobs : EngineSteps(j)
  BY <1>5, EngineStepImplements
<1>6. CASE DiscardPrepared
  BY <1>6 DEF DiscardPrepared
<1> QED BY <1>1, <1>2, <1>3, <1>4, <1>5, <1>6 DEF CreationNext

\* Creations and their recoveries run as the engine runs any job: the handlers
\* add to its state and never take a step of their own on it (creating.Register).
THEOREM CreationImplementsEngine == CreationSpec => Spec
BY InitImplements, StepImplements, PTL DEF CreationSpec, Spec

\* A creation in doubt keeps its machine and its storage pool locked until a
\* recovery takes them over, and two jobs never work on one recipe together
\* (Engine.run, Store.AcceptRecovery).
THEOREM CreationJobsAreSafe == CreationSpec => [](RunnersAreExclusive /\ DoubtKeepsLocks)
BY CreationImplementsEngine, Exclusion, DoubtIsGuarded, PTL

-----------------------------------------------------------------------------
(* The hand-over comes first.  A creation that fills its volumes runs inside *)
(* Execute, and from its second volume on, or once it uploads, the copy it   *)
(* hands over is on record.                                                  *)

Allocating == {"volume", "allocated", "recorded"}
Uploading == {"upload", "uploaded"}

Filling == Allocating \cup Uploading
Elsewhere == {"idle", "verify", "define", "defined", "dispose", "delete", "deleted", "ok", "error",
              "canceled", "confirmed", "observed"}

WorkIsTyped == work \in [Jobs -> [at : Filling \cup Elsewhere, i : Nat]]

FillsItsOwn(j) ==
  work[j].at \in Filling =>
    /\ At(j, "execute") /\ work[j].i > 0
    /\ Action[PlanOf(j)] = "create"
    /\ PlanOf(j) \in HandsOver /\ (work[j].i > 1 \/ work[j].at \in Uploading) =>
         handed # NoPlan

HandOverInv ==
  /\ WorkIsTyped
  /\ \A j \in Jobs : FillsItsOwn(j)
  /\ ReleaseIsRecorded

LEMMA InitHandOver == CreationInit => HandOverInv
BY DEF CreationInit, HandOverInv, WorkIsTyped, Idly, FillsItsOwn, Filling, Elsewhere, Allocating, Uploading,
       ReleaseIsRecorded

\* What a job has filled stays true while it and its runner stand still.
LEMMA StandsStill ==
  ASSUME NEW j \in Jobs, FillsItsOwn(j), work'[j] = work[j],
         runner'[j] = runner[j], handed # NoPlan => handed' # NoPlan
  PROVE  FillsItsOwn(j)'
BY DEF FillsItsOwn, At, PlanOf, Filling, Allocating, Uploading

\* A step that leaves runners, record and files alone and moves one job on.
LEMMA OtherWork ==
  ASSUME HandOverInv, NEW j \in Jobs, NEW at \in Filling \cup Elsewhere, NEW i \in Nat,
         work' = [work EXCEPT ![j] = [at |-> at, i |-> i]],
         \A k \in Jobs : k # j => runner'[k] = runner[k],
         UNCHANGED <<handed, prepared>>, FillsItsOwn(j)'
  PROVE  HandOverInv'
<1>1. WorkIsTyped'
  BY DEF HandOverInv, WorkIsTyped
<1>2. \A k \in Jobs : k # j => FillsItsOwn(k)'
  BY StandsStill DEF HandOverInv, WorkIsTyped
<1> QED
  BY <1>1, <1>2 DEF HandOverInv, ReleaseIsRecorded

\* Work that fills no volume asks nothing of the record.
LEMMA FillsNothing ==
  ASSUME NEW j \in Jobs, work'[j].at \notin Filling
  PROVE  FillsItsOwn(j)'
BY DEF FillsItsOwn

LEMMA LeavesFilling ==
  ASSUME HandOverInv, NEW j \in Jobs, NEW at \in Elsewhere, NEW i \in Nat,
         work' = [work EXCEPT ![j] = [at |-> at, i |-> i]],
         \A k \in Jobs : k # j => runner'[k] = runner[k],
         UNCHANGED <<handed, prepared>>
  PROVE  HandOverInv'
<1>1. work'[j].at = at /\ at \notin Filling
  BY DEF HandOverInv, WorkIsTyped, Filling, Elsewhere, Allocating, Uploading
<1> QED
  BY <1>1, FillsNothing, OtherWork

LEMMA GoIs ==
  ASSUME WorkIsTyped, NEW j \in Jobs, NEW at
  PROVE  /\ work[j].i \in Nat /\ work[j].i + 1 \in Nat
         /\ Go(j, at) => work' = [work EXCEPT ![j] = [at |-> at, i |-> work[j].i]]
         /\ GoNext(j, at) => work' = [work EXCEPT ![j] = [at |-> at, i |-> work[j].i + 1]]
         /\ First(j, at) => work' = [work EXCEPT ![j] = [at |-> at, i |-> 1]]
BY DEF WorkIsTyped, Go, GoNext, First

SameRunners == \A k \in Jobs : runner'[k] = runner[k]

LEMMA QuietRunners ==
  ASSUME UNCHANGED vars PROVE SameRunners
BY DEF vars, volatile, SameRunners

-----------------------------------------------------------------------------
(* The steps of a creation that fills volumes.                               *)

LEMMA BeginHandOver ==
  ASSUME HandOverInv, NEW j \in Jobs, Begin(j) PROVE HandOverInv'
<1> USE DEF HandOverInv
<1>1. SameRunners /\ UNCHANGED <<handed, prepared>> /\ UNCHANGED runner
  BY QuietRunners DEF Begin, vars, volatile, host, records, SaveReceipt, SaveProof
<1>2. CASE Action[PlanOf(j)] = "create"
  <2>1. First(j, "volume") /\ At(j, "execute")
    BY <1>2 DEF Begin, In, Cleanups
  <2>2. work' = [work EXCEPT ![j] = [at |-> "volume", i |-> 1]]
    BY <2>1, GoIs
  <2>3. FillsItsOwn(j)'
    BY <1>1, <1>2, <2>1, <2>2 DEF FillsItsOwn, WorkIsTyped, At, PlanOf, Uploading
  <2> QED
    BY <1>1, <2>2, <2>3, OtherWork DEF SameRunners, Filling, Allocating, Uploading
<1>3. CASE Action[PlanOf(j)] # "create"
  <2>1. First(j, "dispose") \/ First(j, "verify")
    BY <1>3 DEF Begin
  <2>2. "dispose" \in Elsewhere /\ "verify" \in Elsewhere
    BY DEF Elsewhere
  <2>3. PICK at \in Elsewhere :
          work' = [work EXCEPT ![j] = [at |-> at, i |-> 1]]
    BY <2>1, <2>2, GoIs
  <2> QED
    BY <1>1, <2>3, LeavesFilling DEF SameRunners
<1> QED
  BY <1>2, <1>3

LEMMA FillingHandOver ==
  ASSUME HandOverInv, NEW j \in Jobs,
         AllocateVolume(j) \/ RecordAllocation(j) \/ HandOver(j) \/ PopulateVolume(j)
           \/ VerifyCreatedVolume(j)
  PROVE  HandOverInv'
<1> USE DEF HandOverInv
<1>1. SameRunners /\ UNCHANGED runner
  BY QuietRunners DEF AllocateVolume, RecordAllocation, HandOver, PopulateVolume,
     VerifyCreatedVolume, vars, volatile
<1>2. "error" \in Elsewhere
  BY DEF Elsewhere
<1>3. FillsItsOwn(j) /\ WorkIsTyped /\ work[j].i \in Nat
  BY GoIs
<1>4. CASE AllocateVolume(j)
  <2>1. UNCHANGED <<handed, prepared>> /\ work[j].at = "volume"
        /\ work' = [work EXCEPT ![j] = [at |-> "allocated", i |-> work[j].i]]
    BY <1>4, GoIs DEF AllocateVolume, In, records
  <2>2. FillsItsOwn(j)'
    BY <1>1, <1>3, <2>1 DEF FillsItsOwn, WorkIsTyped, At, PlanOf, Filling, Allocating, Uploading
  <2> QED
    BY <1>1, <1>3, <2>1, <2>2, OtherWork DEF SameRunners, Filling, Allocating, Uploading
<1>5. CASE RecordAllocation(j)
  <2>1. UNCHANGED <<handed, prepared>> /\ work[j].at = "allocated"
    BY <1>5 DEF RecordAllocation, In, host, SaveReceipt
  <2>2. CASE Go(j, "recorded")
    <3>1. work' = [work EXCEPT ![j] = [at |-> "recorded", i |-> work[j].i]]
      BY <2>2, GoIs
    <3>2. FillsItsOwn(j)'
      BY <1>1, <1>3, <2>1, <3>1 DEF FillsItsOwn, WorkIsTyped, At, PlanOf, Filling, Allocating, Uploading
    <3> QED
      BY <1>1, <1>3, <2>1, <3>1, <3>2, OtherWork DEF SameRunners, Filling, Allocating, Uploading
  <2>3. CASE Go(j, "error")
    BY <1>1, <1>2, <1>3, <2>1, <2>3, GoIs, LeavesFilling DEF SameRunners
  <2> QED
    BY <1>5, <2>2, <2>3 DEF RecordAllocation
<1>6. CASE HandOver(j)
  <2>1. work' = [work EXCEPT ![j] = [at |-> "upload", i |-> work[j].i]]
        /\ work[j].at = "recorded" /\ UNCHANGED prepared
    BY <1>6, GoIs DEF HandOver, In, host
  <2>2. Action[PlanOf(j)] = "create" /\ RecipeOf(j) = PlanOf(j) /\ work[j].i > 0
    BY <1>3, <2>1 DEF FillsItsOwn, Filling, Allocating, Uploading, RecipeOf, Recipe
  <2>3. handed # NoPlan => handed' # NoPlan
    BY <1>6, CreationPlans DEF HandOver, Creations
  <2>4. PlanOf(j) \in HandsOver => handed' # NoPlan
    <3>1. CASE PlanOf(j) \in HandsOver /\ work[j].i = 1
      BY <1>6, <2>2, <3>1, CreationPlans DEF HandOver, Creations
    <3>2. CASE PlanOf(j) \in HandsOver /\ work[j].i # 1
      <4>1. work[j].i > 1
        BY <1>3, <2>2, <3>2
      <4> QED
        BY <1>3, <2>1, <2>3, <3>2, <4>1 DEF FillsItsOwn, Filling, Allocating, Uploading
    <3> QED
      BY <3>1, <3>2
  <2>5. FillsItsOwn(j)'
    BY <1>1, <1>3, <2>1, <2>2, <2>4 DEF FillsItsOwn, WorkIsTyped, At, PlanOf, Filling, Allocating, Uploading
  <2>6. WorkIsTyped'
    BY <1>3, <2>1 DEF WorkIsTyped, Filling, Uploading
  <2>7. \A k \in Jobs : k # j => FillsItsOwn(k)'
    BY <1>1, <2>1, <2>3, StandsStill DEF SameRunners, WorkIsTyped
  <2> QED
    BY <2>1, <2>3, <2>5, <2>6, <2>7 DEF ReleaseIsRecorded
<1>7. CASE PopulateVolume(j)
  <2>1. UNCHANGED handed /\ work[j].at = "upload"
    BY <1>7 DEF PopulateVolume, In, records
  <2>2. Action[PlanOf(j)] = "create" /\ RecipeOf(j) = PlanOf(j)
    BY <1>3, <2>1 DEF FillsItsOwn, Filling, Uploading, RecipeOf, Recipe
  <2>3. PICK at \in {"uploaded", "error"} :
          work' = [work EXCEPT ![j] = [at |-> at, i |-> work[j].i]]
    BY <1>7, GoIs DEF PopulateVolume
  <2>4. FillsItsOwn(j)'
    BY <1>1, <1>3, <2>1, <2>3 DEF FillsItsOwn, WorkIsTyped, At, PlanOf, Filling, Allocating, Uploading
  <2>5. \A k \in Jobs : k # j => FillsItsOwn(k)'
    BY <1>1, <2>1, <2>3, StandsStill DEF SameRunners, WorkIsTyped
  <2>6. WorkIsTyped'
    BY <1>3, <2>3 DEF WorkIsTyped, Filling, Uploading, Elsewhere
  <2>7. ReleaseIsRecorded'
    <3>1. CASE PlanOf(j) \in HandsOver
      BY <1>3, <2>1, <3>1 DEF FillsItsOwn, Filling, Uploading, ReleaseIsRecorded
    <3>2. CASE PlanOf(j) \notin HandsOver
      BY <1>7, <2>1, <2>2, <3>2 DEF PopulateVolume, ReleaseIsRecorded
    <3> QED
      BY <3>1, <3>2
  <2> QED
    BY <2>4, <2>5, <2>6, <2>7
<1>8. CASE VerifyCreatedVolume(j)
  <2>1. UNCHANGED <<handed, prepared>> /\ work[j].at = "uploaded"
        /\ work' = [work EXCEPT ![j] = [at |-> "volume", i |-> work[j].i + 1]]
    BY <1>8, GoIs DEF VerifyCreatedVolume, In, host, SaveReceipt
  <2>2. FillsItsOwn(j)'
    BY <1>1, <1>3, <2>1 DEF FillsItsOwn, WorkIsTyped, At, PlanOf, Filling, Allocating, Uploading
  <2>3. work[j].i + 1 \in Nat
    BY GoIs
  <2> QED
    BY <1>1, <1>3, <2>1, <2>2, <2>3, OtherWork DEF SameRunners, Filling, Allocating, Uploading
<1> QED
  BY <1>4, <1>5, <1>6, <1>7, <1>8

\* All other steps of the handlers leave the files and their record alone and
\* end the filling of volumes, if any.
LEMMA OtherHandOver ==
  ASSUME HandOverInv, NEW j \in Jobs,
         \/ CancelSeen(j) \/ WorkFails(j) \/ VolumesVerified(j) \/ VerifyRetained(j)
         \/ ProveVerified(j) \/ DefineCreatedVM(j) \/ ObserveCreatedVM(j)
         \/ IntendDeletion(j) \/ DeleteCreationVolume(j) \/ ConfirmAbsent(j)
         \/ CommitDisposition(j) \/ ConfirmDefinition(j) \/ RecordOwnership(j)
         \/ ReconcileAcceptance(j) \/ ReconcileCleanup(j)
  PROVE  HandOverInv'
<1>2. WorkIsTyped /\ SameRunners
  BY QuietRunners DEF HandOverInv, CancelSeen, WorkFails, VolumesVerified, VerifyRetained,
     ProveVerified, DefineCreatedVM, ObserveCreatedVM, IntendDeletion, DeleteCreationVolume,
     ConfirmAbsent, CommitDisposition, ConfirmDefinition, RecordOwnership, Own,
     ReconcileAcceptance, ReconcileCleanup
<1>3. UNCHANGED <<handed, prepared>>
  BY DEF records, host, SaveReceipt, SaveProof, Dispose, Own,
     CancelSeen, WorkFails, VolumesVerified, VerifyRetained,
     ProveVerified, DefineCreatedVM, ObserveCreatedVM, IntendDeletion, DeleteCreationVolume,
     ConfirmAbsent, CommitDisposition, ConfirmDefinition, RecordOwnership,
     ReconcileAcceptance, ReconcileCleanup
<1>4. \E at \in Elsewhere : Go(j, at) \/ GoNext(j, at)
  BY DEF Elsewhere, CancelSeen, WorkFails, VolumesVerified, VerifyRetained,
     ProveVerified, DefineCreatedVM, ObserveCreatedVM, IntendDeletion, DeleteCreationVolume,
     ConfirmAbsent, CommitDisposition, ConfirmDefinition, RecordOwnership,
     ReconcileAcceptance, ReconcileCleanup
<1>5. PICK at \in Elsewhere : Go(j, at) \/ GoNext(j, at)
  BY <1>4
<1>6. PICK i \in Nat : work' = [work EXCEPT ![j] = [at |-> at, i |-> i]]
  BY <1>2, <1>5, GoIs
<1> QED
  BY <1>2, <1>3, <1>6, LeavesFilling DEF SameRunners

LEMMA ReturnHandOver ==
  ASSUME HandOverInv, TypeOK, NEW j \in Jobs, ExecuteReturns(j) PROVE HandOverInv'
<1>1. work' = [work EXCEPT ![j] = [at |-> "idle", i |-> 0]] /\ UNCHANGED <<handed, prepared>>
  BY DEF ExecuteReturns, Idly, records, host
<1>2. \A k \in Jobs : k # j => runner'[k] = runner[k]
  BY DEF ExecuteReturns, Execute, TypeOK
<1>3. "idle" \in Elsewhere
  BY DEF Elsewhere
<1> QED
  BY <1>1, <1>2, <1>3, LeavesFilling

-----------------------------------------------------------------------------
(* The engine's own steps never touch a job that is inside Execute.          *)

LEMMA EngineHandOver ==
  ASSUME HandOverInv, OwnershipInv, NEW j \in Jobs, EngineSteps(j),
         UNCHANGED <<records, host>>
  PROVE  HandOverInv'
<1> USE DEF HandOverInv
<1>1. UNCHANGED <<handed, prepared>> /\ TypeOK
  BY DEF records, host, OwnershipInv
<1>2. \A k \in Jobs : k # j => runner'[k] = runner[k]
  BY <1>1 DEF EngineSteps, ApplySteps, Apply, ApplyRecovery, Start, Boundary, ValidateFails,
     ExecuteFailed, StartVerifying, RecordIntent, Finish, CancelRead, ReconcileRead, Recover,
     StepVerified, StepNotVerified, Continue, Return, TypeOK, volatile
<1>3. CASE work' = [work EXCEPT ![j] = Idly]
  <2>1. "idle" \in Elsewhere
    BY DEF Elsewhere
  <2> QED
    BY <1>1, <1>2, <1>3, <2>1, LeavesFilling DEF Idly
<1>4. CASE UNCHANGED work
  <2>1. runner'[j] = runner[j] \/ ~At(j, "execute")
    <3>1. CASE \E k \in Keys : ApplySteps(j, k)
      <4>1. \E k \in Keys, p \in Plans, parent \in Jobs :
              Apply(j, k, p) \/ ApplyRecovery(j, k, p, parent)
        BY <3>1, PlanKinds DEF ApplySteps, Creations
      <4>2. ~Stored(j)
        BY <4>1 DEF Apply, ApplyRecovery, Accept, AcceptRecovery
      <4> QED
        BY <4>2 DEF OwnershipInv, Ownership, RunnersHold, Live, At
    <3>2. CASE CancelRead(j) \/ ReconcileRead(j) \/ Recover(j)
      BY <3>2 DEF CancelRead, ReconcileRead, Recover, volatile
    <3>3. CASE \/ Boundary(j) \/ ValidateFails(j) \/ RecordIntent(j) \/ ExecuteFailed(j)
               \/ StartVerifying(j) \/ Finish(j) \/ StepVerified(j) \/ StepNotVerified(j)
      BY <3>3 DEF Boundary, ValidateFails, RecordIntent, ExecuteFailed, StartVerifying, Finish,
         StepVerified, StepNotVerified, At
    <3> QED
      BY <3>1, <3>2, <3>3 DEF EngineSteps
  <2>2. FillsItsOwn(j)'
    <3>1. CASE runner'[j] = runner[j]
      BY <1>1, <1>4, <3>1, StandsStill
    <3>2. CASE ~At(j, "execute")
      BY <1>4, <3>2 DEF FillsItsOwn
    <3> QED
      BY <2>1, <3>1, <3>2
  <2>3. \A k \in Jobs : FillsItsOwn(k)'
    BY <1>1, <1>2, <1>4, <2>2, StandsStill
  <2> QED
    BY <1>1, <1>4, <2>3 DEF WorkIsTyped, ReleaseIsRecorded
<1> QED
  BY <1>3, <1>4 DEF EngineSteps

LEMMA ProcessHandOver ==
  ASSUME HandOverInv, TypeOK, ProcessSteps, UNCHANGED <<records, host>>
  PROVE  HandOverInv'
<1> USE DEF HandOverInv
<1>1. UNCHANGED <<handed, prepared>> /\ "idle" \in Elsewhere
  BY DEF records, host, Elsewhere
<1>2. CASE (CancelWrite \/ ReconcileSettle \/ RequestFails \/ Open \/ Serve) /\ UNCHANGED work
  <2>1. SameRunners
    BY <1>2 DEF CancelWrite, ReconcileSettle, RequestFails, Open, Serve, volatile, SameRunners
  <2>2. \A k \in Jobs : FillsItsOwn(k)'
    BY <1>1, <1>2, <2>1, StandsStill DEF SameRunners
  <2> QED
    BY <1>1, <1>2, <2>2 DEF WorkIsTyped, ReleaseIsRecorded
<1>3. CASE /\ ~MutexFree /\ (ReconcileObserve \/ RequestFails)
           /\ work' = [work EXCEPT ![request.job] = Idly]
  <2>1. SameRunners /\ request.job \in Jobs
    BY <1>3 DEF ReconcileObserve, RequestFails, SameRunners, TypeOK, MutexFree, RequestState
  <2> QED
    BY <1>1, <1>3, <2>1, LeavesFilling DEF SameRunners, Idly
<1>4. CASE work' = [j \in Jobs |-> Idly]
  <2>1. WorkIsTyped' /\ \A k \in Jobs : FillsItsOwn(k)'
    BY <1>1, <1>4 DEF WorkIsTyped, Idly, FillsItsOwn, Filling, Elsewhere, Allocating, Uploading
  <2> QED
    BY <1>1, <2>1 DEF ReleaseIsRecorded
<1> QED
  BY <1>2, <1>3, <1>4 DEF ProcessSteps, ReconcileObserve, RequestFails

LEMMA NextHandOver ==
  ASSUME HandOverInv, OwnershipInv, [CreationNext]_creationVars
  PROVE  HandOverInv'
<1>1. TypeOK
  BY DEF OwnershipInv
<1>2. ASSUME UNCHANGED <<vars, work, handed>>,
             prepared' = prepared \/ \A i \in Vols : prepared'[i] # "released"
      PROVE  HandOverInv'
  <2>1. \A k \in Jobs : FillsItsOwn(k)'
    BY <1>2, QuietRunners, StandsStill DEF HandOverInv, SameRunners
  <2> QED
    BY <1>2, <2>1 DEF HandOverInv, WorkIsTyped, ReleaseIsRecorded
<1>3. CASE UNCHANGED creationVars
  BY <1>2, <1>3 DEF creationVars, records, host
<1>4. CASE \E p \in Plans, parent \in Jobs : PlanRecovery(p, parent)
  BY <1>2, <1>4 DEF PlanRecovery, host
<1>5. CASE DiscardPrepared
  BY <1>2, <1>5 DEF DiscardPrepared, records
<1>6. CASE \E j \in Jobs : HandlerSteps(j)
  BY <1>1, <1>6, BeginHandOver, FillingHandOver, OtherHandOver, ReturnHandOver DEF HandlerSteps
<1>7. CASE (ProcessSteps \/ \E j \in Jobs : EngineSteps(j)) /\ UNCHANGED <<records, host>>
  BY <1>1, <1>7, ProcessHandOver, EngineHandOver
<1> QED
  BY <1>3, <1>4, <1>5, <1>6, <1>7 DEF CreationNext

\* A prepared file is released only when the copy is on record as handed over,
\* for any number of creations, volumes and jobs, through crashes, removals of
\* the copy and second attempts (RecordHandOver called by Service.Execute).
THEOREM ReleaseComesAfterRecord == CreationSpec => []ReleaseIsRecorded
<1>1. CreationInit => HandOverInv
  BY InitHandOver
<1>2. HandOverInv /\ OwnershipInv /\ [CreationNext]_creationVars => HandOverInv'
  BY NextHandOver
<1>3. CreationSpec => []OwnershipInv
  BY CreationImplementsEngine, OwnershipHolds, PTL
<1>4. HandOverInv => ReleaseIsRecorded
  BY DEF HandOverInv
<1> QED
  BY <1>1, <1>2, <1>3, <1>4, PTL DEF CreationSpec

-----------------------------------------------------------------------------
(* What creations and recoveries make of a recipe.                           *)

Task(j) == jobs[j].planID

\* Job j works on the recipe of creation c.
Of(j, c) == Stored(j) /\ c = Recipe(Task(j))

\* A recovery plan names the recipe its parent is about, and covers its locks.
ReviewsFit ==
  \A p \in Plans : review[p] # Unplanned =>
    /\ p \in RecoveryPlans /\ Of(review[p].parent, review[p].of)
    /\ ResourceIDs[review[p].of] \subseteq ResourceIDs[p]

\* Recovery jobs run the plan that was reviewed for their parent.
RecoveriesFit ==
  \A j \in Jobs : Stored(j) =>
    IF Task(j) \in RecoveryPlans
      THEN review[Task(j)] # Unplanned /\ jobs[j].recoveryOf = review[Task(j)].parent
      ELSE jobs[j].recoveryOf = NoJob

\* Execute leaves its mark only while it runs, Reconcile only while it is asked.
WorkIsAsked ==
  \A j \in Jobs :
    /\ work[j].at \in Doing \cup {"ok", "error", "canceled"} => At(j, "execute")
    /\ work[j].at \in {"confirmed", "observed"} => Reconciling(j)

OutcomesAreKnown == \A j \in Jobs : At(j, "returned") => runner[j].outcome \in {"ok", "error", "canceled-safely"}

BaseInv == AcceptanceInv /\ CreationTypeOK /\ ReviewsFit /\ RecoveriesFit /\ WorkIsAsked /\ OutcomesAreKnown

Does(j) == Action[Task(j)]

\* Whoever works on a recipe found it open, and nobody has closed it since.
OpenWork(j, c) ==
  work[j].at \in Doing => receipt[c] # NoReceipt /\ disposition[c] = NoDisposition

\* A creation fills one volume after the other, under a receipt of its own.
FillWork(j, c) ==
  work[j].at \in Filling =>
    /\ Does(j) = "create" /\ receipt[c].by = j /\ ~receipt[c].ready /\ VMAbsent(c)
    /\ work[j].i \in 1..(N + 1) /\ (work[j].at # "volume" => work[j].i <= N)
    /\ \A n \in Vols : n < work[j].i => volume[c][n] = "full"
    /\ work[j].at = "volume" /\ work[j].i = 1 => \A n \in Vols : volume[c][n] = "absent"

\* A recovery has read the volumes it counts as read.
VerifyWork(j, c) ==
  work[j].at = "verify" =>
    /\ Does(j) \in {"resume", "accept"} /\ work[j].i \in 1..(N + 1) /\ receipt[c].ready
    /\ Does(j) = "resume" => \A n \in Vols : n < work[j].i => volume[c][n] = "full"

DefineWork(j, c) ==
  /\ work[j].at = "define" => Does(j) \in {"create", "resume"} /\ AllFull(c) /\ receipt[c].ready
  /\ work[j].at = "defined" => Does(j) = "create"

DisposalWork(j, c) ==
  work[j].at \in {"dispose", "delete", "deleted"} =>
    /\ Does(j) \in Cleanups /\ proof[Task(j)] # NoProof /\ proof[Task(j)].by = j
    /\ work[j].i \in 1..(N + 1) /\ (work[j].at # "dispose" => work[j].i <= N)

Stage(j, c) ==
  OpenWork(j, c) /\ FillWork(j, c) /\ VerifyWork(j, c) /\ DefineWork(j, c) /\ DisposalWork(j, c)

\* What was seen of a job that is complete, and stays so.
Accomplished(j, c) ==
  /\ Does(j) \in {"create", "resume"} =>
       /\ vm[c] = "exact" /\ receipt[c] # NoReceipt
       /\ ownership[c] = [job |-> receipt[c].by, acceptance |-> NoPlan]
  /\ Does(j) = "accept" => ownership[c] = [job |-> j, acceptance |-> Task(j)]
  /\ Does(j) \in Cleanups => /\ disposition[c] # NoDisposition
                             /\ disposition[c].by = Task(j) /\ disposition[c].job = j

Observations(j, c) ==
  /\ work[j].at = "confirmed" => Does(j) \in {"create", "resume"} /\ vm[c] = "exact" /\ receipt[c] # NoReceipt
  /\ work[j].at = "observed" \/ <<j, 0>> \in verified => Accomplished(j, c)

\* A creation that ended, or is about to, without a recovery.
Abandoned(j) ==
  \/ work[j].at = "canceled"
  \/ At(j, "returned") /\ runner[j].outcome = "canceled-safely"
  \/ Stored(j) /\ jobs[j].state \in {"failed", "canceled"}

Untouched(c) == ~receipt[c].ready /\ VMAbsent(c) /\ \A n \in Vols : volume[c][n] = "absent"

Remains(j, c) ==
  receipt[c] # NoReceipt /\ receipt[c].by = j =>
    /\ ~At(j, "boundary") /\ ~At(j, "validate")
    /\ Abandoned(j) => Untouched(c)

ProofsNameJobs == \A p \in Plans : proof[p] # NoProof => Stored(proof[p].by) /\ Task(proof[p].by) = p

Coherent(c) ==
  /\ disposition[c] # NoDisposition => receipt[c] # NoReceipt
  /\ ownership[c] # NoOwner => vm[c] # "absent"
  /\ vm[c] # "absent" => AllFull(c) /\ disposition[c] = NoDisposition

Pinned(c) == disposition[c] # NoDisposition => Observation(c) = disposition[c].seen

ReceiptsNameJobs == \A c \in Creations : receipt[c] # NoReceipt => Stored(receipt[c].by) /\ Task(receipt[c].by) = c

RecipeInv ==
  /\ \A j \in Jobs, c \in Creations : Of(j, c) => Stage(j, c) /\ Observations(j, c) /\ Remains(j, c)
  /\ \A c \in Creations : Coherent(c) /\ Pinned(c)
  /\ ProofsNameJobs /\ ReceiptsNameJobs

LEMMA RecipeFacts ==
  ASSUME BaseInv, NEW j \in Jobs, Stored(j)
  PROVE  /\ Task(j) \in Plans /\ Recipe(Task(j)) \in Creations
         /\ ResourceIDs[Recipe(Task(j))] \subseteq Resource(j)
<1>1. Task(j) \in Plans
  BY RowOfStored DEF Task, BaseInv, AcceptanceInv, DoubtInv, OwnershipInv, TypeOK, Row
<1>2. CASE Action[Task(j)] = "create"
  BY <1>1, <1>2 DEF Recipe, Creations, Resource, Task
<1>3. CASE Action[Task(j)] # "create"
  <2>1. Task(j) \in RecoveryPlans /\ Recipe(Task(j)) = review[Task(j)].of
    BY <1>1, <1>3, CreationPlans DEF Recipe, Creations
  <2>2. review[Task(j)] \in Review
    BY <1>1, <2>1 DEF BaseInv, RecoveriesFit, CreationTypeOK
  <2> QED
    BY <1>1, <2>1, <2>2, CreationNulls DEF BaseInv, ReviewsFit, Review, Resource, Task
<1> QED
  BY <1>1, <1>2, <1>3

\* A goroutine runs the plan of its row, and has the locks.
LEMMA RunnerFacts ==
  ASSUME BaseInv, NEW j \in Jobs, Live(j)
  PROVE  Stored(j) /\ PlanOf(j) = Task(j) /\ RecipeOf(j) = Recipe(Task(j)) /\ Holds(j) /\ jobs[j].state \in Active
BY DEF BaseInv, AcceptanceInv, DoubtInv, OwnershipInv, Ownership, RunnersHold, PlanOf, RecipeOf, Task

\* Two that hold the locks of one recipe are the same.
LEMMA OneHolder ==
  ASSUME BaseInv, NEW j \in Jobs, NEW k \in Jobs, NEW c \in Creations, Of(j, c), Of(k, c), Holds(j), Holds(k)
  PROVE  j = k
<1>1. PICK r : r \in ResourceIDs[c]
  BY CreationsLock
<1>2. r \in Resource(j) /\ r \in Resource(k)
  BY <1>1, RecipeFacts DEF Of
<1> QED
  BY <1>2 DEF Holds

LEMMA AskedFacts ==
  ASSUME BaseInv, NEW j \in Jobs, Reconciling(j)
  PROVE  /\ Stored(j) /\ ~At(j, "execute") /\ ~At(j, "boundary") /\ ~At(j, "validate") /\ ~At(j, "returned")
         /\ jobs[j].state \in Active \cup {"recovery-required"} /\ jobs[j].state # "partial"
<1>1. RequestIsCurrent /\ RunnersHold
  BY DEF BaseInv, AcceptanceInv, DoubtInv, OwnershipInv, Ownership
<1>2. CASE At(j, "reconcile")
  BY <1>2, RunnerFacts DEF At, Live, Active
<1>3. CASE ~MutexFree /\ request.op = "reconcile" /\ request.job = j
  <2>1. Stored(j) /\ jobs[j].state = "recovery-required"
    BY <1>1, <1>3 DEF RequestIsCurrent
  <2>2. ~Live(j)
    BY <1>1, <2>1 DEF RunnersHold, Active
  <2> QED
    BY <2>1, <2>2 DEF At, Live
<1> QED
  BY <1>2, <1>3 DEF Reconciling

\* While somebody works on a recipe, a recovery that is asked about it was complete before.
LEMMA OthersAreComplete ==
  ASSUME BaseInv, NEW j \in Jobs, NEW k \in Jobs, NEW c \in Creations, Of(j, c), Of(k, c),
         At(j, "execute"), j # k, At(k, "execute") \/ Reconciling(k)
  PROVE  Reconciling(k) /\ (Task(k) \in RecoveryPlans => <<k, 0>> \in verified)
<1>1. Holds(j)
  BY RunnerFacts DEF At, Live
<1>2. ~Live(k)
  BY <1>1, OneHolder, RunnerFacts
<1>3. Reconciling(k) /\ ~Holds(k)
  BY <1>1, <1>2, OneHolder DEF At, Live
<1>4. Stored(k) /\ jobs[k].state # "partial"
  BY <1>3, AskedFacts
<1>5. ~InDoubt(k)
  BY <1>3, <1>4 DEF BaseInv, AcceptanceInv, DoubtInv, Progress, DoubtKeepsLocks
<1>6. ASSUME Task(k) \in RecoveryPlans
      PROVE  <<k, 0>> \in verified
  <2>1. review[Task(k)] \in Review /\ jobs[k].recoveryOf = review[Task(k)].parent
    BY <1>4, <1>6, RecipeFacts DEF BaseInv, RecoveriesFit, CreationTypeOK
  <2>2. jobs[k].recoveryOf # NoJob
    BY <2>1, NullsAreNotValues DEF Review
  <2>3. LastStep(k) = 0
    BY <1>4, RecipeFacts, CreationPlans DEF LastStep, Task
  <2> QED
    BY <1>5, <2>2, <2>3 DEF InDoubt
<1> QED
  BY <1>3, <1>6

-----------------------------------------------------------------------------
(* A handler's step touches the work of its job and the recipe it is about.  *)

Local(j, c) ==
  /\ UNCHANGED <<vars, review>>
  /\ \A m \in Jobs : m # j => work'[m] = work[m]
  /\ \A d \in Creations : d # c =>
       /\ receipt'[d] = receipt[d] /\ disposition'[d] = disposition[d] /\ ownership'[d] = ownership[d]
       /\ volume'[d] = volume[d] /\ vm'[d] = vm[d]
  /\ \A p \in Plans : p # Task(j) => proof'[p] = proof[p]

\* What is on record stays, and what a creation before it left behind.
Kept(j, c) ==
  /\ receipt[c] # NoReceipt => receipt'[c] # NoReceipt /\ receipt'[c].by = receipt[c].by
  /\ receipt[c] = NoReceipt /\ receipt'[c] # NoReceipt => receipt'[c].by = j /\ Task(j) = c
  /\ vm[c] # "absent" => vm'[c] = vm[c]
  /\ ownership[c] # NoOwner => ownership'[c] = ownership[c]
  /\ disposition[c] # NoDisposition => disposition'[c] = disposition[c]
  /\ proof'[Task(j)] = proof[Task(j)] \/ (proof'[Task(j)] # NoProof /\ proof'[Task(j)].by = j)
  /\ receipt[c] # NoReceipt /\ receipt[c].by # j /\ Untouched(c) => Untouched(c)'

Harmless(c) ==
  /\ volume'[c] = volume[c] /\ vm'[c] = vm[c] /\ proof' = proof /\ disposition'[c] = disposition[c]
  /\ receipt'[c] = receipt[c] \/ (receipt'[c] # NoReceipt /\ receipt'[c].ready = receipt[c].ready)

\* Nobody else works on the recipe, or the step does not matter to them.
Spares(j, c) == Harmless(c) \/ \A k \in Jobs : k # j /\ Of(k, c) => work[k].at \notin Doing

LEMMA AloneOn ==
  ASSUME BaseInv, NEW j \in Jobs, NEW c \in Creations, Of(j, c), At(j, "execute")
  PROVE  Spares(j, c)
<1>1. ASSUME NEW k \in Jobs, k # j, Of(k, c), work[k].at \in Doing
      PROVE  FALSE
  <2>1. At(k, "execute")
    BY <1>1 DEF BaseInv, WorkIsAsked
  <2> QED
    BY <1>1, <2>1, OneHolder, RunnerFacts DEF At, Live
<1> QED
  BY <1>1 DEF Spares

LEMMA SameJobs ==
  ASSUME UNCHANGED <<vars, review>>
  PROVE  \A j \in Jobs, c \in Creations :
           /\ Of(j, c)' <=> Of(j, c)
           /\ Stored(j)' <=> Stored(j)
           /\ Task(j)' = Task(j) /\ Does(j)' = Does(j)
           /\ Reconciling(j)' <=> Reconciling(j)
           /\ \A pc : At(j, pc)' <=> At(j, pc)
BY DEF vars, journal, volatile, Of, Stored, Task, Does, Recipe, Reconciling, At, MutexFree

\* Nobody who does nothing to a recipe is at a stage of it.
LEMMA NoStage ==
  ASSUME NEW j \in Jobs, NEW c \in Creations, work'[j].at \notin Doing
  PROVE  Stage(j, c)'
BY DEF Stage, OpenWork, FillWork, VerifyWork, DefineWork, DisposalWork, Doing, Filling, Allocating, Uploading

LEMMA StageStays ==
  ASSUME BaseInv, NEW k \in Jobs, NEW c \in Creations, Of(k, c), Stage(k, c),
         work'[k] = work[k], Task(k)' = Task(k), Harmless(c),
         receipt[c] # NoReceipt => receipt'[c] # NoReceipt /\ receipt'[c].by = receipt[c].by
  PROVE  Stage(k, c)'
<1>1. CASE work[k].at \notin Doing
  BY <1>1, NoStage
<1>2. CASE work[k].at \in Doing
  <2>1. receipt[c] # NoReceipt /\ disposition[c] = NoDisposition
    BY <1>2 DEF Stage, OpenWork
  <2>2. /\ receipt'[c] # NoReceipt /\ receipt'[c].by = receipt[c].by /\ receipt'[c].ready = receipt[c].ready
        /\ Does(k)' = Does(k) /\ volume'[c] = volume[c] /\ vm'[c] = vm[c] /\ disposition'[c] = NoDisposition
        /\ proof'[Task(k)'] = proof[Task(k)]
    BY <2>1 DEF Harmless, Does
  <2>3. OpenWork(k, c)' /\ VerifyWork(k, c)' /\ DefineWork(k, c)'
    BY <2>2 DEF Stage, OpenWork, VerifyWork, DefineWork, AllFull
  <2>4. FillWork(k, c)'
    BY <2>2 DEF Stage, FillWork, VMAbsent
  <2>5. DisposalWork(k, c)'
    BY <2>2 DEF Stage, DisposalWork, Task
  <2> QED
    BY <2>3, <2>4, <2>5 DEF Stage
<1> QED
  BY <1>1, <1>2

LEMMA AccomplishedStays ==
  ASSUME BaseInv, NEW k \in Jobs, NEW c \in Creations, Of(k, c), Accomplished(k, c), Task(k)' = Task(k),
         receipt[c] # NoReceipt => receipt'[c] # NoReceipt /\ receipt'[c].by = receipt[c].by,
         vm[c] # "absent" => vm'[c] = vm[c],
         ownership[c] # NoOwner => ownership'[c] = ownership[c],
         disposition[c] # NoDisposition => disposition'[c] = disposition[c]
  PROVE  Accomplished(k, c)'
<1>1. Does(k)' = Does(k) /\ jobs'[k].planID = jobs[k].planID
  BY DEF Does, Task
<1>2. CASE Does(k) \in {"create", "resume"}
  <2>1. vm[c] = "exact" /\ receipt[c] # NoReceipt /\ ownership[c] = [job |-> receipt[c].by, acceptance |-> NoPlan]
    BY <1>2 DEF Accomplished
  <2>2. receipt[c] \in Receipt
    BY <2>1 DEF BaseInv, CreationTypeOK
  <2>3. ownership[c] # NoOwner
    BY <2>1, <2>2, CreationNulls DEF Receipt, Owner
  <2> QED
    BY <1>1, <1>2, <2>1, <2>3 DEF Accomplished, Cleanups
<1>3. CASE Does(k) = "accept"
  <2>1. ownership[c] = [job |-> k, acceptance |-> Task(k)]
    BY <1>3 DEF Accomplished
  <2>2. Task(k) \in Plans
    BY RecipeFacts DEF Of
  <2>3. ownership[c] \in Owner
    BY <2>1, <2>2 DEF Owner
  <2>4. ownership'[c] = ownership[c]
    BY <2>3, CreationNulls
  <2> QED
    BY <1>1, <1>3, <2>1, <2>4 DEF Accomplished, Cleanups, Task
<1>4. CASE Does(k) \notin {"create", "resume", "accept"}
  BY <1>1, <1>4 DEF Accomplished
<1> QED
  BY <1>2, <1>3, <1>4

\* What an unfinished or abandoned creation left behind, when another job acts.
LEMMA RemainsStays ==
  ASSUME BaseInv, NEW j \in Jobs, NEW k \in Jobs, NEW c \in Creations, k # j, Local(j, c), Kept(j, c), Remains(k, c)
  PROVE  Remains(k, c)'
<1>1. /\ Stored(k)' = Stored(k) /\ jobs' = jobs /\ runner' = runner /\ work'[k] = work[k]
  BY DEF Local, vars, journal, volatile, Stored
<1>2. /\ At(k, "boundary")' <=> At(k, "boundary")
      /\ At(k, "validate")' <=> At(k, "validate")
      /\ Abandoned(k)' <=> Abandoned(k)
  BY <1>1 DEF At, Abandoned
<1>3. ASSUME receipt'[c] # NoReceipt, receipt'[c].by = k
      PROVE  receipt[c] # NoReceipt /\ receipt[c].by = k
  BY <1>3 DEF Kept
<1> QED
  BY <1>2, <1>3 DEF Remains, Kept

LEMMA RecipeStep ==
  ASSUME BaseInv, RecipeInv, NEW j \in Jobs, NEW c \in Creations, Of(j, c), Local(j, c), Kept(j, c), Spares(j, c),
         Stage(j, c)', Observations(j, c)', Remains(j, c)', Coherent(c)', Pinned(c)'
  PROVE  RecipeInv'
<1>1. UNCHANGED <<vars, review>>
  BY DEF Local
<1>2. /\ \A m \in Jobs, d \in Creations : Of(m, d)' <=> Of(m, d)
      /\ \A m \in Jobs : (Stored(m)' <=> Stored(m)) /\ Task(m)' = Task(m)
      /\ \A m \in Jobs : Reconciling(m)' <=> Reconciling(m)
      /\ verified' = verified /\ jobs' = jobs /\ runner' = runner
  BY <1>1, SameJobs DEF vars, observed, journal, volatile
<1>3. ASSUME NEW k \in Jobs, Of(k, c), k # j
      PROVE  Stage(k, c)' /\ Observations(k, c)' /\ Remains(k, c)'
  <2>1. Stage(k, c) /\ Observations(k, c) /\ Remains(k, c) /\ work'[k] = work[k] /\ Task(k)' = Task(k)
    BY <1>2, <1>3 DEF RecipeInv, Local
  <2>2. Stage(k, c)'
    <3>1. CASE Harmless(c)
      BY <1>3, <2>1, <3>1, StageStays DEF Kept
    <3>2. CASE work[k].at \notin Doing
      BY <2>1, <3>2, NoStage
    <3> QED
      BY <1>3, <3>1, <3>2 DEF Spares
  <2>3. Accomplished(k, c) => Accomplished(k, c)'
    BY <1>3, <2>1, AccomplishedStays DEF Kept
  <2>4. Does(k)' = Does(k)
    BY <2>1 DEF Does
  <2>5. vm[c] = "exact" => vm'[c] = "exact"
    BY DEF Kept
  <2>6. receipt[c] # NoReceipt => receipt'[c] # NoReceipt
    BY DEF Kept
  <2>7. Observations(k, c)'
    BY <1>2, <2>1, <2>3, <2>4, <2>5, <2>6 DEF Observations
  <2> QED
    BY <1>3, <2>1, <2>2, <2>7, RemainsStays
<1>4. ASSUME NEW k \in Jobs, NEW d \in Creations, Of(k, d), d # c
      PROVE  Stage(k, d)' /\ Observations(k, d)' /\ Remains(k, d)'
  <2>1. k # j
    BY <1>4 DEF Of
  <2>2. /\ Stage(k, d) /\ Observations(k, d) /\ Remains(k, d)
        /\ work'[k] = work[k] /\ receipt'[d] = receipt[d] /\ disposition'[d] = disposition[d]
        /\ ownership'[d] = ownership[d] /\ volume'[d] = volume[d] /\ vm'[d] = vm[d]
    BY <1>4, <2>1 DEF RecipeInv, Local
  <2>3. Task(k) # Task(j)
    BY <1>4 DEF Of
  <2>4. proof'[Task(k)] = proof[Task(k)]
    BY <1>4, <2>3, RecipeFacts DEF Local, Of
  <2>5. Task(k)' = Task(k) /\ Does(k)' = Does(k)
    BY <1>2 DEF Does
  <2>6. Stage(k, d)'
    <3>1. OpenWork(k, d)' /\ FillWork(k, d)' /\ VerifyWork(k, d)' /\ DefineWork(k, d)'
      BY <2>2, <2>5 DEF Stage, OpenWork, FillWork, VerifyWork, DefineWork, AllFull, VMAbsent
    <3>2. DisposalWork(k, d)'
      BY <1>2, <2>2, <2>4, <2>5 DEF Stage, DisposalWork, Task
    <3> QED
      BY <3>1, <3>2 DEF Stage
  <2>7. Observations(k, d)'
    <3>1. Accomplished(k, d)' <=> Accomplished(k, d)
      BY <2>2, <2>5 DEF Accomplished, Task
    <3> QED
      BY <1>2, <2>2, <2>5, <3>1 DEF Observations
  <2>8. Remains(k, d)'
    BY <1>2, <2>2 DEF Remains, At, Abandoned, Untouched, VMAbsent, Stored
  <2> QED
    BY <2>6, <2>7, <2>8
<1>5. \A m \in Jobs, d \in Creations : Of(m, d)' => Stage(m, d)' /\ Observations(m, d)' /\ Remains(m, d)'
  BY <1>2, <1>3, <1>4
<1>6. \A d \in Creations : Coherent(d)' /\ Pinned(d)'
  <2>1. ASSUME NEW d \in Creations, d # c
        PROVE  Coherent(d)' /\ Pinned(d)'
    <3>1. /\ receipt'[d] = receipt[d] /\ disposition'[d] = disposition[d]
          /\ ownership'[d] = ownership[d] /\ volume'[d] = volume[d] /\ vm'[d] = vm[d]
      BY <2>1 DEF Local
    <3>2. Observation(d)' = Observation(d)
      BY <3>1 DEF Observation
    <3> QED
      BY <3>1, <3>2 DEF RecipeInv, Coherent, Pinned, AllFull
  <2> QED
    BY <2>1
<1>7. ProofsNameJobs'
  <2>1. ASSUME NEW p \in Plans, proof'[p] # NoProof
        PROVE  Stored(proof'[p].by) /\ Task(proof'[p].by) = p
    <3>1. CASE proof'[p] = proof[p]
      BY <2>1, <3>1 DEF RecipeInv, ProofsNameJobs
    <3>2. CASE proof'[p] # proof[p]
      <4>1. p = Task(j) /\ proof'[p].by = j
        BY <2>1, <3>2 DEF Local, Kept
      <4> QED
        BY <4>1 DEF Of
    <3> QED
      BY <3>1, <3>2
  <2> QED
    BY <1>2, <2>1 DEF ProofsNameJobs, Stored, Task
<1>8. ReceiptsNameJobs'
  <2>1. ASSUME NEW d \in Creations, receipt'[d] # NoReceipt
        PROVE  Stored(receipt'[d].by) /\ Task(receipt'[d].by) = d
    <3>1. CASE receipt[d] # NoReceipt /\ receipt'[d].by = receipt[d].by
      BY <2>1, <3>1 DEF RecipeInv, ReceiptsNameJobs
    <3>2. CASE ~(receipt[d] # NoReceipt /\ receipt'[d].by = receipt[d].by)
      <4>1. d = c
        BY <2>1, <3>2 DEF Local
      <4>2. receipt'[d].by = j /\ Task(j) = d
        BY <2>1, <3>2, <4>1 DEF Kept
      <4> QED
        BY <4>2 DEF Of
    <3> QED
      BY <3>1, <3>2
  <2> QED
    BY <1>2, <2>1 DEF ReceiptsNameJobs, Stored, Task
<1> QED
  BY <1>5, <1>6, <1>7, <1>8 DEF RecipeInv

-----------------------------------------------------------------------------
(* Execute, step by step.                                                    *)

LEMMA ActFacts ==
  ASSUME BaseInv, NEW j \in Jobs, At(j, "execute")
  PROVE  /\ Stored(j) /\ Task(j) \in Plans /\ Recipe(Task(j)) \in Creations /\ Of(j, Recipe(Task(j)))
         /\ PlanOf(j) = Task(j) /\ RecipeOf(j) = Recipe(Task(j))
         /\ jobs[j].state \in Active /\ ~Reconciling(j)
         /\ work[j].at \in Doing \cup {"idle", "ok", "error", "canceled"}
<1>1. Live(j)
  BY DEF At, Live
<1>2. ~Reconciling(j)
  BY AskedFacts
<1>3. work[j] \in Work
  BY DEF BaseInv, CreationTypeOK
<1>4. work[j].at \notin {"confirmed", "observed"}
  BY <1>2 DEF BaseInv, WorkIsAsked
<1> QED
  BY <1>1, <1>2, <1>3, <1>4, RunnerFacts, RecipeFacts DEF Of, Work

\* A recovery is about the recipe it was reviewed for.
LEMMA ReviewedFacts ==
  ASSUME BaseInv, NEW j \in Jobs, Stored(j), Does(j) # "create"
  PROVE  /\ Task(j) \in RecoveryPlans /\ Recipe(Task(j)) = review[Task(j)].of
         /\ review[Task(j)] \in Review /\ Stored(review[Task(j)].parent)
<1>1. Task(j) \in Plans
  BY RecipeFacts
<1>2. Task(j) \in RecoveryPlans
  BY <1>1, CreationPlans DEF Does, Creations
<1>3. review[Task(j)] # Unplanned
  BY <1>2 DEF BaseInv, RecoveriesFit
<1>4. review[Task(j)] \in Review
  BY <1>1, <1>3 DEF BaseInv, CreationTypeOK
<1>5. Stored(review[Task(j)].parent)
  BY <1>1, <1>3 DEF BaseInv, ReviewsFit, Of
<1> QED
  BY <1>2, <1>4, <1>5 DEF Does, Recipe

OthersRest(j) == \A m \in Jobs : m # j => work'[m] = work[m]

LEMMA Moves ==
  ASSUME BaseInv, NEW j \in Jobs, NEW at
  PROVE  /\ work[j].i \in 0..(N + 1) /\ N \in Nat \ {0}
         /\ Go(j, at) => OthersRest(j) /\ work'[j].at = at /\ work'[j].i = work[j].i
         /\ GoNext(j, at) => OthersRest(j) /\ work'[j].at = at /\ work'[j].i = work[j].i + 1
         /\ First(j, at) => OthersRest(j) /\ work'[j].at = at /\ work'[j].i = 1
<1>1. work \in [Jobs -> Work] /\ work[j] \in Work
  BY DEF BaseInv, CreationTypeOK
<1>2. Go(j, at) => OthersRest(j) /\ work'[j].at = at /\ work'[j].i = work[j].i
  BY <1>1 DEF Go, OthersRest, Work
<1>3. GoNext(j, at) => OthersRest(j) /\ work'[j].at = at /\ work'[j].i = work[j].i + 1
  BY <1>1 DEF GoNext, OthersRest
<1>4. First(j, at) => OthersRest(j) /\ work'[j].at = at /\ work'[j].i = 1
  BY <1>1 DEF First, OthersRest
<1> QED
  BY <1>1, <1>2, <1>3, <1>4, CreationPlans DEF Work

LEMMA ActStep ==
  ASSUME BaseInv, RecipeInv, NEW j \in Jobs, NEW c \in Creations, c = Recipe(Task(j)), At(j, "execute"),
         Local(j, c), Kept(j, c), work'[j].at \notin {"confirmed", "observed"},
         work'[j].at = "canceled" => (receipt'[c] # NoReceipt /\ receipt'[c].by = j => Untouched(c)'),
         Stage(j, c)', Coherent(c)', Pinned(c)'
  PROVE  RecipeInv'
<1>1. Of(j, c) /\ jobs[j].state \in Active
  BY ActFacts
<1>2. Spares(j, c)
  BY <1>1, AloneOn
<1>3. /\ verified' = verified /\ jobs' = jobs /\ runner' = runner /\ Task(j)' = Task(j) /\ Stored(j)' = Stored(j)
  BY DEF Local, vars, journal, volatile, observed, Task, Stored
<1>4. Observations(j, c)'
  <2>1. Accomplished(j, c) => Accomplished(j, c)'
    BY <1>1, <1>3, AccomplishedStays DEF Kept
  <2> QED
    BY <1>1, <1>3, <2>1 DEF RecipeInv, Observations
<1>5. Remains(j, c)'
  <2>1. ~At(j, "boundary")' /\ ~At(j, "validate")' /\ ~At(j, "returned")'
    BY <1>3 DEF At
  <2>2. Abandoned(j)' => work'[j].at = "canceled"
    BY <1>1, <1>3, <2>1 DEF Abandoned, Active
  <2> QED
    BY <2>1, <2>2 DEF Remains
<1> QED
  BY <1>1, <1>2, <1>4, <1>5, RecipeStep

RecipeRests == UNCHANGED <<vars, receipt, review, proof, disposition, ownership, volume, vm>>

\* A step that only moves the job on.
LEMMA MoveStep ==
  ASSUME BaseInv, RecipeInv, NEW j \in Jobs, NEW c \in Creations, c = Recipe(Task(j)), At(j, "execute"),
         RecipeRests, OthersRest(j), work'[j].at \notin {"confirmed", "observed"},
         work'[j].at = "canceled" => (receipt[c] # NoReceipt /\ receipt[c].by = j => Untouched(c)),
         Stage(j, c)'
  PROVE  RecipeInv'
<1>1. Local(j, c)
  BY DEF RecipeRests, OthersRest, Local
<1>2. Untouched(c)' <=> Untouched(c)
  BY DEF RecipeRests, Untouched, VMAbsent
<1>3. Kept(j, c)
  BY <1>2 DEF RecipeRests, Kept
<1>4. Observation(c)' = Observation(c)
  BY DEF RecipeRests, Observation
<1>5. Coherent(c)' /\ Pinned(c)'
  BY <1>4 DEF RecipeInv, RecipeRests, Coherent, Pinned, AllFull
<1>6. work'[j].at = "canceled" => (receipt'[c] # NoReceipt /\ receipt'[c].by = j => Untouched(c)')
  BY <1>2 DEF RecipeRests
<1> QED
  BY <1>1, <1>3, <1>5, <1>6, ActStep

LEMMA CancelRecipe ==
  ASSUME BaseInv, RecipeInv, NEW j \in Jobs, CancelSeen(j) PROVE RecipeInv'
<1>1. PICK c \in Creations : c = Recipe(Task(j))
  BY ActFacts DEF CancelSeen
<1>2. At(j, "execute") /\ Of(j, c) /\ RecipeRests
  BY <1>1, ActFacts DEF CancelSeen, RecipeRests, records, host
<1>3. OthersRest(j) /\ work'[j].at \in {"canceled", "error"}
      /\ (work'[j].at = "canceled" => work[j].at = "volume" /\ work[j].i = 1)
  BY Moves DEF CancelSeen
<1>4. work'[j].at = "canceled" => Untouched(c)
  BY <1>2, <1>3 DEF RecipeInv, Stage, FillWork, Filling, Allocating, Untouched
<1>5. Stage(j, c)'
  BY <1>3, NoStage DEF Doing
<1> QED
  BY <1>1, <1>2, <1>3, <1>4, <1>5, MoveStep

LEMMA FailRecipe ==
  ASSUME BaseInv, RecipeInv, NEW j \in Jobs, WorkFails(j) PROVE RecipeInv'
<1>1. PICK c \in Creations : c = Recipe(Task(j))
  BY ActFacts DEF WorkFails
<1>2. At(j, "execute") /\ RecipeRests
  BY DEF WorkFails, RecipeRests, records, host
<1>3. OthersRest(j) /\ work'[j].at = "error"
  BY Moves DEF WorkFails
<1>4. Stage(j, c)'
  BY <1>3, NoStage DEF Doing
<1> QED
  BY <1>1, <1>2, <1>3, <1>4, MoveStep

\* The parts of a stage that say something of where the job is.
LEMMA StageParts ==
  ASSUME NEW j \in Jobs, NEW c \in Creations,
         receipt'[c] # NoReceipt /\ disposition'[c] = NoDisposition,
         work'[j].at \in Filling => FillWork(j, c)',
         work'[j].at = "verify" => VerifyWork(j, c)',
         work'[j].at \in {"define", "defined"} => DefineWork(j, c)',
         work'[j].at \in {"dispose", "delete", "deleted"} => DisposalWork(j, c)'
  PROVE  Stage(j, c)'
BY DEF Stage, OpenWork, FillWork, VerifyWork, DefineWork, DisposalWork

LEMMA RetainedRecipe ==
  ASSUME BaseInv, RecipeInv, NEW j \in Jobs, VerifyRetained(j) PROVE RecipeInv'
<1>1. PICK c \in Creations : c = Recipe(Task(j))
  BY ActFacts DEF VerifyRetained, In
<1>2. At(j, "execute") /\ RecipeRests /\ RecipeOf(j) = c /\ Of(j, c) /\ Does(j) = "resume"
  BY <1>1, ActFacts DEF VerifyRetained, In, RecipeRests, records, host, Does
<1>3. OthersRest(j) /\ work'[j].at = "verify" /\ work'[j].i = work[j].i + 1
      /\ work[j].at = "verify" /\ work[j].i <= N /\ volume[c][work[j].i] = "full"
  BY <1>2, Moves DEF VerifyRetained, In
<1>4. VerifyWork(j, c) /\ OpenWork(j, c)
  BY <1>2 DEF RecipeInv, Stage
<1>5. N \in Nat \ {0} /\ work[j].i \in 1..(N + 1) /\ receipt[c].ready
  BY <1>3, <1>4, CreationPlans DEF VerifyWork
<1>6. \A n \in Vols : n < work[j].i + 1 => volume[c][n] = "full"
  <2>1. \A n \in Vols : n < work[j].i => volume[c][n] = "full"
    BY <1>2, <1>3, <1>4 DEF VerifyWork
  <2>2. \A n \in Vols : n < work[j].i + 1 => n < work[j].i \/ n = work[j].i
    BY <1>5 DEF Vols
  <2> QED
    BY <1>3, <2>1, <2>2
<1>7. work[j].i + 1 \in 1..(N + 1)
  BY <1>3, <1>5
<1>8. Does(j)' = Does(j) /\ receipt' = receipt /\ disposition' = disposition /\ volume' = volume
  BY <1>2 DEF RecipeRests, vars, journal, Does, Task
<1>9. VerifyWork(j, c)'
  BY <1>2, <1>3, <1>5, <1>6, <1>7, <1>8 DEF VerifyWork
<1>10. receipt[c] # NoReceipt /\ disposition[c] = NoDisposition
  BY <1>3, <1>4 DEF OpenWork, Doing
<1>11. Stage(j, c)'
  BY <1>3, <1>8, <1>9, <1>10, StageParts DEF Filling, Allocating, Uploading
<1> QED
  BY <1>1, <1>2, <1>3, <1>11, MoveStep

LEMMA AbsentRecipe ==
  ASSUME BaseInv, RecipeInv, NEW j \in Jobs, ConfirmAbsent(j) PROVE RecipeInv'
<1>1. PICK c \in Creations : c = Recipe(Task(j))
  BY ActFacts DEF ConfirmAbsent, In
<1>2. At(j, "execute") /\ RecipeRests /\ Of(j, c)
  BY <1>1, ActFacts DEF ConfirmAbsent, In, RecipeRests, records, host
<1>3. OthersRest(j) /\ work'[j].at = "dispose" /\ work'[j].i = work[j].i + 1 /\ work[j].at = "deleted"
  BY Moves DEF ConfirmAbsent, In
<1>4. DisposalWork(j, c) /\ OpenWork(j, c)
  BY <1>2 DEF RecipeInv, Stage
<1>5. work[j].i \in 1..(N + 1) /\ work[j].i <= N /\ N \in Nat \ {0}
  BY <1>3, <1>4, CreationPlans DEF DisposalWork
<1>6. work[j].i + 1 \in 1..(N + 1)
  BY <1>5
<1>7. /\ Does(j)' = Does(j) /\ Task(j)' = Task(j)
      /\ receipt' = receipt /\ disposition' = disposition /\ proof' = proof
  BY <1>2 DEF RecipeRests, vars, journal, Does, Task
<1>8. DisposalWork(j, c)'
  BY <1>3, <1>4, <1>6, <1>7 DEF DisposalWork
<1>9. receipt[c] # NoReceipt /\ disposition[c] = NoDisposition
  BY <1>3, <1>4 DEF OpenWork, Doing
<1>10. Stage(j, c)'
  BY <1>3, <1>7, <1>8, <1>9, StageParts DEF Filling, Allocating, Uploading
<1> QED
  BY <1>1, <1>2, <1>3, <1>10, MoveStep

LEMMA HandOverRecipe ==
  ASSUME BaseInv, RecipeInv, NEW j \in Jobs, HandOver(j) PROVE RecipeInv'
<1>1. PICK c \in Creations : c = Recipe(Task(j))
  BY ActFacts DEF HandOver, In
<1>2. At(j, "execute") /\ RecipeRests /\ Of(j, c)
  BY <1>1, ActFacts DEF HandOver, In, RecipeRests, host
<1>3. OthersRest(j) /\ work'[j].at = "upload" /\ work'[j].i = work[j].i /\ work[j].at = "recorded"
  BY Moves DEF HandOver, In
<1>4. FillWork(j, c) /\ OpenWork(j, c)
  BY <1>2 DEF RecipeInv, Stage
<1>5. Does(j)' = Does(j) /\ receipt' = receipt /\ disposition' = disposition /\ volume' = volume /\ vm' = vm
  BY <1>2 DEF RecipeRests, vars, journal, Does, Task
<1>6. FillWork(j, c)'
  BY <1>3, <1>4, <1>5 DEF FillWork, Filling, Allocating, Uploading, VMAbsent
<1>7. receipt[c] # NoReceipt /\ disposition[c] = NoDisposition
  BY <1>3, <1>4 DEF OpenWork, Doing
<1>8. Stage(j, c)'
  BY <1>3, <1>5, <1>6, <1>7, StageParts
<1> QED
  BY <1>1, <1>2, <1>3, <1>8, MoveStep

LEMMA WorkingFacts ==
  ASSUME BaseInv, RecipeInv, NEW j \in Jobs, NEW c \in Creations, c = Recipe(Task(j)),
         At(j, "execute"), work[j].at \in Doing
  PROVE  /\ Of(j, c) /\ Stage(j, c)
         /\ receipt[c] \in Receipt /\ receipt[c] # NoReceipt /\ disposition[c] = NoDisposition
         /\ Coherent(c) /\ N \in Nat \ {0}
<1>1. Of(j, c)
  BY ActFacts
<1>2. Stage(j, c) /\ Coherent(c)
  BY <1>1 DEF RecipeInv
<1>3. receipt[c] # NoReceipt /\ disposition[c] = NoDisposition
  BY <1>2 DEF Stage, OpenWork
<1> QED
  BY <1>1, <1>2, <1>3, CreationPlans DEF BaseInv, CreationTypeOK

LEMMA FillFacts ==
  ASSUME BaseInv, RecipeInv, NEW j \in Jobs, NEW c \in Creations, c = Recipe(Task(j)),
         At(j, "execute"), work[j].at \in Filling
  PROVE  /\ Does(j) = "create" /\ receipt[c].by = j /\ ~receipt[c].ready
         /\ vm[c] = "absent" /\ ownership[c] = NoOwner
         /\ work[j].i \in 1..(N + 1) /\ (work[j].at # "volume" => work[j].i <= N)
         /\ \A n \in Vols : n < work[j].i => volume[c][n] = "full"
<1>1. Stage(j, c) /\ Coherent(c)
  BY WorkingFacts DEF Doing, Filling, Allocating, Uploading
<1> QED
  BY <1>1 DEF Stage, FillWork, VMAbsent, Coherent

\* A step of a creation that changes the volumes, or what the receipt says of them.
LEMMA FillStep ==
  ASSUME BaseInv, RecipeInv, NEW j \in Jobs, NEW c \in Creations, c = Recipe(Task(j)),
         At(j, "execute"), work[j].at \in Filling,
         UNCHANGED <<vars, review, proof, disposition, ownership, vm>>, OthersRest(j),
         \A d \in Creations : d # c => receipt'[d] = receipt[d] /\ volume'[d] = volume[d],
         receipt'[c] # NoReceipt, receipt'[c].by = j,
         work'[j].at \notin {"confirmed", "observed", "canceled"}, Stage(j, c)'
  PROVE  RecipeInv'
<1>1. receipt[c] # NoReceipt /\ disposition[c] = NoDisposition
  BY WorkingFacts DEF Doing, Filling, Allocating, Uploading
<1>2. receipt[c].by = j /\ vm[c] = "absent" /\ ownership[c] = NoOwner
  BY FillFacts
<1>3. Local(j, c)
  BY DEF Local, OthersRest
<1>4. Kept(j, c)
  BY <1>1, <1>2 DEF Kept
<1>5. Coherent(c)' /\ Pinned(c)'
  BY <1>1, <1>2 DEF Coherent, Pinned
<1> QED
  BY <1>3, <1>4, <1>5, ActStep

LEMMA AllocateRecipe ==
  ASSUME BaseInv, RecipeInv, NEW j \in Jobs, AllocateVolume(j) PROVE RecipeInv'
<1>1. PICK c \in Creations : c = Recipe(Task(j))
  BY ActFacts DEF AllocateVolume, In
<1>2. At(j, "execute") /\ RecipeOf(j) = c /\ work[j].at = "volume" /\ work[j].i <= N
  BY <1>1, ActFacts DEF AllocateVolume, In
<1>3. OthersRest(j) /\ work'[j].at = "allocated" /\ work'[j].i = work[j].i
  BY Moves DEF AllocateVolume
<1>4. /\ UNCHANGED <<vars, review, proof, disposition, ownership, vm, receipt>>
      /\ volume' = [volume EXCEPT ![c][work[j].i] = "partial"]
  BY <1>2 DEF AllocateVolume, records
<1>5. volume \in [Creations -> [Vols -> {"absent", "partial", "full"}]]
  BY DEF BaseInv, CreationTypeOK
<1>6. /\ \A d \in Creations : d # c => volume'[d] = volume[d]
      /\ \A n \in Vols : n # work[j].i => volume'[c][n] = volume[c][n]
  BY <1>4, <1>5
<1>7. receipt[c] # NoReceipt /\ disposition[c] = NoDisposition /\ N \in Nat \ {0}
  BY <1>1, <1>2, WorkingFacts DEF Doing
<1>8. /\ Does(j) = "create" /\ receipt[c].by = j /\ ~receipt[c].ready
      /\ vm[c] = "absent" /\ work[j].i \in 1..(N + 1)
      /\ \A n \in Vols : n < work[j].i => volume[c][n] = "full"
  BY <1>1, <1>2, FillFacts DEF Filling, Allocating
<1>9. \A n \in Vols : n < work[j].i => volume'[c][n] = "full"
  BY <1>6, <1>7, <1>8 DEF Vols
<1>10. Does(j)' = Does(j)
  BY <1>4 DEF vars, journal, Does, Task
<1>11. FillWork(j, c)'
  BY <1>2, <1>3, <1>4, <1>8, <1>9, <1>10 DEF FillWork, VMAbsent
<1>12. Stage(j, c)'
  BY <1>3, <1>4, <1>7, <1>11, StageParts
<1> QED
  BY <1>1, <1>2, <1>3, <1>4, <1>6, <1>7, <1>8, <1>12, FillStep DEF Filling, Allocating

LEMMA RecordRecipe ==
  ASSUME BaseInv, RecipeInv, NEW j \in Jobs, RecordAllocation(j) PROVE RecipeInv'
<1>1. PICK c \in Creations : c = Recipe(Task(j))
  BY ActFacts DEF RecordAllocation, In
<1>2. At(j, "execute") /\ RecipeOf(j) = c /\ work[j].at = "allocated"
  BY <1>1, ActFacts DEF RecordAllocation, In
<1>3. PICK found \in {"allocated", "located"} :
        /\ SaveReceipt(j, [receipt[c] EXCEPT !.vols[work[j].i] = found])
        /\ Go(j, IF found = "allocated" THEN "recorded" ELSE "error")
  BY <1>2 DEF RecordAllocation
<1>4. PICK r : r = [receipt[c] EXCEPT !.vols[work[j].i] = found]
  OBVIOUS
<1>5. receipt[c] \in Receipt /\ disposition[c] = NoDisposition /\ N \in Nat \ {0}
  BY <1>1, <1>2, WorkingFacts DEF Doing
<1>6. r \in Receipt /\ r.by = receipt[c].by /\ r.ready = receipt[c].ready
  BY <1>4, <1>5 DEF Receipt
<1>7. /\ UNCHANGED <<vars, review, proof, disposition, ownership, vm, volume>>
      /\ receipt' = [receipt EXCEPT ![c] = r]
  BY <1>2, <1>3, <1>4 DEF RecordAllocation, SaveReceipt, host
<1>8. receipt \in [Creations -> Receipt \cup {NoReceipt}]
  BY DEF BaseInv, CreationTypeOK
<1>9. receipt'[c] = r /\ \A d \in Creations : d # c => receipt'[d] = receipt[d]
  BY <1>7, <1>8
<1>10. OthersRest(j) /\ work'[j].at \in {"recorded", "error"} /\ work'[j].i = work[j].i
  BY <1>3, Moves
<1>11. FillWork(j, c) /\ receipt[c].by = j
  BY <1>1, <1>2, WorkingFacts, FillFacts DEF Doing, Filling, Allocating, Stage
<1>12. Does(j)' = Does(j)
  BY <1>7 DEF vars, journal, Does, Task
<1>13. FillWork(j, c)'
  BY <1>2, <1>6, <1>7, <1>9, <1>10, <1>11, <1>12 DEF FillWork, VMAbsent, Filling, Allocating, Uploading
<1>14. receipt'[c] # NoReceipt /\ receipt'[c].by = j
  BY <1>6, <1>9, <1>11, CreationNulls
<1>15. Stage(j, c)'
  BY <1>5, <1>7, <1>10, <1>13, <1>14, StageParts
<1> QED
  BY <1>1, <1>2, <1>7, <1>9, <1>10, <1>14, <1>15, FillStep DEF Filling, Allocating

LEMMA PopulateRecipe ==
  ASSUME BaseInv, RecipeInv, NEW j \in Jobs, PopulateVolume(j) PROVE RecipeInv'
<1>1. PICK c \in Creations : c = Recipe(Task(j))
  BY ActFacts DEF PopulateVolume, In
<1>2. At(j, "execute") /\ RecipeOf(j) = c /\ work[j].at = "upload"
  BY <1>1, ActFacts DEF PopulateVolume, In
<1>3. PICK at \in {"uploaded", "error"} :
        Go(j, at) /\ (volume' = [volume EXCEPT ![c][work[j].i] = "full"] \/ volume' = volume)
  BY <1>2 DEF PopulateVolume
<1>4. UNCHANGED <<vars, review, proof, disposition, ownership, vm, receipt>>
  BY DEF PopulateVolume, records
<1>5. volume \in [Creations -> [Vols -> {"absent", "partial", "full"}]]
  BY DEF BaseInv, CreationTypeOK
<1>6. OthersRest(j) /\ work'[j].at = at /\ work'[j].i = work[j].i
  BY <1>3, Moves
<1>7. receipt[c] # NoReceipt /\ disposition[c] = NoDisposition /\ N \in Nat \ {0} /\ FillWork(j, c)
  BY <1>1, <1>2, WorkingFacts DEF Doing, Stage
<1>8. receipt[c].by = j /\ work[j].i \in 1..(N + 1) /\ \A n \in Vols : n < work[j].i => volume[c][n] = "full"
  BY <1>1, <1>2, FillFacts DEF Filling, Uploading
<1>9. /\ \A d \in Creations : d # c => volume'[d] = volume[d]
      /\ \A n \in Vols : n # work[j].i => volume'[c][n] = volume[c][n]
  <2>1. CASE volume' = [volume EXCEPT ![c][work[j].i] = "full"]
    BY <1>5, <2>1
  <2>2. CASE volume' = volume
    BY <2>2
  <2> QED
    BY <1>3, <2>1, <2>2
<1>10. \A n \in Vols : n < work[j].i => volume'[c][n] = "full"
  BY <1>7, <1>8, <1>9 DEF Vols
<1>11. Does(j)' = Does(j)
  BY <1>4 DEF vars, journal, Does, Task
<1>12. FillWork(j, c)'
  BY <1>2, <1>4, <1>6, <1>7, <1>10, <1>11 DEF FillWork, VMAbsent, Filling, Allocating, Uploading
<1>13. Stage(j, c)'
  BY <1>4, <1>6, <1>7, <1>12, StageParts
<1> QED
  BY <1>1, <1>2, <1>4, <1>6, <1>7, <1>8, <1>9, <1>13, FillStep DEF Filling, Uploading

LEMMA VerifiedRecipe ==
  ASSUME BaseInv, RecipeInv, NEW j \in Jobs, VerifyCreatedVolume(j) PROVE RecipeInv'
<1>1. PICK c \in Creations : c = Recipe(Task(j))
  BY ActFacts DEF VerifyCreatedVolume, In
<1>2. At(j, "execute") /\ RecipeOf(j) = c /\ work[j].at = "uploaded" /\ volume[c][work[j].i] = "full"
  BY <1>1, ActFacts DEF VerifyCreatedVolume, In
<1>3. PICK r : r = [receipt[c] EXCEPT !.vols[work[j].i] = "verified"]
  OBVIOUS
<1>4. receipt[c] \in Receipt /\ disposition[c] = NoDisposition /\ N \in Nat \ {0}
  BY <1>1, <1>2, WorkingFacts DEF Doing
<1>5. r \in Receipt /\ r.by = receipt[c].by /\ r.ready = receipt[c].ready
  BY <1>3, <1>4 DEF Receipt
<1>6. /\ UNCHANGED <<vars, review, proof, disposition, ownership, vm, volume>>
      /\ receipt' = [receipt EXCEPT ![c] = r]
  BY <1>2, <1>3 DEF VerifyCreatedVolume, SaveReceipt, host
<1>7. receipt \in [Creations -> Receipt \cup {NoReceipt}]
  BY DEF BaseInv, CreationTypeOK
<1>8. receipt'[c] = r /\ \A d \in Creations : d # c => receipt'[d] = receipt[d]
  BY <1>6, <1>7
<1>9. OthersRest(j) /\ work'[j].at = "volume" /\ work'[j].i = work[j].i + 1
  BY Moves DEF VerifyCreatedVolume
<1>10. /\ Does(j) = "create" /\ receipt[c].by = j /\ ~receipt[c].ready
       /\ vm[c] = "absent" /\ work[j].i \in 1..(N + 1) /\ work[j].i <= N
       /\ \A n \in Vols : n < work[j].i => volume[c][n] = "full"
  BY <1>1, <1>2, FillFacts DEF Filling, Uploading
<1>11. \A n \in Vols : n < work[j].i + 1 => volume[c][n] = "full"
  <2>1. \A n \in Vols : n < work[j].i + 1 => n < work[j].i \/ n = work[j].i
    BY <1>4, <1>10 DEF Vols
  <2> QED
    BY <1>2, <1>10, <2>1
<1>12. work[j].i + 1 \in 1..(N + 1) /\ work[j].i + 1 # 1
  BY <1>4, <1>10
<1>13. Does(j)' = Does(j)
  BY <1>6 DEF vars, journal, Does, Task
<1>14. FillWork(j, c)'
  BY <1>5, <1>6, <1>8, <1>9, <1>10, <1>11, <1>12, <1>13 DEF FillWork, VMAbsent
<1>15. receipt'[c] # NoReceipt /\ receipt'[c].by = j
  BY <1>5, <1>8, <1>10, CreationNulls
<1>16. Stage(j, c)'
  BY <1>4, <1>6, <1>9, <1>14, <1>15, StageParts
<1> QED
  BY <1>1, <1>2, <1>6, <1>8, <1>9, <1>15, <1>16, FillStep DEF Filling, Uploading

LEMMA ReadyRecipe ==
  ASSUME BaseInv, RecipeInv, NEW j \in Jobs, VolumesVerified(j) PROVE RecipeInv'
<1>1. PICK c \in Creations : c = Recipe(Task(j))
  BY ActFacts DEF VolumesVerified, In
<1>2. At(j, "execute") /\ RecipeOf(j) = c /\ work[j].at = "volume" /\ work[j].i > N
  BY <1>1, ActFacts DEF VolumesVerified, In
<1>3. PICK r : r = [receipt[c] EXCEPT !.ready = TRUE]
  OBVIOUS
<1>4. receipt[c] \in Receipt /\ disposition[c] = NoDisposition /\ N \in Nat \ {0}
  BY <1>1, <1>2, WorkingFacts DEF Doing
<1>5. r \in Receipt /\ r.by = receipt[c].by /\ r.ready
  BY <1>3, <1>4 DEF Receipt
<1>6. /\ UNCHANGED <<vars, review, proof, disposition, ownership, vm, volume>>
      /\ receipt' = [receipt EXCEPT ![c] = r]
  BY <1>2, <1>3 DEF VolumesVerified, SaveReceipt, host
<1>7. receipt \in [Creations -> Receipt \cup {NoReceipt}]
  BY DEF BaseInv, CreationTypeOK
<1>8. receipt'[c] = r /\ \A d \in Creations : d # c => receipt'[d] = receipt[d]
  BY <1>6, <1>7
<1>9. OthersRest(j) /\ work'[j].at = "define"
  BY Moves DEF VolumesVerified
<1>10. /\ Does(j) = "create" /\ receipt[c].by = j /\ work[j].i \in 1..(N + 1)
       /\ \A n \in Vols : n < work[j].i => volume[c][n] = "full"
  BY <1>1, <1>2, FillFacts DEF Filling, Allocating
<1>11. AllFull(c)
  <2>1. \A n \in Vols : n < work[j].i
    BY <1>2, <1>4, <1>10 DEF Vols
  <2> QED
    BY <1>10, <2>1 DEF AllFull
<1>12. Does(j)' = Does(j)
  BY <1>6 DEF vars, journal, Does, Task
<1>13. AllFull(c)'
  BY <1>6, <1>11 DEF AllFull
<1>14. DefineWork(j, c)'
  BY <1>5, <1>8, <1>9, <1>10, <1>12, <1>13 DEF DefineWork
<1>15. receipt'[c] # NoReceipt /\ receipt'[c].by = j
  BY <1>5, <1>8, <1>10, CreationNulls
<1>16. Stage(j, c)'
  BY <1>4, <1>6, <1>9, <1>14, <1>15, StageParts DEF Filling, Allocating, Uploading
<1> QED
  BY <1>1, <1>2, <1>6, <1>8, <1>9, <1>15, <1>16, FillStep DEF Filling, Allocating

\* What Begin found right, for whichever plan.
LEMMA BeginFacts ==
  ASSUME BaseInv, RecipeInv, NEW j \in Jobs, NEW c \in Creations, c = Recipe(Task(j)), Begin(j)
  PROVE  /\ At(j, "execute") /\ UNCHANGED <<vars, host>>
         /\ Does(j) = "create" =>
              /\ c = Task(j) /\ receipt[c] = NoReceipt /\ VMAbsent(c) /\ \A i \in Vols : volume[c][i] = "absent"
              /\ SaveReceipt(j, NewReceipt(j)) /\ First(j, "volume")
         /\ Does(j) \in Cleanups => SaveProof(j, {}) /\ First(j, "dispose")
         /\ Does(j) \in {"resume", "accept"} => receipt[c].ready /\ UNCHANGED records /\ First(j, "verify")
         /\ Does(j) # "create" => receipt[c] # NoReceipt /\ disposition[c] = NoDisposition
         /\ Does(j) \in {"create", "resume", "accept"} \cup Cleanups
<1>1. At(j, "execute") /\ UNCHANGED <<vars, host>>
  BY DEF Begin, In
<1>2. /\ Task(j) \in Plans /\ PlanOf(j) = Task(j) /\ Stored(j)
      /\ Does(j) \in {"create", "resume", "accept"} \cup Cleanups
  BY <1>1, ActFacts, CreationPlans DEF Does, Actions
<1>3. Valid(Task(j), review[Task(j)], j)
  BY <1>2 DEF Begin
<1>4. CASE Does(j) = "create"
  <2>1. CreateValid(Task(j)) /\ c = Task(j)
    BY <1>3, <1>4 DEF Valid, Does, Recipe, Cleanups
  <2>2. receipt[c] = NoReceipt /\ SaveReceipt(j, NewReceipt(j)) /\ First(j, "volume")
    BY <1>2, <1>4, <2>1 DEF Begin, Does, Cleanups
  <2> QED
    BY <1>1, <1>2, <1>4, <2>1, <2>2 DEF CreateValid, Cleanups
<1>5. CASE Does(j) \in Cleanups
  <2>1. CleanupValid(Task(j), review[Task(j)], j)
    BY <1>3, <1>5 DEF Valid, Does, Cleanups
  <2>2. SaveProof(j, {}) /\ First(j, "dispose")
    BY <1>2, <1>5 DEF Begin, Does, Cleanups
  <2>3. Does(j) # "create" /\ c = review[Task(j)].of
    BY <1>2, <1>5, ReviewedFacts DEF Cleanups
  <2> QED
    BY <1>1, <1>2, <1>5, <2>1, <2>2, <2>3 DEF CleanupValid, StillOpen, AsReviewed, Undisposed, Cleanups
<1>6. CASE Does(j) \in {"resume", "accept"}
  <2>1. ResumeValid(Task(j), review[Task(j)], j) \/ AcceptValid(Task(j), review[Task(j)], j)
    BY <1>3, <1>6 DEF Valid, Does, Cleanups
  <2>2. UNCHANGED records /\ First(j, "verify")
    BY <1>2, <1>6 DEF Begin, Does, Cleanups
  <2>3. Does(j) # "create" /\ c = review[Task(j)].of
    BY <1>2, <1>6, ReviewedFacts
  <2> QED
    BY <1>1, <1>2, <1>6, <2>1, <2>2, <2>3 DEF ResumeValid, AcceptValid, StillOpen, AsReviewed, Undisposed, Cleanups
<1> QED
  BY <1>2, <1>4, <1>5, <1>6

\* A step that notes something for the proof of its plan.
LEMMA ProofStep ==
  ASSUME BaseInv, RecipeInv, NEW j \in Jobs, NEW c \in Creations, c = Recipe(Task(j)),
         At(j, "execute"), NEW intents \in SUBSET Vols, SaveProof(j, intents),
         UNCHANGED <<vars, volume, vm>>, OthersRest(j),
         work'[j].at \notin {"confirmed", "observed", "canceled"},
         proof'[Task(j)] # NoProof /\ proof'[Task(j)].by = j => Stage(j, c)'
  PROVE  RecipeInv'
<1>1. PICK x : x = [by |-> j, intents |-> intents]
  OBVIOUS
<1>2. x \in Proof /\ x.by = j
  BY <1>1 DEF Proof
<1>3. PICK p \in Plans : p = Task(j) /\ PlanOf(j) = p
  BY ActFacts
<1>4. proof' = [proof EXCEPT ![p] = x] /\ UNCHANGED <<receipt, review, disposition, ownership>>
  BY <1>1, <1>3 DEF SaveProof
<1>5. proof \in [Plans -> Proof \cup {NoProof}]
  BY DEF BaseInv, CreationTypeOK
<1>6. proof'[p] = x /\ \A q \in Plans : q # p => proof'[q] = proof[q]
  BY <1>4, <1>5
<1>7. x # NoProof
  BY <1>2, CreationNulls
<1>8. Local(j, c)
  BY <1>3, <1>4, <1>6 DEF Local, OthersRest
<1>9. Untouched(c)' <=> Untouched(c)
  BY <1>4 DEF Untouched, VMAbsent
<1>10. Kept(j, c)
  BY <1>2, <1>3, <1>4, <1>6, <1>7, <1>9 DEF Kept
<1>11. Observation(c)' = Observation(c)
  BY <1>4 DEF Observation
<1>12. Coherent(c)' /\ Pinned(c)'
  BY <1>4, <1>11 DEF RecipeInv, Coherent, Pinned, AllFull
<1> QED
  BY <1>2, <1>3, <1>6, <1>7, <1>8, <1>10, <1>12, ActStep

LEMMA BeginRecipe ==
  ASSUME BaseInv, RecipeInv, NEW j \in Jobs, Begin(j) PROVE RecipeInv'
<1>1. PICK c \in Creations : c = Recipe(Task(j))
  BY ActFacts DEF Begin, In
<1>2. At(j, "execute") /\ UNCHANGED <<vars, host>> /\ PlanOf(j) = Task(j) /\ RecipeOf(j) = c /\ Of(j, c)
  BY <1>1, BeginFacts, ActFacts
<1>3. UNCHANGED <<volume, vm>> /\ Does(j)' = Does(j) /\ Task(j)' = Task(j)
  BY <1>2 DEF host, vars, journal, Does, Task
<1>4. N \in Nat \ {0} /\ 1 \in 1..(N + 1) /\ 1 <= N
  BY CreationPlans
<1>5. \A n \in Vols : ~(n < 1)
  BY <1>4 DEF Vols
<1>6. CASE Does(j) = "create"
  <2>1. /\ c = Task(j) /\ receipt[c] = NoReceipt /\ VMAbsent(c) /\ \A i \in Vols : volume[c][i] = "absent"
        /\ SaveReceipt(j, NewReceipt(j)) /\ First(j, "volume")
    BY <1>1, <1>6, BeginFacts
  <2>2. OthersRest(j) /\ work'[j].at = "volume" /\ work'[j].i = 1
    BY <2>1, Moves
  <2>3. PICK r : r = NewReceipt(j)
    OBVIOUS
  <2>4. r \in Receipt /\ r.by = j /\ ~r.ready
    BY <2>3 DEF NewReceipt, Receipt
  <2>5. receipt' = [receipt EXCEPT ![c] = r] /\ UNCHANGED <<review, proof, disposition, ownership>>
    BY <1>2, <2>1, <2>3 DEF SaveReceipt
  <2>6. receipt \in [Creations -> Receipt \cup {NoReceipt}]
    BY DEF BaseInv, CreationTypeOK
  <2>7. receipt'[c] = r /\ \A d \in Creations : d # c => receipt'[d] = receipt[d]
    BY <2>5, <2>6
  <2>8. disposition[c] = NoDisposition /\ ownership[c] = NoOwner /\ vm[c] = "absent"
    BY <2>1 DEF RecipeInv, Coherent, VMAbsent
  <2>9. Local(j, c)
    BY <1>2, <1>3, <2>2, <2>5, <2>7 DEF Local, OthersRest
  <2>10. Kept(j, c)
    BY <1>3, <2>1, <2>4, <2>5, <2>7 DEF Kept
  <2>11. FillWork(j, c)'
    BY <1>3, <1>4, <1>5, <1>6, <2>1, <2>2, <2>4, <2>7, <2>8 DEF FillWork, VMAbsent
  <2>12. r # NoReceipt
    BY <2>4, CreationNulls
  <2>13. Stage(j, c)'
    BY <2>2, <2>5, <2>7, <2>8, <2>11, <2>12, StageParts
  <2>14. Coherent(c)' /\ Pinned(c)'
    BY <1>3, <2>5, <2>8 DEF Coherent, Pinned
  <2> QED
    BY <1>1, <1>2, <2>2, <2>9, <2>10, <2>13, <2>14, ActStep
<1>7. CASE Does(j) \in Cleanups
  <2>1. SaveProof(j, {}) /\ First(j, "dispose") /\ receipt[c] # NoReceipt /\ disposition[c] = NoDisposition
    BY <1>1, <1>7, BeginFacts DEF Cleanups
  <2>2. OthersRest(j) /\ work'[j].at = "dispose" /\ work'[j].i = 1 /\ UNCHANGED <<receipt, disposition>>
    BY <2>1, Moves DEF SaveProof
  <2>3. ASSUME proof'[Task(j)] # NoProof, proof'[Task(j)].by = j
        PROVE  Stage(j, c)'
    <3>1. DisposalWork(j, c)'
      BY <1>3, <1>4, <1>7, <2>2, <2>3 DEF DisposalWork
    <3> QED
      BY <2>1, <2>2, <3>1, StageParts DEF Filling, Allocating, Uploading
  <2>4. {} \in SUBSET Vols
    OBVIOUS
  <2> QED
    BY <1>1, <1>2, <1>3, <2>1, <2>2, <2>3, <2>4, ProofStep
<1>8. CASE Does(j) \in {"resume", "accept"}
  <2>1. receipt[c].ready /\ UNCHANGED records /\ First(j, "verify") /\ receipt[c] # NoReceipt /\ disposition[c] = NoDisposition
    BY <1>1, <1>8, BeginFacts
  <2>2. OthersRest(j) /\ work'[j].at = "verify" /\ work'[j].i = 1
    BY <2>1, Moves
  <2>3. RecipeRests
    BY <1>2, <1>3, <2>1 DEF RecipeRests, records
  <2>4. VerifyWork(j, c)'
    BY <1>3, <1>4, <1>5, <1>8, <2>1, <2>2, <2>3 DEF VerifyWork, RecipeRests
  <2>5. Stage(j, c)'
    BY <2>1, <2>2, <2>3, <2>4, StageParts DEF Filling, Allocating, Uploading, RecipeRests
  <2> QED
    BY <1>1, <1>2, <2>2, <2>3, <2>5, MoveStep
<1> QED
  BY <1>1, <1>6, <1>7, <1>8, BeginFacts

LEMMA IntendRecipe ==
  ASSUME BaseInv, RecipeInv, NEW j \in Jobs, IntendDeletion(j) PROVE RecipeInv'
<1>1. PICK c \in Creations : c = Recipe(Task(j))
  BY ActFacts DEF IntendDeletion, In
<1>2. At(j, "execute") /\ Of(j, c) /\ PlanOf(j) = Task(j) /\ work[j].at = "dispose" /\ work[j].i <= N
  BY <1>1, ActFacts DEF IntendDeletion, In
<1>3. UNCHANGED <<vars, volume, vm>> /\ Does(j)' = Does(j) /\ Task(j)' = Task(j)
  BY DEF IntendDeletion, host, vars, journal, Does, Task
<1>4. DisposalWork(j, c) /\ receipt[c] # NoReceipt /\ disposition[c] = NoDisposition /\ N \in Nat \ {0}
  BY <1>1, <1>2, WorkingFacts DEF Doing, Stage
<1>5. /\ Does(j) \in Cleanups /\ proof[Task(j)] # NoProof /\ proof[Task(j)].by = j /\ work[j].i \in 1..(N + 1)
  BY <1>2, <1>4 DEF DisposalWork
<1>6. CASE GoNext(j, "dispose") /\ UNCHANGED records
  <2>1. OthersRest(j) /\ work'[j].at = "dispose" /\ work'[j].i = work[j].i + 1 /\ RecipeRests
    BY <1>3, <1>6, Moves DEF RecipeRests, records
  <2>2. work[j].i + 1 \in 1..(N + 1)
    BY <1>2, <1>4, <1>5
  <2>3. DisposalWork(j, c)'
    BY <1>3, <1>5, <2>1, <2>2 DEF DisposalWork, RecipeRests
  <2>4. Stage(j, c)'
    BY <1>4, <2>1, <2>3, StageParts DEF Filling, Allocating, Uploading, RecipeRests
  <2> QED
    BY <1>1, <1>2, <2>1, <2>4, MoveStep
<1>7. CASE Go(j, "delete") /\ SaveProof(j, proof[Task(j)].intents \cup {work[j].i})
  <2>1. OthersRest(j) /\ work'[j].at = "delete" /\ work'[j].i = work[j].i
    BY <1>7, Moves
  <2>2. proof[Task(j)] \in Proof
    BY <1>2, <1>5, ActFacts DEF BaseInv, CreationTypeOK
  <2>3. PICK intents \in SUBSET Vols : intents = proof[Task(j)].intents \cup {work[j].i}
    <3>1. work[j].i \in Vols
      BY <1>2, <1>4, <1>5 DEF Vols
    <3>2. proof[Task(j)].intents \subseteq Vols
      BY <2>2 DEF Proof
    <3> QED
      BY <3>1, <3>2
  <2>4. SaveProof(j, intents) /\ UNCHANGED <<receipt, disposition>>
    BY <1>7, <2>3 DEF SaveProof
  <2>5. ASSUME proof'[Task(j)] # NoProof, proof'[Task(j)].by = j
        PROVE  Stage(j, c)'
    <3>1. DisposalWork(j, c)'
      BY <1>2, <1>3, <1>5, <2>1, <2>5 DEF DisposalWork
    <3> QED
      BY <1>4, <2>1, <2>4, <3>1, StageParts DEF Filling, Allocating, Uploading
  <2> QED
    BY <1>1, <1>2, <1>3, <2>1, <2>4, <2>5, ProofStep
<1> QED
  BY <1>2, <1>6, <1>7 DEF IntendDeletion

LEMMA ProveRecipe ==
  ASSUME BaseInv, RecipeInv, NEW j \in Jobs, ProveVerified(j) PROVE RecipeInv'
<1>1. PICK c \in Creations : c = Recipe(Task(j))
  BY ActFacts DEF ProveVerified, In
<1>2. At(j, "execute") /\ Of(j, c) /\ PlanOf(j) = Task(j) /\ work[j].at = "verify"
  BY <1>1, ActFacts DEF ProveVerified, In
<1>3. UNCHANGED <<vars, volume, vm>> /\ Does(j)' = Does(j) /\ SaveProof(j, {}) /\ UNCHANGED <<receipt, disposition>>
  BY DEF ProveVerified, host, vars, journal, Does, Task, SaveProof
<1>4. VerifyWork(j, c) /\ receipt[c] # NoReceipt /\ disposition[c] = NoDisposition /\ N \in Nat \ {0}
  BY <1>1, <1>2, WorkingFacts DEF Doing, Stage
<1>5. {} \in SUBSET Vols
  OBVIOUS
<1>6. CASE Does(j) = "resume" /\ work[j].i > N /\ Go(j, "define")
  <2>1. OthersRest(j) /\ work'[j].at = "define"
    BY <1>6, Moves
  <2>2. AllFull(c) /\ receipt[c].ready
    <3>1. work[j].i \in 1..(N + 1) /\ receipt[c].ready /\ \A n \in Vols : n < work[j].i => volume[c][n] = "full"
      BY <1>2, <1>4, <1>6 DEF VerifyWork
    <3>2. \A n \in Vols : n < work[j].i
      BY <1>4, <1>6, <3>1 DEF Vols
    <3> QED
      BY <3>1, <3>2 DEF AllFull
  <2>3. AllFull(c)'
    BY <1>3, <2>2 DEF AllFull
  <2>4. DefineWork(j, c)'
    BY <1>3, <1>6, <2>1, <2>2, <2>3 DEF DefineWork
  <2>5. Stage(j, c)'
    BY <1>3, <1>4, <2>1, <2>4, StageParts DEF Filling, Allocating, Uploading
  <2> QED
    BY <1>1, <1>2, <1>3, <1>5, <2>1, <2>5, ProofStep
<1>7. CASE Go(j, "ok")
  <2>1. OthersRest(j) /\ work'[j].at = "ok"
    BY <1>7, Moves
  <2>2. Stage(j, c)'
    BY <2>1, NoStage DEF Doing
  <2> QED
    BY <1>1, <1>2, <1>3, <1>5, <2>1, <2>2, ProofStep
<1> QED
  BY <1>2, <1>6, <1>7 DEF ProveVerified, Does

LEMMA DefineRecipe ==
  ASSUME BaseInv, RecipeInv, NEW j \in Jobs, DefineCreatedVM(j) PROVE RecipeInv'
<1>1. PICK c \in Creations : c = Recipe(Task(j))
  BY ActFacts DEF DefineCreatedVM, In
<1>2. At(j, "execute") /\ Of(j, c) /\ PlanOf(j) = Task(j) /\ work[j].at = "define" /\ vm[c] = "absent"
  BY <1>1, ActFacts DEF DefineCreatedVM, In, VMAbsent
<1>3. /\ UNCHANGED <<vars, receipt, review, proof, disposition, ownership, volume>> /\ Does(j)' = Does(j)
      /\ \E kind \in {"exact", "drifted"} : vm' = [vm EXCEPT ![c] = kind]
      /\ Go(j, IF Does(j) = "create" THEN "defined" ELSE "ok")
  BY <1>1, <1>2 DEF DefineCreatedVM, records, vars, journal, Does, Task
<1>4. PICK kind \in {"exact", "drifted"} : vm' = [vm EXCEPT ![c] = kind]
  BY <1>3
<1>5. vm \in [Creations -> {"absent", "exact", "drifted"}]
  BY DEF BaseInv, CreationTypeOK
<1>6. vm'[c] = kind /\ \A d \in Creations : d # c => vm'[d] = vm[d]
  BY <1>4, <1>5
<1>7. OthersRest(j) /\ work'[j].at = (IF Does(j) = "create" THEN "defined" ELSE "ok")
  BY <1>3, Moves
<1>8. /\ Stage(j, c) /\ receipt[c] # NoReceipt /\ disposition[c] = NoDisposition
      /\ AllFull(c) /\ receipt[c].ready
  BY <1>1, <1>2, WorkingFacts DEF Doing, Stage, DefineWork
<1>9. Local(j, c)
  BY <1>3, <1>6, <1>7 DEF Local, OthersRest
<1>10. Kept(j, c)
  BY <1>2, <1>3, <1>8 DEF Kept, Untouched
<1>11. Stage(j, c)'
  <2>1. CASE Does(j) = "create"
    <3>1. DefineWork(j, c)'
      BY <1>3, <1>7, <2>1 DEF DefineWork
    <3> QED
      BY <1>3, <1>7, <1>8, <2>1, <3>1, StageParts DEF Filling, Allocating, Uploading
  <2>2. CASE Does(j) # "create"
    BY <1>7, <2>2, NoStage DEF Doing
  <2> QED
    BY <2>1, <2>2
<1>12. Coherent(c)' /\ Pinned(c)'
  BY <1>3, <1>4, <1>6, <1>8 DEF Coherent, Pinned, AllFull
<1> QED
  BY <1>1, <1>2, <1>7, <1>9, <1>10, <1>11, <1>12, ActStep

LEMMA ObserveRecipe ==
  ASSUME BaseInv, RecipeInv, NEW j \in Jobs, ObserveCreatedVM(j) PROVE RecipeInv'
<1>1. PICK c \in Creations : c = Recipe(Task(j))
  BY ActFacts DEF ObserveCreatedVM, In
<1>2. At(j, "execute") /\ Of(j, c) /\ RecipeOf(j) = c /\ work[j].at = "defined"
  BY <1>1, ActFacts DEF ObserveCreatedVM, In
<1>3. PICK r : r = [receipt[c] EXCEPT !.defined = TRUE]
  OBVIOUS
<1>4. receipt[c] \in Receipt /\ receipt[c] # NoReceipt /\ disposition[c] = NoDisposition /\ Coherent(c)
  BY <1>1, <1>2, WorkingFacts DEF Doing
<1>5. r \in Receipt /\ r.by = receipt[c].by /\ r.ready = receipt[c].ready
  BY <1>3, <1>4 DEF Receipt
<1>6. /\ UNCHANGED <<vars, review, proof, disposition, ownership, volume, vm>>
      /\ receipt' = [receipt EXCEPT ![c] = r]
  BY <1>2, <1>3 DEF ObserveCreatedVM, SaveReceipt, host
<1>7. receipt \in [Creations -> Receipt \cup {NoReceipt}]
  BY DEF BaseInv, CreationTypeOK
<1>8. receipt'[c] = r /\ \A d \in Creations : d # c => receipt'[d] = receipt[d]
  BY <1>6, <1>7
<1>9. OthersRest(j) /\ work'[j].at = "ok"
  BY Moves DEF ObserveCreatedVM
<1>10. Local(j, c)
  BY <1>6, <1>8, <1>9 DEF Local, OthersRest
<1>11. r # NoReceipt
  BY <1>5, CreationNulls
<1>12. Kept(j, c)
  BY <1>4, <1>5, <1>6, <1>8, <1>11 DEF Kept, Untouched, VMAbsent
<1>13. Stage(j, c)'
  BY <1>9, NoStage DEF Doing
<1>14. Coherent(c)' /\ Pinned(c)'
  BY <1>4, <1>6, <1>8, <1>11 DEF Coherent, Pinned, AllFull
<1> QED
  BY <1>1, <1>2, <1>9, <1>10, <1>12, <1>13, <1>14, ActStep

\* What a cleanup is about.
LEMMA CleanupFacts ==
  ASSUME BaseInv, RecipeInv, NEW j \in Jobs, NEW c \in Creations, c = Recipe(Task(j)),
         At(j, "execute"), work[j].at \in {"dispose", "delete", "deleted"}
  PROVE  /\ Of(j, c) /\ PlanOf(j) = Task(j) /\ review[Task(j)].of = c
         /\ Does(j) \in Cleanups /\ proof[Task(j)] # NoProof /\ proof[Task(j)].by = j
         /\ work[j].i \in 1..(N + 1) /\ (work[j].at # "dispose" => work[j].i <= N)
         /\ receipt[c] # NoReceipt /\ disposition[c] = NoDisposition /\ N \in Nat \ {0} /\ Coherent(c)
<1>1. /\ Of(j, c) /\ PlanOf(j) = Task(j) /\ DisposalWork(j, c) /\ receipt[c] # NoReceipt /\ Coherent(c)
      /\ disposition[c] = NoDisposition /\ N \in Nat \ {0}
  BY ActFacts, WorkingFacts DEF Doing, Stage
<1>2. Does(j) \in Cleanups
  BY <1>1 DEF DisposalWork
<1>3. Does(j) # "create"
  BY <1>2 DEF Cleanups
<1>4. review[Task(j)].of = c
  BY <1>1, <1>3, ReviewedFacts DEF Of
<1> QED
  BY <1>1, <1>2, <1>4 DEF DisposalWork

LEMMA DeleteRecipe ==
  ASSUME BaseInv, RecipeInv, NEW j \in Jobs, DeleteCreationVolume(j) PROVE RecipeInv'
<1>1. PICK c \in Creations : c = Recipe(Task(j))
  BY ActFacts DEF DeleteCreationVolume, In
<1>2. At(j, "execute") /\ work[j].at = "delete"
  BY DEF DeleteCreationVolume, In
<1>3. /\ Of(j, c) /\ PlanOf(j) = Task(j) /\ review[Task(j)].of = c
      /\ Does(j) \in Cleanups /\ proof[Task(j)] # NoProof /\ proof[Task(j)].by = j
      /\ work[j].i \in 1..(N + 1) /\ work[j].i <= N
      /\ receipt[c] # NoReceipt /\ disposition[c] = NoDisposition /\ Coherent(c)
  BY <1>1, <1>2, CleanupFacts
<1>4. /\ UNCHANGED <<vars, receipt, review, proof, disposition, ownership, vm>>
      /\ vm[c] = "absent" /\ volume' = [volume EXCEPT ![c][work[j].i] = "absent"]
      /\ Does(j)' = Does(j) /\ Task(j)' = Task(j)
  BY <1>3 DEF DeleteCreationVolume, records, VMAbsent, vars, journal, Does, Task
<1>5. volume \in [Creations -> [Vols -> {"absent", "partial", "full"}]]
  BY DEF BaseInv, CreationTypeOK
<1>6. /\ \A d \in Creations : d # c => volume'[d] = volume[d]
      /\ \A n \in Vols : volume'[c][n] = volume[c][n] \/ volume'[c][n] = "absent"
  BY <1>4, <1>5
<1>7. OthersRest(j) /\ work'[j].at = "deleted" /\ work'[j].i = work[j].i
  BY Moves DEF DeleteCreationVolume
<1>8. Local(j, c)
  BY <1>4, <1>6, <1>7 DEF Local, OthersRest
<1>9. Untouched(c) => Untouched(c)'
  BY <1>4, <1>6 DEF Untouched, VMAbsent
<1>10. Kept(j, c)
  BY <1>3, <1>4, <1>9 DEF Kept
<1>11. DisposalWork(j, c)'
  BY <1>3, <1>4, <1>7 DEF DisposalWork
<1>12. Stage(j, c)'
  BY <1>3, <1>4, <1>7, <1>11, StageParts DEF Filling, Allocating, Uploading
<1>13. Coherent(c)' /\ Pinned(c)'
  BY <1>3, <1>4 DEF Coherent, Pinned
<1> QED
  BY <1>1, <1>2, <1>7, <1>8, <1>10, <1>12, <1>13, ActStep

\* What a disposition says.
LEMMA DispositionFacts ==
  ASSUME BaseInv, NEW j \in Jobs, Stored(j), Does(j) \in Cleanups, proof[Task(j)] # NoProof
  PROVE  /\ DispositionOf(Task(j)) \in Disposition /\ DispositionOf(Task(j)) # NoDisposition
         /\ DispositionOf(Task(j)).by = Task(j) /\ DispositionOf(Task(j)).job = proof[Task(j)].by
<1>1. PICK p \in Plans : p = Task(j)
  BY RecipeFacts
<1>2. proof[p] \in Proof
  BY <1>1 DEF BaseInv, CreationTypeOK
<1>3. review[p] \in Review
  BY <1>1, ReviewedFacts DEF Cleanups
<1>4. \A n : Remaining(review[p], n) \in Observed
  <2>1. review[p].seen \in Observed
    BY <1>3 DEF Review
  <2> QED
    BY <2>1 DEF Remaining, Observed
<1>5. DispositionOf(p) \in Disposition
  BY <1>2, <1>4 DEF DispositionOf, Disposition, Proof
<1> QED
  BY <1>1, <1>5, CreationNulls DEF DispositionOf

LEMMA CommitRecipe ==
  ASSUME BaseInv, RecipeInv, NEW j \in Jobs, CommitDisposition(j) PROVE RecipeInv'
<1>1. PICK c \in Creations : c = Recipe(Task(j))
  BY ActFacts DEF CommitDisposition, In
<1>2. At(j, "execute") /\ work[j].at = "dispose"
  BY DEF CommitDisposition, In
<1>3. /\ Of(j, c) /\ PlanOf(j) = Task(j) /\ review[Task(j)].of = c
      /\ Does(j) \in Cleanups /\ proof[Task(j)] # NoProof
      /\ receipt[c] # NoReceipt /\ disposition[c] = NoDisposition /\ Coherent(c)
  BY <1>1, <1>2, CleanupFacts
<1>4. PICK x : x = DispositionOf(Task(j))
  OBVIOUS
<1>5. x # NoDisposition
  BY <1>3, <1>4, DispositionFacts DEF Of
<1>6. /\ UNCHANGED <<vars, receipt, review, proof, ownership, vm, volume>>
      /\ vm[c] = "absent" /\ Observation(c) = x.seen
      /\ disposition' = [disposition EXCEPT ![c] = x]
  BY <1>3, <1>4 DEF CommitDisposition, Dispose, host, VMAbsent
<1>7. disposition \in [Creations -> Disposition \cup {NoDisposition}]
  BY DEF BaseInv, CreationTypeOK
<1>8. disposition'[c] = x /\ \A d \in Creations : d # c => disposition'[d] = disposition[d]
  BY <1>6, <1>7
<1>9. OthersRest(j) /\ work'[j].at = "ok"
  BY Moves DEF CommitDisposition
<1>10. Local(j, c)
  BY <1>6, <1>8, <1>9 DEF Local, OthersRest
<1>11. Untouched(c)' <=> Untouched(c)
  BY <1>6 DEF Untouched, VMAbsent
<1>12. Kept(j, c)
  BY <1>3, <1>6, <1>11 DEF Kept
<1>13. Stage(j, c)'
  BY <1>9, NoStage DEF Doing
<1>14. Observation(c)' = Observation(c)
  BY <1>6 DEF Observation
<1>15. Coherent(c)' /\ Pinned(c)'
  BY <1>3, <1>6, <1>8, <1>14 DEF Coherent, Pinned
<1> QED
  BY <1>1, <1>2, <1>9, <1>10, <1>12, <1>13, <1>15, ActStep

-----------------------------------------------------------------------------
(* Reconcile, for the runner or for a client.                                *)

\* A plan is run by one recovery: its parent is handed over once.
LEMMA OneRecovery ==
  ASSUME BaseInv, NEW j \in Jobs, NEW m \in Jobs, Stored(j), Stored(m), Task(m) = Task(j), Task(j) \in RecoveryPlans
  PROVE  m = j
<1>1. PICK parent \in Jobs : parent = review[Task(j)].parent /\ Stored(parent)
  <2>1. review[Task(j)] # Unplanned /\ Task(j) \in Plans
    BY RecipeFacts DEF BaseInv, RecoveriesFit
  <2>2. review[Task(j)] \in Review /\ Stored(review[Task(j)].parent)
    BY <2>1 DEF BaseInv, CreationTypeOK, ReviewsFit, Of
  <2> QED
    BY <2>2 DEF Review
<1>2. jobs[j].recoveryOf = parent /\ jobs[m].recoveryOf = parent
  BY <1>1 DEF BaseInv, RecoveriesFit
<1>3. RecoveriesAreChained
  BY DEF BaseInv, AcceptanceInv, Acceptances
<1> QED
  BY <1>1, <1>2, <1>3 DEF RecoveriesAreChained

\* Whoever is asked is not at work, nor has failed.
LEMMA AskFacts ==
  ASSUME BaseInv, NEW j \in Jobs, Reconciling(j)
  PROVE  /\ Stored(j) /\ Task(j) \in Plans /\ Recipe(Task(j)) \in Creations /\ Of(j, Recipe(Task(j)))
         /\ ~Abandoned(j) \/ work[j].at = "canceled"
         /\ work[j].at \notin Doing \cup {"ok", "error", "canceled"}
         /\ ~At(j, "boundary") /\ ~At(j, "validate") /\ ~At(j, "returned")
         /\ jobs[j].state \notin {"failed", "canceled"}
<1>1. /\ Stored(j) /\ ~At(j, "execute") /\ ~At(j, "boundary") /\ ~At(j, "validate") /\ ~At(j, "returned")
      /\ jobs[j].state \in Active \cup {"recovery-required"}
  BY AskedFacts
<1>2. work[j].at \notin Doing \cup {"ok", "error", "canceled"}
  BY <1>1 DEF BaseInv, WorkIsAsked
<1> QED
  BY <1>1, <1>2, RecipeFacts DEF Of, Abandoned, Active

LEMMA AskStep ==
  ASSUME BaseInv, RecipeInv, NEW j \in Jobs, NEW c \in Creations, c = Recipe(Task(j)), Reconciling(j),
         Local(j, c), Kept(j, c), Spares(j, c), work'[j].at \in {"confirmed", "observed"},
         Observations(j, c)', Coherent(c)', Pinned(c)'
  PROVE  RecipeInv'
<1>1. Of(j, c)
  BY AskFacts
<1>2. Stage(j, c)'
  BY NoStage DEF Doing
<1>3. Remains(j, c)'
  <2>1. jobs' = jobs /\ runner' = runner
    BY DEF Local, vars, journal, volatile
  <2>2. ~At(j, "boundary")' /\ ~At(j, "validate")' /\ ~Abandoned(j)'
    BY <2>1, AskFacts DEF At, Abandoned
  <2> QED
    BY <2>2 DEF Remains
<1> QED
  BY <1>1, <1>2, <1>3, RecipeStep

LEMMA ConfirmRecipe ==
  ASSUME BaseInv, RecipeInv, NEW j \in Jobs, ConfirmDefinition(j) PROVE RecipeInv'
<1>1. PICK c \in Creations : c = Recipe(Task(j)) /\ c = Recipe(jobs[j].planID)
  BY AskFacts DEF ConfirmDefinition, Task
<1>2. /\ Reconciling(j) /\ Does(j) \in {"create", "resume"} /\ Of(j, c)
      /\ receipt[c] # NoReceipt /\ disposition[c] = NoDisposition /\ vm[c] = "exact"
  BY <1>1, AskFacts DEF ConfirmDefinition, Does, Task, Undisposed
<1>3. PICK r : r = [receipt[c] EXCEPT !.defined = TRUE]
  OBVIOUS
<1>4. receipt[c] \in Receipt /\ receipt \in [Creations -> Receipt \cup {NoReceipt}]
  BY <1>2 DEF BaseInv, CreationTypeOK
<1>5. r \in Receipt /\ r.by = receipt[c].by /\ r.ready = receipt[c].ready
  BY <1>3, <1>4 DEF Receipt
<1>6. /\ UNCHANGED <<vars, review, proof, disposition, ownership, volume, vm>>
      /\ receipt' = [receipt EXCEPT ![c] = r]
  <2>1. receipt' = [receipt EXCEPT ![c].defined = TRUE]
    BY <1>1 DEF ConfirmDefinition
  <2> QED
    BY <1>3, <1>4, <2>1 DEF ConfirmDefinition, host
<1>7. receipt'[c] = r /\ \A d \in Creations : d # c => receipt'[d] = receipt[d]
  BY <1>4, <1>6
<1>8. OthersRest(j) /\ work'[j].at = "confirmed"
  BY Moves DEF ConfirmDefinition
<1>9. Local(j, c)
  BY <1>6, <1>7, <1>8 DEF Local, OthersRest
<1>10. r # NoReceipt
  BY <1>5, CreationNulls
<1>11. Kept(j, c)
  BY <1>2, <1>5, <1>6, <1>7, <1>10 DEF Kept, Untouched, VMAbsent
<1>12. Harmless(c)
  BY <1>5, <1>6, <1>7, <1>10 DEF Harmless
<1>13. /\ Does(j)' = Does(j) /\ verified' = verified
  BY <1>6 DEF vars, journal, observed, Does, Task
<1>14. Coherent(c) /\ Observations(j, c)
  BY <1>2 DEF RecipeInv
<1>15. Coherent(c)' /\ Pinned(c)'
  BY <1>2, <1>6, <1>7, <1>10, <1>14 DEF Coherent, Pinned, AllFull
<1>16. Observations(j, c)'
  <2>1. Accomplished(j, c) => Accomplished(j, c)'
    <3>1. Task(j)' = Task(j)
      BY <1>6 DEF vars, journal, Task
    <3> QED
      BY <1>2, <1>11, <3>1, AccomplishedStays DEF Kept
  <2> QED
    BY <1>2, <1>6, <1>7, <1>8, <1>10, <1>13, <1>14, <2>1 DEF Observations
<1> QED
  BY <1>1, <1>2, <1>8, <1>9, <1>11, <1>12, <1>15, <1>16, AskStep DEF Spares

\* An ownership is written once.
LEMMA OwnStep ==
  ASSUME BaseInv, RecipeInv, NEW j \in Jobs, NEW c \in Creations, c = Recipe(Task(j)), Reconciling(j),
         NEW owner, Own(c, owner), vm[c] # "absent",
         OthersRest(j), work'[j].at = "observed", ownership'[c] = owner => Accomplished(j, c)'
  PROVE  RecipeInv'
<1>1. Of(j, c)
  BY AskFacts
<1>2. /\ UNCHANGED <<vars, receipt, review, proof, disposition, volume, vm>>
      /\ ownership[c] \in {NoOwner, owner} /\ ownership' = [ownership EXCEPT ![c] = owner]
  BY DEF Own, host
<1>3. ownership \in [Creations -> Owner \cup {NoOwner}]
  BY DEF BaseInv, CreationTypeOK
<1>4. ownership'[c] = owner /\ \A d \in Creations : d # c => ownership'[d] = ownership[d]
  BY <1>2, <1>3
<1>5. Local(j, c)
  BY <1>2, <1>4 DEF Local, OthersRest
<1>6. Untouched(c)' <=> Untouched(c)
  BY <1>2 DEF Untouched, VMAbsent
<1>7. Kept(j, c) /\ Harmless(c)
  BY <1>2, <1>4, <1>6 DEF Kept, Harmless
<1>8. Observation(c)' = Observation(c)
  BY <1>2 DEF Observation
<1>9. Coherent(c)' /\ Pinned(c)'
  BY <1>2, <1>8 DEF RecipeInv, Coherent, Pinned, AllFull
<1>10. Observations(j, c)'
  BY <1>4 DEF Observations
<1> QED
  BY <1>1, <1>5, <1>7, <1>9, <1>10, AskStep DEF Spares

LEMMA OwnerRecipe ==
  ASSUME BaseInv, RecipeInv, NEW j \in Jobs, RecordOwnership(j) PROVE RecipeInv'
<1>1. PICK c \in Creations : c = Recipe(Task(j)) /\ c = Recipe(jobs[j].planID)
  BY AskFacts DEF RecordOwnership, Task
<1>2. PICK owner : owner = [job |-> receipt[c].by, acceptance |-> NoPlan]
  OBVIOUS
<1>3. Reconciling(j) /\ Own(c, owner) /\ work[j].at = "confirmed"
  BY <1>1, <1>2 DEF RecordOwnership
<1>4. OthersRest(j) /\ work'[j].at = "observed"
  BY Moves DEF RecordOwnership
<1>5. Does(j) \in {"create", "resume"} /\ vm[c] = "exact" /\ receipt[c] # NoReceipt
  BY <1>1, <1>3, AskFacts DEF RecipeInv, Observations
<1>6. Does(j)' = Does(j) /\ vm' = vm /\ receipt' = receipt
  BY <1>3 DEF Own, host, vars, journal, Does, Task
<1>7. ownership'[c] = owner => Accomplished(j, c)'
  BY <1>2, <1>5, <1>6 DEF Accomplished, Cleanups
<1> QED
  BY <1>1, <1>3, <1>4, <1>5, <1>7, OwnStep

LEMMA AcceptRecipe ==
  ASSUME BaseInv, RecipeInv, NEW j \in Jobs, ReconcileAcceptance(j) PROVE RecipeInv'
<1>1. PICK p \in Plans, c \in Creations : p = Task(j) /\ p = jobs[j].planID /\ c = Recipe(p)
  BY AskFacts DEF ReconcileAcceptance, Task
<1>2. Reconciling(j) /\ Stored(j) /\ Does(j) = "accept" /\ proof[p] # NoProof /\ AcceptValid(p, review[p], proof[p].by)
  BY <1>1, AskFacts DEF ReconcileAcceptance, Does
<1>3. p \in RecoveryPlans /\ c = review[p].of
  BY <1>1, <1>2, ReviewedFacts
<1>4. proof[p].by = j
  <2>1. Stored(proof[p].by) /\ Task(proof[p].by) = p
    BY <1>1, <1>2 DEF RecipeInv, ProofsNameJobs
  <2>2. proof[p] \in Proof
    BY <1>2 DEF BaseInv, CreationTypeOK
  <2>3. proof[p].by \in Jobs
    BY <2>2 DEF Proof
  <2> QED
    BY <1>1, <1>2, <1>3, <2>1, <2>3, OneRecovery
<1>5. PICK owner : owner = [job |-> j, acceptance |-> p]
  OBVIOUS
<1>6. Own(c, owner)
  BY <1>1, <1>3, <1>4, <1>5 DEF ReconcileAcceptance
<1>7. OthersRest(j) /\ work'[j].at = "observed"
  BY Moves DEF ReconcileAcceptance
<1>8. vm[c] # "absent"
  BY <1>2, <1>3 DEF AcceptValid, VMAbsent
<1>9. Does(j)' = Does(j) /\ Task(j)' = p
  BY <1>1, <1>6 DEF Own, host, vars, journal, Does, Task
<1>10. ownership'[c] = owner => Accomplished(j, c)'
  BY <1>2, <1>5, <1>9 DEF Accomplished, Cleanups
<1> QED
  BY <1>1, <1>2, <1>6, <1>7, <1>8, <1>10, OwnStep

\* Nobody works on an open recipe while its recovery is asked about it.
LEMMA NobodyWorks ==
  ASSUME BaseInv, RecipeInv, NEW j \in Jobs, NEW c \in Creations, Of(j, c), Reconciling(j),
         Does(j) \in Cleanups, disposition[c] = NoDisposition
  PROVE  Spares(j, c)
<1>1. Task(j) \in RecoveryPlans
  BY ReviewedFacts DEF Of, Cleanups
<1>2. ASSUME NEW k \in Jobs, k # j, Of(k, c), work[k].at \in Doing
      PROVE  FALSE
  <2>1. At(k, "execute")
    BY <1>2 DEF BaseInv, WorkIsAsked
  <2>2. <<j, 0>> \in verified
    BY <1>1, <1>2, <2>1, OthersAreComplete
  <2>3. Accomplished(j, c)
    BY <2>2 DEF RecipeInv, Observations
  <2> QED
    BY <2>3 DEF Accomplished
<1> QED
  BY <1>2 DEF Spares

LEMMA CleanupRecipe ==
  ASSUME BaseInv, RecipeInv, NEW j \in Jobs, ReconcileCleanup(j) PROVE RecipeInv'
<1>1. PICK p \in Plans, c \in Creations : p = Task(j) /\ p = jobs[j].planID /\ c = Recipe(p)
  BY AskFacts DEF ReconcileCleanup, Task
<1>2. Reconciling(j) /\ Stored(j) /\ Does(j) \in Cleanups /\ proof[p] # NoProof /\ AsReviewed(review[p]) /\ Of(j, c)
  BY <1>1, AskFacts DEF ReconcileCleanup, Does, Proved
<1>3. p \in RecoveryPlans /\ c = review[p].of
  BY <1>1, <1>2, ReviewedFacts DEF Cleanups
<1>4. proof[p].by = j
  <2>1. Stored(proof[p].by) /\ Task(proof[p].by) = p
    BY <1>1, <1>2 DEF RecipeInv, ProofsNameJobs
  <2>2. proof[p] \in Proof
    BY <1>2 DEF BaseInv, CreationTypeOK
  <2>3. proof[p].by \in Jobs
    BY <2>2 DEF Proof
  <2> QED
    BY <1>1, <1>2, <1>3, <2>1, <2>3, OneRecovery
<1>5. PICK x : x = DispositionOf(p)
  OBVIOUS
<1>6. x # NoDisposition /\ x.by = p /\ x.job = j
  BY <1>1, <1>2, <1>4, <1>5, DispositionFacts
<1>7. OthersRest(j) /\ work'[j].at = "observed" /\ UNCHANGED <<vars, host>>
  BY Moves DEF ReconcileCleanup
<1>8. Does(j)' = Does(j) /\ Task(j)' = p
  BY <1>1, <1>7 DEF vars, journal, Does, Task
<1>9. disposition'[c] = x => Accomplished(j, c)'
  BY <1>2, <1>6, <1>8 DEF Accomplished, Cleanups
<1>10. Observation(c)' = Observation(c) \/ receipt' # receipt
  BY <1>7 DEF host, Observation
<1>11. Coherent(c) /\ Pinned(c) /\ receipt[c] # NoReceipt
  BY <1>2, <1>3 DEF RecipeInv, AsReviewed
<1>12. CASE disposition[c] = x /\ UNCHANGED records
  <2>1. UNCHANGED <<vars, receipt, review, proof, disposition, ownership, volume, vm>>
    BY <1>7, <1>12 DEF records, host
  <2>2. Local(j, c) /\ Harmless(c)
    BY <1>7, <2>1 DEF Local, OthersRest, Harmless
  <2>3. Untouched(c)' <=> Untouched(c)
    BY <2>1 DEF Untouched, VMAbsent
  <2>4. Kept(j, c)
    BY <2>1, <2>3 DEF Kept
  <2>5. Coherent(c)' /\ Pinned(c)'
    BY <1>10, <1>11, <2>1 DEF Coherent, Pinned, AllFull
  <2>6. Observations(j, c)'
    BY <1>7, <1>9, <1>12, <2>1 DEF Observations
  <2> QED
    BY <1>1, <1>2, <1>7, <2>2, <2>4, <2>5, <2>6, AskStep DEF Spares
<1>13. CASE StillOpen(review[p]) /\ VMAbsent(c) /\ Observation(c) = x.seen /\ Dispose(p)
  <2>1. disposition[c] = NoDisposition /\ vm[c] = "absent"
    BY <1>3, <1>13 DEF StillOpen, Undisposed, VMAbsent
  <2>2. /\ UNCHANGED <<vars, receipt, review, proof, ownership, volume, vm>>
        /\ disposition' = [disposition EXCEPT ![c] = x]
    BY <1>3, <1>5, <1>7, <1>13 DEF Dispose, host
  <2>3. disposition \in [Creations -> Disposition \cup {NoDisposition}]
    BY DEF BaseInv, CreationTypeOK
  <2>4. disposition'[c] = x /\ \A d \in Creations : d # c => disposition'[d] = disposition[d]
    BY <2>2, <2>3
  <2>5. Local(j, c)
    BY <1>7, <2>2, <2>4 DEF Local, OthersRest
  <2>6. Untouched(c)' <=> Untouched(c)
    BY <2>2 DEF Untouched, VMAbsent
  <2>7. Kept(j, c)
    BY <2>1, <2>2, <2>6 DEF Kept
  <2>8. Spares(j, c)
    BY <1>2, <2>1, NobodyWorks
  <2>9. Coherent(c)' /\ Pinned(c)'
    BY <1>10, <1>11, <1>13, <2>1, <2>2, <2>4 DEF Coherent, Pinned
  <2>10. Observations(j, c)'
    BY <1>7, <1>9, <2>4 DEF Observations
  <2> QED
    BY <1>1, <1>2, <1>7, <2>5, <2>7, <2>8, <2>9, <2>10, AskStep
<1> QED
  BY <1>1, <1>3, <1>5, <1>12, <1>13 DEF ReconcileCleanup

LEMMA HandlerRecipe ==
  ASSUME BaseInv, RecipeInv, NEW j \in Jobs, HandlerSteps(j), ~ExecuteReturns(j) PROVE RecipeInv'
BY BeginRecipe, CancelRecipe, FailRecipe, AllocateRecipe, RecordRecipe, HandOverRecipe, PopulateRecipe,
   VerifiedRecipe, ReadyRecipe, RetainedRecipe, ProveRecipe, DefineRecipe, ObserveRecipe, IntendRecipe,
   DeleteRecipe, AbsentRecipe, CommitRecipe, ConfirmRecipe, OwnerRecipe, AcceptRecipe, CleanupRecipe
   DEF HandlerSteps

-----------------------------------------------------------------------------
(* What the engine does around the handlers.                                 *)

\* A job that is stored keeps its plan.
LEMMA JobsKept ==
  ASSUME AcceptanceInv, [Next]_vars, NEW m \in Jobs, Stored(m)
  PROVE  Stored(m)' /\ Task(m)' = Task(m) /\ jobs'[m].recoveryOf = jobs[m].recoveryOf
<1>1. TypeOK /\ JournalStep
  BY NextJournal DEF AcceptanceInv, DoubtInv, OwnershipInv
<1>2. jobs \in [Jobs -> Row \cup {NoRow}] /\ jobs[m] \in Row
  BY <1>1, RowOfStored DEF TypeOK, JournalTypeOK
<1>3. CASE UNCHANGED jobs
  BY <1>3 DEF Stored, Task
<1>4. ASSUME NEW j \in Jobs, NEW row \in Row, Writes(j, row)
      PROVE  Stored(m)' /\ Task(m)' = Task(m) /\ jobs'[m].recoveryOf = jobs[m].recoveryOf
  <2>1. /\ Update(j, row) /\ row.planID = jobs[j].planID /\ row.recoveryOf = jobs[j].recoveryOf
    BY <1>4 DEF Writes
  <2>2. /\ jobs'[j].planID = jobs[j].planID /\ \A k \in Jobs : k # j => jobs'[k] = jobs[k]
        /\ \A k \in Jobs : Stored(k)' <=> Stored(k)
    BY <1>1, <2>1, UpdateEffect
  <2>3. jobs'[j].recoveryOf = row.recoveryOf
    BY <1>1, <2>1, UpdateFields
  <2> QED
    BY <2>1, <2>2, <2>3 DEF Task
<1>5. ASSUME NEW j \in Jobs, NEW k \in Keys, NEW q \in Request, Accepts(j, k, q)
      PROVE  Stored(m)' /\ Task(m)' = Task(m) /\ jobs'[m].recoveryOf = jobs[m].recoveryOf
  <2>1. m # j /\ jobs'[m] = jobs[m]
    BY <1>2, <1>5 DEF Accepts, Accept, Stored
  <2> QED
    BY <2>1 DEF Stored, Task
<1>6. ASSUME NEW j \in Jobs, NEW k \in Keys, NEW q \in Request, AcceptsRecovery(j, k, q)
      PROVE  Stored(m)' /\ Task(m)' = Task(m) /\ jobs'[m].recoveryOf = jobs[m].recoveryOf
  <2>1. m # j /\ AcceptRecovery(j, k, q) /\ q.parent \in Jobs /\ q.parent # j
    BY <1>6 DEF AcceptsRecovery, AcceptRecovery, Recoverable, Stored
  <2>2. CASE m # q.parent
    <3>1. jobs'[m] = jobs[m]
      BY <1>2, <2>1, <2>2 DEF AcceptRecovery
    <3> QED
      BY <3>1 DEF Stored, Task
  <2>3. CASE m = q.parent
    <3>1. PICK x : x = [jobs[m] EXCEPT !.state = "partial", !.recoveryOperationID = j]
      OBVIOUS
    <3>2. x \in Row /\ x.planID = jobs[m].planID /\ x.recoveryOf = jobs[m].recoveryOf
      BY <1>2, <3>1 DEF Row, JobState, Finished
    <3>3. jobs'[m] = x
      BY <1>2, <2>1, <2>3, <3>1 DEF AcceptRecovery
    <3>4. jobs'[m] # NoRow
      BY <3>2, <3>3, NullsAreNotValues
    <3> QED
      BY <3>2, <3>3, <3>4 DEF Stored, Task
  <2> QED
    BY <2>2, <2>3
<1>7. ASSUME NEW j \in Jobs, Observes(j)
      PROVE  UNCHANGED jobs
  BY <1>7 DEF Observes, journal
<1> QED
  BY <1>1, <1>3, <1>4, <1>5, <1>6, <1>7 DEF JournalStep, journal

\* What a step around the handlers may do to what is kept of a job.
Passes(m) ==
  /\ work'[m] = work[m] \/ work'[m].at = "idle"
  /\ <<m, 0>> \in verified' => <<m, 0>> \in verified \/ work[m].at = "observed"
  /\ Stored(m) /\ (At(m, "boundary")' \/ At(m, "validate")') => At(m, "boundary") \/ At(m, "validate")
  /\ Stored(m) /\ Abandoned(m)' => Abandoned(m) \/ At(m, "boundary") \/ At(m, "validate")

LEMMA UnstoredRests ==
  ASSUME BaseInv, NEW m \in Jobs, ~Stored(m)
  PROVE  work[m].at = "idle" /\ <<m, 0>> \notin verified
<1>1. ~Live(m)
  BY RunnerFacts
<1>2. ~Reconciling(m)
  BY AskedFacts
<1>3. work[m].at \notin Doing \cup {"ok", "error", "canceled", "confirmed", "observed"}
  BY <1>1, <1>2 DEF BaseInv, WorkIsAsked, At, Live
<1>4. work[m] \in Work
  BY DEF BaseInv, CreationTypeOK
<1>5. <<m, 0>> \notin verified
  BY DEF BaseInv, AcceptanceInv, Acceptances, NothingUnstoredVerified
<1> QED
  BY <1>3, <1>4, <1>5 DEF Work

LEMMA QuietRecipe ==
  ASSUME BaseInv, RecipeInv, UNCHANGED <<receipt, review, proof, disposition, ownership, volume, vm>>,
         [Next]_vars, \A m \in Jobs : Passes(m)
  PROVE  RecipeInv'
<1>1. \A m \in Jobs : Stored(m) => Stored(m)' /\ Task(m)' = Task(m)
  BY JobsKept DEF BaseInv
<1>2. \A c \in Creations : /\ Untouched(c)' <=> Untouched(c)
                           /\ Observation(c)' = Observation(c)
                           /\ Harmless(c)
  BY DEF Untouched, VMAbsent, Observation, Harmless
<1>3. \A c \in Creations : Coherent(c)' /\ Pinned(c)'
  BY <1>2 DEF RecipeInv, Coherent, Pinned, AllFull
<1>4. ProofsNameJobs'
  <2>1. ASSUME NEW p \in Plans, proof[p] # NoProof
        PROVE  Stored(proof[p].by)' /\ Task(proof[p].by)' = p
    <3>1. proof[p] \in Proof
      BY <2>1 DEF BaseInv, CreationTypeOK
    <3>2. proof[p].by \in Jobs
      BY <3>1 DEF Proof
    <3> QED
      BY <1>1, <2>1, <3>2 DEF RecipeInv, ProofsNameJobs
  <2> QED
    BY <2>1 DEF ProofsNameJobs, Stored, Task
<1>5. \A c \in Creations : receipt[c] # NoReceipt => receipt[c].by \in Jobs /\ Stored(receipt[c].by)
  <2>1. ASSUME NEW c \in Creations, receipt[c] # NoReceipt
        PROVE  receipt[c].by \in Jobs /\ Stored(receipt[c].by)
    <3>1. receipt[c] \in Receipt
      BY <2>1 DEF BaseInv, CreationTypeOK
    <3> QED
      BY <2>1, <3>1 DEF RecipeInv, ReceiptsNameJobs, Receipt
  <2> QED
    BY <2>1
<1>6. ReceiptsNameJobs'
  <2>1. ASSUME NEW c \in Creations, receipt[c] # NoReceipt
        PROVE  Stored(receipt[c].by)' /\ Task(receipt[c].by)' = c
    BY <1>1, <1>5, <2>1 DEF RecipeInv, ReceiptsNameJobs
  <2> QED
    BY <2>1 DEF ReceiptsNameJobs, Stored, Task
<1>7. ASSUME NEW m \in Jobs, NEW c \in Creations, Of(m, c)', Stored(m)
      PROVE  Stage(m, c)' /\ Observations(m, c)' /\ Remains(m, c)'
  <2>1. Task(m)' = Task(m) /\ Does(m)' = Does(m)
    BY <1>1, <1>7 DEF Does
  <2>2. Of(m, c)
    BY <1>7, <2>1 DEF Of, Recipe
  <2>3. Stage(m, c) /\ Observations(m, c) /\ Remains(m, c) /\ Passes(m)
    BY <2>2 DEF RecipeInv
  <2>4. Stage(m, c)'
    <3>1. CASE work'[m] = work[m]
      BY <1>2, <2>1, <2>2, <2>3, <3>1, StageStays
    <3>2. CASE work'[m].at = "idle"
      BY <3>2, NoStage DEF Doing
    <3> QED
      BY <2>3, <3>1, <3>2 DEF Passes
  <2>5. Accomplished(m, c) => Accomplished(m, c)'
    BY <2>1, <2>2, AccomplishedStays
  <2>6. Observations(m, c)'
    BY <2>1, <2>3, <2>5 DEF Observations, Passes
  <2>7. Remains(m, c)'
    BY <1>2, <1>7, <2>3 DEF Remains, Passes
  <2> QED
    BY <2>4, <2>6, <2>7
<1>8. ASSUME NEW m \in Jobs, NEW c \in Creations, ~Stored(m)
      PROVE  Stage(m, c)' /\ Observations(m, c)' /\ Remains(m, c)'
  <2>1. work'[m].at = "idle" /\ <<m, 0>> \notin verified'
    BY <1>8, UnstoredRests DEF Passes
  <2>2. Stage(m, c)' /\ Observations(m, c)'
    BY <2>1, NoStage DEF Doing, Observations
  <2>3. Remains(m, c)'
    BY <1>5, <1>8 DEF Remains
  <2> QED
    BY <2>2, <2>3
<1>9. \A m \in Jobs, c \in Creations : Of(m, c)' => Stage(m, c)' /\ Observations(m, c)' /\ Remains(m, c)'
  BY <1>7, <1>8
<1> QED
  BY <1>3, <1>4, <1>6, <1>9 DEF RecipeInv

\* Handlers leave their marks in order, seen from one job.
Tidy(m) ==
  /\ work[m].at \in Doing \cup {"ok", "error", "canceled"} => At(m, "execute")
  /\ work[m].at \in {"confirmed", "observed"} => Reconciling(m)
  /\ At(m, "returned") => runner[m].outcome \in {"ok", "error", "canceled-safely"}

LEMMA TidyJobs ==
  /\ (\A m \in Jobs : Tidy(m)) <=> WorkIsAsked /\ OutcomesAreKnown
  /\ (\A m \in Jobs : Tidy(m)') <=> WorkIsAsked' /\ OutcomesAreKnown'
BY DEF Tidy, WorkIsAsked, OutcomesAreKnown

\* A job that stands still, or loses its goroutine and what it was doing.
LEMMA RestingJob ==
  ASSUME BaseInv, NEW m \in Jobs,
         \/ runner'[m] = runner[m] /\ work'[m] = work[m] /\ (Reconciling(m) => Reconciling(m)')
         \/ (runner'[m] = runner[m] \/ ~Live(m)') /\ work'[m].at = "idle",
         <<m, 0>> \in verified' => <<m, 0>> \in verified \/ work[m].at = "observed",
         Stored(m) /\ jobs'[m].state \in {"failed", "canceled"} => jobs[m].state \in {"failed", "canceled"}
  PROVE  Passes(m) /\ Tidy(m)'
<1>1. Tidy(m)
  BY TidyJobs DEF BaseInv
<1>2. \A pc \in {"boundary", "validate", "execute", "returned"} : At(m, pc)' => At(m, pc) /\ runner'[m] = runner[m]
  BY DEF At, Live
<1>3. Tidy(m)'
  BY <1>1, <1>2 DEF Tidy, At, Doing
<1>4. Stored(m) /\ Abandoned(m)' => Abandoned(m)
  BY <1>2 DEF Abandoned, At
<1> QED
  BY <1>2, <1>3, <1>4 DEF Passes

\* The other jobs while the engine moves job j.
LEMMA OthersPass ==
  ASSUME BaseInv, NEW j \in Jobs, request' = request \/ MutexFree,
         \A m \in Jobs : m # j =>
           /\ runner'[m] = runner[m] /\ work'[m] = work[m]
           /\ <<m, 0>> \in verified' => <<m, 0>> \in verified
           /\ jobs'[m].state = jobs[m].state \/ jobs'[m].state = "partial"
  PROVE  \A m \in Jobs : m # j => Passes(m) /\ Tidy(m)'
<1>1. ASSUME NEW m \in Jobs, m # j
      PROVE  Passes(m) /\ Tidy(m)'
  <2>1. Reconciling(m) => Reconciling(m)'
    BY <1>1 DEF Reconciling, At, MutexFree
  <2> QED
    BY <1>1, <2>1, RestingJob
<1> QED
  BY <1>1

\* A goroutine between the calls of its handler is doing nothing else.
LEMMA BetweenCalls ==
  ASSUME BaseInv, NEW j \in Jobs, Live(j), ~At(j, "execute"), ~At(j, "reconcile")
  PROVE  work[j].at = "idle" /\ ~Reconciling(j)
<1>1. RequestIsCurrent /\ RunnersHold
  BY DEF BaseInv, AcceptanceInv, DoubtInv, OwnershipInv, Ownership
<1>2. ~Reconciling(j)
  BY <1>1 DEF Reconciling, RequestIsCurrent, RunnersHold, Active
<1>3. work[j] \in Work
  BY DEF BaseInv, CreationTypeOK
<1>4. work[j].at \notin Doing \cup {"ok", "error", "canceled", "confirmed", "observed"}
  BY <1>2 DEF BaseInv, WorkIsAsked
<1> QED
  BY <1>2, <1>3, <1>4 DEF Work

\* Where a goroutine may go from a place between the calls.
LEMMA MovedJob ==
  ASSUME BaseInv, NEW j \in Jobs, Live(j), ~At(j, "execute"), ~At(j, "reconcile"), work'[j] = work[j],
         <<j, 0>> \in verified' => <<j, 0>> \in verified, ~At(j, "returned")',
         \/ At(j, "boundary") \/ At(j, "validate")
         \/ /\ ~At(j, "boundary")' /\ ~At(j, "validate")'
            /\ jobs'[j].state \in {"failed", "canceled"} => Abandoned(j)
  PROVE  Passes(j) /\ Tidy(j)'
<1>1. work[j].at = "idle" /\ work'[j].at = "idle"
  BY BetweenCalls
<1>2. Tidy(j)'
  BY <1>1 DEF Tidy, Doing
<1>3. Abandoned(j)' => Abandoned(j) \/ At(j, "boundary") \/ At(j, "validate")
  BY <1>1 DEF Abandoned
<1> QED
  BY <1>1, <1>2, <1>3 DEF Passes

\* What the steps of a goroutine do to other jobs, and to its own row.
LEMMA RunnerMoves ==
  ASSUME BaseInv, NEW j \in Jobs,
         \/ Boundary(j) \/ ValidateFails(j) \/ RecordIntent(j) \/ ExecuteFailed(j) \/ StartVerifying(j)
         \/ Finish(j) \/ StepNotVerified(j)
  PROVE  /\ Live(j) /\ UNCHANGED <<request, verified>>
         /\ \A m \in Jobs : m # j => runner'[m] = runner[m] /\ jobs'[m] = jobs[m]
<1>1. TypeOK
  BY DEF BaseInv, AcceptanceInv, DoubtInv, OwnershipInv
<1>2. Live(j) /\ UNCHANGED <<request, verified>>
  BY DEF Boundary, ValidateFails, RecordIntent, ExecuteFailed, StartVerifying, Finish, StepNotVerified, At, Live,
         observed
<1>3. \E row : Update(j, row) /\ (\E x : runner' = [runner EXCEPT ![j] = x])
  <2>1. CASE Boundary(j)
    BY <2>1 DEF Boundary, Return, Continue
  <2>2. CASE ValidateFails(j) \/ ExecuteFailed(j) \/ Finish(j) \/ StepNotVerified(j)
    BY <2>2 DEF ValidateFails, ExecuteFailed, Finish, StepNotVerified, Return
  <2>3. CASE RecordIntent(j) \/ StartVerifying(j)
    BY <2>3 DEF RecordIntent, StartVerifying, Continue
  <2> QED
    BY <2>1, <2>2, <2>3
<1>4. \A m \in Jobs : m # j => runner'[m] = runner[m] /\ jobs'[m] = jobs[m]
  BY <1>1, <1>3 DEF Update, TypeOK, JournalTypeOK
<1> QED
  BY <1>2, <1>4

LEMMA ReturnsWith ==
  ASSUME BaseInv, NEW j \in Jobs, Live(j), NEW state \in JobState, Return(j, Copy(j, state))
  PROVE  jobs'[j].state = state /\ ~Live(j)'
<1>1. TypeOK /\ runner[j].row.planID = jobs[j].planID
  BY DEF BaseInv, AcceptanceInv, DoubtInv, OwnershipInv, Ownership, RunnersHold
<1>2. Copy(j, state) \in Row /\ Copy(j, state).planID = jobs[j].planID /\ Copy(j, state).state = state
  BY <1>1, CopyFields
<1>3. jobs'[j].state = state
  BY <1>1, <1>2, UpdateEffect DEF Return
<1>4. ~Live(j)'
  BY <1>1 DEF Return, Live, Idle, TypeOK
<1> QED
  BY <1>3, <1>4

LEMMA ContinuesWith ==
  ASSUME BaseInv, NEW j \in Jobs, Live(j), NEW state \in JobState,
         NEW pc \in {"validate", "execute", "reconcile"}, Continue(j, Copy(j, state), pc)
  PROVE  jobs'[j].state = state /\ At(j, pc)'
<1>1. TypeOK /\ runner[j].row.planID = jobs[j].planID
  BY DEF BaseInv, AcceptanceInv, DoubtInv, OwnershipInv, Ownership, RunnersHold
<1>2. Copy(j, state) \in Row /\ Copy(j, state).planID = jobs[j].planID /\ Copy(j, state).state = state
  BY <1>1, CopyFields
<1>3. jobs'[j].state = state
  BY <1>1, <1>2, UpdateEffect DEF Continue
<1>4. At(j, pc)'
  <2>1. runner[j] \in RunnerState
    BY <1>1, RunnerOfLive
  <2>2. runner'[j].pc = pc
    BY <1>1, <2>1 DEF Continue, TypeOK, RunnerState
  <2> QED
    BY <2>2 DEF At
<1> QED
  BY <1>3, <1>4

\* Only an attempt that its handler canceled safely ends as canceled.
LEMMA FailedPasses ==
  ASSUME BaseInv, NEW j \in Jobs, ExecuteFailed(j), work' = work
  PROVE  Passes(j) /\ Tidy(j)'
<1>1. Live(j) /\ UNCHANGED verified /\ At(j, "returned")
  BY RunnerMoves DEF ExecuteFailed
<1>2. AfterError(j) \in JobState
  BY StatesOfJobs
<1>3. jobs'[j].state = AfterError(j) /\ ~Live(j)'
  BY <1>1, <1>2, ReturnsWith DEF ExecuteFailed
<1>4. runner[j].outcome \in {"ok", "error", "canceled-safely"}
  BY <1>1 DEF BaseInv, OutcomesAreKnown
<1>5. AfterError(j) \in {"failed", "canceled"} => Abandoned(j)
  BY <1>1, <1>4 DEF AfterError, Abandoned
<1> QED
  BY <1>1, <1>3, <1>5, MovedJob DEF At, Live

LEMMA MovePasses ==
  ASSUME BaseInv, NEW j \in Jobs, work' = work,
         \/ Boundary(j) \/ ValidateFails(j) \/ RecordIntent(j) \/ StartVerifying(j) \/ Finish(j)
  PROVE  Passes(j) /\ Tidy(j)'
<1>1. Live(j) /\ UNCHANGED verified
  BY RunnerMoves
<1>2. TypeOK
  BY DEF BaseInv, AcceptanceInv, DoubtInv, OwnershipInv
<1>3. CASE Boundary(j)
  <2>1. At(j, "boundary")
    BY <1>3 DEF Boundary
  <2>2. PICK row : runner' = [runner EXCEPT ![j] = Idle] \/ Continue(j, row, "validate")
    BY <1>3 DEF Boundary, Return
  <2>3. runner'[j].pc \in {"idle", "validate"}
    <3>1. CASE runner' = [runner EXCEPT ![j] = Idle]
      BY <1>2, <3>1 DEF TypeOK, Idle
    <3>2. CASE Continue(j, row, "validate")
      <4>1. runner[j] \in RunnerState
        BY <1>1, <1>2, RunnerOfLive
      <4> QED
        BY <1>2, <3>2, <4>1 DEF Continue, TypeOK, RunnerState
    <3> QED
      BY <2>2, <3>1, <3>2
  <2> QED
    BY <1>1, <2>1, <2>3, MovedJob DEF At
<1>4. CASE ValidateFails(j)
  <2>1. ~Live(j)'
    BY <1>2, <1>4 DEF ValidateFails, Return, TypeOK, Live, Idle
  <2> QED
    BY <1>1, <1>4, <2>1, MovedJob DEF At, Live, ValidateFails
<1>5. CASE RecordIntent(j)
  <2>1. At(j, "execute")'
    BY <1>1, <1>5, ContinuesWith, StatesOfJobs DEF RecordIntent
  <2> QED
    BY <1>1, <1>5, <2>1, MovedJob DEF At, RecordIntent
<1>6. CASE StartVerifying(j)
  <2>1. At(j, "reconcile")' /\ jobs'[j].state = "verifying"
    BY <1>1, <1>6, ContinuesWith, StatesOfJobs DEF StartVerifying
  <2> QED
    BY <1>1, <1>6, <2>1, MovedJob DEF At, StartVerifying
<1>7. CASE Finish(j)
  <2>1. ~Live(j)' /\ jobs'[j].state = "succeeded"
    BY <1>1, <1>7, ReturnsWith, StatesOfJobs DEF Finish
  <2> QED
    BY <1>1, <1>7, <2>1, MovedJob DEF At, Live, Finish
<1> QED
  BY <1>3, <1>4, <1>5, <1>6, <1>7

\* What Reconcile answers ends the only step of the plan, or the attempt.
LEMMA AnswerPasses ==
  ASSUME BaseInv, NEW j \in Jobs, work' = [work EXCEPT ![j] = Idly],
         StepNotVerified(j) \/ (work[j].at = "observed" /\ StepVerified(j))
  PROVE  \A m \in Jobs : Passes(m) /\ Tidy(m)'
<1>1. TypeOK /\ Ownership /\ Progress
  BY DEF BaseInv, AcceptanceInv, DoubtInv, OwnershipInv
<1>2. At(j, "reconcile") /\ Live(j) /\ UNCHANGED request
  BY DEF StepNotVerified, StepVerified, At, Live
<1>3. work'[j].at = "idle" /\ \A m \in Jobs : m # j => work'[m] = work[m]
  BY DEF Idly, BaseInv, CreationTypeOK
<1>4. CASE StepNotVerified(j)
  <2>1. ~Live(j)' /\ jobs'[j].state = "recovery-required" /\ UNCHANGED verified
        /\ \A m \in Jobs : m # j => runner'[m] = runner[m] /\ jobs'[m] = jobs[m]
    BY <1>2, <1>4, RunnerMoves, ReturnsWith, StatesOfJobs DEF StepNotVerified
  <2>2. Passes(j) /\ Tidy(j)'
    BY <1>3, <2>1, RestingJob
  <2>3. \A m \in Jobs : m # j => Passes(m) /\ Tidy(m)'
    BY <1>2, <1>3, <2>1, OthersPass
  <2> QED
    BY <2>2, <2>3
<1>5. CASE work[j].at = "observed" /\ StepVerified(j)
  <2>1. Stored(j) /\ runner[j].i \in Nat /\ runner[j].i <= LastStep(j)
    BY <1>1, <1>2, LiveFacts DEF RunnerProgress
  <2>2. LastStep(j) = 0
    BY <2>1, RecipeFacts, CreationPlans DEF LastStep, Task
  <2>3. runner[j].i = 0
    BY <2>1, <2>2
  <2>4. /\ runner' = [runner EXCEPT ![j].pc = "finish"] /\ UNCHANGED jobs
        /\ verified' = verified \cup {<<j, 0>>}
    BY <1>5, <2>2, <2>3 DEF StepVerified, journal
  <2>5. runner[j] \in RunnerState
    BY <1>1, <1>2, RunnerOfLive
  <2>6. runner'[j].pc = "finish" /\ \A m \in Jobs : m # j => runner'[m] = runner[m]
    BY <1>1, <2>4, <2>5 DEF TypeOK, RunnerState
  <2>7. \A m \in Jobs : m # j => Passes(m) /\ Tidy(m)'
    BY <1>2, <1>3, <2>4, <2>6, OthersPass
  <2>8. Tidy(j)'
    BY <1>3, <2>6 DEF Tidy, At, Doing
  <2>9. Passes(j)
    BY <1>3, <1>5, <2>4, <2>6 DEF Passes, Abandoned, At, Stored
  <2> QED
    BY <2>7, <2>8, <2>9
<1> QED
  BY <1>4, <1>5

\* A request reads a row while nobody holds the mutex, and a restart marks one.
LEMMA ReadPasses ==
  ASSUME BaseInv, NEW j \in Jobs, work' = work, CancelRead(j) \/ ReconcileRead(j) \/ Recover(j)
  PROVE  \A m \in Jobs : Passes(m) /\ Tidy(m)'
<1>1. TypeOK
  BY DEF BaseInv, AcceptanceInv, DoubtInv, OwnershipInv
<1>2. UNCHANGED <<runner, verified>> /\ (request' = request \/ MutexFree)
  BY DEF CancelRead, ReconcileRead, Recover, volatile, observed
<1>3. \A m \in Jobs : jobs'[m] = jobs[m] \/ jobs'[m].state = "recovery-required"
  <2>1. CASE CancelRead(j) \/ ReconcileRead(j)
    BY <2>1 DEF CancelRead, ReconcileRead, journal
  <2>2. CASE Recover(j)
    <3>1. PICK row : row = [jobs[j] EXCEPT !.state = "recovery-required"]
      OBVIOUS
    <3>2. jobs[j] \in Row
      BY <1>1, <2>2, RowOfStored DEF Recover, Interrupted, TypeOK
    <3>3. row \in Row /\ row.planID = jobs[j].planID /\ row.state = "recovery-required"
      BY <3>1, <3>2, RowWithState, StatesOfJobs DEF Row
    <3>4. Update(j, row)
      BY <2>2, <3>1 DEF Recover
    <3> QED
      BY <1>1, <3>3, <3>4, UpdateEffect
  <2> QED
    BY <2>1, <2>2
<1>4. ASSUME NEW m \in Jobs
      PROVE  Passes(m) /\ Tidy(m)'
  <2>1. Reconciling(m) => Reconciling(m)'
    BY <1>2 DEF Reconciling, At, MutexFree
  <2>2. jobs'[m].state \in {"failed", "canceled"} => jobs[m].state \in {"failed", "canceled"}
    BY <1>3
  <2> QED
    BY <1>2, <2>1, <2>2, RestingJob
<1> QED
  BY <1>4

\* An accepted job begins with nothing done; its parent, if any, is over.
LEMMA ApplyPasses ==
  ASSUME BaseInv, NEW j \in Jobs, NEW k \in Keys, ApplySteps(j, k), work' = work
  PROVE  \A m \in Jobs : Passes(m) /\ Tidy(m)'
<1>1. TypeOK
  BY DEF BaseInv, AcceptanceInv, DoubtInv, OwnershipInv
<1>2. PICK p \in Plans, c \in Jobs \cup {NoJob} :
        \/ Apply(j, k, p) /\ c = NoJob
        \/ ApplyRecovery(j, k, p, c) /\ c \in Jobs
  BY PlanKinds DEF ApplySteps, Creations
<1>3. PICK q : q = [by |-> Author[p], planID |-> p, parent |-> c]
  OBVIOUS
<1>4. q \in Request /\ q.planID = p /\ q.parent = c
  BY <1>3, PlansAreComplete DEF Request
<1>5. (Accept(j, k, q) /\ c = NoJob) \/ (AcceptRecovery(j, k, q) /\ c = q.parent /\ c \in Jobs)
  <2>1. CASE Apply(j, k, p) /\ c = NoJob
    BY <1>3, <2>1 DEF Apply
  <2>2. CASE ApplyRecovery(j, k, p, c) /\ c \in Jobs
    BY <1>3, <1>4, <2>2 DEF ApplyRecovery
  <2> QED
    BY <1>2, <2>1, <2>2
<1>6. /\ ~Stored(j) /\ \A m \in Jobs \ {j, c} : jobs'[m] = jobs[m]
      /\ c \in Jobs => jobs'[c].state = "partial"
  BY <1>1, <1>4, <1>5, StartEffect
<1>7. UNCHANGED <<request, verified>> /\ \E row : Start(j, row)
  BY <1>2 DEF Apply, ApplyRecovery, observed
<1>8. runner'[j].pc = "boundary" /\ \A m \in Jobs : m # j => runner'[m] = runner[m]
  BY <1>1, <1>7 DEF Start, TypeOK, Idle
<1>9. \A m \in Jobs : m # j => Passes(m) /\ Tidy(m)'
  <2>1. \A m \in Jobs : m # j => jobs'[m].state = jobs[m].state \/ jobs'[m].state = "partial"
    BY <1>6
  <2> QED
    BY <1>7, <1>8, <2>1, OthersPass
<1>10. work[j].at = "idle"
  BY <1>6, UnstoredRests
<1>11. Passes(j)
  BY <1>6, <1>7 DEF Passes
<1>12. Tidy(j)'
  BY <1>8, <1>10 DEF Tidy, At, Doing
<1> QED
  BY <1>9, <1>11, <1>12

LEMMA EnginePasses ==
  ASSUME BaseInv, NEW j \in Jobs, EngineSteps(j) PROVE \A m \in Jobs : Passes(m) /\ Tidy(m)'
<1>1. CASE (\E k \in Keys : ApplySteps(j, k)) /\ UNCHANGED work
  BY <1>1, ApplyPasses
<1>2. CASE (CancelRead(j) \/ ReconcileRead(j) \/ Recover(j)) /\ UNCHANGED work
  BY <1>2, ReadPasses
<1>3. CASE /\ Boundary(j) \/ ValidateFails(j) \/ RecordIntent(j) \/ StartVerifying(j) \/ Finish(j) \/ ExecuteFailed(j)
           /\ UNCHANGED work
  <2>1. /\ UNCHANGED <<request, verified>>
        /\ \A m \in Jobs : m # j => runner'[m] = runner[m] /\ jobs'[m] = jobs[m]
    BY <1>3, RunnerMoves
  <2>2. \A m \in Jobs : m # j => Passes(m) /\ Tidy(m)'
    BY <1>3, <2>1, OthersPass
  <2>3. Passes(j) /\ Tidy(j)'
    BY <1>3, MovePasses, FailedPasses
  <2> QED
    BY <2>2, <2>3
<1>4. CASE /\ (work[j].at = "observed" /\ StepVerified(j)) \/ StepNotVerified(j)
           /\ work' = [work EXCEPT ![j] = Idly]
  BY <1>4, AnswerPasses
<1> QED
  BY <1>1, <1>2, <1>3, <1>4 DEF EngineSteps

\* Requests are answered, and the process dies and comes back.
LEMMA ProcessPasses ==
  ASSUME BaseInv, ProcessSteps PROVE \A m \in Jobs : Passes(m) /\ Tidy(m)'
<1>1. TypeOK /\ RequestIsCurrent /\ RequestProgress
  BY DEF BaseInv, AcceptanceInv, DoubtInv, OwnershipInv, Ownership, Progress
<1>2. CASE (CancelWrite \/ ReconcileSettle) /\ UNCHANGED work
  <2>1. /\ ~MutexFree /\ Update(request.job, request.row) /\ UNCHANGED <<runner, verified>>
        /\ request.op \in {"cancel", "settle"}
    BY <1>2 DEF CancelWrite, ReconcileSettle, observed
  <2>2. request \in RequestState
    BY <1>1, <2>1 DEF MutexFree, TypeOK
  <2>3. /\ request.job \in Jobs /\ request.row \in Row /\ request.row.planID = jobs[request.job].planID
        /\ request.row.state \in Active \cup {"succeeded"}
    BY <1>1, <2>1, <2>2 DEF RequestState, RequestIsCurrent
  <2>4. \A m \in Jobs : jobs'[m] = jobs[m] \/ jobs'[m].state \in Active \cup {"succeeded"}
    BY <1>1, <2>1, <2>3, UpdateEffect
  <2>5. ASSUME NEW m \in Jobs
        PROVE  Passes(m) /\ Tidy(m)'
    <3>1. Reconciling(m) => Reconciling(m)'
      BY <2>1 DEF Reconciling, At
    <3>2. jobs'[m].state \in {"failed", "canceled"} => jobs[m].state \in {"failed", "canceled"}
      BY <2>4 DEF Active
    <3> QED
      BY <1>2, <2>1, <3>1, <3>2, RestingJob
  <2> QED
    BY <2>5
<1>3. CASE (Open \/ Serve) /\ UNCHANGED work
  <2>1. UNCHANGED <<runner, request, verified, jobs>>
    BY <1>3 DEF Open, Serve, volatile, observed, journal
  <2>2. \A m \in Jobs : Reconciling(m) => Reconciling(m)'
    BY <2>1 DEF Reconciling, At, MutexFree
  <2> QED
    BY <1>3, <2>1, <2>2, RestingJob
<1>4. CASE Crash /\ work' = [j \in Jobs |-> Idly]
  <2>1. UNCHANGED <<verified, jobs>>
    BY <1>4 DEF Crash, observed, journal
  <2>2. \A m \in Jobs : ~Live(m)' /\ work'[m].at = "idle"
    BY <1>4 DEF Crash, Live, Idle, Idly
  <2> QED
    BY <2>1, <2>2, RestingJob
<1>5. CASE /\ ~MutexFree
           /\ (work[request.job].at = "observed" /\ ReconcileObserve) \/ RequestFails
           /\ work' = IF request.op = "reconcile" THEN [work EXCEPT ![request.job] = Idly] ELSE work
  <2>1. UNCHANGED <<runner, jobs>>
    BY <1>5 DEF ReconcileObserve, RequestFails, journal
  <2>2. request \in RequestState
    BY <1>1, <1>5 DEF MutexFree, TypeOK
  <2>3. request.job \in Jobs
    BY <2>2 DEF RequestState
  <2>4. ASSUME NEW m \in Jobs, m # request.job \/ request.op # "reconcile"
        PROVE  work'[m] = work[m] /\ (Reconciling(m) => Reconciling(m)')
    <3>1. work'[m] = work[m]
      BY <1>5, <2>3, <2>4 DEF BaseInv, CreationTypeOK
    <3>2. Reconciling(m) => Reconciling(m)'
      BY <2>1, <2>4 DEF Reconciling, At
    <3> QED
      BY <3>1, <3>2
  <2>5. ASSUME NEW m \in Jobs, m = request.job, request.op = "reconcile"
        PROVE  work'[m].at = "idle"
    BY <1>5, <2>5 DEF Idly, BaseInv, CreationTypeOK
  <2>6. \A m \in Jobs : <<m, 0>> \in verified' => <<m, 0>> \in verified \/ work[m].at = "observed"
    BY <1>5 DEF ReconcileObserve, RequestFails, observed
  <2> QED
    BY <2>1, <2>4, <2>5, <2>6, RestingJob
<1> QED
  BY <1>2, <1>3, <1>4, <1>5 DEF ProcessSteps

\* Execute returns with the outcome its handler has come to.
LEMMA ReturnPasses ==
  ASSUME BaseInv, NEW j \in Jobs, ExecuteReturns(j) PROVE \A m \in Jobs : Passes(m) /\ Tidy(m)'
<1>1. TypeOK
  BY DEF BaseInv, AcceptanceInv, DoubtInv, OwnershipInv
<1>2. PICK outcome \in {"ok", "error", "canceled-safely"} :
        Execute(j, outcome) /\ (outcome = "canceled-safely" => work[j].at = "canceled")
  BY DEF ExecuteReturns
<1>3. /\ runner' = [runner EXCEPT ![j].pc = "returned", ![j].outcome = outcome]
      /\ At(j, "execute") /\ UNCHANGED <<request, verified, jobs>>
  BY <1>2 DEF Execute, journal
<1>4. runner[j] \in RunnerState
  BY <1>1, <1>3, RunnerOfLive DEF At, Live
<1>5. /\ runner'[j].pc = "returned" /\ runner'[j].outcome = outcome
      /\ \A m \in Jobs : m # j => runner'[m] = runner[m]
  BY <1>1, <1>3, <1>4 DEF TypeOK, RunnerState
<1>6. work'[j].at = "idle" /\ \A m \in Jobs : m # j => work'[m] = work[m]
  BY DEF ExecuteReturns, Idly, BaseInv, CreationTypeOK
<1>7. \A m \in Jobs : m # j => Passes(m) /\ Tidy(m)'
  BY <1>3, <1>5, <1>6, OthersPass
<1>8. Tidy(j)'
  BY <1>5, <1>6 DEF Tidy, At, Doing
<1>9. Passes(j)
  BY <1>2, <1>3, <1>5, <1>6 DEF Passes, Abandoned, At, Stored
<1> QED
  BY <1>7, <1>8, <1>9

-----------------------------------------------------------------------------
(* The types are kept.                                                       *)

RecordsTyped ==
  /\ receipt \in [Creations -> Receipt \cup {NoReceipt}]
  /\ proof \in [Plans -> Proof \cup {NoProof}]
  /\ disposition \in [Creations -> Disposition \cup {NoDisposition}]
  /\ ownership \in [Creations -> Owner \cup {NoOwner}]
  /\ handed \in Creations \cup {NoPlan}

ReviewTyped == review \in [Plans -> Review \cup {Unplanned}]

HostTyped ==
  /\ prepared \in [Vols -> {"intact", "released", "removed"}]
  /\ volume \in [Creations -> [Vols -> {"absent", "partial", "full"}]]
  /\ vm \in [Creations -> {"absent", "exact", "drifted"}]

WorkTyped == work \in [Jobs -> Work]

LEMMA TypeParts ==
  /\ CreationTypeOK <=> TypeOK /\ RecordsTyped /\ ReviewTyped /\ HostTyped /\ WorkTyped
  /\ CreationTypeOK' <=> TypeOK' /\ RecordsTyped' /\ ReviewTyped' /\ HostTyped' /\ WorkTyped'
BY DEF CreationTypeOK, RecordsTyped, ReviewTyped, HostTyped, WorkTyped

LEMMA SameRecords == ASSUME RecordsTyped, UNCHANGED records PROVE RecordsTyped'
BY DEF RecordsTyped, records

LEMMA SameHost == ASSUME HostTyped, UNCHANGED host PROVE HostTyped'
BY DEF HostTyped, host

Marks == Doing \cup {"idle", "ok", "error", "canceled", "confirmed", "observed"}

LEMMA MoveTyped ==
  ASSUME WorkTyped, NEW j \in Jobs, NEW at \in Marks,
         Go(j, at) \/ First(j, at) \/ (GoNext(j, at) /\ work[j].i <= N)
  PROVE  WorkTyped'
<1>1. work[j] \in Work /\ work[j].i \in 0..(N + 1) /\ N \in Nat \ {0}
  BY CreationPlans DEF WorkTyped, Work
<1>2. CASE Go(j, at)
  <2>1. [work[j] EXCEPT !.at = at] \in Work
    BY <1>1 DEF Work, Marks
  <2> QED
    BY <1>2, <2>1 DEF Go, WorkTyped
<1>3. ASSUME NEW i \in 0..(N + 1), work' = [work EXCEPT ![j] = [at |-> at, i |-> i]]
      PROVE  WorkTyped'
  <2>1. [at |-> at, i |-> i] \in Work
    BY DEF Work, Marks
  <2> QED
    BY <1>3, <2>1 DEF WorkTyped
<1>4. CASE First(j, at)
  <2>1. 1 \in 0..(N + 1)
    BY <1>1
  <2> QED
    BY <1>3, <1>4, <2>1 DEF First
<1>5. CASE GoNext(j, at) /\ work[j].i <= N
  <2>1. work[j].i + 1 \in 0..(N + 1)
    BY <1>1, <1>5
  <2> QED
    BY <1>3, <1>5, <2>1 DEF GoNext
<1> QED
  BY <1>2, <1>4, <1>5

LEMMA IdleTyped == ASSUME WorkTyped, NEW j \in Jobs, work' = [work EXCEPT ![j] = Idly] PROVE WorkTyped'
<1>1. Idly \in Work
  BY CreationPlans DEF Idly, Work
<1> QED
  BY <1>1 DEF WorkTyped

LEMMA ReceiptTyped ==
  ASSUME RecordsTyped, NEW j \in Jobs, NEW c \in Creations, c = RecipeOf(j), NEW r \in Receipt, SaveReceipt(j, r)
  PROVE  RecordsTyped'
BY DEF SaveReceipt, RecordsTyped

LEMMA ProofTyped ==
  ASSUME RecordsTyped, NEW j \in Jobs, NEW intents \in SUBSET Vols, SaveProof(j, intents)
  PROVE  RecordsTyped'
<1>1. [by |-> j, intents |-> intents] \in Proof
  BY DEF Proof
<1> QED
  BY <1>1 DEF SaveProof, RecordsTyped

LEMMA DisposalTyped ==
  ASSUME RecordsTyped, NEW p \in Plans, Dispose(p), DispositionOf(p) \in Disposition
  PROVE  RecordsTyped'
BY DEF Dispose, RecordsTyped

LEMMA OwnTyped ==
  ASSUME RecordsTyped, NEW c \in Creations, NEW owner \in Owner, Own(c, owner)
  PROVE  RecordsTyped'
BY DEF Own, RecordsTyped

LEMMA ActTyped ==
  ASSUME BaseInv, NEW j \in Jobs
  PROVE  /\ TypeOK /\ RecordsTyped /\ ReviewTyped /\ HostTyped /\ WorkTyped
         /\ \A c \in Creations : receipt[c] # NoReceipt => receipt[c] \in Receipt
         /\ \A p \in Plans : proof[p] # NoProof => proof[p] \in Proof
         /\ At(j, "execute") => PlanOf(j) \in Plans /\ RecipeOf(j) \in Creations /\ RecipeOf(j) = Recipe(Task(j))
<1>1. TypeOK /\ RecordsTyped /\ ReviewTyped /\ HostTyped /\ WorkTyped
  BY TypeParts DEF BaseInv
<1>2. \A c \in Creations : receipt[c] # NoReceipt => receipt[c] \in Receipt
  BY <1>1 DEF RecordsTyped
<1>3. \A p \in Plans : proof[p] # NoProof => proof[p] \in Proof
  BY <1>1 DEF RecordsTyped
<1> QED
  BY <1>1, <1>2, <1>3, ActFacts

LEMMA HandlerWork ==
  ASSUME BaseInv, RecipeInv, NEW j \in Jobs, HandlerSteps(j) PROVE WorkTyped'
<1>1. WorkTyped
  BY ActTyped
<1>2. CASE ExecuteReturns(j)
  BY <1>1, <1>2, IdleTyped DEF ExecuteReturns
<1>3. CASE Begin(j)
  <2>1. First(j, "volume") \/ First(j, "dispose") \/ First(j, "verify")
    BY <1>3 DEF Begin
  <2> QED
    BY <1>1, <2>1, MoveTyped DEF Marks, Doing
<1>4. CASE CancelSeen(j) \/ WorkFails(j)
  <2>1. Go(j, "error") \/ Go(j, "canceled")
    BY <1>4 DEF CancelSeen, WorkFails
  <2> QED
    BY <1>1, <2>1, MoveTyped DEF Marks
<1>5. CASE AllocateVolume(j) \/ RecordAllocation(j) \/ HandOver(j) \/ PopulateVolume(j)
  <2>1. \E at \in {"allocated", "recorded", "error", "upload", "uploaded"} : Go(j, at)
    BY <1>5 DEF AllocateVolume, RecordAllocation, HandOver, PopulateVolume
  <2> QED
    BY <1>1, <2>1, MoveTyped DEF Marks, Doing
<1>6. CASE VerifyCreatedVolume(j)
  <2>1. In(j, "uploaded") /\ GoNext(j, "volume")
    BY <1>6 DEF VerifyCreatedVolume
  <2>2. work[j].i <= N
    BY <2>1, FillFacts, ActFacts DEF In, Filling, Uploading
  <2> QED
    BY <1>1, <2>1, <2>2, MoveTyped DEF Marks, Doing
<1>7. CASE VolumesVerified(j) \/ ProveVerified(j) \/ DefineCreatedVM(j) \/ ObserveCreatedVM(j)
  <2>1. \E at \in {"define", "ok", "defined"} : Go(j, at)
    BY <1>7 DEF VolumesVerified, ProveVerified, DefineCreatedVM, ObserveCreatedVM
  <2> QED
    BY <1>1, <2>1, MoveTyped DEF Marks, Doing
<1>8. CASE VerifyRetained(j)
  <2>1. GoNext(j, "verify") /\ work[j].i <= N
    BY <1>8 DEF VerifyRetained
  <2> QED
    BY <1>1, <2>1, MoveTyped DEF Marks, Doing
<1>9. CASE IntendDeletion(j)
  <2>1. (GoNext(j, "dispose") \/ Go(j, "delete")) /\ work[j].i <= N
    BY <1>9 DEF IntendDeletion
  <2> QED
    BY <1>1, <2>1, MoveTyped DEF Marks, Doing
<1>10. CASE ConfirmAbsent(j)
  <2>1. In(j, "deleted") /\ GoNext(j, "dispose")
    BY <1>10 DEF ConfirmAbsent
  <2>2. work[j].i <= N
    BY <2>1, CleanupFacts, ActFacts DEF In
  <2> QED
    BY <1>1, <2>1, <2>2, MoveTyped DEF Marks, Doing
<1>11. CASE \/ DeleteCreationVolume(j) \/ CommitDisposition(j) \/ ConfirmDefinition(j) \/ RecordOwnership(j)
            \/ ReconcileAcceptance(j) \/ ReconcileCleanup(j)
  <2>1. \E at \in {"deleted", "ok", "confirmed", "observed"} : Go(j, at)
    BY <1>11 DEF DeleteCreationVolume, CommitDisposition, ConfirmDefinition, RecordOwnership,
       ReconcileAcceptance, ReconcileCleanup
  <2> QED
    BY <1>1, <2>1, MoveTyped DEF Marks, Doing
<1> QED
  BY <1>2, <1>3, <1>4, <1>5, <1>6, <1>7, <1>8, <1>9, <1>10, <1>11 DEF HandlerSteps

LEMMA VolumeTyped ==
  ASSUME HostTyped, NEW c \in Creations, NEW i \in Vols, NEW x \in {"absent", "partial", "full"},
         volume' = [volume EXCEPT ![c][i] = x], UNCHANGED <<prepared, vm>>
  PROVE  HostTyped'
<1>1. [volume[c] EXCEPT ![i] = x] \in [Vols -> {"absent", "partial", "full"}]
  BY DEF HostTyped
<1> QED
  BY <1>1 DEF HostTyped

LEMMA HandlerHost ==
  ASSUME BaseInv, RecipeInv, NEW j \in Jobs, HandlerSteps(j) PROVE HostTyped'
<1>1. HostTyped
  BY ActTyped
<1>2. CASE AllocateVolume(j)
  <2>1. PICK c \in Creations, i \in Vols : c = RecipeOf(j) /\ i = work[j].i
    <3>1. In(j, "volume") /\ work[j].i <= N
      BY <1>2 DEF AllocateVolume
    <3>2. work[j].i \in 1..(N + 1) /\ N \in Nat
      BY <3>1, FillFacts, ActFacts, CreationPlans DEF In, Filling, Allocating
    <3> QED
      BY <3>1, <3>2, ActTyped DEF In, Vols
  <2> QED
    BY <1>1, <1>2, <2>1, VolumeTyped DEF AllocateVolume
<1>3. CASE PopulateVolume(j)
  <2>1. PICK c \in Creations, i \in Vols : c = RecipeOf(j) /\ i = work[j].i
    <3>1. In(j, "upload")
      BY <1>3 DEF PopulateVolume
    <3>2. work[j].i \in 1..(N + 1) /\ work[j].i <= N /\ N \in Nat
      BY <3>1, FillFacts, ActFacts, CreationPlans DEF In, Filling, Uploading
    <3> QED
      BY <3>1, <3>2, ActTyped DEF In, Vols
  <2>2. volume' = [volume EXCEPT ![c][i] = "full"] \/ volume' = volume
    BY <1>3, <2>1 DEF PopulateVolume
  <2>3. prepared' = [prepared EXCEPT ![i] = "released"] \/ prepared' = prepared
    BY <1>3, <2>1 DEF PopulateVolume
  <2>4. vm' = vm
    BY <1>3 DEF PopulateVolume
  <2>5. volume' \in [Creations -> [Vols -> {"absent", "partial", "full"}]]
    <3>1. [volume[c] EXCEPT ![i] = "full"] \in [Vols -> {"absent", "partial", "full"}]
      BY <1>1 DEF HostTyped
    <3> QED
      BY <1>1, <2>2, <3>1 DEF HostTyped
  <2>6. prepared' \in [Vols -> {"intact", "released", "removed"}]
    BY <1>1, <2>3 DEF HostTyped
  <2> QED
    BY <1>1, <2>4, <2>5, <2>6 DEF HostTyped
<1>4. CASE DeleteCreationVolume(j)
  <2>1. In(j, "delete")
    BY <1>4 DEF DeleteCreationVolume
  <2>2. PICK c \in Creations : c = Recipe(Task(j)) /\ Of(j, c)
    BY <2>1, ActFacts DEF In
  <2>3. review[PlanOf(j)].of = c /\ work[j].i \in 1..(N + 1) /\ work[j].i <= N /\ N \in Nat
    BY <2>1, <2>2, CleanupFacts DEF In
  <2>4. work[j].i \in Vols
    BY <2>3 DEF Vols
  <2> QED
    BY <1>1, <1>4, <2>3, <2>4, VolumeTyped DEF DeleteCreationVolume
<1>5. CASE DefineCreatedVM(j)
  <2>1. PICK c \in Creations : c = Recipe(PlanOf(j))
    BY <1>5, ActTyped DEF DefineCreatedVM, In, RecipeOf
  <2>2. PICK kind \in {"exact", "drifted"} : vm' = [vm EXCEPT ![c] = kind]
    BY <1>5, <2>1 DEF DefineCreatedVM
  <2>3. UNCHANGED <<prepared, volume>>
    BY <1>5 DEF DefineCreatedVM
  <2> QED
    BY <1>1, <2>2, <2>3 DEF HostTyped
<1>6. CASE \/ Begin(j) \/ CancelSeen(j) \/ WorkFails(j) \/ ExecuteReturns(j) \/ RecordAllocation(j) \/ HandOver(j)
           \/ VerifyCreatedVolume(j) \/ VolumesVerified(j) \/ VerifyRetained(j) \/ ProveVerified(j)
           \/ ObserveCreatedVM(j) \/ IntendDeletion(j) \/ ConfirmAbsent(j) \/ CommitDisposition(j)
           \/ ConfirmDefinition(j) \/ RecordOwnership(j) \/ ReconcileAcceptance(j) \/ ReconcileCleanup(j)
  <2>1. UNCHANGED host
    BY <1>6 DEF Begin, CancelSeen, WorkFails, ExecuteReturns, RecordAllocation, HandOver, VerifyCreatedVolume,
       VolumesVerified, VerifyRetained, ProveVerified, ObserveCreatedVM, IntendDeletion, ConfirmAbsent,
       CommitDisposition, ConfirmDefinition, RecordOwnership, ReconcileAcceptance, ReconcileCleanup, Own
  <2> QED
    BY <1>1, <2>1, SameHost
<1> QED
  BY <1>2, <1>3, <1>4, <1>5, <1>6 DEF HandlerSteps

LEMMA HandlerRecords ==
  ASSUME BaseInv, RecipeInv, NEW j \in Jobs, HandlerSteps(j) PROVE RecordsTyped'
<1>1. RecordsTyped
  BY ActTyped
<1>2. CASE \/ CancelSeen(j) \/ WorkFails(j) \/ ExecuteReturns(j) \/ AllocateVolume(j) \/ PopulateVolume(j)
           \/ VerifyRetained(j) \/ DefineCreatedVM(j) \/ DeleteCreationVolume(j) \/ ConfirmAbsent(j)
  <2>1. UNCHANGED records
    BY <1>2 DEF CancelSeen, WorkFails, ExecuteReturns, AllocateVolume, PopulateVolume,
       VerifyRetained, DefineCreatedVM, DeleteCreationVolume, ConfirmAbsent
  <2> QED
    BY <1>1, <2>1, SameRecords
<1>3. CASE Begin(j)
  <2>1. PICK c \in Creations : c = RecipeOf(j)
    BY <1>3, ActTyped DEF Begin, In
  <2>2. NewReceipt(j) \in Receipt
    BY DEF NewReceipt, Receipt
  <2>3. SaveReceipt(j, NewReceipt(j)) \/ SaveProof(j, {}) \/ UNCHANGED records
    BY <1>3 DEF Begin
  <2> QED
    BY <1>1, <2>1, <2>2, <2>3, ReceiptTyped, ProofTyped, SameRecords
<1>4. CASE HandOver(j)
  <2>1. UNCHANGED <<receipt, proof, disposition, ownership>> /\ handed' \in {handed, RecipeOf(j)} /\ RecipeOf(j) \in Creations
    BY <1>4, ActTyped DEF HandOver, In
  <2> QED
    BY <1>1, <2>1 DEF RecordsTyped
<1>5. CASE \/ RecordAllocation(j) \/ VerifyCreatedVolume(j) \/ VolumesVerified(j) \/ ObserveCreatedVM(j)
  <2>1. At(j, "execute") /\ work[j].at \in {"allocated", "uploaded", "volume", "defined"}
    BY <1>5 DEF RecordAllocation, VerifyCreatedVolume, VolumesVerified, ObserveCreatedVM, In
  <2>2. PICK c \in Creations : c = RecipeOf(j) /\ c = Recipe(Task(j))
    BY <2>1, ActTyped
  <2>3. receipt[c] \in Receipt /\ N \in Nat
    BY <2>1, <2>2, WorkingFacts DEF Doing
  <2>4. work[j].at \in {"allocated", "uploaded"} => work[j].i \in Vols
    BY <2>1, <2>2, <2>3, FillFacts DEF Filling, Allocating, Uploading, Vols
  <2>5. ASSUME NEW i \in Vols, NEW x \in {"located", "allocated", "verified"}
        PROVE  [receipt[c] EXCEPT !.vols[i] = x] \in Receipt
    BY <2>3 DEF Receipt
  <2>6. [receipt[c] EXCEPT !.ready = TRUE] \in Receipt /\ [receipt[c] EXCEPT !.defined = TRUE] \in Receipt
    BY <2>3 DEF Receipt
  <2>7. \E r \in Receipt : SaveReceipt(j, r)
    <3>1. CASE RecordAllocation(j)
      BY <2>2, <2>4, <2>5, <3>1 DEF RecordAllocation, In
    <3>2. CASE VerifyCreatedVolume(j)
      BY <2>2, <2>4, <2>5, <3>2 DEF VerifyCreatedVolume, In
    <3>3. CASE VolumesVerified(j) \/ ObserveCreatedVM(j)
      BY <2>2, <2>6, <3>3 DEF VolumesVerified, ObserveCreatedVM
    <3> QED
      BY <1>5, <3>1, <3>2, <3>3
  <2> QED
    BY <1>1, <2>2, <2>7, ReceiptTyped
<1>6. CASE ProveVerified(j)
  <2>1. SaveProof(j, {})
    BY <1>6 DEF ProveVerified
  <2> QED
    BY <1>1, <2>1, ProofTyped
<1>7. CASE IntendDeletion(j)
  <2>1. In(j, "dispose") /\ work[j].i <= N
    BY <1>7 DEF IntendDeletion
  <2>2. PICK p \in Plans : p = PlanOf(j) /\ p = Task(j)
    BY <2>1, ActFacts DEF In
  <2>3. proof[p] # NoProof /\ work[j].i \in 1..(N + 1) /\ N \in Nat
    BY <2>1, <2>2, CleanupFacts, ActFacts DEF In
  <2>4. proof[p] \in Proof
    BY <2>3, ActTyped
  <2>5. proof[p].intents \cup {work[j].i} \in SUBSET Vols
    BY <2>1, <2>3, <2>4 DEF Proof, Vols
  <2>6. SaveProof(j, proof[p].intents \cup {work[j].i}) \/ UNCHANGED records
    BY <1>7, <2>2 DEF IntendDeletion
  <2> QED
    BY <1>1, <2>5, <2>6, ProofTyped, SameRecords
<1>8. CASE CommitDisposition(j)
  <2>1. In(j, "dispose") /\ Dispose(PlanOf(j))
    BY <1>8 DEF CommitDisposition
  <2>2. PICK p \in Plans : p = PlanOf(j) /\ p = Task(j) /\ Stored(j)
    BY <2>1, ActFacts DEF In
  <2>3. Does(j) \in Cleanups /\ proof[Task(j)] # NoProof
    BY <2>1, <2>2, CleanupFacts, ActFacts DEF In
  <2>4. DispositionOf(p) \in Disposition
    BY <2>2, <2>3, DispositionFacts
  <2> QED
    BY <1>1, <2>1, <2>2, <2>4, DisposalTyped
<1>9. CASE ConfirmDefinition(j)
  <2>1. PICK c \in Creations : c = Recipe(jobs[j].planID)
    BY <1>9, AskFacts DEF ConfirmDefinition, Task
  <2>2. receipt[c] # NoReceipt /\ receipt' = [receipt EXCEPT ![c].defined = TRUE]
        /\ UNCHANGED <<proof, disposition, ownership, handed>>
    BY <1>9, <2>1 DEF ConfirmDefinition
  <2>3. receipt[c] \in Receipt
    BY <2>2, ActTyped
  <2>4. [receipt[c] EXCEPT !.defined = TRUE] \in Receipt
    BY <2>3 DEF Receipt
  <2> QED
    BY <1>1, <2>2, <2>4 DEF RecordsTyped
<1>10. CASE RecordOwnership(j)
  <2>1. PICK c \in Creations : c = Recipe(jobs[j].planID) /\ Of(j, c)
    BY <1>10, AskFacts DEF RecordOwnership, Task
  <2>2. receipt[c] # NoReceipt
    BY <1>10, <2>1 DEF RecordOwnership, RecipeInv, Observations
  <2>3. receipt[c] \in Receipt
    BY <2>2, ActTyped
  <2>4. PICK owner \in Owner : owner = [job |-> receipt[c].by, acceptance |-> NoPlan]
    BY <2>3 DEF Receipt, Owner
  <2> QED
    BY <1>1, <1>10, <2>1, <2>4, OwnTyped DEF RecordOwnership
<1>11. CASE ReconcileAcceptance(j)
  <2>1. PICK p \in Plans : p = jobs[j].planID /\ p = Task(j)
    BY <1>11, AskFacts DEF ReconcileAcceptance, Task
  <2>2. Stored(j) /\ Does(j) # "create" /\ proof[p] # NoProof
    BY <1>11, <2>1, AskFacts DEF ReconcileAcceptance, Does
  <2>3. proof[p] \in Proof /\ review[p] \in Review
    BY <2>1, <2>2, ActTyped, ReviewedFacts
  <2>4. PICK c \in Creations : c = review[p].of
    BY <2>3 DEF Review
  <2>5. PICK owner \in Owner : owner = [job |-> proof[p].by, acceptance |-> p]
    BY <2>3 DEF Proof, Owner
  <2> QED
    BY <1>1, <1>11, <2>1, <2>4, <2>5, OwnTyped DEF ReconcileAcceptance
<1>12. CASE ReconcileCleanup(j)
  <2>1. PICK p \in Plans : p = jobs[j].planID /\ p = Task(j)
    BY <1>12, AskFacts DEF ReconcileCleanup, Task
  <2>2. Stored(j) /\ Does(j) \in Cleanups /\ proof[p] # NoProof
    BY <1>12, <2>1, AskFacts DEF ReconcileCleanup, Does, Proved
  <2>3. DispositionOf(p) \in Disposition
    BY <2>1, <2>2, DispositionFacts
  <2>4. Dispose(p) \/ UNCHANGED records
    BY <1>12, <2>1 DEF ReconcileCleanup
  <2> QED
    BY <1>1, <2>3, <2>4, DisposalTyped, SameRecords
<1> QED
  BY <1>2, <1>3, <1>4, <1>5, <1>6, <1>7, <1>8, <1>9, <1>10, <1>11, <1>12 DEF HandlerSteps

-----------------------------------------------------------------------------
(* Reviews, recoveries and marks.                                            *)

LEMMA HandlerTidy ==
  ASSUME BaseInv, NEW j \in Jobs, HandlerSteps(j), ~ExecuteReturns(j)
  PROVE  UNCHANGED <<vars, review>> /\ \A m \in Jobs : Tidy(m)'
<1>1. UNCHANGED vars
  BY DEF HandlerSteps, Begin, CancelSeen, WorkFails, AllocateVolume, RecordAllocation, HandOver, PopulateVolume,
     VerifyCreatedVolume, VolumesVerified, VerifyRetained, ProveVerified, DefineCreatedVM, ObserveCreatedVM,
     IntendDeletion, DeleteCreationVolume, ConfirmAbsent, CommitDisposition, ConfirmDefinition, RecordOwnership,
     ReconcileAcceptance, ReconcileCleanup, Own
<1>2. UNCHANGED review
  <2>1. UNCHANGED records => UNCHANGED review
    BY DEF records
  <2> QED
    BY <2>1 DEF HandlerSteps, Begin, CancelSeen, WorkFails, AllocateVolume, RecordAllocation, HandOver,
       PopulateVolume, VerifyCreatedVolume, VolumesVerified, VerifyRetained, ProveVerified, DefineCreatedVM,
       ObserveCreatedVM, IntendDeletion, DeleteCreationVolume, ConfirmAbsent, CommitDisposition,
       ConfirmDefinition, RecordOwnership, ReconcileAcceptance, ReconcileCleanup, Own, SaveReceipt, SaveProof, Dispose
<1>3. \/ At(j, "execute") /\ \E at \in Doing \cup {"ok", "error", "canceled"} : Go(j, at) \/ GoNext(j, at) \/ First(j, at)
      \/ Reconciling(j) /\ (Go(j, "confirmed") \/ Go(j, "observed"))
  <2>1. CASE Begin(j)
    <3>1. At(j, "execute") /\ (First(j, "volume") \/ First(j, "dispose") \/ First(j, "verify"))
      BY <2>1 DEF Begin, In
    <3> QED
      BY <3>1 DEF Doing
  <2>2. CASE CancelSeen(j) \/ WorkFails(j)
    BY <2>2 DEF CancelSeen, WorkFails
  <2>3. CASE AllocateVolume(j) \/ RecordAllocation(j) \/ HandOver(j) \/ PopulateVolume(j) \/ VerifyCreatedVolume(j)
    BY <2>3 DEF AllocateVolume, RecordAllocation, HandOver, PopulateVolume, VerifyCreatedVolume, In, Doing
  <2>4. CASE \/ VolumesVerified(j) \/ VerifyRetained(j) \/ ProveVerified(j) \/ DefineCreatedVM(j) \/ ObserveCreatedVM(j)
    BY <2>4 DEF VolumesVerified, VerifyRetained, ProveVerified, DefineCreatedVM, ObserveCreatedVM, In, Doing
  <2>5. CASE IntendDeletion(j) \/ DeleteCreationVolume(j) \/ ConfirmAbsent(j) \/ CommitDisposition(j)
    BY <2>5 DEF IntendDeletion, DeleteCreationVolume, ConfirmAbsent, CommitDisposition, In, Doing
  <2>6. CASE ConfirmDefinition(j) \/ RecordOwnership(j) \/ ReconcileAcceptance(j) \/ ReconcileCleanup(j)
    BY <2>6 DEF ConfirmDefinition, RecordOwnership, ReconcileAcceptance, ReconcileCleanup
  <2> QED
    BY <2>1, <2>2, <2>3, <2>4, <2>5, <2>6 DEF HandlerSteps
<1>4. /\ \A m \in Jobs : Reconciling(m)' <=> Reconciling(m)
      /\ \A m \in Jobs : runner'[m] = runner[m]
  <2>1. UNCHANGED <<vars, review>>
    BY <1>1, <1>2
  <2>2. \A m \in Jobs : runner'[m] = runner[m]
    BY <1>1, QuietRunners DEF SameRunners
  <2>3. \A m \in Jobs : Reconciling(m)' <=> Reconciling(m)
    BY <1>1 DEF vars, volatile, Reconciling, At, MutexFree
  <2> QED
    BY <2>2, <2>3
<1>5. \A m \in Jobs : Tidy(m)
  BY TidyJobs DEF BaseInv
<1>6. OthersRest(j)
  BY <1>3, Moves
<1>7. \A m \in Jobs : m # j => Tidy(m)'
  BY <1>4, <1>5, <1>6 DEF OthersRest, Tidy, At
<1>8. Tidy(j)'
  <2>1. CASE At(j, "execute") /\ work'[j].at \in Doing \cup {"ok", "error", "canceled"}
    BY <1>4, <1>5, <2>1 DEF Tidy, At, Doing
  <2>2. CASE Reconciling(j) /\ work'[j].at \in {"confirmed", "observed"}
    BY <1>4, <1>5, <2>2 DEF Tidy, At, Doing
  <2>3. \/ At(j, "execute") /\ work'[j].at \in Doing \cup {"ok", "error", "canceled"}
        \/ Reconciling(j) /\ work'[j].at \in {"confirmed", "observed"}
    <3>1. CASE Reconciling(j) /\ (Go(j, "confirmed") \/ Go(j, "observed"))
      BY <3>1, Moves
    <3>2. CASE At(j, "execute") /\ \E at \in Doing \cup {"ok", "error", "canceled"} : Go(j, at) \/ GoNext(j, at) \/ First(j, at)
      BY <3>2, Moves
    <3> QED
      BY <1>3, <3>1, <3>2
  <2> QED
    BY <2>1, <2>2, <2>3
<1> QED
  BY <1>1, <1>2, <1>7, <1>8

\* Reviews stay about the recipe of their parent.
LEMMA ReviewsKept ==
  ASSUME BaseInv, [Next]_vars, UNCHANGED review
  PROVE  ReviewsFit'
<1>1. ASSUME NEW p \in Plans, review[p] # Unplanned
      PROVE  /\ p \in RecoveryPlans /\ ResourceIDs[review[p].of] \subseteq ResourceIDs[p]
             /\ Stored(review[p].parent)' /\ review[p].of = Recipe(Task(review[p].parent)')
  <2>1. review[p] \in Review
    BY <1>1 DEF BaseInv, CreationTypeOK
  <2>2. PICK m \in Jobs : m = review[p].parent
    BY <2>1 DEF Review
  <2>3. Of(m, review[p].of) /\ p \in RecoveryPlans /\ ResourceIDs[review[p].of] \subseteq ResourceIDs[p]
    BY <1>1, <2>2 DEF BaseInv, ReviewsFit
  <2>4. Stored(m)' /\ Task(m)' = Task(m)
    BY <2>3, JobsKept DEF BaseInv, Of
  <2> QED
    BY <2>2, <2>3, <2>4 DEF Of, Stored, Task
<1> QED
  BY <1>1 DEF ReviewsFit, Of, Recipe, Stored, Task

\* Whether the plan of job m is the one that was reviewed for its parent.
Fits(m) ==
  Stored(m) =>
    IF Task(m) \in RecoveryPlans
      THEN review[Task(m)] # Unplanned /\ jobs[m].recoveryOf = review[Task(m)].parent
      ELSE jobs[m].recoveryOf = NoJob

LEMMA RecoveriesKept ==
  ASSUME BaseInv, [Next]_vars, UNCHANGED review, \A m \in Jobs : Stored(m)' => Stored(m) \/ Fits(m)'
  PROVE  RecoveriesFit'
<1>1. ASSUME NEW m \in Jobs, Stored(m)
      PROVE  Fits(m)'
  <2>1. Task(m)' = Task(m) /\ jobs'[m].recoveryOf = jobs[m].recoveryOf
    BY <1>1, JobsKept DEF BaseInv
  <2> QED
    BY <1>1, <2>1 DEF BaseInv, RecoveriesFit, Fits
<1>2. \A m \in Jobs : Fits(m)'
  <2>1. \A m \in Jobs : ~Stored(m)' => Fits(m)'
    BY DEF Fits
  <2> QED
    BY <1>1, <2>1
<1> QED
  BY <1>2 DEF RecoveriesFit, Fits

LEMMA NobodyNew ==
  ASSUME BaseInv, UNCHANGED jobs \/ \E j, row : Update(j, row)
  PROVE  \A m \in Jobs : Stored(m)' => Stored(m)
BY DEF BaseInv, AcceptanceInv, DoubtInv, OwnershipInv, TypeOK, JournalTypeOK, Update, Stored

LEMMA EngineFits ==
  ASSUME BaseInv, NEW j \in Jobs, EngineSteps(j), UNCHANGED review
  PROVE  \A m \in Jobs : Stored(m)' => Stored(m) \/ Fits(m)'
<1>1. CASE \E k \in Keys : ApplySteps(j, k)
  <2>1. TypeOK
    BY DEF BaseInv, AcceptanceInv, DoubtInv, OwnershipInv
  <2>2. PICK k \in Keys : ApplySteps(j, k)
    BY <1>1
  <2>3. PICK p \in Plans, c \in Jobs \cup {NoJob} :
          \/ Apply(j, k, p) /\ c = NoJob
          \/ ApplyRecovery(j, k, p, c) /\ c \in Jobs /\ review[p] # Unplanned /\ review[p].parent = c
    BY <2>2, PlanKinds DEF ApplySteps, Creations
  <2>4. PICK q : q = [by |-> Author[p], planID |-> p, parent |-> c]
    OBVIOUS
  <2>5. q \in Request /\ q.planID = p /\ q.parent = c
    BY <2>4, PlansAreComplete DEF Request
  <2>6. \/ Accept(j, k, q) /\ c = NoJob /\ p \notin RecoveryPlans
        \/ AcceptRecovery(j, k, q) /\ c = q.parent /\ c \in Jobs /\ p \in RecoveryPlans
             /\ review[p] # Unplanned /\ review[p].parent = c
    <3>1. CASE Apply(j, k, p) /\ c = NoJob
      BY <2>4, <3>1 DEF Apply
    <3>2. CASE ApplyRecovery(j, k, p, c) /\ c \in Jobs /\ review[p] # Unplanned /\ review[p].parent = c
      BY <2>4, <2>5, <3>2 DEF ApplyRecovery
    <3> QED
      BY <2>3, <3>1, <3>2
  <2>7. jobs'[j] = NewRow(p, c) /\ \A m \in Jobs : Stored(m)' <=> Stored(m) \/ m = j
    BY <2>1, <2>5, <2>6, StartEffect
  <2>8. Task(j)' = p /\ jobs'[j].recoveryOf = c
    BY <2>7 DEF NewRow, Task
  <2>9. Fits(j)'
    BY <2>6, <2>8 DEF Fits
  <2> QED
    BY <2>7, <2>9
<1>2. CASE CancelRead(j) \/ ReconcileRead(j) \/ StepVerified(j)
  BY <1>2, NobodyNew DEF CancelRead, ReconcileRead, StepVerified, journal
<1>3. CASE Recover(j)
  BY <1>3, NobodyNew DEF Recover
<1>4. CASE \/ Boundary(j) \/ ValidateFails(j) \/ RecordIntent(j) \/ ExecuteFailed(j) \/ StartVerifying(j)
           \/ Finish(j) \/ StepNotVerified(j)
  <2>1. \E row : Update(j, row)
    BY <1>4 DEF Boundary, ValidateFails, RecordIntent, ExecuteFailed, StartVerifying, Finish, StepNotVerified,
       Return, Continue
  <2> QED
    BY <2>1, NobodyNew
<1> QED
  BY <1>1, <1>2, <1>3, <1>4 DEF EngineSteps

LEMMA ProcessFits ==
  ASSUME BaseInv, ProcessSteps
  PROVE  \A m \in Jobs : Stored(m)' => Stored(m)
<1>1. UNCHANGED jobs \/ \E j, row : Update(j, row)
  BY DEF ProcessSteps, CancelWrite, ReconcileSettle, Open, Serve, ReconcileObserve, RequestFails, Crash, journal
<1> QED
  BY <1>1, NobodyNew

-----------------------------------------------------------------------------
(* Reviews, and what else changes no recipe.                                 *)

LEMMA SameRecipes ==
  ASSUME BaseInv, RecipeInv, UNCHANGED <<vars, receipt, proof, disposition, ownership, volume, vm, work>>,
         \A k \in Jobs, c \in Creations : Of(k, c)' => Of(k, c)
  PROVE  RecipeInv'
<1>1. /\ UNCHANGED <<jobs, runner, verified>>
      /\ \A k \in Jobs : (Stored(k)' <=> Stored(k)) /\ Task(k)' = Task(k) /\ Does(k)' = Does(k)
  BY DEF vars, journal, volatile, observed, Stored, Task, Does
<1>2. ASSUME NEW k \in Jobs, NEW c \in Creations, Of(k, c)
      PROVE  Stage(k, c)' /\ Observations(k, c)' /\ Remains(k, c)'
  <2>1. Stage(k, c) /\ Observations(k, c) /\ Remains(k, c)
    BY <1>2 DEF RecipeInv
  <2>2. Stage(k, c)'
    BY <1>1, <1>2, <2>1, StageStays DEF Harmless
  <2>3. Accomplished(k, c) => Accomplished(k, c)'
    BY <1>1, <1>2, AccomplishedStays
  <2>4. Observations(k, c)'
    BY <1>1, <2>1, <2>3 DEF Observations
  <2>5. Untouched(c)' <=> Untouched(c)
    BY DEF Untouched, VMAbsent
  <2>6. Abandoned(k)' <=> Abandoned(k)
    BY <1>1 DEF Abandoned, At, Stored
  <2>7. Remains(k, c)'
    BY <1>1, <2>1, <2>5, <2>6 DEF Remains, At
  <2> QED
    BY <2>2, <2>4, <2>7
<1>3. \A c \in Creations : Observation(c)' = Observation(c)
  BY DEF Observation
<1>4. \A c \in Creations : Coherent(c)' /\ Pinned(c)'
  BY <1>3 DEF RecipeInv, Coherent, Pinned, AllFull
<1>5. ProofsNameJobs' /\ ReceiptsNameJobs'
  BY <1>1 DEF RecipeInv, ProofsNameJobs, ReceiptsNameJobs, Stored, Task
<1> QED
  BY <1>2, <1>4, <1>5 DEF RecipeInv

LEMMA ObservationTyped ==
  ASSUME BaseInv, NEW c \in Creations PROVE Observation(c) \in Observed
<1>1. volume[c] \in [Vols -> {"absent", "partial", "full"}]
  BY DEF BaseInv, CreationTypeOK
<1>2. \A i \in Vols : volume[c][i] \in {"absent", "partial", "full"}
  BY <1>1
<1>3. \A i \in Vols : (CASE volume[c][i] = "absent" -> "absent"
       [] volume[c][i] # "absent" /\ receipt[c].vols[i] \in {"allocated", "verified"} -> volume[c][i]
       [] OTHER -> "unknown") \in {"absent", "unknown", "partial", "full"}
  BY <1>2
<1> QED
  BY <1>3 DEF Observation, Observed

\* A review adds a plan that nobody runs yet.
LEMMA ReviewNext ==
  ASSUME BaseInv, RecipeInv, NEW p \in Plans, NEW parent \in Jobs, PlanRecovery(p, parent)
  PROVE  BaseInv' /\ RecipeInv'
<1>1. /\ UNCHANGED <<vars, receipt, proof, disposition, ownership, handed, host, work>>
      /\ p \in RecoveryPlans /\ review[p] = Unplanned /\ Stored(parent)
  BY DEF PlanRecovery
<1>2. PICK prior \in Plans, c \in Creations : prior = Task(parent) /\ c = Recipe(prior) /\ prior = jobs[parent].planID
  BY <1>1, RecipeFacts DEF Task
<1>3. PICK rv : rv = [parent |-> parent, of |-> c, receipt |-> receipt[c], seen |-> Observation(c)]
  OBVIOUS
<1>4. /\ review' = [review EXCEPT ![p] = rv] /\ receipt[c] # NoReceipt
      /\ ResourceIDs[p] = ResourceIDs[prior] \cup (IF Action[p] = "delete" THEN Files ELSE {})
  BY <1>2, <1>3 DEF PlanRecovery
<1>5. rv \in Review /\ rv.parent = parent /\ rv.of = c
  <2>1. receipt[c] \in Receipt /\ Observation(c) \in Observed
    BY <1>4, ActTyped, ObservationTyped
  <2> QED
    BY <1>3, <2>1 DEF Review
<1>6. review'[p] = rv /\ \A q \in Plans : q # p => review'[q] = review[q]
  BY <1>4, ActTyped DEF ReviewTyped
<1>7. UNCHANGED <<jobs, runner, request, verified, volume, vm, prepared>>
  BY <1>1 DEF vars, journal, volatile, observed, host
<1>8. ASSUME NEW k \in Jobs, Stored(k)
      PROVE  /\ Stored(k)' /\ Task(k)' = Task(k) /\ Task(k) \in Plans /\ Task(k) # p
             /\ Recipe(Task(k))' = Recipe(Task(k))
  <2>1. Task(k) \in Plans /\ Task(k) # p
    BY <1>1, <1>8, RecipeFacts DEF BaseInv, RecoveriesFit
  <2>2. Stored(k)' /\ Task(k)' = Task(k)
    BY <1>7, <1>8 DEF Stored, Task
  <2> QED
    BY <1>6, <2>1, <2>2 DEF Recipe
<1>9. \A k \in Jobs : Stored(k)' <=> Stored(k)
  BY <1>7 DEF Stored
<1>10. \A k \in Jobs, d \in Creations : Of(k, d)' <=> Of(k, d)
  BY <1>8, <1>9 DEF Of
<1>11. RecipeInv'
  BY <1>1, <1>7, <1>10, SameRecipes
<1>12. AcceptanceInv'
  BY <1>1, NextAcceptance DEF BaseInv
<1>13. CreationTypeOK'
  <2>1. TypeOK' /\ RecordsTyped' /\ HostTyped' /\ WorkTyped'
    BY <1>1, <1>7, <1>12, ActTyped
       DEF AcceptanceInv, DoubtInv, OwnershipInv, RecordsTyped, HostTyped, WorkTyped
  <2>2. ReviewTyped'
    BY <1>4, <1>5, ActTyped DEF ReviewTyped
  <2> QED
    BY <2>1, <2>2, TypeParts
<1>14. ReviewsFit'
  <2>1. ASSUME NEW q \in Plans, review'[q] # Unplanned
        PROVE  /\ q \in RecoveryPlans /\ ResourceIDs[review'[q].of] \subseteq ResourceIDs[q]
               /\ \E m \in Jobs, d \in Creations : m = review'[q].parent /\ d = review'[q].of /\ Of(m, d)'
    <3>1. CASE q = p
      <4>1. Of(parent, c)
        BY <1>1, <1>2 DEF Of
      <4>2. Of(parent, c)'
        BY <1>10, <4>1
      <4>3. ResourceIDs[c] \subseteq ResourceIDs[prior]
        BY <1>1, <1>2, RecipeFacts DEF Resource
      <4> QED
        BY <1>1, <1>4, <1>5, <1>6, <3>1, <4>2, <4>3
    <3>2. CASE q # p
      <4>1. review'[q] = review[q] /\ review[q] # Unplanned
        BY <1>6, <2>1, <3>2
      <4>2. review[q] \in Review
        BY <4>1, ActTyped DEF ReviewTyped
      <4>3. PICK m \in Jobs, d \in Creations : m = review[q].parent /\ d = review[q].of
        BY <4>2 DEF Review
      <4>4. Of(m, d) /\ q \in RecoveryPlans /\ ResourceIDs[d] \subseteq ResourceIDs[q]
        BY <4>1, <4>3 DEF BaseInv, ReviewsFit
      <4>5. Of(m, d)'
        BY <1>10, <4>4
      <4> QED
        BY <4>1, <4>3, <4>4, <4>5
    <3> QED
      BY <3>1, <3>2
  <2>2. ASSUME NEW q \in Plans, review'[q] # Unplanned
        PROVE  /\ Stored(review[q].parent)' /\ (review[q].of)' = Recipe(Task(review[q].parent))'
    BY <2>1, <2>2 DEF Of, Stored, Task
  <2> QED
    BY <2>1, <2>2 DEF ReviewsFit, Of
<1>15. RecoveriesFit'
  <2>1. \A k \in Jobs : Stored(k) =>
          /\ Task(k)' = Task(k) /\ review'[Task(k)] = review[Task(k)] /\ jobs'[k] = jobs[k]
    BY <1>6, <1>7, <1>8
  <2>2. ASSUME NEW k \in Jobs, Stored(k)
        PROVE  Fits(k)'
    <3>1. Fits(k)
      BY <2>2 DEF BaseInv, RecoveriesFit, Fits
    <3> QED
      BY <2>1, <2>2, <3>1 DEF Fits
  <2> QED
    BY <1>9, <2>2 DEF RecoveriesFit, Fits
<1>16. WorkIsAsked' /\ OutcomesAreKnown'
  BY <1>1, <1>7 DEF BaseInv, WorkIsAsked, OutcomesAreKnown, At, Reconciling, MutexFree
<1> QED
  BY <1>11, <1>12, <1>13, <1>14, <1>15, <1>16 DEF BaseInv

-----------------------------------------------------------------------------
(* The invariant of all creations.                                           *)

CreationInv == BaseInv /\ RecipeInv

LEMMA InitCreation == CreationInit => CreationInv
<1> SUFFICES ASSUME CreationInit PROVE CreationInv
  OBVIOUS
<1>1. AcceptanceInv
  BY InitImplements, InitAcceptance
<1>2. /\ \A j \in Jobs : ~Stored(j) /\ ~Live(j) /\ work[j] = Idly
      /\ \A p \in Plans : review[p] = Unplanned /\ proof[p] = NoProof
      /\ \A c \in Creations : /\ receipt[c] = NoReceipt /\ disposition[c] = NoDisposition
                              /\ ownership[c] = NoOwner /\ vm[c] = "absent"
  BY DEF CreationInit, Init, JournalInit, Stored, Live, Idle
<1>3. CreationTypeOK
  <2>1. TypeOK
    BY <1>1 DEF AcceptanceInv, DoubtInv, OwnershipInv
  <2>2. RecordsTyped /\ ReviewTyped
    BY DEF CreationInit, RecordsTyped, ReviewTyped
  <2>3. HostTyped
    <3>1. [i \in Vols |-> "absent"] \in [Vols -> {"absent", "partial", "full"}]
      OBVIOUS
    <3> QED
      BY <3>1 DEF CreationInit, HostTyped
  <2>4. WorkTyped
    <3>1. Idly \in Work
      BY CreationPlans DEF Idly, Work
    <3> QED
      BY <3>1 DEF CreationInit, WorkTyped
  <2> QED
    BY <2>1, <2>2, <2>3, <2>4, TypeParts
<1>4. ReviewsFit /\ RecoveriesFit
  BY <1>2 DEF ReviewsFit, RecoveriesFit
<1>5. WorkIsAsked /\ OutcomesAreKnown
  BY <1>2 DEF WorkIsAsked, OutcomesAreKnown, Idly, Doing, At, Live
<1>6. BaseInv
  BY <1>1, <1>3, <1>4, <1>5 DEF BaseInv
<1>7. RecipeInv
  BY <1>2 DEF RecipeInv, Of, Coherent, Pinned, ProofsNameJobs, ReceiptsNameJobs
<1> QED
  BY <1>6, <1>7 DEF CreationInv

LEMMA NextCreation ==
  ASSUME CreationInv, [CreationNext]_creationVars
  PROVE  CreationInv'
<1>1. BaseInv /\ RecipeInv /\ [Next]_vars
  BY StepImplements DEF CreationInv
<1>2. AcceptanceInv'
  BY <1>1, NextAcceptance DEF BaseInv
<1>3. TypeOK'
  BY <1>2 DEF AcceptanceInv, DoubtInv, OwnershipInv
<1>4. RecordsTyped /\ ReviewTyped /\ HostTyped /\ WorkTyped
  BY <1>1, TypeParts DEF BaseInv
<1>5. ASSUME UNCHANGED review, RecordsTyped', HostTyped', WorkTyped', \A m \in Jobs : Tidy(m)',
             \A m \in Jobs : Stored(m)' => Stored(m) \/ Fits(m)'
      PROVE  BaseInv'
  <2>1. ReviewTyped'
    BY <1>4, <1>5 DEF ReviewTyped
  <2>2. CreationTypeOK'
    BY <1>3, <1>5, <2>1, TypeParts
  <2>3. ReviewsFit'
    BY <1>1, <1>5, ReviewsKept
  <2>4. RecoveriesFit'
    BY <1>1, <1>5, RecoveriesKept
  <2>5. WorkIsAsked' /\ OutcomesAreKnown'
    BY <1>5, TidyJobs
  <2> QED
    BY <1>2, <2>2, <2>3, <2>4, <2>5 DEF BaseInv
<1>6. ASSUME NEW j \in Jobs, HandlerSteps(j), ~ExecuteReturns(j)
      PROVE  CreationInv'
  <2>1. UNCHANGED <<vars, review>> /\ \A m \in Jobs : Tidy(m)'
    BY <1>1, <1>6, HandlerTidy
  <2>2. RecordsTyped' /\ HostTyped' /\ WorkTyped'
    BY <1>1, <1>6, HandlerRecords, HandlerHost, HandlerWork
  <2>3. \A m \in Jobs : Stored(m)' => Stored(m)
    BY <2>1 DEF vars, journal, Stored
  <2>4. BaseInv'
    BY <1>5, <2>1, <2>2, <2>3
  <2>5. RecipeInv'
    BY <1>1, <1>6, HandlerRecipe
  <2> QED
    BY <2>4, <2>5 DEF CreationInv
<1>7. ASSUME NEW j \in Jobs, ExecuteReturns(j)
      PROVE  CreationInv'
  <2>1. UNCHANGED <<records, host, jobs>>
    BY <1>7 DEF ExecuteReturns, Execute, journal
  <2>2. \A m \in Jobs : Passes(m) /\ Tidy(m)'
    BY <1>1, <1>7, ReturnPasses
  <2>3. RecordsTyped' /\ HostTyped' /\ WorkTyped'
    BY <1>4, <1>7, <2>1, SameRecords, SameHost, IdleTyped DEF ExecuteReturns
  <2>4. \A m \in Jobs : Stored(m)' => Stored(m)
    BY <2>1 DEF Stored
  <2>5. UNCHANGED <<receipt, review, proof, disposition, ownership, volume, vm>>
    BY <2>1 DEF records, host
  <2>6. BaseInv'
    BY <1>5, <2>2, <2>3, <2>4, <2>5
  <2>7. RecipeInv'
    BY <1>1, <2>2, <2>5, QuietRecipe
  <2> QED
    BY <2>6, <2>7 DEF CreationInv
<1>8. ASSUME ProcessSteps \/ \E j \in Jobs : EngineSteps(j), UNCHANGED <<records, host>>
      PROVE  CreationInv'
  <2>1. UNCHANGED <<receipt, review, proof, disposition, ownership, volume, vm>>
    BY <1>8 DEF records, host
  <2>2. \A m \in Jobs : Passes(m) /\ Tidy(m)'
    BY <1>1, <1>8, ProcessPasses, EnginePasses
  <2>3. \A m \in Jobs : Stored(m)' => Stored(m) \/ Fits(m)'
    BY <1>1, <1>8, <2>1, ProcessFits, EngineFits
  <2>4. RecordsTyped' /\ HostTyped'
    BY <1>4, <1>8, SameRecords, SameHost
  <2>5. WorkTyped'
    <3>1. CASE UNCHANGED work
      BY <1>4, <3>1 DEF WorkTyped
    <3>2. CASE work' = [j \in Jobs |-> Idly]
      <4>1. Idly \in Work
        BY CreationPlans DEF Idly, Work
      <4> QED
        BY <3>2, <4>1 DEF WorkTyped
    <3>3. CASE \E j \in Jobs : work' = [work EXCEPT ![j] = Idly]
      BY <1>4, <3>3, IdleTyped
    <3>4. ASSUME ~MutexFree PROVE request.job \in Jobs
      BY <1>1, <3>4 DEF MutexFree, BaseInv, AcceptanceInv, DoubtInv, OwnershipInv, TypeOK, RequestState
    <3> QED
      BY <1>8, <3>1, <3>2, <3>3, <3>4 DEF ProcessSteps, EngineSteps
  <2>6. BaseInv'
    BY <1>5, <2>1, <2>2, <2>3, <2>4, <2>5
  <2>7. RecipeInv'
    BY <1>1, <2>1, <2>2, QuietRecipe
  <2> QED
    BY <2>6, <2>7 DEF CreationInv
<1>9. CASE \E p \in Plans, parent \in Jobs : PlanRecovery(p, parent)
  BY <1>1, <1>9, ReviewNext DEF CreationInv
<1>10. ASSUME UNCHANGED <<vars, records, volume, vm, work>>, HostTyped'
       PROVE  CreationInv'
  <2>1. /\ UNCHANGED <<receipt, review, proof, disposition, ownership, volume, vm>>
        /\ UNCHANGED <<jobs, runner, verified, request>>
    BY <1>10 DEF records, vars, journal, volatile, observed
  <2>2. \A m \in Jobs : Passes(m) /\ Tidy(m)'
    <3>1. \A m \in Jobs : Reconciling(m) => Reconciling(m)'
      BY <2>1 DEF Reconciling, At, MutexFree
    <3> QED
      BY <1>1, <1>10, <2>1, <3>1, RestingJob
  <2>3. RecordsTyped' /\ WorkTyped'
    BY <1>4, <1>10, SameRecords DEF WorkTyped
  <2>4. \A m \in Jobs : Stored(m)' => Stored(m)
    BY <2>1 DEF Stored
  <2>5. BaseInv'
    BY <1>5, <1>10, <2>1, <2>2, <2>3, <2>4
  <2>6. RecipeInv'
    BY <1>1, <2>1, <2>2, QuietRecipe
  <2> QED
    BY <2>5, <2>6 DEF CreationInv
<1>11. CASE DiscardPrepared
  <2>1. UNCHANGED <<vars, records, volume, vm, work>> /\ HostTyped'
    BY <1>4, <1>11 DEF DiscardPrepared, HostTyped
  <2> QED
    BY <1>10, <2>1
<1>12. CASE UNCHANGED creationVars
  <2>1. UNCHANGED <<vars, records, volume, vm, work>> /\ HostTyped'
    BY <1>4, <1>12, SameHost DEF creationVars, host
  <2> QED
    BY <1>10, <2>1
<1> QED
  BY <1>6, <1>7, <1>8, <1>9, <1>11, <1>12 DEF CreationNext

LEMMA CreationInvHolds == CreationSpec => []CreationInv
<1> QED
  BY InitCreation, NextCreation, PTL DEF CreationSpec

\* The records of the handlers, the pool and what the handlers are about to do
\* keep their types (creating.Service).
THEOREM CreationTypeCorrect == CreationSpec => []CreationTypeOK
<1>1. CreationInv => CreationTypeOK
  BY DEF CreationInv, BaseInv
<1> QED
  BY <1>1, CreationInvHolds, PTL

\* Machines are defined and owned over complete volumes only, for any number of
\* creations, recoveries and volumes, through crashes and lost answers: a job
\* that fills, reads or disposes of the volumes of a recipe has it locked, and
\* what it found there is still so (creating.Service, cleanupHandler).
THEOREM VMsStayComplete == CreationSpec => []VMsAreComplete
<1>1. CreationInv => VMsAreComplete
  BY DEF CreationInv, RecipeInv, Coherent, VMsAreComplete
<1> QED
  BY <1>1, CreationInvHolds, PTL

\* Once a disposition is committed nothing that it describes changes any more:
\* the recoveries that were reviewed before it find the recipe closed
\* (cleanupHandler, requireUndisposed).
THEOREM DispositionsStayTrue == CreationSpec => []DispositionsAreTrue
<1>1. CreationInv => DispositionsAreTrue
  BY DEF CreationInv, RecipeInv, Pinned, DispositionsAreTrue
<1> QED
  BY <1>1, CreationInvHolds, PTL

\* What a creation or a recovery reports is so: its machine and its owner, its
\* disposition or acceptance when it succeeded, and nothing left when it failed
\* or was canceled without a recovery (Reconcile, ErrCanceledSafely).
THEOREM CreationReportsAreTrue == CreationSpec => []CreationOutcomesAreTrue
<1>1. ASSUME CreationInv, NEW j \in Jobs, Stored(j), NEW p, p = jobs[j].planID, NEW c, c = Recipe(p)
      PROVE  /\ jobs[j].state = "succeeded" => Accomplished(j, c)
             /\ jobs[j].state \in {"failed", "canceled"} /\ receipt[c] # NoReceipt /\ receipt[c].by = j =>
                  vm[c] = "absent" /\ \A i \in Vols : volume[c][i] = "absent"
  <2>1. BaseInv /\ RecipeInv
    BY <1>1 DEF CreationInv
  <2>2. p = Task(j) /\ p \in Plans /\ c \in Creations /\ Of(j, c)
    BY <1>1, <2>1, RecipeFacts DEF Task, Of
  <2>3. Observations(j, c) /\ Remains(j, c)
    BY <2>1, <2>2 DEF RecipeInv
  <2>4. ASSUME jobs[j].state = "succeeded"
        PROVE  <<j, 0>> \in verified
    <3>1. LastStep(j) = 0
      BY <1>1, <2>2, CreationPlans DEF LastStep
    <3>2. SuccessIsObserved
      BY <2>1 DEF BaseInv, AcceptanceInv, DoubtInv, Progress
    <3>3. \A i \in 0..0 : <<j, i>> \in verified
      BY <1>1, <2>4, <3>1, <3>2 DEF SuccessIsObserved
    <3> QED
      BY <3>3
  <2> QED
    BY <1>1, <2>3, <2>4 DEF Observations, Remains, Abandoned, Untouched, VMAbsent
<1>2. CreationInv => CreationOutcomesAreTrue
  BY <1>1 DEF CreationOutcomesAreTrue, Accomplished, Does, Task
<1> QED
  BY <1>2, CreationInvHolds, PTL

=============================================================================
