------------------------------ MODULE Creation ------------------------------
(***************************************************************************)
(* Creation of virtual machines from prepared copies (internal/creating,   *)
(* with the calls of internal/backend/libvirt it makes) as handlers of the *)
(* operation engine.  A creation allocates, fills and reads back one new   *)
(* volume after the other, noting each in a receipt, and then defines the  *)
(* machine.  What a failed one left behind is taken over by a recovery:    *)
(* "resume" defines the machine from the complete volumes, "accept" adopts *)
(* a definition that came out otherwise than ordered, "retain" and         *)
(* "delete" dispose of the volumes.  Each is reviewed with the receipt and *)
(* the observation of its planning and validated again when it runs.       *)
(*                                                                         *)
(* All creations use one preparation; one that hands it over releases the  *)
(* prepared files while it uploads them.  Hardware, networks, space and    *)
(* the dependency graph are abstracted: any step may fail.  What *)
(* other tools do to the hypervisor meanwhile is left out: the plans warn  *)
(* of them.  Every step is a step of Engine or leaves it unchanged.        *)
(***************************************************************************)
EXTENDS Engine

CONSTANTS
  N,           \* volumes of a recipe
  Action,      \* Action[p]: what plan p does
  HandsOver,   \* the creations that release the prepared copy
  Files,       \* what a deletion locks besides: the files it deletes
  MaxReviews,  \* bound on the recoveries that are planned
  NoPlan, NoReceipt, NoProof, NoDisposition, NoOwner, Unplanned

Vols == 1..N
Cleanups == {"retain", "delete"}
Actions == {"create", "resume", "accept"} \cup Cleanups
Creations == {p \in Plans : Action[p] = "create"}

ASSUME CreationPlans ==
  /\ N \in Nat \ {0} /\ NoPlan \notin Plans
  /\ Action \in [Plans -> Actions]
  /\ HandsOver \subseteq Creations /\ Files \subseteq Resources
  /\ \A p \in Plans : Steps[p] = 1
  /\ RecoveryPlans = Plans \ Creations /\ Retaining = {}
  /\ MaxReviews \in Nat

\* A creation locks its machine, the machine's name and the pool.
ASSUME CreationsLock == \A c \in Creations : ResourceIDs[c] # {}

VARIABLES
  receipt,      \* metadata "vm-creation" of each creation
  review,       \* the input of each recovery plan, or Unplanned
  proof,        \* "vm-creation-recovery", "-cleanup", "-acceptance" of each plan
  disposition,  \* "vm-creation-disposition" of each creation
  ownership,    \* "created-vm" of the machine of each creation
  handed,       \* "import-handed-over": the creation that took the prepared copy
  prepared,     \* the prepared file of each volume
  volume,       \* the volumes in the storage pool
  vm,           \* the definition of each machine: as ordered, or otherwise
  work          \* how far a handler has come with a job, and at which volume

records == <<receipt, review, proof, disposition, ownership, handed>>
host == <<prepared, volume, vm>>
creationVars == <<vars, records, host, work>>

\* "located": the key is known, but the file could not be identified.
Receipt == [by : Jobs, vols : [Vols -> {"none", "located", "allocated", "verified"}],
            ready : BOOLEAN, defined : BOOLEAN]
Observed == [Vols -> {"absent", "unknown", "partial", "full"}]
Review == [parent : Jobs, of : Creations, receipt : Receipt, seen : Observed]
Proof == [by : Jobs, intents : SUBSET Vols]
Disposition == [by : Plans, job : Jobs, seen : Observed]
Owner == [job : Jobs, acceptance : Plans \cup {NoPlan}]

ASSUME CreationNulls ==
  /\ NoReceipt \notin Receipt /\ Unplanned \notin Review /\ NoProof \notin Proof
  /\ NoDisposition \notin Disposition /\ NoOwner \notin Owner

Doing == {"volume", "allocated", "recorded", "upload", "uploaded", "verify", "define", "defined",
          "dispose", "delete", "deleted"}
Idly == [at |-> "idle", i |-> 0]
Work == [at : Doing \cup {"idle", "ok", "error", "canceled", "confirmed", "observed"}, i : 0..(N + 1)]

CreationTypeOK ==
  /\ TypeOK
  /\ receipt \in [Creations -> Receipt \cup {NoReceipt}]
  /\ review \in [Plans -> Review \cup {Unplanned}]
  /\ proof \in [Plans -> Proof \cup {NoProof}]
  /\ disposition \in [Creations -> Disposition \cup {NoDisposition}]
  /\ ownership \in [Creations -> Owner \cup {NoOwner}]
  /\ handed \in Creations \cup {NoPlan}
  /\ prepared \in [Vols -> {"intact", "released", "removed"}]
  /\ volume \in [Creations -> [Vols -> {"absent", "partial", "full"}]]
  /\ vm \in [Creations -> {"absent", "exact", "drifted"}]
  /\ work \in [Jobs -> Work]

CreationInit ==
  /\ Init
  /\ receipt = [c \in Creations |-> NoReceipt]
  /\ review = [p \in Plans |-> Unplanned]
  /\ proof = [p \in Plans |-> NoProof]
  /\ disposition = [c \in Creations |-> NoDisposition]
  /\ ownership = [c \in Creations |-> NoOwner]
  /\ handed = NoPlan
  /\ prepared = [i \in Vols |-> "intact"]
  /\ volume = [c \in Creations |-> [i \in Vols |-> "absent"]]
  /\ vm = [c \in Creations |-> "absent"]
  /\ work = [j \in Jobs |-> Idly]

-----------------------------------------------------------------------------
(* What the handlers check. *)

\* Mutant of VMAbsent: the receipt is asked instead of the hypervisor.
VMUnrecorded(c) == receipt[c] # NoReceipt => ~receipt[c].defined

\* absentDomain
VMAbsent(c) == vm[c] = "absent"

AllFull(c) == \A i \in Vols : volume[c][i] = "full"

\* checkSource: once handed over the copy serves its creation alone, unread.
SourceServes(c) ==
  IF c \in HandsOver /\ handed # NoPlan
    THEN handed = c
    ELSE handed = NoPlan /\ \A i \in Vols : prepared[i] = "intact"

\* Mutant of Undisposed: retaining the volumes does not close the recipe.
UndisposedOrRetained(c) ==
  disposition[c] # NoDisposition => Action[disposition[c].by] = "retain"

\* requireUndisposed
Undisposed(c) == disposition[c] = NoDisposition

\* inspectCleanupVolumes: what is known of a volume without a file identity in
\* the receipt is whether its name is taken.
Observation(c) ==
  [i \in Vols |->
     CASE volume[c][i] = "absent" -> "absent"
       [] volume[c][i] # "absent" /\ receipt[c].vols[i] \in {"allocated", "verified"} -> volume[c][i]
       [] OTHER -> "unknown"]

\* The recovery's parent is unresolved still, or has been handed to this job,
\* and the lock set is complete.
Inherits(p, rv, owner) ==
  /\ IF owner = rv.parent
       THEN jobs[owner].state = "recovery-required" /\ jobs[owner].recoveryOperationID = NoJob
       ELSE jobs[rv.parent].state = "partial" /\ jobs[rv.parent].recoveryOperationID = owner
  /\ \A r \in ResourceIDs[p] :
       locks[r] = owner \/ (owner = rv.parent /\ r \notin Resource(owner) /\ locks[r] = NoJob)

\* originalReceipt: nothing was added since the review but the definition.
AsReviewed(rv) ==
  /\ receipt[rv.of] # NoReceipt
  /\ [receipt[rv.of] EXCEPT !.defined = rv.receipt.defined] = rv.receipt

\* Nobody has disposed of the recipe or seen its machine since.
StillOpen(rv) ==
  AsReviewed(rv) /\ Undisposed(rv.of) /\ ~receipt[rv.of].defined

ResumeValid(p, rv, owner) ==
  /\ StillOpen(rv) /\ receipt[rv.of].ready
  /\ Inherits(p, rv, owner)
  /\ SourceServes(rv.of) /\ VMAbsent(rv.of)

\* The machine may match the policy that is to be accepted either way.
AcceptValid(p, rv, owner) ==
  /\ StillOpen(rv) /\ receipt[rv.of].ready
  /\ Inherits(p, rv, owner)
  /\ ownership[rv.of] \in {NoOwner, [job |-> owner, acceptance |-> p]}
  /\ SourceServes(rv.of) /\ ~VMAbsent(rv.of)

CleanupValid(p, rv, owner) ==
  /\ StillOpen(rv)
  /\ Inherits(p, rv, owner)
  /\ VMAbsent(rv.of)
  /\ Observation(rv.of) = rv.seen
  /\ Action[p] = "delete" => \A i \in Vols : rv.seen[i] # "unknown"

CreateValid(c) == SourceServes(c) /\ VMAbsent(c) /\ \A i \in Vols : volume[c][i] = "absent"

Valid(p, rv, owner) ==
  CASE Action[p] = "create" -> CreateValid(p)
    [] Action[p] = "resume" -> ResumeValid(p, rv, owner)
    [] Action[p] = "accept" -> AcceptValid(p, rv, owner)
    [] Action[p] \in Cleanups -> CleanupValid(p, rv, owner)

-----------------------------------------------------------------------------
(* PlanResume and the Plan of cleanup and acceptance. *)

Recipe(p) == IF Action[p] = "create" THEN p ELSE review[p].of

\* What a recovery may follow.
Follows(kind) ==
  CASE kind = "resume" -> {"create", "resume"}
    [] kind = "accept" -> {"create", "resume", "accept"}
    [] kind \in Cleanups -> {"create", "resume"} \cup Cleanups

PlanRecovery(p, parent) ==
  LET prior == jobs[parent].planID
      c == Recipe(prior)
      rv == [parent |-> parent, of |-> c, receipt |-> receipt[c], seen |-> Observation(c)] IN
  /\ phase = "serving" /\ p \in RecoveryPlans /\ review[p] = Unplanned
  /\ Cardinality({q \in Plans : review[q] # Unplanned}) < MaxReviews
  /\ Stored(parent) /\ Action[prior] \in Follows(Action[p])
  /\ ResourceIDs[p] = ResourceIDs[prior] \cup (IF Action[p] = "delete" THEN Files ELSE {})
  /\ receipt[c] # NoReceipt                         \* "creation receipt is missing"
  /\ Valid(p, rv, parent)
  /\ review' = [review EXCEPT ![p] = rv]
  /\ UNCHANGED <<vars, receipt, proof, disposition, ownership, handed, host, work>>

-----------------------------------------------------------------------------
(* Execute of the handlers, step by step. *)

PlanOf(j) == runner[j].row.planID
RecipeOf(j) == Recipe(PlanOf(j))
Canceled(j) == jobs[j].cancelRequested
In(j, at) == At(j, "execute") /\ work[j].at = at
Go(j, at) == work' = [work EXCEPT ![j].at = at]
GoNext(j, at) == work' = [work EXCEPT ![j] = [at |-> at, i |-> work[j].i + 1]]
First(j, at) == work' = [work EXCEPT ![j] = [at |-> at, i |-> 1]]

SaveReceipt(j, r) ==
  /\ receipt' = [receipt EXCEPT ![RecipeOf(j)] = r]
  /\ UNCHANGED <<review, proof, disposition, ownership, handed>>

SaveProof(j, intents) ==
  /\ proof' = [proof EXCEPT ![PlanOf(j)] = [by |-> j, intents |-> intents]]
  /\ UNCHANGED <<receipt, review, disposition, ownership, handed>>

NewReceipt(j) ==
  [by |-> j, vols |-> [i \in Vols |-> "none"], ready |-> FALSE, defined |-> FALSE]

\* A creation writes its receipt, a cleanup its proof; each is written once.
Begin(j) ==
  LET p == PlanOf(j) IN
  /\ In(j, "idle") /\ Valid(p, review[p], j)
  /\ CASE Action[p] = "create" ->
            receipt[p] = NoReceipt /\ SaveReceipt(j, NewReceipt(j)) /\ First(j, "volume")
       [] Action[p] \in Cleanups ->
            proof[p] = NoProof /\ SaveProof(j, {}) /\ First(j, "dispose")
       [] OTHER -> UNCHANGED records /\ First(j, "verify")
  /\ UNCHANGED <<vars, host>>

\* Mutant of CancelSeen: a creation may always be canceled safely.
CancelSeenAsSafe(j) ==
  /\ At(j, "execute") /\ Canceled(j)
  /\ \/ work[j].at \in {"volume", "verify"}
     \/ work[j].at = "dispose" /\ (work[j].i <= N \/ Action[PlanOf(j)] = "retain")
  /\ Go(j, IF work[j].at = "volume" /\ work[j].i <= N THEN "canceled" ELSE "error")
  /\ UNCHANGED <<vars, records, host>>

\* Only before the first allocation a cancellation leaves nothing behind.
CancelSeen(j) ==
  /\ At(j, "execute") /\ Canceled(j)
  /\ \/ work[j].at \in {"volume", "verify"}
     \/ work[j].at = "dispose" /\ (work[j].i <= N \/ Action[PlanOf(j)] = "retain")
  /\ Go(j, IF work[j].at = "volume" /\ work[j].i = 1 THEN "canceled" ELSE "error")
  /\ UNCHANGED <<vars, records, host>>

AllocateVolume(j) ==
  LET c == RecipeOf(j)
      i == work[j].i IN
  /\ In(j, "volume") /\ i <= N /\ ~Canceled(j)
  /\ VMAbsent(c) /\ volume[c][i] = "absent"
  /\ volume' = [volume EXCEPT ![c][i] = "partial"]
  /\ Go(j, "allocated")
  /\ UNCHANGED <<vars, records, prepared, vm>>

RecordAllocation(j) ==
  LET r == receipt[RecipeOf(j)] IN
  /\ In(j, "allocated")
  /\ \/ /\ SaveReceipt(j, [r EXCEPT !.vols[work[j].i] = "allocated"])
        /\ Go(j, "recorded")
     \/ /\ SaveReceipt(j, [r EXCEPT !.vols[work[j].i] = "located"])
        /\ Go(j, "error")
  /\ UNCHANGED <<vars, host>>

\* Mutant of HandOver: recorded when the last file is uploaded.
HandOverLate(j) ==
  LET c == RecipeOf(j) IN
  /\ In(j, "recorded")
  /\ IF c \in HandsOver /\ work[j].i = N
       THEN handed = NoPlan /\ handed' = c
       ELSE UNCHANGED handed
  /\ Go(j, "upload")
  /\ UNCHANGED <<vars, receipt, review, proof, disposition, ownership, host>>

\* RecordHandOver comes once, before any prepared file is released.
HandOver(j) ==
  LET c == RecipeOf(j) IN
  /\ In(j, "recorded")
  /\ IF c \in HandsOver /\ work[j].i = 1
       THEN handed = NoPlan /\ handed' = c
       ELSE UNCHANGED handed
  /\ Go(j, "upload")
  /\ UNCHANGED <<vars, receipt, review, proof, disposition, ownership, host>>

\* PopulateVolume fails half way, or the bytes it read are not those ordered.
PopulateVolume(j) ==
  LET c == RecipeOf(j)
      i == work[j].i IN
  /\ In(j, "upload") /\ prepared[i] # "removed"
  /\ \/ /\ prepared[i] = "intact"
        /\ volume' = [volume EXCEPT ![c][i] = "full"]
        /\ Go(j, "uploaded")
     \/ UNCHANGED volume /\ Go(j, "error")
  /\ prepared' = IF c \in HandsOver THEN [prepared EXCEPT ![i] = "released"] ELSE prepared
  /\ UNCHANGED <<vars, records, vm>>

VerifyCreatedVolume(j) ==
  LET c == RecipeOf(j) IN
  /\ In(j, "uploaded") /\ volume[c][work[j].i] = "full"
  /\ SaveReceipt(j, [receipt[c] EXCEPT !.vols[work[j].i] = "verified"])
  /\ GoNext(j, "volume")
  /\ UNCHANGED <<vars, host>>

VolumesVerified(j) ==
  LET c == RecipeOf(j) IN
  /\ In(j, "volume") /\ work[j].i > N /\ ~Canceled(j)
  /\ SourceServes(c) /\ VMAbsent(c)
  /\ SaveReceipt(j, [receipt[c] EXCEPT !.ready = TRUE])
  /\ Go(j, "define")
  /\ UNCHANGED <<vars, host>>

\* resume reads every retained volume again.
VerifyRetained(j) ==
  LET c == RecipeOf(j) IN
  /\ In(j, "verify") /\ Action[PlanOf(j)] = "resume" /\ ~Canceled(j)
  /\ work[j].i <= N /\ VMAbsent(c) /\ volume[c][work[j].i] = "full"
  /\ GoNext(j, "verify")
  /\ UNCHANGED <<vars, records, host>>

\* What was read back is on record before anything is built on it.
ProveVerified(j) ==
  LET p == PlanOf(j)
      c == Recipe(p) IN
  /\ In(j, "verify") /\ ~Canceled(j) /\ proof[p] = NoProof
  /\ \/ Action[p] = "resume" /\ work[j].i > N /\ VMAbsent(c) /\ Go(j, "define")
     \/ Action[p] = "accept" /\ AllFull(c) /\ ~VMAbsent(c) /\ Go(j, "ok")
  /\ SaveProof(j, {})
  /\ UNCHANGED <<vars, host>>

DefineCreatedVM(j) ==
  LET p == PlanOf(j)
      c == Recipe(p) IN
  /\ In(j, "define") /\ VMAbsent(c)
  /\ \A i \in Vols : volume[c][i] # "absent"
  /\ \E kind \in {"exact", "drifted"} : vm' = [vm EXCEPT ![c] = kind]
  /\ Go(j, IF Action[p] = "create" THEN "defined" ELSE "ok")
  /\ UNCHANGED <<vars, records, prepared, volume>>

ObserveCreatedVM(j) ==
  LET c == RecipeOf(j) IN
  /\ In(j, "defined") /\ vm[c] = "exact"
  /\ SaveReceipt(j, [receipt[c] EXCEPT !.defined = TRUE])
  /\ Go(j, "ok")
  /\ UNCHANGED <<vars, host>>

-----------------------------------------------------------------------------
(* Execute of a cleanup. *)

\* What is there once the first n volumes of the review are gone.
Remaining(rv, n) == [i \in Vols |-> IF i <= n THEN "absent" ELSE rv.seen[i]]

\* Mutant of IntendDeletion: the intent names the volume after this one.
IntendNext(j) ==
  LET rv == review[PlanOf(j)]
      i == work[j].i IN
  /\ In(j, "dispose") /\ Action[PlanOf(j)] = "delete" /\ i <= N /\ ~Canceled(j)
  /\ IF rv.seen[i] = "absent"
       THEN GoNext(j, "dispose") /\ UNCHANGED records
       ELSE Go(j, "delete") /\ SaveProof(j, proof[PlanOf(j)].intents \cup {i + 1})
  /\ UNCHANGED <<vars, host>>

IntendDeletion(j) ==
  LET rv == review[PlanOf(j)]
      i == work[j].i IN
  /\ In(j, "dispose") /\ Action[PlanOf(j)] = "delete" /\ i <= N /\ ~Canceled(j)
  /\ IF rv.seen[i] = "absent"
       THEN GoNext(j, "dispose") /\ UNCHANGED records
       ELSE Go(j, "delete") /\ SaveProof(j, proof[PlanOf(j)].intents \cup {i})
  /\ UNCHANGED <<vars, host>>

DeleteCreationVolume(j) ==
  LET rv == review[PlanOf(j)]
      i == work[j].i IN
  /\ In(j, "delete") /\ VMAbsent(rv.of)
  /\ Observation(rv.of) = Remaining(rv, i - 1)
  /\ volume' = [volume EXCEPT ![rv.of][i] = "absent"]
  /\ Go(j, "deleted")
  /\ UNCHANGED <<vars, records, prepared, vm>>

ConfirmAbsent(j) ==
  LET rv == review[PlanOf(j)] IN
  /\ In(j, "deleted") /\ VMAbsent(rv.of)
  /\ Observation(rv.of) = Remaining(rv, work[j].i)
  /\ GoNext(j, "dispose")
  /\ UNCHANGED <<vars, records, host>>

\* dispositionRecord
DispositionOf(p) ==
  [by |-> p, job |-> proof[p].by,
   seen |-> Remaining(review[p], IF Action[p] = "delete" THEN N ELSE 0)]

Dispose(p) ==
  /\ Undisposed(review[p].of)
  /\ disposition' = [disposition EXCEPT ![review[p].of] = DispositionOf(p)]
  /\ UNCHANGED <<receipt, review, proof, ownership, handed>>

CommitDisposition(j) ==
  LET p == PlanOf(j) IN
  /\ In(j, "dispose")
  /\ IF Action[p] = "delete" THEN work[j].i > N ELSE ~Canceled(j)
  /\ VMAbsent(review[p].of)
  /\ Observation(review[p].of) = DispositionOf(p).seen
  /\ Dispose(p)
  /\ Go(j, "ok")
  /\ UNCHANGED <<vars, host>>

\* A check, the hypervisor, the disk or the journal fails, or an answer is lost.
WorkFails(j) ==
  /\ At(j, "execute") /\ work[j].at \in Doing \cup {"idle"}
  /\ Go(j, "error")
  /\ UNCHANGED <<vars, records, host>>

ExecuteReturns(j) ==
  /\ \/ work[j].at = "ok" /\ Execute(j, "ok")
     \/ work[j].at = "error" /\ Execute(j, "error")
     \/ work[j].at = "canceled" /\ Execute(j, "canceled-safely")
  /\ work' = [work EXCEPT ![j] = Idly]
  /\ UNCHANGED <<records, host>>

-----------------------------------------------------------------------------
(* Reconcile of the handlers, called by the runner or for a client. *)

Reconciling(j) ==
  \/ At(j, "reconcile")
  \/ ~MutexFree /\ request.op = "reconcile" /\ request.job = j

\* The recovery's own proof, over the receipt it was reviewed with.
Proved(p) == proof[p] # NoProof /\ AsReviewed(review[p])

ConfirmDefinition(j) ==
  LET p == jobs[j].planID
      c == Recipe(p) IN
  /\ Reconciling(j) /\ work[j].at = "idle" /\ Action[p] \in {"create", "resume"}
  /\ Action[p] = "resume" => Proved(p)
  /\ Undisposed(c) /\ receipt[c] # NoReceipt /\ receipt[c].ready
  /\ vm[c] = "exact" /\ \A i \in Vols : volume[c][i] # "absent"
  /\ receipt' = [receipt EXCEPT ![c].defined = TRUE]
  /\ Go(j, "confirmed")
  /\ UNCHANGED <<vars, review, proof, disposition, ownership, handed, host>>

Own(c, owner) ==
  /\ ownership[c] \in {NoOwner, owner}
  /\ ownership' = [ownership EXCEPT ![c] = owner]
  /\ UNCHANGED <<vars, receipt, review, proof, disposition, handed, host>>

RecordOwnership(j) ==
  LET c == Recipe(jobs[j].planID) IN
  /\ Reconciling(j) /\ work[j].at = "confirmed"
  /\ Own(c, [job |-> receipt[c].by, acceptance |-> NoPlan])
  /\ Go(j, "observed")

ReconcileAcceptance(j) ==
  LET p == jobs[j].planID IN
  /\ Reconciling(j) /\ work[j].at = "idle" /\ Action[p] = "accept"
  /\ proof[p] # NoProof /\ AcceptValid(p, review[p], proof[p].by)
  /\ AllFull(review[p].of)
  /\ Own(review[p].of, [job |-> proof[p].by, acceptance |-> p])
  /\ Go(j, "observed")

\* A committed disposition is final; else what there is to see decides.
ReconcileCleanup(j) ==
  LET p == jobs[j].planID
      rv == review[p] IN
  /\ Reconciling(j) /\ work[j].at = "idle" /\ Action[p] \in Cleanups
  /\ Proved(p)
  /\ \/ disposition[rv.of] = DispositionOf(p) /\ UNCHANGED records
     \/ /\ StillOpen(rv) /\ VMAbsent(rv.of)
        /\ Observation(rv.of) = DispositionOf(p).seen
        /\ Action[p] = "delete" => \A i \in Vols : rv.seen[i] = "absent" \/ i \in proof[p].intents
        /\ Dispose(p)
  /\ Go(j, "observed")
  /\ UNCHANGED <<vars, host>>

-----------------------------------------------------------------------------
(* Composition with the engine. *)

\* Another operation, or the user, removes the prepared files: a creation does
\* not lock them, and a removal that looked before it started goes through.
DiscardPrepared ==
  /\ \E i \in Vols : prepared[i] # "removed"
  /\ prepared' = [i \in Vols |-> "removed"]
  /\ UNCHANGED <<vars, records, volume, vm, work>>

HandlerSteps(j) ==
  \/ Begin(j) \/ CancelSeen(j) \/ WorkFails(j) \/ ExecuteReturns(j)
  \/ AllocateVolume(j) \/ RecordAllocation(j) \/ HandOver(j) \/ PopulateVolume(j)
  \/ VerifyCreatedVolume(j) \/ VolumesVerified(j) \/ VerifyRetained(j) \/ ProveVerified(j)
  \/ DefineCreatedVM(j) \/ ObserveCreatedVM(j)
  \/ IntendDeletion(j) \/ DeleteCreationVolume(j) \/ ConfirmAbsent(j) \/ CommitDisposition(j)
  \/ ConfirmDefinition(j) \/ RecordOwnership(j) \/ ReconcileAcceptance(j) \/ ReconcileCleanup(j)

\* Apply and the runner validate with the same checks.
ApplySteps(j, k) ==
  \/ \E c \in Creations : CreateValid(c) /\ Apply(j, k, c)
  \/ \E p \in RecoveryPlans, parent \in Jobs :
       /\ review[p] # Unplanned /\ review[p].parent = parent
       /\ Valid(p, review[p], parent)
       /\ ApplyRecovery(j, k, p, parent)

EngineSteps(j) ==
  \/ /\ \/ \E k \in Keys : ApplySteps(j, k)
        \/ Boundary(j) \/ ValidateFails(j) \/ ExecuteFailed(j) \/ StartVerifying(j)
        \/ At(j, "validate") /\ Valid(PlanOf(j), review[PlanOf(j)], j) /\ RecordIntent(j)
        \/ Finish(j) \/ CancelRead(j) \/ ReconcileRead(j) \/ Recover(j)
     /\ UNCHANGED work
  \/ /\ (work[j].at = "observed" /\ StepVerified(j)) \/ StepNotVerified(j)
     /\ work' = [work EXCEPT ![j] = Idly]

ProcessSteps ==
  \/ /\ CancelWrite \/ ReconcileSettle \/ Open \/ Serve
     /\ UNCHANGED work
  \/ /\ ~MutexFree
     /\ (work[request.job].at = "observed" /\ ReconcileObserve) \/ RequestFails
     /\ work' = IF request.op = "reconcile" THEN [work EXCEPT ![request.job] = Idly] ELSE work
  \/ /\ Crash
     /\ work' = [j \in Jobs |-> Idly]

CreationNext ==
  \/ \E p \in Plans, parent \in Jobs : PlanRecovery(p, parent)
  \/ \E j \in Jobs : HandlerSteps(j)
  \/ (ProcessSteps \/ \E j \in Jobs : EngineSteps(j)) /\ UNCHANGED <<records, host>>
  \/ DiscardPrepared

CreationSpec == CreationInit /\ [][CreationNext]_creationVars
-----------------------------------------------------------------------------
(* What must hold. *)

\* A machine is defined, and owned, only over complete volumes: none of them is
\* missing, half filled or deleted afterwards, and no disposition claims them,
\* whoever defined it and whatever answers were lost (creating.Service).
VMsAreComplete ==
  \A c \in Creations : vm[c] # "absent" \/ ownership[c] # NoOwner =>
    vm[c] # "absent" /\ AllFull(c) /\ disposition[c] = NoDisposition

\* A disposition stays true: retained volumes remain as they were pinned and
\* deleted ones do not come back, although the recipe may be applied again and
\* recoveries reviewed earlier may still run (cleanupHandler).
DispositionsAreTrue ==
  \A c \in Creations : disposition[c] # NoDisposition =>
    Observation(c) = disposition[c].seen

\* A succeeded creation has its machine and its owner, a succeeded recovery its
\* disposition or acceptance; a creation that failed or was canceled without a
\* recovery left nothing behind (Reconcile, ErrCanceledSafely).
CreationOutcomesAreTrue ==
  \A j \in Jobs : Stored(j) =>
    LET p == jobs[j].planID
        c == Recipe(p)
        succeeded == jobs[j].state = "succeeded" IN
    /\ succeeded /\ Action[p] \in {"create", "resume"} =>
         vm[c] = "exact" /\ ownership[c] = [job |-> receipt[c].by, acceptance |-> NoPlan]
    /\ succeeded /\ Action[p] = "accept" => ownership[c] = [job |-> j, acceptance |-> p]
    /\ succeeded /\ Action[p] \in Cleanups => disposition[c].by = p /\ disposition[c].job = j
    /\ jobs[j].state \in {"failed", "canceled"} /\ receipt[c] # NoReceipt /\ receipt[c].by = j =>
         vm[c] = "absent" /\ \A i \in Vols : volume[c][i] = "absent"

\* Once a prepared file is released the copy is on record as handed over, so no
\* other creation starts from what is left of it (RecordHandOver, checkSource).
ReleaseIsRecorded ==
  (\E i \in Vols : prepared[i] = "released") => handed # NoPlan

\* "`vm creation cleanup` closes an unresolved creation recipe with an explicit
\* resource disposition" (docs/creation-cleanup.md): there is a receipt for a
\* recovery to load, and no disposition that forbids it.
UnresolvedCanBeClosed ==
  \A j \in Jobs : Stored(j) /\ Action[jobs[j].planID] = "create" /\ jobs[j].state = "recovery-required" =>
    receipt[jobs[j].planID] # NoReceipt /\ disposition[jobs[j].planID] = NoDisposition
=============================================================================
