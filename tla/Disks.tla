------------------------------- MODULE Disks -------------------------------
(***************************************************************************)
(* The handlers that change the disks of existing machines (internal/app:  *)
(* grow, move, clone, removal; internal/creating: add and the disposition  *)
(* of an unfinished addition) with the calls of internal/backend/libvirt   *)
(* they make.  Each binds the definition and the volumes it was reviewed   *)
(* with and looks at them again before every effect; a receipt per job     *)
(* says how far it came.                                                   *)
(*                                                                         *)
(* A volume is its bytes and its size: what it was filled with, or torn    *)
(* while it is being filled.  An operation locks its machines and the files *)
(* of the volumes it is about; the locks of their pools are left out.      *)
(* What other tools and running guests do meanwhile is left out: the plans *)
(* demand stopped machines and warn of other writers.                      *)
(***************************************************************************)
EXTENDS Handlers

CONSTANTS
  VMs,        \* machines
  Slots,      \* guest disk targets: 1..n
  Volumes,    \* volume names in the pools
  NoVolume,   \* no disk at this target
  Undefined,  \* the machine is not defined
  Original,   \* Original[vm]: the definition the machine starts with
  Machine,    \* Machine[p]: the machine plan p is about
  NewMachine, \* NewMachine[p]: the machine a clone defines
  Chosen,     \* Chosen[p]: the targets plan p is about
  NewVolume,  \* NewVolume[p]: the name of the volume plan p makes for a target
  KeepsOld,   \* the moves that keep the original
  NoReceipt, NoDisposition

Definition == [Slots -> Volumes \cup {NoVolume}]
Bytes == {"absent", "torn", "blank"} \cup Volumes
Volume == [bytes : Bytes, grown : BOOLEAN]
Absent == [bytes |-> "absent", grown |-> FALSE]
Torn == [bytes |-> "torn", grown |-> FALSE]
Blank == [bytes |-> "blank", grown |-> FALSE]
Disposals == {"accept", "keep", "delete"}

\* The operations that make volumes, under names of their own.
Makers == {"move", "clone", "add"}
MadeBy(p) == IF Kind[p] \in Makers THEN {NewVolume[p][s] : s \in Chosen[p]} ELSE {}

ASSUME DiskPlans ==
  /\ Slots \subseteq Nat /\ IsFiniteSet(Slots)
  /\ NoVolume \notin Volumes /\ Undefined \notin Definition
  /\ Original \in [VMs -> Definition \cup {Undefined}]
  /\ Machine \in [Plans -> VMs] /\ NewMachine \in [Plans -> VMs]
  /\ Chosen \in [Plans -> SUBSET Slots] /\ NewVolume \in [Plans -> [Slots -> Volumes]]
  /\ \A p \in Plans : Steps[p] = 1
  /\ RecoveryPlans = {p \in Plans : Kind[p] \in Disposals} /\ Retaining = {}

\* A machine starts with disks of its own, one volume each.
ASSUME DisksDiffer ==
  /\ Volumes \cap {"absent", "torn", "blank"} = {}
  /\ \A vm, w \in VMs, s, t \in Slots :
       Original[vm] # Undefined /\ Original[w] # Undefined
       /\ Original[vm][s] = Original[w][t] /\ Original[vm][s] # NoVolume => vm = w /\ s = t

\* validDiskGrow, validDiskMove, validClone, validDiskRemoval: what a request
\* names, and the locks of its machines and of the volumes it makes.
ASSUME RequestsAreValid ==
  \A p \in Plans :
    /\ Kind[p] \in {"grow", "move", "add"} => \E s \in Slots : Chosen[p] = {s}
    /\ Kind[p] \in {"clone", "remove"} => Chosen[p] # {}
    /\ Kind[p] = "clone" => \A s, t \in Chosen[p] : NewVolume[p][s] = NewVolume[p][t] => s = t
    /\ Machine[p] \in ResourceIDs[p] /\ MadeBy(p) \subseteq ResourceIDs[p]
    /\ Kind[p] = "clone" => NewMachine[p] \in ResourceIDs[p]

VARIABLES
  definition,   \* the saved definition of each machine: a volume per target
  volume,       \* the volumes in the storage pools
  receipt,      \* the receipt of each job: how many effects are on record
  disposition   \* "vm-disk-add-disposition" of each addition

disks == <<definition, volume, receipt, disposition>>
diskVars == <<vars, review, work, disks>>

\* of: the addition a disposition closes.
Input ==
  [parent : Jobs \cup {NoJob}, of : Plans, definition : Definition, seen : [Slots -> Volume]]
Disposition == [by : Plans, job : Jobs]

\* How far Execute of a job may have come.
Stages ==
  {"idle", "resize", "resized", "allocate", "allocated", "fill", "filled", "define", "defined",
   "delete-old", "old-deleted", "undefine", "undefined", "intend", "remove", "removed",
   "delete-new", "new-deleted"} \cup Results

ASSUME DiskNulls ==
  NoReceipt \notin Nat /\ NoDisposition \notin Disposition /\ Unplanned \notin Input

DisksTypeOK ==
  /\ TypeOK
  /\ review \in [Plans -> Input \cup {Unplanned}]
  /\ work \in [Jobs -> [at : Stages, i : Nat]]
  /\ definition \in [VMs -> Definition \cup {Undefined}]
  /\ volume \in [Volumes -> Volume]
  /\ receipt \in [Jobs -> Nat \cup {NoReceipt}]
  /\ disposition \in [Plans -> Disposition \cup {NoDisposition}]

DisksInit ==
  /\ HandlersInit
  /\ definition = Original
  /\ volume = [v \in Volumes |->
       IF \E vm \in VMs : Original[vm] # Undefined /\ \E s \in Slots : Original[vm][s] = v
         THEN [bytes |-> v, grown |-> FALSE] ELSE Absent]
  /\ receipt = [j \in Jobs |-> NoReceipt]
  /\ disposition = [p \in Plans |-> NoDisposition]

-----------------------------------------------------------------------------
(* What the backend observes. *)

Defined(vm) == definition[vm] # Undefined
Present(v) == volume[v].bytes # "absent"

\* definitionUsesVolume
Uses(vm, v) == Defined(vm) /\ \E s \in Slots : definition[vm][s] = v

\* diskSharedElsewhere, originalUnreferenced and the dependency graph.
UsedBesides(vm, v) == \E other \in VMs \ {vm} : Uses(other, v)

Filled(d) == {s \in Slots : d[s] # NoVolume}

\* The i-th target of a plan, in the order of their names.
Target(p, i) == CHOOSE s \in Chosen[p] : Cardinality({t \in Chosen[p] : t <= s}) = i
Count(p) == Cardinality(Chosen[p])

\* What plan p was made for: its targets, where their disks are and will be.
Source(p, i) == review[p].definition[Target(p, i)]
Destination(p, i) == NewVolume[p][Target(p, i)]

Seen(p, d) ==
  [s \in Slots |-> IF s \in Chosen[p] /\ d[s] # NoVolume THEN volume[d[s]] ELSE Absent]
SeenSource(p, i) == review[p].seen[Target(p, i)]

AsReviewed(p) == definition[Machine[p]] = review[p].definition

\* growState; a volume that another machine uses is refused.
GrowState(p) ==
  LET v == Source(p, 1)
      seen == SeenSource(p, 1) IN
  IF ~AsReviewed(p) \/ UsedBesides(Machine[p], v) THEN "stale"
  ELSE IF volume[v] = seen THEN "before"
  ELSE IF volume[v] = [seen EXCEPT !.grown = TRUE] THEN "grown"
  ELSE "stale"

\* checkDiskMove and moveState
MoveState(p) ==
  LET vm == Machine[p]
      old == Source(p, 1)
      copy == Destination(p, 1) IN
  CASE ~Uses(vm, copy) /\ AsReviewed(p) /\ Present(old) -> IF Present(copy) THEN "copied" ELSE "before"
    [] Uses(vm, copy) /\ ~Uses(vm, old) /\ Present(copy) ->
         IF Present(old) THEN "retargeted" ELSE "old-deleted"
    [] OTHER -> "stale"

\* cloneState
CloneState(p) ==
  LET copies == {i \in 1..Count(p) : Present(Destination(p, i))}
      new == NewMachine[p] IN
  IF ~AsReviewed(p) THEN "stale"
  ELSE IF Defined(new)
    THEN IF copies = 1..Count(p) /\ \A i \in copies : Uses(new, Destination(p, i)) THEN "defined" ELSE "stale"
  ELSE IF copies = {} THEN "before"
  ELSE IF copies = 1..Count(p) THEN "copied"
  ELSE "copying"

\* CheckDiskAddition: the definition as reviewed, or that with the new disk.
AddState(p) ==
  LET new == Destination(p, 1)
      after == [review[p].definition EXCEPT ![Target(p, 1)] = new] IN
  IF AsReviewed(p) THEN IF Present(new) THEN "volume-present" ELSE "before"
  ELSE IF definition[Machine[p]] = after /\ Present(new) THEN "added"
  ELSE "stale"

\* checkRemovalDisks: the first n chosen disks are gone and the others are
\* still those of the review; nobody uses any of them.
RemovalState(p, n) ==
  \A i \in 1..Count(p) :
    /\ volume[Source(p, i)] = IF i <= n THEN Absent ELSE SeenSource(p, i)
    /\ ~UsedBesides(Machine[p], Source(p, i))

\* InspectAddedDiskDisposal: whether the target names the new volume.
Referenced(a) == Defined(Machine[a]) /\ definition[Machine[a]][Target(a, 1)] = Destination(a, 1)

-----------------------------------------------------------------------------
(* checkDiskRemovalReferences: metadata and unresolved jobs that name a disk. *)

Mentions(q, v) ==
  \/ \E i \in 1..Count(q) : v \in {Source(q, i), Destination(q, i)}
  \/ Kind[q] \in Disposals /\ v = Destination(review[q].of, 1)

RecordedElsewhere(p, v) ==
  \E j \in Jobs : Stored(j) /\ jobs[j].planID # p /\
    LET q == jobs[j].planID IN
    \/ jobs[j].state \notin {"succeeded", "failed", "canceled"} /\ Mentions(q, v)
    \/ Kind[q] = "add" /\ receipt[j] \notin {NoReceipt, 0} /\ v = Destination(q, 1)
    \/ Kind[q] \in Disposals /\ disposition[review[q].of] # NoDisposition /\ v = Destination(review[q].of, 1)

Unrecorded(p, d) == \A s \in Chosen[p] : ~RecordedElsewhere(p, d[s])

-----------------------------------------------------------------------------
(* Validate of the handlers; the job it runs for makes no difference. *)

Undisposed(a) == disposition[a] = NoDisposition

\* The disposition must match what the host shows, as it did at the review.
DisposalValid(p) ==
  LET a == review[p].of IN
  /\ Undisposed(a) /\ Defined(Machine[p])
  /\ Referenced(a) = (Kind[p] = "accept")
  /\ Present(Destination(a, 1)) = (review[p].seen[Target(a, 1)] # Absent)

GrowValid(p) == GrowState(p) = "before"
MoveValid(p) == MoveState(p) = "before"
CloneValid(p) == CloneState(p) = "before"
AdditionValid(p) == AddState(p) = "before"
RemovalValid(p) ==
  AsReviewed(p) /\ RemovalState(p, 0) /\ Unrecorded(p, review[p].definition)

DiskValid(p, owner) ==
  \/ Kind[p] = "grow" /\ GrowValid(p)
  \/ Kind[p] = "move" /\ MoveValid(p)
  \/ Kind[p] = "clone" /\ CloneValid(p)
  \/ Kind[p] = "add" /\ AdditionValid(p)
  \/ Kind[p] = "remove" /\ RemovalValid(p)
  \/ Kind[p] \in Disposals /\ DisposalValid(p)

-----------------------------------------------------------------------------
(* Planning: only stopped machines whose disks nobody else uses. *)

PlanDisks(p, kind) ==
  LET vm == Machine[p] IN
  /\ Kind[p] = kind /\ Defined(vm)
  /\ StorePlan(p, [parent |-> NoJob, of |-> p, definition |-> definition[vm],
                   seen |-> Seen(p, definition[vm])])
  /\ UNCHANGED disks

\* The plan names the files it found, and will lock them.
OwnDisks(p) ==
  LET vm == Machine[p] IN
  \A s \in Chosen[p] :
    /\ s \in Filled(definition[vm]) /\ ~UsedBesides(vm, definition[vm][s])
    /\ definition[vm][s] \in ResourceIDs[p]

NewNamesFree(p) == \A s \in Chosen[p] : ~Present(NewVolume[p][s])

PlanGrow(p) == PlanDisks(p, "grow") /\ OwnDisks(p)

PlanMove(p) == PlanDisks(p, "move") /\ OwnDisks(p) /\ NewNamesFree(p)

\* A clone has a copy of every disk.
PlanClone(p) ==
  /\ PlanDisks(p, "clone") /\ OwnDisks(p) /\ NewNamesFree(p)
  /\ Chosen[p] = Filled(definition[Machine[p]]) /\ ~Defined(NewMachine[p])

PlanRemoval(p) ==
  PlanDisks(p, "remove") /\ OwnDisks(p) /\ Unrecorded(p, definition[Machine[p]])

PlanAddition(p) ==
  /\ PlanDisks(p, "add") /\ NewNamesFree(p)
  /\ Chosen[p] \cap Filled(definition[Machine[p]]) = {}

\* Only the unresolved addition itself can be closed, and only once.
Disposable(j) ==
  /\ Stored(j) /\ jobs[j].state \in Unresolved
  /\ Kind[jobs[j].planID] = "add" /\ Undisposed(jobs[j].planID)

PlanDisposal(p) ==
  /\ Kind[p] \in Disposals
  /\ \E j \in Jobs :
       LET a == jobs[j].planID IN
       /\ Disposable(j) /\ Machine[a] = Machine[p]
       /\ Defined(Machine[p]) /\ Referenced(a) = (Kind[p] = "accept")
       /\ StorePlan(p, [parent |-> j, of |-> a, definition |-> definition[Machine[p]],
                        seen |-> Seen(a, NewVolume[a])])
  /\ UNCHANGED disks

-----------------------------------------------------------------------------
(* Steps that several handlers share.  receipt' is the durable record. *)

Record(j, n) == receipt' = [receipt EXCEPT ![j] = n]
Written(v, content) == volume' = [volume EXCEPT ![v] = content]
Defines(vm, d) == definition' = [definition EXCEPT ![vm] = d]

\* Execute stores an empty receipt.
Starts(j, kind, at) ==
  /\ Does(j, kind) /\ In(j, "idle")
  /\ Record(j, 0) /\ GoTo(j, at, 1)
  /\ KeepsEngine /\ UNCHANGED <<definition, volume, disposition>>

StartGrow(j) == Starts(j, "grow", "resize") /\ GrowValid(PlanOf(j))
StartAddition(j) == Starts(j, "add", "allocate") /\ AdditionValid(PlanOf(j))
StartRemoval(j) == Starts(j, "remove", "undefine") /\ RemovalValid(PlanOf(j))
StartClone(j) == Starts(j, "clone", "allocate") /\ CloneValid(PlanOf(j))

\* A move would go on from any state it finds, but only foreign writers can
\* have brought about a later one.
StartMove(j) == Starts(j, "move", "allocate") /\ MoveValid(PlanOf(j))

\* A volume is made under a name that is free, and filled afterwards.
Allocates(j, kind, at) ==
  LET new == Destination(PlanOf(j), work[j].i) IN
  /\ Does(j, kind) /\ In(j, "allocate") /\ ~Present(new)
  /\ Written(new, Torn) /\ Go(j, at)
  /\ KeepsEngine /\ UNCHANGED <<definition, receipt, disposition>>

\* Copies are made of the disk as it was reviewed.
SourceUnchanged(j) == volume[Source(PlanOf(j), work[j].i)] = SeenSource(PlanOf(j), work[j].i)

AllocateMoved(j) ==
  Allocates(j, "move", "fill") /\ MoveValid(PlanOf(j)) /\ SourceUnchanged(j)

AllocateCloned(j) ==
  Allocates(j, "clone", "fill") /\ CloneState(PlanOf(j)) \in {"before", "copying"} /\ SourceUnchanged(j)

AllocateAdded(j) == Allocates(j, "add", "allocated")

RecordAllocation(j) ==
  /\ In(j, "allocated")
  /\ Record(j, 1) /\ Go(j, "fill")
  /\ KeepsEngine /\ UNCHANGED <<definition, volume, disposition>>

\* Mutant of Fill: a short copy that nobody reads back.
FillShort(j) ==
  /\ In(j, "fill") /\ Go(j, "filled")
  /\ KeepsEngine /\ UNCHANGED disks

\* Mutant of Fill: the two volumes are swapped.
FillSwapped(j) ==
  LET p == PlanOf(j)
      i == work[j].i IN
  /\ In(j, "fill")
  /\ Written(Source(p, i), volume[Destination(p, i)])
  /\ Go(j, "filled")
  /\ KeepsEngine /\ UNCHANGED <<definition, receipt, disposition>>

\* copyVolumeBytes, PopulateVolume; the bytes are read back at once.
Fill(j) ==
  LET p == PlanOf(j)
      i == work[j].i IN
  /\ In(j, "fill")
  /\ Written(Destination(p, i), IF Kind[p] = "add" THEN Blank ELSE volume[Source(p, i)])
  /\ Go(j, "filled")
  /\ KeepsEngine /\ UNCHANGED <<definition, receipt, disposition>>

RecordCopy(j) ==
  LET p == PlanOf(j)
      i == work[j].i IN
  /\ In(j, "filled")
  /\ Record(j, receipt[j] + 1)
  /\ IF Kind[p] = "clone" /\ i < Count(p) THEN GoTo(j, "allocate", i + 1) ELSE Go(j, "define")
  /\ KeepsEngine /\ UNCHANGED <<definition, volume, disposition>>

\* The definition is written and read back; the chosen targets have the new
\* volumes.
Redefines(j, kind, vm, old) ==
  LET p == PlanOf(j) IN
  /\ Does(j, kind) /\ In(j, "define")
  /\ Defines(vm, [s \in Slots |-> IF s \in Chosen[p] THEN NewVolume[p][s] ELSE old[s]])
  /\ Go(j, "defined")
  /\ KeepsEngine /\ UNCHANGED <<volume, receipt, disposition>>

DefineMovedDisk(j) ==
  LET vm == Machine[PlanOf(j)] IN
  Redefines(j, "move", vm, definition[vm]) /\ MoveState(PlanOf(j)) = "copied"

DefineClone(j) ==
  /\ Redefines(j, "clone", NewMachine[PlanOf(j)], [s \in Slots |-> NoVolume])
  /\ CloneState(PlanOf(j)) = "copied"

DefineAddedDisk(j) ==
  LET vm == Machine[PlanOf(j)] IN
  Redefines(j, "add", vm, definition[vm]) /\ AddState(PlanOf(j)) = "volume-present"

RecordDefinition(j) ==
  LET p == PlanOf(j) IN
  /\ In(j, "defined")
  /\ Record(j, receipt[j] + 1)
  /\ Go(j, IF Kind[p] = "move" /\ p \notin KeepsOld THEN "delete-old" ELSE "ok")
  /\ KeepsEngine /\ UNCHANGED <<definition, volume, disposition>>

-----------------------------------------------------------------------------
(* What only one handler does. *)

\* GrowDisk, and the look that confirms it.
Resize(j) ==
  LET p == PlanOf(j) IN
  /\ In(j, "resize") /\ GrowState(p) = "before"
  /\ Written(Source(p, 1), [SeenSource(p, 1) EXCEPT !.grown = TRUE])
  /\ Go(j, "resized")
  /\ KeepsEngine /\ UNCHANGED <<definition, receipt, disposition>>

RecordGrowth(j) ==
  /\ In(j, "resized") /\ GrowState(PlanOf(j)) = "grown"
  /\ Record(j, 1) /\ Go(j, "ok")
  /\ KeepsEngine /\ UNCHANGED <<definition, volume, disposition>>

MayDeleteOld(p) ==
  /\ MoveState(p) = "retargeted"
  /\ volume[Source(p, 1)] = SeenSource(p, 1)
  /\ ~UsedBesides(Machine[p], Source(p, 1))

DeleteOldVolume(j) ==
  LET p == PlanOf(j) IN
  /\ In(j, "delete-old") /\ MayDeleteOld(p)
  /\ Written(Source(p, 1), Absent)
  /\ Go(j, "old-deleted")
  /\ KeepsEngine /\ UNCHANGED <<definition, receipt, disposition>>

\* The move is done either way: a refused deletion, or one whose answer was
\* lost, is recorded and never repeated.
EndMove(j) ==
  /\ In(j, "delete-old") \/ In(j, "old-deleted")
  /\ Record(j, receipt[j] + 1) /\ Go(j, "ok")
  /\ KeepsEngine /\ UNCHANGED <<definition, volume, disposition>>

\* removeHeldDefinition
RemoveDefinition(j) ==
  LET p == PlanOf(j) IN
  /\ In(j, "undefine") /\ AsReviewed(p)
  /\ Defines(Machine[p], Undefined)
  /\ Go(j, "undefined")
  /\ KeepsEngine /\ UNCHANGED <<volume, receipt, disposition>>

RecordUndefined(j) ==
  /\ In(j, "undefined")
  /\ Record(j, 1) /\ GoTo(j, "intend", 1)
  /\ KeepsEngine /\ UNCHANGED <<definition, volume, disposition>>

\* One of the loop's turns: the cancellation, the references, the states.
MayRemove(p, i) ==
  /\ ~Defined(Machine[p]) /\ RemovalState(p, i - 1)
  /\ Unrecorded(p, review[p].definition)

IntendRemoval(j) ==
  /\ In(j, "intend") /\ ~Canceled(j) /\ MayRemove(PlanOf(j), work[j].i)
  /\ Go(j, "remove")
  /\ KeepsEngine /\ UNCHANGED disks

DeleteRemovalDisk(j) ==
  LET p == PlanOf(j)
      i == work[j].i IN
  /\ In(j, "remove") /\ ~Defined(Machine[p]) /\ RemovalState(p, i - 1)
  /\ Written(Source(p, i), Absent)
  /\ Go(j, "removed")
  /\ KeepsEngine /\ UNCHANGED <<definition, receipt, disposition>>

RecordRemoval(j) ==
  LET p == PlanOf(j)
      i == work[j].i IN
  /\ In(j, "removed") /\ RemovalState(p, i)
  /\ Record(j, i + 1)
  /\ IF i < Count(p) THEN GoTo(j, "intend", i + 1) ELSE Go(j, "ok")
  /\ KeepsEngine /\ UNCHANGED <<definition, volume, disposition>>

\* The disposition is on record before anything is deleted.
CloseAddition(j) ==
  LET p == PlanOf(j)
      a == review[p].of IN
  /\ In(j, "idle") /\ Kind[p] \in Disposals /\ DisposalValid(p)
  /\ disposition' = [disposition EXCEPT ![a] = [by |-> p, job |-> j]]
  /\ Go(j, IF Kind[p] = "delete" /\ Present(Destination(a, 1)) THEN "delete-new" ELSE "ok")
  /\ KeepsEngine /\ UNCHANGED <<definition, volume, receipt>>

DeleteUnreferencedDisk(j) ==
  LET p == PlanOf(j)
      a == review[p].of
      new == Destination(a, 1) IN
  /\ In(j, "delete-new") /\ Defined(Machine[p]) /\ ~Referenced(a)
  /\ volume[new] = review[p].seen[Target(a, 1)] /\ ~UsedBesides(Machine[p], new)
  /\ Written(new, Absent)
  /\ Go(j, "new-deleted")
  /\ KeepsEngine /\ UNCHANGED <<definition, receipt, disposition>>

ConfirmDisposal(j) ==
  /\ In(j, "new-deleted") /\ ~Present(Destination(review[PlanOf(j)].of, 1))
  /\ Go(j, "ok")
  /\ KeepsEngine /\ UNCHANGED disks

-----------------------------------------------------------------------------
(* Errors, and the answers to the engine. *)

\* Whether an error of the current call is reported as one that left nothing
\* behind but an unused volume (operations.NotDone).
LeavesNothing(j) ==
  LET p == PlanOf(j)
      at == work[j].at IN
  \/ Kind[p] = "grow" /\ at \in {"resize", "resized"} /\ GrowState(p) = "before"
  \/ Kind[p] = "move" /\ at \in {"allocate", "fill", "filled"} /\ MoveState(p) \in {"before", "copied"}
  \/ Kind[p] \in {"clone", "add"} /\ at \in {"allocate", "fill", "filled"}

\* A call or a write of the receipt fails, before or after it took effect.
WorkFails(j) ==
  /\ Busy(j)
  /\ Go(j, "error") \/ (LeavesNothing(j) /\ Go(j, "not-done"))
  /\ KeepsEngine /\ UNCHANGED disks

\* Mutant of RemovalDone: what was recorded so far is enough.
RemovalDoneAsRecorded(p, j) == receipt[j] \notin {NoReceipt, 0}

RemovalDone(p, j) ==
  receipt[j] = 1 + Count(p) /\ ~Defined(Machine[p]) /\ RemovalState(p, Count(p))

DisposalDone(p, j) ==
  LET a == review[p].of IN
  /\ disposition[a] = [by |-> p, job |-> j]
  /\ Kind[p] = "delete" => Defined(Machine[p]) /\ ~Present(Destination(a, 1))

Receipted(j) == receipt[j] # NoReceipt
GrowDone(p, j) == Receipted(j) /\ GrowState(p) = "grown"
MoveDone(p, j) == Receipted(j) /\ MoveState(p) \in {"retargeted", "old-deleted"}
CloneDone(p, j) == Receipted(j) /\ receipt[j] >= Count(p) /\ CloneState(p) = "defined"
AdditionDone(p, j) == Receipted(j) /\ receipt[j] >= 2 /\ AddState(p) = "added"

DiskDone(p, i, j) ==
  \/ Kind[p] = "grow" /\ GrowDone(p, j)
  \/ Kind[p] = "move" /\ MoveDone(p, j)
  \/ Kind[p] = "clone" /\ CloneDone(p, j)
  \/ Kind[p] = "add" /\ AdditionDone(p, j)
  \/ Kind[p] = "remove" /\ RemovalDone(p, j)
  \/ Kind[p] \in Disposals /\ DisposalDone(p, j)

-----------------------------------------------------------------------------

Work(j) ==
  \/ StartGrow(j) \/ StartMove(j) \/ StartClone(j) \/ StartAddition(j) \/ StartRemoval(j)
  \/ AllocateMoved(j) \/ AllocateCloned(j) \/ AllocateAdded(j) \/ RecordAllocation(j)
  \/ Fill(j) \/ RecordCopy(j)
  \/ DefineMovedDisk(j) \/ DefineClone(j) \/ DefineAddedDisk(j) \/ RecordDefinition(j)
  \/ Resize(j) \/ RecordGrowth(j)
  \/ DeleteOldVolume(j) \/ EndMove(j)
  \/ RemoveDefinition(j) \/ RecordUndefined(j)
  \/ IntendRemoval(j) \/ DeleteRemovalDisk(j) \/ RecordRemoval(j)
  \/ CloseAddition(j) \/ DeleteUnreferencedDisk(j) \/ ConfirmDisposal(j)
  \/ WorkFails(j)

DisksNext ==
  \/ \E p \in Plannable :
       PlanGrow(p) \/ PlanMove(p) \/ PlanClone(p) \/ PlanRemoval(p) \/ PlanAddition(p) \/ PlanDisposal(p)
  \/ \E j \in Jobs :
       \/ Work(j)
       \/ (ExecuteReturns(j) \/ EngineSteps(j, DiskValid, DiskDone)) /\ UNCHANGED disks
  \/ ProcessSteps(DiskDone) /\ UNCHANGED disks

DisksSpec == DisksInit /\ [][DisksNext]_diskVars
-----------------------------------------------------------------------------
(* What must hold. *)

\* A machine, and those it was cloned from, directly or through other clones.
Clones == {p \in Plans : Kind[p] = "clone"}
Ancestors(vm) ==
  {w \in VMs : \A S \in SUBSET VMs :
     vm \in S /\ (\A p \in Clones : NewMachine[p] \in S => Machine[p] \in S) => w \in S}

\* The bytes the guest left at target s of a machine or of one it was cloned
\* from; a disk that was added there is blank.
BytesAt(vm, s) ==
  ({Original[w][s] : w \in {v \in Ancestors(vm) : Original[v] # Undefined}} \ {NoVolume})
  \cup {"blank" : p \in {q \in Plans : Kind[q] = "add" /\ Machine[q] \in Ancestors(vm) /\ s \in Chosen[q]}}

\* Whatever fails or crashes on the way, every disk of every defined machine is
\* there, completely written, holds what the guest left at that target, and
\* belongs to no other machine (the Execute methods of the disk handlers,
\* CopyDiskVolume, CopyCloneDisk, DefineMovedDisk, DefineClone, DefineAddedDisk).
DisksAreWhole ==
  \A vm \in VMs : Defined(vm) =>
    \A s \in Filled(definition[vm]) :
      LET v == definition[vm][s] IN
      volume[v].bytes \in BytesAt(vm, s) /\ ~UsedBesides(vm, v)

\* The data of a disk is in the pools for as long as nobody accepted a removal
\* that chose the disk: moving, cloning, growing and closing an addition never
\* lose it, wherever they stop (DeleteOldVolume, DeleteRemovalDisk,
\* DeleteUnreferencedDisk).
DataSurvives ==
  \A vm \in VMs, s \in Slots :
    Original[vm] # Undefined /\ Original[vm][s] # NoVolume =>
      \/ \E v \in Volumes : volume[v].bytes = Original[vm][s]
      \/ \E j \in Jobs : Stored(j) /\ Kind[jobs[j].planID] = "remove"
                         /\ Machine[jobs[j].planID] = vm /\ s \in Chosen[jobs[j].planID]

\* What the plan of j promised is there; what an operation that claims to have
\* left nothing behind might have changed is as it was reviewed.
Achieved(j) ==
  LET p == jobs[j].planID
      vm == Machine[p]
      new == NewVolume[p] IN
  /\ Kind[p] = "grow" => volume[Source(p, 1)].grown /\ AsReviewed(p)
  /\ Kind[p] \in {"move", "add"} => Defined(vm) /\ \A s \in Chosen[p] : definition[vm][s] = new[s]
  /\ Kind[p] = "clone" => Defined(NewMachine[p]) /\ \A s \in Chosen[p] : definition[NewMachine[p]][s] = new[s]
  /\ Kind[p] = "remove" => ~Defined(vm) /\ \A i \in 1..Count(p) : ~Present(Source(p, i))
  /\ Kind[p] = "accept" => Referenced(review[p].of)
  /\ Kind[p] = "delete" => ~Present(Destination(review[p].of, 1)) /\ ~Referenced(review[p].of)

Untouched(j) ==
  LET p == jobs[j].planID IN
  AsReviewed(p) /\ (Kind[p] = "grow" => volume[Source(p, 1)] = SeenSource(p, 1))

\* The outcome written for a job that holds its locks is true of the host: a
\* success brought the reviewed change about, a plain failure after Execute
\* changed neither the definition nor the size of a disk (Reconcile and
\* operations.NotDone in the disk handlers, Engine.run, Engine.Reconcile).
DiskOutcomesAreTrue ==
  [][\A j \in Jobs :
       Stored(j) /\ Holds(j) /\ jobs'[j].state # jobs[j].state =>
         /\ jobs'[j].state = "succeeded" => Achieved(j)
         /\ jobs'[j].state = "failed" /\ At(j, "returned") => Untouched(j)]_diskVars
=============================================================================
