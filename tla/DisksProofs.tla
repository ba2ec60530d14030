----------------------------- MODULE DisksProofs -----------------------------
(***************************************************************************)
(* Disks implements Engine; and for any number of machines, disks, plans   *)
(* and jobs, whatever fails on the way: every disk of a defined machine is *)
(* whole and its own, no data is lost but by a removal that chose its disk, *)
(* and the outcome of every job is true of the host.                       *)
(***************************************************************************)
EXTENDS Disks, EngineProofs

-----------------------------------------------------------------------------
(* What the steps of the handlers leave alone. *)

\* Execute of job j has gone on, and no other job's.
Progresses(j) ==
  /\ DOMAIN work' = DOMAIN work
  /\ \A m \in DOMAIN work : m # j => work'[m] = work[m]

LEMMA GoProgresses ==
  ASSUME NEW j, NEW at, Go(j, at)
  PROVE  Progresses(j)
BY DEF Go, Progresses

LEMMA GoToProgresses ==
  ASSUME NEW j, NEW at, NEW i, GoTo(j, at, i)
  PROVE  Progresses(j)
BY DEF GoTo, Progresses

LEMMA WorkFrame ==
  ASSUME NEW j, Work(j)
  PROVE  KeepsEngine /\ Progresses(j) /\ At(j, "execute")
<1>1. CASE StartGrow(j) \/ StartMove(j) \/ StartClone(j) \/ StartAddition(j) \/ StartRemoval(j)
  BY <1>1, GoToProgresses DEF StartGrow, StartMove, StartClone, StartAddition, StartRemoval, Starts, In
<1>2. CASE AllocateMoved(j) \/ AllocateCloned(j) \/ AllocateAdded(j)
  BY <1>2, GoProgresses DEF AllocateMoved, AllocateCloned, AllocateAdded, Allocates, In
<1>3. CASE DefineMovedDisk(j) \/ DefineClone(j) \/ DefineAddedDisk(j)
  BY <1>3, GoProgresses DEF DefineMovedDisk, DefineClone, DefineAddedDisk, Redefines, In
<1>4. CASE RecordAllocation(j) \/ Fill(j) \/ RecordCopy(j) \/ RecordDefinition(j) \/ Resize(j) \/ RecordGrowth(j)
  BY <1>4, GoProgresses, GoToProgresses
     DEF RecordAllocation, Fill, RecordCopy, RecordDefinition, Resize, RecordGrowth, In
<1>5. CASE DeleteOldVolume(j) \/ EndMove(j) \/ RemoveDefinition(j) \/ RecordUndefined(j)
  BY <1>5, GoProgresses, GoToProgresses DEF DeleteOldVolume, EndMove, RemoveDefinition, RecordUndefined, In
<1>6. CASE IntendRemoval(j) \/ DeleteRemovalDisk(j) \/ RecordRemoval(j)
  BY <1>6, GoProgresses, GoToProgresses DEF IntendRemoval, DeleteRemovalDisk, RecordRemoval, In
<1>7. CASE CloseAddition(j) \/ DeleteUnreferencedDisk(j) \/ ConfirmDisposal(j) \/ WorkFails(j)
  BY <1>7, GoProgresses DEF CloseAddition, DeleteUnreferencedDisk, ConfirmDisposal, WorkFails, In, Busy
<1> QED
  BY <1>1, <1>2, <1>3, <1>4, <1>5, <1>6, <1>7 DEF Work

PlanSteps(p) ==
  PlanGrow(p) \/ PlanMove(p) \/ PlanClone(p) \/ PlanRemoval(p) \/ PlanAddition(p) \/ PlanDisposal(p)

\* Planning stores what it saw, and nothing else.
LEMMA PlansFrame ==
  ASSUME NEW p, PlanSteps(p)
  PROVE  /\ UNCHANGED <<vars, work, disks>> /\ ~Planned(p)
         /\ \E input : review' = [review EXCEPT ![p] = input]
BY DEF PlanSteps, PlanGrow, PlanMove, PlanClone, PlanRemoval, PlanAddition, PlanDisposal, PlanDisks, StorePlan

-----------------------------------------------------------------------------
(* Every step is a step of the engine or none. *)

\* The engine's own steps, with the answers of the handlers.
EngineMoves ==
  \/ \E j \in Jobs : ExecuteReturns(j) \/ EngineSteps(j, DiskValid, DiskDone)
  \/ ProcessSteps(DiskDone)

LEMMA StepKinds ==
  ASSUME DisksNext
  PROVE  \/ \E p \in Plannable : PlanSteps(p)
         \/ \E j \in Jobs : Work(j)
         \/ EngineMoves /\ UNCHANGED disks
BY DEF DisksNext, EngineMoves, PlanSteps

LEMMA EngineMovesEngine ==
  ASSUME EngineMoves
  PROVE  Next
<1>1. ASSUME NEW j \in Jobs, ExecuteReturns(j)
      PROVE  Next
  <2>1. \E outcome \in Outcome \ {"none"} : Execute(j, outcome)
    BY <1>1 DEF ExecuteReturns, Outcome, Results
  <2> QED
    BY <2>1 DEF Next, Run
<1>2. ASSUME NEW j \in Jobs, EngineSteps(j, DiskValid, DiskDone)
      PROVE  Next
  <2>1. CASE Applied(j, DiskValid)
    BY <2>1 DEF Applied, Made, Next
  <2> QED
    BY <1>2, <2>1 DEF EngineSteps, Next, Run
<1>3. CASE ProcessSteps(DiskDone)
  BY <1>3 DEF ProcessSteps, Next
<1> QED
  BY <1>1, <1>2, <1>3 DEF EngineMoves

LEMMA StepImplements ==
  ASSUME [DisksNext]_diskVars
  PROVE  [Next]_vars
<1>1. CASE UNCHANGED diskVars
  BY <1>1 DEF diskVars
<1>2. ASSUME NEW p \in Plannable, PlanSteps(p)
      PROVE  UNCHANGED vars
  BY <1>2, PlansFrame
<1>3. ASSUME NEW j \in Jobs, Work(j)
      PROVE  UNCHANGED vars
  BY <1>3, WorkFrame DEF KeepsEngine
<1> QED
  BY <1>1, <1>2, <1>3, StepKinds, EngineMovesEngine

\* Whichever of their disks the jobs are about, they run as jobs of the engine
\* (Execute, Validate and Reconcile of the disk handlers called by Engine.run).
THEOREM DisksImplementEngine == DisksSpec => Spec
<1>1. DisksInit => Init
  BY DEF DisksInit, HandlersInit
<1>2. [DisksNext]_diskVars => [Next]_vars
  BY StepImplements
<1> QED
  BY <1>1, <1>2, PTL DEF DisksSpec, Spec

\* Operations on the same machine or volume never run together, and one whose
\* effect is in doubt keeps them locked (Engine.run, Store.Update).
THEOREM DiskJobsAreSafe == DisksSpec => [](RunnersAreExclusive /\ DoubtKeepsLocks)
BY DisksImplementEngine, Exclusion, DoubtIsGuarded, PTL

-----------------------------------------------------------------------------
(* The targets of a plan, in their order.                                    *)

Rank(p) == [s \in Chosen[p] |-> Cardinality({t \in Chosen[p] : t <= s})]

LEMMA ChosenAre ==
  ASSUME NEW p \in Plans
  PROVE  /\ Chosen[p] \subseteq Slots /\ Chosen[p] \subseteq Nat /\ IsFiniteSet(Chosen[p])
         /\ Count(p) \in Nat /\ Cardinality(Chosen[p]) = Count(p)
<1>1. Chosen[p] \subseteq Slots /\ Slots \subseteq Nat /\ IsFiniteSet(Slots)
  BY DiskPlans
<1>2. IsFiniteSet(Chosen[p])
  BY <1>1, FS_Subset
<1> QED
  BY <1>1, <1>2, FS_CardinalityType DEF Count

\* Ranks are numbers from one, no two targets have the same one.
LEMMA RanksDiffer ==
  ASSUME NEW p \in Plans
  PROVE  /\ Rank(p) \in Injection(Chosen[p], 1..Count(p))
         /\ Rank(p) \in Surjection(Chosen[p], 1..Count(p))
<1> DEFINE S == Chosen[p]
           Upto(s) == {t \in S : t <= s}
<1>1. S \subseteq Nat /\ IsFiniteSet(S) /\ Count(p) \in Nat /\ Cardinality(S) = Count(p)
  BY ChosenAre
<1>2. ASSUME NEW s \in S
      PROVE  IsFiniteSet(Upto(s)) /\ Cardinality(Upto(s)) \in 1..Count(p)
  <2>1. Upto(s) \in SUBSET S
    OBVIOUS
  <2>2. IsFiniteSet(Upto(s)) /\ Cardinality(Upto(s)) <= Cardinality(S)
    BY <1>1, <2>1, FS_Subset
  <2>3. s \in Nat
    BY <1>1
  <2>4. s \in Upto(s)
    BY <2>3
  <2>5. Upto(s) # {}
    BY <2>4
  <2>6. Cardinality(Upto(s)) \in Nat /\ Cardinality(Upto(s)) # 0
    BY <2>2, <2>5, FS_EmptySet, FS_CardinalityType
  <2> HIDE DEF Upto
  <2> QED
    BY <1>1, <2>2, <2>6
<1>3. ASSUME NEW s \in S, NEW t \in S, s < t
      PROVE  Cardinality(Upto(s)) # Cardinality(Upto(t))
  <2>1. s \in Nat /\ t \in Nat
    BY <1>1
  <2>2. Upto(s) \in SUBSET Upto(t)
    BY <1>1, <1>3, <2>1
  <2>3. t \in Upto(t) /\ t \notin Upto(s)
    BY <1>3, <2>1
  <2>4. Cardinality(Upto(s)) = Cardinality(Upto(t)) => Upto(t) = Upto(s)
    BY <1>2, <2>2, FS_Subset
  <2> QED
    BY <2>3, <2>4
<1>4. Rank(p) = [s \in S |-> Cardinality(Upto(s))]
  BY DEF Rank
<1>5. Rank(p) \in [S -> 1..Count(p)]
  BY <1>2, <1>4
<1> HIDE DEF S, Upto
<1>6. ASSUME NEW s \in S, NEW t \in S, Rank(p)[s] = Rank(p)[t]
      PROVE  s = t
  <2>1. s \in Nat /\ t \in Nat
    BY <1>1
  <2>2. ~(s < t) /\ ~(t < s)
    BY <1>3, <1>4, <1>6
  <2> QED
    BY <2>1, <2>2
<1>7. Rank(p) \in Injection(S, 1..Count(p))
  BY <1>5, <1>6 DEF Injection, IsInjective
<1>8. IsFiniteSet(1..Count(p)) /\ Cardinality(1..Count(p)) = Count(p)
  BY <1>1, FS_Interval
<1>9. Rank(p) \in Surjection(S, 1..Count(p))
  BY <1>1, <1>7, <1>8, FS_Injection
<1> QED
  BY <1>7, <1>9 DEF S

\* The i-th target is one of those chosen, and no other is.
LEMMA TargetIs ==
  ASSUME NEW p \in Plans, NEW i \in 1..Count(p)
  PROVE  Target(p, i) \in Chosen[p] /\ Rank(p)[Target(p, i)] = i
<1>1. PICK s \in Chosen[p] : Rank(p)[s] = i
  BY RanksDiffer DEF Surjection
<1>2. Cardinality({t \in Chosen[p] : t <= s}) = i
  BY <1>1 DEF Rank
<1>3. Target(p, i) \in Chosen[p] /\ Cardinality({t \in Chosen[p] : t <= Target(p, i)}) = i
  BY <1>2 DEF Target
<1> QED
  BY <1>3 DEF Rank

LEMMA TargetsDiffer ==
  ASSUME NEW p \in Plans, NEW i \in 1..Count(p), NEW k \in 1..Count(p), Target(p, i) = Target(p, k)
  PROVE  i = k
BY TargetIs

LEMMA EveryTarget ==
  ASSUME NEW p \in Plans, NEW s \in Chosen[p]
  PROVE  \E i \in 1..Count(p) : Target(p, i) = s
<1>1. Rank(p)[s] \in 1..Count(p)
  BY RanksDiffer DEF Injection
<1> DEFINE i == Rank(p)[s]
<1>2. Target(p, i) \in Chosen[p] /\ Rank(p)[Target(p, i)] = i
  BY <1>1, TargetIs
<1>3. Target(p, i) = s
  BY <1>2, RanksDiffer DEF Injection, IsInjective
<1> QED
  BY <1>1, <1>3

\* Growing, moving and adding are about one target.
LEMMA OneTarget ==
  ASSUME NEW p \in Plans, Kind[p] \in {"grow", "move", "add"}
  PROVE  Count(p) = 1 /\ Chosen[p] = {Target(p, 1)}
<1>1. PICK s \in Slots : Chosen[p] = {s}
  BY RequestsAreValid
<1>2. Count(p) = 1
  BY <1>1, FS_Singleton DEF Count
<1>3. Target(p, 1) \in Chosen[p]
  BY <1>2, TargetIs
<1> QED
  BY <1>1, <1>2, <1>3

-----------------------------------------------------------------------------
(* What every handler relies on: the types, a stored job has a stored plan,  *)
(* a disposition is the recovery of the addition it was reviewed for, and    *)
(* Execute is where the plan and the item it works on allow.                 *)

Task(j) == jobs[j].planID

MakerStates == {"allocate", "allocated", "fill", "filled", "define"}
RemovalStates == {"undefined", "intend", "remove", "removed"}

DisksTypes ==
  /\ review \in [Plans -> Input \cup {Unplanned}]
  /\ work \in [Jobs -> [at : Stages, i : Nat]]
  /\ definition \in [VMs -> Definition \cup {Undefined}]
  /\ volume \in [Volumes -> Volume]
  /\ receipt \in [Jobs -> Nat \cup {NoReceipt}]
  /\ disposition \in [Plans -> Disposition \cup {NoDisposition}]

WorkIsRun == \A j \in Jobs : work[j].at # "idle" => At(j, "execute")

\* Where Execute of a job may be: at which item of which operation.
Fits(p, w) ==
  /\ w.at \in MakerStates => Kind[p] \in Makers /\ w.i \in 1..Count(p)
  /\ w.at = "allocated" => Kind[p] = "add"
  /\ w.at = "define" => w.i = Count(p)
  /\ w.at = "defined" => Kind[p] \in Makers
  /\ w.at \in RemovalStates \cup {"undefine"} => Kind[p] = "remove" /\ w.i \in 1..Count(p)
  /\ w.at \in {"undefine", "undefined"} => w.i = 1
  /\ w.at \in {"delete-old", "old-deleted"} => Kind[p] = "move"
  /\ w.at \in {"resize", "resized"} => Kind[p] = "grow"
  /\ w.at \in {"delete-new", "new-deleted"} => Kind[p] = "delete"

WorkFits ==
  \A j \in Jobs :
    /\ Fits(Task(j), work[j])
    /\ work[j].at \notin Results \cup {"idle"} /\ Kind[Task(j)] \notin Disposals => receipt[j] \in Nat

\* What planning p found and may be relied on.
ReviewFits(p, r) ==
  /\ Kind[p] \in {"grow", "move", "clone", "remove"} =>
       \A s \in Chosen[p] : r.definition[s] \in Volumes /\ r.definition[s] \in ResourceIDs[p]
  /\ Kind[p] = "add" => \A s \in Chosen[p] : r.definition[s] = NoVolume
  /\ Kind[p] \in Disposals =>
       /\ r.parent \in Jobs /\ Stored(r.parent) /\ r.of = Task(r.parent)
       /\ Kind[r.of] = "add" /\ Machine[r.of] = Machine[p]

ReviewsFit == \A p \in Plans : Planned(p) => ReviewFits(p, review[p])

RecoveriesFit ==
  \A j \in Jobs : Stored(j) =>
    /\ Planned(Task(j))
    /\ Task(j) \in RecoveryPlans => jobs[j].recoveryOf = review[Task(j)].parent
    /\ Task(j) \notin RecoveryPlans => jobs[j].recoveryOf = NoJob

BaseInv == AcceptanceInv /\ DisksTypes /\ WorkIsRun /\ WorkFits /\ ReviewsFit /\ RecoveriesFit

LEMMA GoIs ==
  ASSUME DisksTypes, NEW j \in Jobs, NEW at \in Stages, Go(j, at)
  PROVE  /\ work' \in [Jobs -> [at : Stages, i : Nat]]
         /\ work'[j].at = at /\ work'[j].i = work[j].i
         /\ \A m \in Jobs : m # j => work'[m] = work[m]
BY DEF Go, DisksTypes

LEMMA GoToIs ==
  ASSUME DisksTypes, NEW j \in Jobs, NEW at \in Stages, NEW i \in Nat, GoTo(j, at, i)
  PROVE  /\ work' \in [Jobs -> [at : Stages, i : Nat]]
         /\ work'[j].at = at /\ work'[j].i = i
         /\ \A m \in Jobs : m # j => work'[m] = work[m]
BY DEF GoTo, DisksTypes

\* A job at work is stored, its runner knows its plan, and it holds its locks.
LEMMA WorkerFacts ==
  ASSUME AcceptanceInv, NEW j \in Jobs, At(j, "execute")
  PROVE  /\ Live(j) /\ Stored(j) /\ Holds(j) /\ PlanOf(j) = Task(j) /\ Task(j) \in Plans
         /\ jobs[j].state \in Active
<1>1. Live(j) /\ TypeOK /\ RunnersHold
  BY DEF At, Live, AcceptanceInv, DoubtInv, OwnershipInv, Ownership
<1>2. Stored(j) /\ Holds(j) /\ PlanOf(j) = Task(j) /\ jobs[j].state \in Active
  BY <1>1 DEF RunnersHold, PlanOf, Task
<1> QED
  BY <1>1, <1>2, RowOfStored DEF TypeOK, Task, Row

\* What is chosen and made.
LEMMA ItemFacts ==
  ASSUME NEW p \in Plans, NEW i \in 1..Count(p)
  PROVE  /\ Target(p, i) \in Chosen[p] /\ Target(p, i) \in Slots
         /\ Destination(p, i) \in Volumes
         /\ Kind[p] \in Makers => Destination(p, i) \in MadeBy(p) /\ Destination(p, i) \in ResourceIDs[p]
<1>1. Target(p, i) \in Chosen[p] /\ Target(p, i) \in Slots
  BY TargetIs, ChosenAre
<1>2. Destination(p, i) \in Volumes
  BY <1>1, DiskPlans DEF Destination
<1>3. Kind[p] \in Makers => Destination(p, i) \in MadeBy(p)
  BY <1>1 DEF MadeBy, Destination
<1> QED
  BY <1>1, <1>2, <1>3, RequestsAreValid

LEMMA SourceFacts ==
  ASSUME DisksTypes, ReviewsFit, NEW p \in Plans, Planned(p),
         Kind[p] \in {"grow", "move", "clone", "remove"}, NEW i \in 1..Count(p)
  PROVE  /\ Source(p, i) \in Volumes /\ Source(p, i) \in ResourceIDs[p]
         /\ SeenSource(p, i) \in Volume
<1>1. review[p] \in Input
  BY DEF DisksTypes, Planned
<1>2. review[p].seen \in [Slots -> Volume] /\ Target(p, i) \in Slots /\ Target(p, i) \in Chosen[p]
  BY <1>1, ItemFacts DEF Input
<1> QED
  BY <1>2 DEF ReviewsFit, ReviewFits, Source, SeenSource

\* Clones, moves, removals and additions are about at least one target.
LEMMA HasTarget ==
  ASSUME NEW p \in Plans, Kind[p] \in {"grow", "move", "add", "clone", "remove"}
  PROVE  1 \in 1..Count(p)
<1>1. Chosen[p] # {}
  BY RequestsAreValid
<1>2. Count(p) # 0 /\ Count(p) \in Nat
  BY <1>1, ChosenAre, FS_EmptySet
<1> QED
  BY <1>2

-----------------------------------------------------------------------------
(* What a step of the engine does to the rows and the locks.                 *)

\* No step gives locks to a stored job, or a parent to one.
LEMMA StoredJobsGainNothing ==
  ASSUME AcceptanceInv, [Next]_vars, NEW j \in Jobs, Stored(j)
  PROVE  /\ jobs'[j].recoveryOf = jobs[j].recoveryOf
         /\ Holds(j)' => Holds(j)
<1>1. TypeOK /\ JournalStep
  BY NextJournal DEF AcceptanceInv, DoubtInv, OwnershipInv
<1>2. Resource(j)' = Resource(j) /\ Resource(j) \subseteq Resources
  <2>1. jobs[j].planID \in Plans
    BY <1>1, RowOfStored DEF TypeOK, Row
  <2> QED
    BY <2>1, JobsAreKept, PlansAreComplete DEF Resource
<1>3. CASE UNCHANGED journal
  BY <1>2, <1>3 DEF journal, Holds
<1>4. ASSUME NEW i \in Jobs, NEW row \in Row, Writes(i, row)
      PROVE  jobs'[j].recoveryOf = jobs[j].recoveryOf /\ (Holds(j)' => Holds(j))
  <2>1. /\ \A k \in Jobs : k # i => jobs'[k] = jobs[k]
        /\ \A r \in Resources :
             locks'[r] = IF locks[r] = i /\ row.state \in Finished THEN NoJob ELSE locks[r]
    BY <1>1, <1>4, UpdateEffect DEF Writes
  <2>2. jobs'[i].recoveryOf = jobs[i].recoveryOf
    BY <1>1, <1>4, WriteEffect
  <2> QED
    BY <1>2, <2>1, <2>2, NullsAreNotValues DEF Holds
<1>5. ASSUME NEW i \in Jobs, NEW k \in Keys, NEW q \in Request,
             Accepts(i, k, q) \/ AcceptsRecovery(i, k, q)
      PROVE  jobs'[j].recoveryOf = jobs[j].recoveryOf /\ (Holds(j)' => Holds(j))
  <2>1. PICK c \in Jobs \cup {NoJob} :
          \/ Accept(i, k, q) /\ c = NoJob
          \/ AcceptRecovery(i, k, q) /\ c = q.parent /\ c \in Jobs
    BY <1>5 DEF Accepts, AcceptsRecovery
  <2>2. /\ ~Stored(i) /\ \A m \in Jobs \ {i, c} : jobs'[m] = jobs[m]
        /\ c \in Jobs => jobs'[c].recoveryOf = jobs[c].recoveryOf
    BY <1>1, <2>1, StartEffect
  <2>3. locks' = [r \in Resources |-> IF r \in ResourceIDs[q.planID] THEN i ELSE locks[r]]
    BY <2>1 DEF Accept, AcceptRecovery
  <2> QED
    BY <1>2, <2>2, <2>3 DEF Holds
<1> QED
  BY <1>1, <1>3, <1>4, <1>5 DEF JournalStep, Observes

\* A recovery takes over all the locks of its parent.
LEMMA ParentsHold ==
  ASSUME AcceptanceInv, [Next]_vars, NEW c \in Jobs, ~Stored(c), Stored(c)', jobs'[c].recoveryOf # NoJob
  PROVE  Holds(jobs'[c].recoveryOf) /\ Stored(jobs'[c].recoveryOf) /\ jobs'[c].recoveryOf \in Jobs
<1>1. TypeOK /\ JournalStep
  BY NextJournal DEF AcceptanceInv, DoubtInv, OwnershipInv
<1>2. ~UNCHANGED journal
  BY DEF journal, Stored
<1>3. ASSUME NEW i \in Jobs, NEW row \in Row, Writes(i, row)
      PROVE  FALSE
  BY <1>1, <1>3, UpdateEffect DEF Writes
<1>4. ASSUME NEW i \in Jobs, NEW k \in Keys, NEW q \in Request,
             Accepts(i, k, q) \/ AcceptsRecovery(i, k, q)
      PROVE  Holds(jobs'[c].recoveryOf) /\ Stored(jobs'[c].recoveryOf) /\ jobs'[c].recoveryOf \in Jobs
  <2>1. PICK d \in Jobs \cup {NoJob} :
          \/ Accept(i, k, q) /\ d = NoJob
          \/ AcceptRecovery(i, k, q) /\ d = q.parent /\ d \in Jobs
    BY <1>4 DEF Accepts, AcceptsRecovery
  <2>2. /\ jobs'[i] = NewRow(q.planID, d)
        /\ \A m \in Jobs : Stored(m)' <=> Stored(m) \/ m = i
    BY <1>1, <2>1, StartEffect
  <2>3. c = i /\ jobs'[c].recoveryOf = d
    BY <2>2 DEF NewRow
  <2>4. AcceptRecovery(i, k, q) /\ d = q.parent /\ d \in Jobs
    BY <2>1, <2>3
  <2> QED
    BY <2>3, <2>4 DEF AcceptRecovery, Recoverable, Holds
<1> QED
  BY <1>1, <1>2, <1>3, <1>4 DEF JournalStep, Observes

\* The locks of job j, which makes or made volumes, are still with it or with its
\* recovery.
Guarded(j) ==
  /\ Stored(j) /\ Kind[Task(j)] \in Makers
  /\ \/ Holds(j)
     \/ \E c \in Jobs : Stored(c) /\ jobs[c].recoveryOf = j /\ Holds(c)

LEMMA GuardsAreKept ==
  ASSUME AcceptanceInv, [Next]_vars, NEW j \in Jobs, Stored(j), Guarded(j)'
  PROVE  Guarded(j)
<1>1. Stored(j)' /\ Task(j)' = Task(j) /\ Kind[Task(j)] \in Makers
  BY JobsAreKept DEF Task, Guarded
<1>2. CASE Holds(j)'
  BY <1>1, <1>2, StoredJobsGainNothing DEF Guarded
<1>3. ASSUME NEW c \in Jobs, Stored(c)', jobs'[c].recoveryOf = j, Holds(c)'
      PROVE  Guarded(j)
  <2>1. CASE Stored(c)
    BY <1>1, <1>3, <2>1, StoredJobsGainNothing DEF Guarded
  <2>2. CASE ~Stored(c)
    BY <1>1, <1>3, <2>2, ParentsHold, NullsAreNotValues DEF Guarded
  <2> QED
    BY <2>1, <2>2
<1> QED
  BY <1>2, <1>3 DEF Guarded

\* Whoever works meets neither the resources of another that works, ...
LEMMA WorkersApart ==
  ASSUME AcceptanceInv, NEW j \in Jobs, NEW k \in Jobs, j # k, At(j, "execute"), At(k, "execute")
  PROVE  ResourceIDs[Task(j)] \cap ResourceIDs[Task(k)] = {}
<1>1. Live(j) /\ Live(k) /\ RunnersAreExclusive
  BY DEF At, Live, AcceptanceInv, DoubtInv, OwnershipInv, Ownership, RunnersHold, RunnersAreExclusive, Holds
<1> QED
  BY <1>1 DEF RunnersAreExclusive, Resource, Task

\* ... nor those of one whose volumes are guarded, but as its recovery.
LEMMA GuardedApart ==
  ASSUME AcceptanceInv, NEW j \in Jobs, NEW k \in Jobs, j # k, Guarded(j),
         At(k, "execute"), jobs[k].recoveryOf # j
  PROVE  ResourceIDs[Task(j)] \cap ResourceIDs[Task(k)] = {}
<1>1. Holds(k)
  BY WorkerFacts
<1>2. CASE Holds(j)
  BY <1>1, <1>2 DEF Holds, Resource, Task
<1>3. ASSUME NEW c \in Jobs, Stored(c), jobs[c].recoveryOf = j, Holds(c)
      PROVE  ResourceIDs[Task(j)] \cap ResourceIDs[Task(k)] = {}
  <2>1. ResourceIDs[Task(j)] \subseteq ResourceIDs[Task(c)]
    BY <1>3, NullsAreNotValues DEF AcceptanceInv, Acceptances, RecoveriesAreChained, Resource, Task
  <2>2. c # k
    BY <1>3
  <2> QED
    BY <1>1, <1>3, <2>1, <2>2 DEF Holds, Resource, Task
<1> QED
  BY <1>2, <1>3 DEF Guarded

LEMMA IdlyType == Idly \in [at : Stages, i : Nat] /\ Idly.at = "idle"
BY DEF Idly, Stages

\* The engine calls no handler but Execute's end, and loses all work in a crash.
LEMMA EngineFrame ==
  ASSUME AcceptanceInv, DisksTypes, EngineMoves
  PROVE  /\ UNCHANGED review
         /\ work' \in [Jobs -> [at : Stages, i : Nat]]
         /\ \A j \in Jobs : work'[j] = work[j] \/ work'[j].at = "idle"
<1>1. ASSUME NEW j \in Jobs, ExecuteReturns(j)
      PROVE  work' = [work EXCEPT ![j] = Idly] /\ UNCHANGED review
  BY <1>1 DEF ExecuteReturns
<1>2. Idly \in [at : Stages, i : Nat] /\ Idly.at = "idle"
  BY IdlyType
<1>3. ASSUME NEW j \in Jobs, work' = [work EXCEPT ![j] = Idly]
      PROVE  /\ work' \in [Jobs -> [at : Stages, i : Nat]]
             /\ \A m \in Jobs : work'[m] = work[m] \/ work'[m].at = "idle"
  BY <1>2, <1>3 DEF DisksTypes
<1>4. ASSUME work' = [j \in Jobs |-> Idly]
      PROVE  /\ work' \in [Jobs -> [at : Stages, i : Nat]]
             /\ \A m \in Jobs : work'[m] = work[m] \/ work'[m].at = "idle"
  BY <1>2, <1>4
<1>5. ASSUME UNCHANGED work
      PROVE  /\ work' \in [Jobs -> [at : Stages, i : Nat]]
             /\ \A m \in Jobs : work'[m] = work[m] \/ work'[m].at = "idle"
  BY <1>5 DEF DisksTypes
<1>6. ASSUME NEW j \in Jobs, EngineSteps(j, DiskValid, DiskDone)
      PROVE  UNCHANGED <<review, work>>
  BY <1>6 DEF EngineSteps
<1>7. CASE ProcessSteps(DiskDone)
  BY <1>4, <1>5, <1>7 DEF ProcessSteps
<1> QED
  BY <1>1, <1>3, <1>5, <1>6, <1>7 DEF EngineMoves

LEMMA EngineRunsOn ==
  ASSUME AcceptanceInv, DisksTypes, EngineMoves, NEW j \in Jobs, At(j, "execute"), work'[j].at # "idle"
  PROVE  At(j, "execute")'
<1>1. runner \in [Jobs -> RunnerState \cup {Idle}] /\ Stored(j) /\ TypeOK
  BY WorkerFacts DEF AcceptanceInv, DoubtInv, OwnershipInv, TypeOK
<1> USE <1>1 DEF At
<1>2. ASSUME NEW i \in Jobs, ExecuteReturns(i)
      PROVE  At(j, "execute")'
  <2>1. i # j
    BY <1>2 DEF ExecuteReturns, Idly, DisksTypes
  <2> QED
    BY <1>2, <2>1 DEF ExecuteReturns, Execute
<1>3. ASSUME NEW i \in Jobs, EngineSteps(i, DiskValid, DiskDone)
      PROVE  At(j, "execute")'
  <2>1. CASE Applied(i, DiskValid)
    <3>1. i # j /\ \E row : Start(i, row)
      BY <2>1 DEF Applied, Apply, ApplyRecovery
    <3> QED
      BY <3>1 DEF Start
  <2>2. CASE Boundary(i) \/ ValidateFails(i)
    BY <2>2 DEF Boundary, ValidateFails, Return, Continue
  <2>3. CASE RecordIntent(i) \/ ExecuteFailed(i)
    BY <2>3 DEF RecordIntent, ExecuteFailed, Return, Continue
  <2>4. CASE StartVerifying(i) \/ StepNotVerified(i) \/ Finish(i)
    BY <2>4 DEF StartVerifying, StepNotVerified, Finish, Return, Continue
  <2>5. CASE StepVerified(i)
    <3>1. i # j
      BY <2>5 DEF StepVerified
    <3> QED
      BY <2>5, <3>1 DEF StepVerified
  <2>6. CASE CancelRead(i) \/ ReconcileRead(i) \/ Recover(i)
    BY <2>6 DEF CancelRead, ReconcileRead, Recover, volatile
  <2> QED
    BY <1>3, <2>1, <2>2, <2>3, <2>4, <2>5, <2>6 DEF EngineSteps
<1>4. CASE ProcessSteps(DiskDone)
  <2>1. CASE CancelWrite \/ ReconcileObserve \/ ReconcileSettle \/ RequestFails \/ Open \/ Serve
    BY <2>1 DEF CancelWrite, ReconcileObserve, ReconcileSettle, RequestFails, Open, Serve, volatile
  <2>2. ~(work' = [m \in Jobs |-> Idly])
    <3>1. Idly.at = "idle"
      BY DEF Idly
    <3>2. work' = [m \in Jobs |-> Idly] => work'[j] = Idly
      BY Zenon
    <3> QED
      BY <3>1, <3>2
  <2> QED
    BY <1>4, <2>1, <2>2 DEF ProcessSteps
<1> QED
  BY <1>2, <1>3, <1>4 DEF EngineMoves

\* A job is accepted for a plan that was made and is still valid; a disposition as
\* the recovery of the addition it was reviewed for.
LEMMA AcceptedIsValid ==
  ASSUME AcceptanceInv, EngineMoves, NEW j \in Jobs, ~Stored(j), Stored(j)'
  PROVE  LET p == jobs'[j].planID IN
         /\ p \in Plans /\ Planned(p) /\ DiskValid(p, NoJob)
         /\ p \notin RecoveryPlans => jobs'[j].recoveryOf = NoJob
         /\ p \in RecoveryPlans => jobs'[j].recoveryOf = review[p].parent
<1>1. TypeOK
  BY DEF AcceptanceInv, DoubtInv, OwnershipInv
<1>2. CASE \E i \in Jobs : Applied(i, DiskValid)
  <2>1. PICK i \in Jobs, p \in Made, k \in Keys, c \in Jobs \cup {NoJob} :
          /\ DiskValid(p, NoJob)
          /\ \/ Apply(i, k, p)
             \/ p \in RecoveryPlans /\ c \in Jobs /\ c = review[p].parent /\ ApplyRecovery(i, k, p, c)
    BY <1>2 DEF Applied
  <2>2. p \in Plans /\ Planned(p)
    BY DEF Made
  <2>3. CASE Apply(i, k, p)
    <3>1. jobs' = [jobs EXCEPT ![i] = NewRow(p, NoJob)] /\ p \notin RecoveryPlans
      BY <2>3 DEF Apply, Accept
    <3>2. i = j /\ jobs'[j] = NewRow(p, NoJob)
      BY <1>1, <3>1 DEF Stored, TypeOK, JournalTypeOK
    <3> QED
      BY <2>1, <2>2, <3>1, <3>2 DEF NewRow
  <2>4. CASE p \in RecoveryPlans /\ c \in Jobs /\ c = review[p].parent /\ ApplyRecovery(i, k, p, c)
    <3>1. c # i /\ Stored(c) /\ jobs'[i] = NewRow(p, c) /\ \A m \in Jobs \ {i, c} : jobs'[m] = jobs[m]
      BY <1>1, <2>4 DEF ApplyRecovery, AcceptRecovery, Recoverable, TypeOK, JournalTypeOK
    <3>2. i = j
      BY <3>1 DEF Stored
    <3> QED
      BY <2>1, <2>2, <2>4, <3>1, <3>2 DEF NewRow
  <2> QED
    BY <2>1, <2>3, <2>4
<1>3. CASE ~(\E i \in Jobs : Applied(i, DiskValid))
  <2>1. jobs' = jobs \/ \E i, row : Update(i, row)
    BY <1>3 DEF EngineMoves, ExecuteReturns, Execute, EngineSteps, ProcessSteps, Boundary,
         ValidateFails, RecordIntent, ExecuteFailed, StartVerifying, StepVerified, StepNotVerified, Finish,
         CancelRead, ReconcileRead, Recover, CancelWrite, ReconcileObserve, ReconcileSettle, RequestFails,
         Open, Serve, Crash, Return, Continue, vars, journal
  <2>2. ASSUME NEW i, NEW row, Update(i, row)
        PROVE  FALSE
    BY <1>1, <2>2 DEF Update, Stored, TypeOK, JournalTypeOK
  <2> QED
    BY <2>1, <2>2 DEF Stored
<1> QED
  BY <1>2, <1>3

-----------------------------------------------------------------------------
(* What the backend's answers say.                                           *)

LEMMA GrowBefore ==
  ASSUME NEW p, GrowState(p) = "before"
  PROVE  AsReviewed(p) /\ volume[Source(p, 1)] = SeenSource(p, 1)
BY DEF GrowState

LEMMA MoveBefore ==
  ASSUME NEW p, MoveState(p) = "before"
  PROVE  AsReviewed(p) /\ Present(Source(p, 1)) /\ ~Present(Destination(p, 1))
BY DEF MoveState

LEMMA MoveCopied ==
  ASSUME NEW p, MoveState(p) = "copied"
  PROVE  AsReviewed(p) /\ Present(Source(p, 1)) /\ Present(Destination(p, 1))
BY DEF MoveState

LEMMA CloneUnfinished ==
  ASSUME NEW p, CloneState(p) \in {"before", "copying", "copied"}
  PROVE  AsReviewed(p) /\ ~Defined(NewMachine[p])
BY DEF CloneState

LEMMA CloneBefore ==
  ASSUME NEW p, CloneState(p) = "before"
  PROVE  \A i \in 1..Count(p) : ~Present(Destination(p, i))
<1> DEFINE copies == {i \in 1..Count(p) : Present(Destination(p, i))}
<1>1. copies = {}
  BY DEF CloneState
<1> QED
  BY <1>1

LEMMA CloneCopied ==
  ASSUME NEW p, CloneState(p) = "copied"
  PROVE  \A i \in 1..Count(p) : Present(Destination(p, i))
<1> DEFINE copies == {i \in 1..Count(p) : Present(Destination(p, i))}
<1>1. copies = 1..Count(p)
  BY DEF CloneState
<1> QED
  BY <1>1

LEMMA AddIs ==
  ASSUME NEW p, AddState(p) \in {"before", "volume-present"}
  PROVE  AsReviewed(p) /\ (Present(Destination(p, 1)) <=> AddState(p) = "volume-present")
BY DEF AddState

\* A plan that makes volumes is valid only while none of them is there.
LEMMA ValidMakers ==
  ASSUME NEW p \in Plans, Kind[p] \in Makers, DiskValid(p, NoJob)
  PROVE  AsReviewed(p) /\ \A i \in 1..Count(p) : ~Present(Destination(p, i))
<1>1. CASE Kind[p] = "move"
  <2>1. MoveValid(p) /\ Count(p) = 1
    BY <1>1, OneTarget DEF DiskValid, Disposals
  <2> QED
    BY <2>1, MoveBefore DEF MoveValid
<1>2. CASE Kind[p] = "clone"
  <2>1. CloneValid(p)
    BY <1>2 DEF DiskValid, Disposals
  <2> QED
    BY <2>1, CloneBefore, CloneUnfinished DEF CloneValid
<1>3. CASE Kind[p] = "add"
  <2>1. AdditionValid(p) /\ Count(p) = 1
    BY <1>3, OneTarget DEF DiskValid, Disposals
  <2> QED
    BY <2>1, AddIs DEF AdditionValid
<1> QED
  BY <1>1, <1>2, <1>3 DEF Makers

-----------------------------------------------------------------------------
(* One step of Execute, as far as the types and its own progress go.         *)

\* Work of j goes on to stage at of item i.
Reaches(j, at, i) ==
  /\ work' \in [Jobs -> [at : Stages, i : Nat]]
  /\ work'[j].at = at /\ work'[j].i = i
  /\ \A m \in Jobs : m # j => work'[m] = work[m]

LEMMA GoReaches ==
  ASSUME DisksTypes, NEW j \in Jobs, NEW at \in Stages, Go(j, at)
  PROVE  Reaches(j, at, work[j].i)
BY GoIs DEF Reaches

LEMMA GoToReaches ==
  ASSUME DisksTypes, NEW j \in Jobs, NEW at \in Stages, NEW i \in Nat, GoTo(j, at, i)
  PROVE  Reaches(j, at, i)
BY GoToIs DEF Reaches

\* What the runner of a job at work knows.
LEMMA TaskFacts ==
  ASSUME BaseInv, NEW j \in Jobs, At(j, "execute")
  PROVE  /\ PlanOf(j) = Task(j) /\ Task(j) \in Plans /\ Planned(Task(j)) /\ Stored(j)
         /\ review[Task(j)] \in Input
         /\ Fits(Task(j), work[j]) /\ work[j].i \in Nat /\ work[j].at \in Stages
         /\ receipt[j] \in Nat \cup {NoReceipt}
         /\ work[j].at \notin Results \cup {"idle"} /\ Kind[Task(j)] \notin Disposals => receipt[j] \in Nat
<1>1. PlanOf(j) = Task(j) /\ Task(j) \in Plans /\ Stored(j)
  BY WorkerFacts DEF BaseInv
<1>2. Planned(Task(j))
  BY <1>1 DEF BaseInv, RecoveriesFit
<1>3. review[Task(j)] \in Input /\ work[j] \in [at : Stages, i : Nat] /\ receipt[j] \in Nat \cup {NoReceipt}
  BY <1>1, <1>2 DEF BaseInv, DisksTypes, Planned
<1> QED
  BY <1>1, <1>2, <1>3 DEF BaseInv, WorkFits

\* The stage and the item that follow one another.
Follows(j) ==
  LET p == Task(j)
      at == work[j].at
      i == work[j].i IN
  \/ /\ at = "idle" /\ Kind[p] \notin Disposals
     /\ \/ Kind[p] = "grow" /\ Reaches(j, "resize", 1) /\ GrowValid(p)
        \/ Kind[p] \in Makers /\ Reaches(j, "allocate", 1) /\ DiskValid(p, NoJob)
        \/ Kind[p] = "remove" /\ Reaches(j, "undefine", 1) /\ RemovalValid(p)
  \/ at = "allocate" /\ Kind[p] \in {"move", "clone"} /\ Reaches(j, "fill", i)
  \/ at = "allocate" /\ Kind[p] = "add" /\ Reaches(j, "allocated", i)
  \/ at = "allocated" /\ Reaches(j, "fill", i)
  \/ at = "fill" /\ Reaches(j, "filled", i)
  \/ at = "filled" /\ Kind[p] = "clone" /\ i < Count(p) /\ Reaches(j, "allocate", i + 1)
  \/ at = "filled" /\ ~(Kind[p] = "clone" /\ i < Count(p)) /\ Reaches(j, "define", i)
  \/ at = "define" /\ Kind[p] \in Makers /\ Reaches(j, "defined", i)
  \/ at = "defined" /\ Kind[p] = "move" /\ Reaches(j, "delete-old", i)
  \/ at = "delete-old" /\ Reaches(j, "old-deleted", i)
  \/ at = "resize" /\ Reaches(j, "resized", i)
  \/ at = "undefine" /\ Reaches(j, "undefined", i)
  \/ at = "undefined" /\ Reaches(j, "intend", 1)
  \/ at = "intend" /\ Reaches(j, "remove", i)
  \/ at = "remove" /\ Reaches(j, "removed", i)
  \/ at = "removed" /\ i < Count(p) /\ Reaches(j, "intend", i + 1)
  \/ at = "idle" /\ Kind[p] = "delete" /\ Reaches(j, "delete-new", i)
  \/ at = "delete-new" /\ Reaches(j, "new-deleted", i)
  \/ \E to \in Results : Reaches(j, to, i)

LEMMA WorkFollows ==
  ASSUME BaseInv, NEW j \in Jobs, Work(j)
  PROVE  Follows(j)
<1>1. PlanOf(j) = Task(j) /\ Task(j) \in Plans /\ work[j].i \in Nat /\ DisksTypes
  BY TaskFacts, WorkFrame DEF BaseInv
<1>2. ASSUME NEW at \in Stages, Go(j, at)
      PROVE  Reaches(j, at, work[j].i)
  BY <1>1, <1>2, GoReaches
<1>3. ASSUME NEW at \in Stages, NEW i \in Nat, GoTo(j, at, i)
      PROVE  Reaches(j, at, i)
  BY <1>1, <1>3, GoToReaches
<1> USE <1>1
<1>4. ASSUME NEW kind \in {"grow", "remove", "move", "clone", "add"}, NEW at \in Stages, Starts(j, kind, at)
      PROVE  work[j].at = "idle" /\ Kind[Task(j)] = kind /\ kind \notin Disposals /\ Reaches(j, at, 1)
  BY <1>3, <1>4 DEF Starts, In, Does, Disposals
<1>5. CASE StartGrow(j) \/ StartRemoval(j)
  BY <1>4, <1>5 DEF StartGrow, StartRemoval, Stages, Follows
<1>6. CASE StartMove(j) \/ StartClone(j) \/ StartAddition(j)
  BY <1>4, <1>6 DEF StartMove, StartClone, StartAddition, Stages, Follows, DiskValid, Makers
<1>7. CASE AllocateMoved(j) \/ AllocateCloned(j) \/ AllocateAdded(j)
  BY <1>2, <1>7 DEF AllocateMoved, AllocateCloned, AllocateAdded, Allocates, In, Does, Stages, Follows
<1>8. CASE RecordAllocation(j) \/ Fill(j)
  BY <1>2, <1>8 DEF RecordAllocation, Fill, In, Stages, Follows
<1>9. CASE RecordCopy(j)
  BY <1>2, <1>3, <1>9 DEF RecordCopy, In, Stages, Follows
<1>10. CASE DefineMovedDisk(j) \/ DefineClone(j) \/ DefineAddedDisk(j)
  BY <1>2, <1>10 DEF DefineMovedDisk, DefineClone, DefineAddedDisk, Redefines, In, Does, Stages, Follows, Makers
<1>11. CASE RecordDefinition(j)
  <2>1. CASE Kind[Task(j)] = "move" /\ Task(j) \notin KeepsOld
    BY <1>2, <1>11, <2>1 DEF RecordDefinition, In, Stages, Follows
  <2>2. CASE ~(Kind[Task(j)] = "move" /\ Task(j) \notin KeepsOld)
    BY <1>2, <1>11, <2>2 DEF RecordDefinition, In, Stages, Follows, Results
  <2> QED
    BY <2>1, <2>2
<1>12. CASE Resize(j) \/ DeleteOldVolume(j) \/ RemoveDefinition(j)
  BY <1>2, <1>12 DEF Resize, DeleteOldVolume, RemoveDefinition, In, Stages, Follows
<1>13. CASE RecordGrowth(j) \/ EndMove(j) \/ ConfirmDisposal(j)
  BY <1>2, <1>13 DEF RecordGrowth, EndMove, ConfirmDisposal, Stages, Results, Follows
<1>14. CASE RecordUndefined(j) \/ IntendRemoval(j)
  BY <1>2, <1>3, <1>14 DEF RecordUndefined, IntendRemoval, In, Stages, Follows
<1>15. CASE DeleteRemovalDisk(j)
  BY <1>2, <1>15 DEF DeleteRemovalDisk, In, Stages, Follows
<1>16. CASE RecordRemoval(j)
  <2>1. CASE work[j].i < Count(Task(j))
    BY <1>3, <1>16, <2>1 DEF RecordRemoval, In, Stages, Follows
  <2>2. CASE ~(work[j].i < Count(Task(j)))
    BY <1>2, <1>16, <2>2 DEF RecordRemoval, Stages, Results, Follows
  <2> QED
    BY <2>1, <2>2
<1>17. CASE CloseAddition(j)
  <2>1. CASE Kind[Task(j)] = "delete" /\ Present(Destination(review[Task(j)].of, 1))
    BY <1>2, <1>17, <2>1 DEF CloseAddition, In, Stages, Follows
  <2>2. CASE ~(Kind[Task(j)] = "delete" /\ Present(Destination(review[Task(j)].of, 1)))
    BY <1>2, <1>17, <2>2 DEF CloseAddition, Stages, Results, Follows
  <2> QED
    BY <2>1, <2>2
<1>18. CASE DeleteUnreferencedDisk(j)
  BY <1>2, <1>18 DEF DeleteUnreferencedDisk, In, Stages, Follows
<1>19. CASE WorkFails(j)
  BY <1>2, <1>19 DEF WorkFails, Stages, Results, Follows
<1> QED
  BY <1>5, <1>6, <1>7, <1>8, <1>9, <1>10, <1>11, <1>12, <1>13, <1>14, <1>15, <1>16, <1>17, <1>18, <1>19 DEF Work

-----------------------------------------------------------------------------
(* The types, and where Execute is, step by step.                            *)

LEMMA FollowsFits ==
  ASSUME BaseInv, NEW j \in Jobs, At(j, "execute"), Follows(j)
  PROVE  /\ Fits(Task(j), work'[j])
         /\ work' \in [Jobs -> [at : Stages, i : Nat]]
         /\ \A m \in Jobs : m # j => work'[m] = work[m]
<1> DEFINE p == Task(j)
           at == work[j].at
           i == work[j].i
<1>1. p \in Plans /\ Fits(p, work[j]) /\ i \in Nat
  BY TaskFacts
<1>2. Count(p) \in Nat
  BY <1>1, ChosenAre
<1>3. Kind[p] \in {"grow", "move", "add", "clone", "remove"} => 1 \in 1..Count(p)
  BY <1>1, HasTarget
<1>4. \E to \in Stages, n \in Nat : Reaches(j, to, n)
  BY <1>1 DEF Follows, Stages, Results
<1>5. Fits(p, work'[j])
  <2>1. CASE at = "idle"
    BY <1>1, <1>3, <2>1 DEF Follows, Fits, Reaches, MakerStates, RemovalStates, Makers, Results
  <2>2. CASE at \in {"allocate", "allocated", "fill", "resize", "delete-old", "delete-new", "define", "defined"}
    BY <1>1, <2>2 DEF Follows, Fits, Reaches, MakerStates, RemovalStates, Makers, Results
  <2>3. CASE at = "filled"
    <3>1. Kind[p] \in Makers /\ i \in 1..Count(p) /\ (Kind[p] # "clone" => Count(p) = 1)
      BY <1>1, <2>3, OneTarget DEF Fits, MakerStates, Makers
    <3>2. CASE Kind[p] = "clone" /\ i < Count(p) /\ Reaches(j, "allocate", i + 1)
      <4>1. i + 1 \in 1..Count(p)
        BY <1>2, <3>1, <3>2
      <4> QED
        BY <3>1, <3>2, <4>1 DEF Fits, Reaches, MakerStates, RemovalStates
    <3>3. CASE ~(Kind[p] = "clone" /\ i < Count(p)) /\ Reaches(j, "define", i)
      <4>1. i = Count(p)
        BY <1>2, <3>1, <3>3
      <4> QED
        BY <3>1, <3>3, <4>1 DEF Fits, Reaches, MakerStates, RemovalStates
    <3>4. CASE \E to \in Results : Reaches(j, to, i)
      BY <3>4 DEF Fits, Reaches, MakerStates, RemovalStates, Results
    <3> QED
      BY <2>3, <3>2, <3>3, <3>4 DEF Follows
  <2>4. CASE at \in {"undefine", "undefined", "intend", "remove"}
    BY <1>1, <1>3, <2>4 DEF Follows, Fits, Reaches, MakerStates, RemovalStates, Results
  <2>5. CASE at = "removed"
    <3>1. i < Count(p) => i + 1 \in 1..Count(p)
      BY <1>1, <1>2
    <3> QED
      BY <1>1, <2>5, <3>1 DEF Follows, Fits, Reaches, MakerStates, RemovalStates, Results
  <2>6. CASE at \notin {"idle", "allocate", "allocated", "fill", "resize", "delete-old", "delete-new", "define",
                        "defined", "filled", "undefine", "undefined", "intend", "remove", "removed"}
    BY <2>6 DEF Follows, Fits, Reaches, MakerStates, RemovalStates, Results
  <2> QED
    BY <2>1, <2>2, <2>3, <2>4, <2>5, <2>6
<1> QED
  BY <1>4, <1>5 DEF Reaches

\* What one step of Execute writes is a receipt, or a volume, or a definition.
LEMMA WorkWrites ==
  ASSUME BaseInv, NEW j \in Jobs, Work(j)
  PROVE  /\ definition' \in [VMs -> Definition \cup {Undefined}]
         /\ volume' \in [Volumes -> Volume]
         /\ disposition' \in [Plans -> Disposition \cup {NoDisposition}]
         /\ receipt' = receipt \/ \E n \in Nat : Record(j, n)
<1> DEFINE p == Task(j)
           i == work[j].i
<1>1. /\ At(j, "execute") /\ PlanOf(j) = p /\ p \in Plans /\ Planned(p) /\ review[p] \in Input
      /\ Fits(p, work[j]) /\ DisksTypes /\ ReviewsFit
      /\ work[j].at \notin Results \cup {"idle"} /\ Kind[Task(j)] \notin Disposals => receipt[j] \in Nat
  BY TaskFacts, WorkFrame DEF BaseInv
<1>2. Absent \in Volume /\ Torn \in Volume /\ Blank \in Volume
  BY DEF Absent, Torn, Blank, Volume, Bytes
<1>3. Machine[p] \in VMs /\ NewMachine[p] \in VMs /\ \A s \in Slots : NewVolume[p][s] \in Volumes
  BY <1>1, DiskPlans
<1>4. ASSUME NEW v \in Volumes, NEW c \in Volume, Written(v, c)
      PROVE  volume' \in [Volumes -> Volume]
  BY <1>1, <1>4 DEF Written, DisksTypes
<1>5. ASSUME NEW vm \in VMs, NEW d \in Definition \cup {Undefined}, Defines(vm, d)
      PROVE  definition' \in [VMs -> Definition \cup {Undefined}]
  BY <1>1, <1>5 DEF Defines, DisksTypes
<1> USE <1>1
<1> HIDE DEF p, i
<1>6. CASE StartGrow(j) \/ StartMove(j) \/ StartClone(j) \/ StartAddition(j) \/ StartRemoval(j)
  <2>1. UNCHANGED <<definition, volume, disposition>> /\ Record(j, 0)
    BY <1>6 DEF StartGrow, StartMove, StartClone, StartAddition, StartRemoval, Starts
  <2> QED
    BY <2>1 DEF DisksTypes
<1>7. CASE AllocateMoved(j) \/ AllocateCloned(j) \/ AllocateAdded(j)
  <2>1. /\ Written(Destination(p, i), Torn) /\ UNCHANGED <<definition, receipt, disposition>>
        /\ work[j].at = "allocate"
    BY <1>7 DEF AllocateMoved, AllocateCloned, AllocateAdded, Allocates, In, p, i
  <2>2. Destination(p, i) \in Volumes
    BY <2>1, ItemFacts DEF Fits, MakerStates, i
  <2> QED
    BY <1>2, <1>4, <2>1, <2>2 DEF DisksTypes
<1>8. CASE Fill(j)
  <2>1. /\ Written(Destination(p, i), IF Kind[p] = "add" THEN Blank ELSE volume[Source(p, i)])
        /\ UNCHANGED <<definition, receipt, disposition>> /\ work[j].at = "fill"
    BY <1>8 DEF Fill, In, p, i
  <2>2. Kind[p] \in Makers /\ i \in 1..Count(p)
    BY <2>1 DEF Fits, MakerStates, i
  <2>3. Destination(p, i) \in Volumes /\ (Kind[p] # "add" => Source(p, i) \in Volumes)
    BY <2>2, ItemFacts, SourceFacts DEF Makers
  <2> QED
    BY <1>2, <1>4, <2>1, <2>3 DEF DisksTypes
<1>9. CASE DefineMovedDisk(j) \/ DefineClone(j) \/ DefineAddedDisk(j)
  <2> DEFINE New(old) == [s \in Slots |-> IF s \in Chosen[p] THEN NewVolume[p][s] ELSE old[s]]
  <2>1. /\ UNCHANGED <<volume, receipt, disposition>>
        /\ \/ AsReviewed(p) /\ Defines(Machine[p], New(definition[Machine[p]]))
           \/ Defines(NewMachine[p], New([s \in Slots |-> NoVolume]))
    BY <1>9, MoveCopied, AddIs DEF DefineMovedDisk, DefineClone, DefineAddedDisk, Redefines, p
  <2>2. AsReviewed(p) => definition[Machine[p]] \in Definition
    BY DEF AsReviewed, Input
  <2>3. [s \in Slots |-> NoVolume] \in Definition
    BY DEF Definition
  <2>4. \A old \in Definition : New(old) \in Definition
    BY <1>3 DEF Definition
  <2> HIDE DEF New
  <2> QED
    BY <1>3, <1>5, <2>1, <2>2, <2>3, <2>4 DEF DisksTypes
<1>10. CASE Resize(j)
  <2>1. /\ Written(Source(p, 1), [SeenSource(p, 1) EXCEPT !.grown = TRUE])
        /\ UNCHANGED <<definition, receipt, disposition>> /\ work[j].at = "resize"
    BY <1>10 DEF Resize, In, p
  <2>2. Source(p, 1) \in Volumes /\ SeenSource(p, 1) \in Volume
    BY <2>1, SourceFacts, HasTarget DEF Fits
  <2>3. [SeenSource(p, 1) EXCEPT !.grown = TRUE] \in Volume
    BY <2>2 DEF Volume
  <2> QED
    BY <1>4, <2>1, <2>2, <2>3 DEF DisksTypes
<1>11. CASE DeleteOldVolume(j) \/ DeleteRemovalDisk(j)
  <2>1. PICK n \in {1, i} :
          /\ Written(Source(p, n), Absent) /\ UNCHANGED <<definition, receipt, disposition>>
          /\ (work[j].at = "delete-old" /\ n = 1) \/ (work[j].at = "remove" /\ n = i)
    BY <1>11 DEF DeleteOldVolume, DeleteRemovalDisk, In, p, i
  <2>2. Kind[p] \in {"move", "remove"} /\ n \in 1..Count(p)
    BY <2>1, HasTarget DEF Fits, RemovalStates, i
  <2> QED
    BY <1>2, <1>4, <2>1, <2>2, SourceFacts DEF DisksTypes
<1>12. CASE RemoveDefinition(j)
  <2>1. Defines(Machine[p], Undefined) /\ UNCHANGED <<volume, receipt, disposition>>
    BY <1>12 DEF RemoveDefinition, p
  <2> QED
    BY <1>3, <1>5, <2>1 DEF DisksTypes
<1>13. CASE DeleteUnreferencedDisk(j)
  <2>1. /\ Written(Destination(review[p].of, 1), Absent) /\ UNCHANGED <<definition, receipt, disposition>>
        /\ work[j].at = "delete-new"
    BY <1>13 DEF DeleteUnreferencedDisk, In, p
  <2>2. review[p].of \in Plans /\ Kind[review[p].of] = "add"
    BY <2>1 DEF Fits, Disposals, ReviewsFit, ReviewFits, Input
  <2>3. Destination(review[p].of, 1) \in Volumes
    BY <2>2, HasTarget, ItemFacts
  <2> QED
    BY <1>2, <1>4, <2>1, <2>3 DEF DisksTypes
<1>14. CASE CloseAddition(j)
  <2>1. /\ disposition' = [disposition EXCEPT ![review[p].of] = [by |-> p, job |-> j]]
        /\ UNCHANGED <<definition, volume, receipt>>
    BY <1>14 DEF CloseAddition, p
  <2>2. [by |-> p, job |-> j] \in Disposition
    BY DEF Disposition
  <2> QED
    BY <2>1, <2>2 DEF DisksTypes
<1>15. CASE RecordCopy(j) \/ RecordDefinition(j) \/ EndMove(j)
  <2>1. Record(j, receipt[j] + 1) /\ UNCHANGED <<definition, volume, disposition>>
    BY <1>15 DEF RecordCopy, RecordDefinition, EndMove
  <2>2. receipt[j] \in Nat
    BY <1>15 DEF RecordCopy, RecordDefinition, EndMove, In, Fits, MakerStates, Makers, Disposals, Results, p
  <2> QED
    BY <2>1, <2>2 DEF DisksTypes
<1>16. CASE RecordAllocation(j) \/ RecordGrowth(j) \/ RecordUndefined(j)
  <2>1. Record(j, 1) /\ UNCHANGED <<definition, volume, disposition>>
    BY <1>16 DEF RecordAllocation, RecordGrowth, RecordUndefined
  <2> QED
    BY <2>1 DEF DisksTypes
<1>17. CASE RecordRemoval(j)
  <2>1. Record(j, i + 1) /\ i \in Nat /\ UNCHANGED <<definition, volume, disposition>>
    BY <1>17 DEF RecordRemoval, i, DisksTypes
  <2> QED
    BY <2>1 DEF DisksTypes
<1>18. CASE IntendRemoval(j) \/ ConfirmDisposal(j) \/ WorkFails(j)
  BY <1>18 DEF IntendRemoval, ConfirmDisposal, WorkFails, disks, DisksTypes
<1> QED
  BY <1>6, <1>7, <1>8, <1>9, <1>10, <1>11, <1>12, <1>13, <1>14, <1>15, <1>16, <1>17, <1>18 DEF Work

\* What planning stores fits, and its definition is that of some machine.
LEMMA PlanInput ==
  ASSUME BaseInv, NEW p \in Plans, PlanSteps(p)
  PROVE  \E input \in Input :
           /\ review' = [review EXCEPT ![p] = input]
           /\ ReviewFits(p, input)
           /\ \E vm \in VMs : Defined(vm) /\ input.definition = definition[vm]
<1>1. DisksTypes /\ Machine[p] \in VMs
  BY DiskPlans DEF BaseInv
<1>2. ASSUME NEW q \in Plans, NEW d \in Definition
      PROVE  Seen(q, d) \in [Slots -> Volume]
  <2>1. Absent \in Volume
    BY DEF Absent, Volume, Bytes
  <2>2. \A s \in Slots : d[s] # NoVolume => volume[d[s]] \in Volume
    BY <1>1 DEF DisksTypes, Definition
  <2> QED
    BY <2>1, <2>2 DEF Seen
<1>3. Defined(Machine[p]) => definition[Machine[p]] \in Definition
  BY <1>1 DEF DisksTypes, Defined
<1> DEFINE d == definition[Machine[p]]
<1>4. ASSUME NEW kind, kind \notin Disposals, PlanDisks(p, kind),
             kind \in {"grow", "move", "clone", "remove"} => OwnDisks(p),
             kind = "add" => Chosen[p] \cap Filled(d) = {}
      PROVE  \E input \in Input :
               /\ review' = [review EXCEPT ![p] = input]
               /\ ReviewFits(p, input)
               /\ \E vm \in VMs : Defined(vm) /\ input.definition = definition[vm]
  <2> DEFINE input == [parent |-> NoJob, of |-> p, definition |-> d, seen |-> Seen(p, d)]
  <2>1. review' = [review EXCEPT ![p] = input] /\ Defined(Machine[p]) /\ Kind[p] = kind
    BY <1>4 DEF PlanDisks, StorePlan
  <2>2. input \in Input
    BY <1>2, <1>3, <2>1 DEF Input
  <2>3. \A s \in Chosen[p] : s \in Slots
    BY ChosenAre
  <2>4. kind \in {"grow", "move", "clone", "remove"} =>
          \A s \in Chosen[p] : d[s] \in Volumes /\ d[s] \in ResourceIDs[p]
    BY <1>3, <1>4, <2>1, <2>3 DEF OwnDisks, Filled, Definition
  <2>5. kind = "add" => \A s \in Chosen[p] : d[s] = NoVolume
    BY <1>4, <2>3 DEF Filled
  <2>6. ReviewFits(p, input)
    BY <1>4, <2>1, <2>4, <2>5 DEF ReviewFits
  <2>7. input.definition = definition[Machine[p]]
    OBVIOUS
  <2> HIDE DEF input
  <2> QED
    BY <1>1, <2>1, <2>2, <2>6, <2>7
<1>5. CASE PlanGrow(p) \/ PlanMove(p) \/ PlanClone(p) \/ PlanRemoval(p) \/ PlanAddition(p)
  BY <1>4, <1>5 DEF PlanGrow, PlanMove, PlanClone, PlanRemoval, PlanAddition, Disposals
<1>6. CASE PlanDisposal(p)
  <2>1. PICK j \in Jobs :
          /\ Disposable(j) /\ Machine[Task(j)] = Machine[p] /\ Defined(Machine[p])
          /\ StorePlan(p, [parent |-> j, of |-> Task(j), definition |-> d, seen |-> Seen(Task(j), NewVolume[Task(j)])])
    BY <1>6 DEF PlanDisposal, Task
  <2> DEFINE input == [parent |-> j, of |-> Task(j), definition |-> d, seen |-> Seen(Task(j), NewVolume[Task(j)])]
  <2>2. Stored(j) /\ Task(j) \in Plans /\ Kind[Task(j)] = "add"
    BY <2>1, RowOfStored DEF Disposable, Task, BaseInv, AcceptanceInv, DoubtInv, OwnershipInv, TypeOK, Row
  <2>3. NewVolume[Task(j)] \in Definition
    BY <2>2, DiskPlans DEF Definition
  <2>4. input \in Input
    BY <1>2, <1>3, <2>1, <2>2, <2>3 DEF Input
  <2>5. ReviewFits(p, input)
    BY <1>6, <2>1, <2>2 DEF ReviewFits, PlanDisposal, Disposals
  <2>6. review' = [review EXCEPT ![p] = input] /\ input.definition = definition[Machine[p]]
    BY <2>1 DEF StorePlan
  <2> HIDE DEF input
  <2> QED
    BY <1>1, <2>1, <2>4, <2>5, <2>6
<1> QED
  BY <1>5, <1>6 DEF PlanSteps

\* A stored plan is never stored again.
LEMMA PlanKeeps ==
  ASSUME BaseInv, NEW p \in Plans, PlanSteps(p)
  PROVE  /\ review' \in [Plans -> Input \cup {Unplanned}]
         /\ \A q \in Plans : Planned(q) => review'[q] = review[q]
         /\ \A q \in Plans : q # p => review'[q] = review[q]
         /\ review'[p] \in Input /\ ReviewFits(p, review'[p]) /\ UNCHANGED <<vars, work, disks>>
         /\ \E vm \in VMs : Defined(vm) /\ review'[p].definition = definition[vm]
<1>1. PICK input \in Input :
        /\ review' = [review EXCEPT ![p] = input] /\ ReviewFits(p, input)
        /\ \E vm \in VMs : Defined(vm) /\ input.definition = definition[vm]
  BY PlanInput
<1>2. ~Planned(p) /\ UNCHANGED <<vars, work, disks>>
  BY PlansFrame
<1>3. review \in [Plans -> Input \cup {Unplanned}]
  BY DEF BaseInv, DisksTypes
<1> QED
  BY <1>1, <1>2, <1>3

\* A review that fitted fits.
LEMMA ReviewsStayFit ==
  ASSUME AcceptanceInv, [Next]_vars, NEW p \in Plans, NEW r, ReviewFits(p, r)
  PROVE  ReviewFits(p, r)'
<1>1. \A j \in Jobs : Stored(j) => Stored(j)' /\ Task(j)' = Task(j)
  BY JobsAreKept DEF Task
<1> QED
  BY <1>1 DEF ReviewFits

LEMMA PlansArePlans == Plannable \subseteq Plans
BY PlanSetsArePlans DEF Plannable

\* The first step of Execute starts a receipt, the last one ends it.
LEMMA StartsRecord ==
  ASSUME BaseInv, NEW j \in Jobs, Work(j), work[j].at = "idle", Kind[Task(j)] \notin Disposals,
         work'[j].at \notin Results
  PROVE  receipt'[j] \in Nat
<1>1. PlanOf(j) = Task(j) /\ DisksTypes /\ work[j].i \in Nat
  BY WorkFrame, TaskFacts DEF BaseInv
<1>2. CASE StartGrow(j) \/ StartMove(j) \/ StartClone(j) \/ StartAddition(j) \/ StartRemoval(j)
  <2>1. Record(j, 0)
    BY <1>2 DEF StartGrow, StartMove, StartClone, StartAddition, StartRemoval, Starts
  <2> QED
    BY <1>1, <2>1 DEF Record, DisksTypes
<1>3. ~WorkFails(j)
  <2>1. ASSUME NEW at \in Results, Go(j, at)
        PROVE  FALSE
    BY <1>1, <2>1, GoIs DEF Stages
  <2> QED
    BY <2>1 DEF WorkFails, Results
<1> QED
  BY <1>1, <1>2, <1>3 DEF Work, AllocateMoved, AllocateCloned, AllocateAdded, Allocates, RecordAllocation, Fill, RecordCopy,
     DefineMovedDisk, DefineClone, DefineAddedDisk, Redefines, RecordDefinition, Resize, RecordGrowth,
     DeleteOldVolume, EndMove, RemoveDefinition, RecordUndefined, IntendRemoval, DeleteRemovalDisk, RecordRemoval,
     CloseAddition, DeleteUnreferencedDisk, ConfirmDisposal, In

LEMMA ResultsEnd ==
  ASSUME NEW j, Work(j), work[j].at \in Results
  PROVE  FALSE
BY DEF Work, StartGrow, StartMove, StartClone, StartAddition, StartRemoval, Starts,
       AllocateMoved, AllocateCloned, AllocateAdded, Allocates, RecordAllocation, Fill, RecordCopy,
       DefineMovedDisk, DefineClone, DefineAddedDisk, Redefines, RecordDefinition, Resize, RecordGrowth,
       DeleteOldVolume, EndMove, RemoveDefinition, RecordUndefined, IntendRemoval, DeleteRemovalDisk, RecordRemoval,
       CloseAddition, DeleteUnreferencedDisk, ConfirmDisposal, WorkFails, Busy, In, Results

LEMMA InitBase == DisksInit => BaseInv
<1> SUFFICES ASSUME DisksInit PROVE BaseInv
  OBVIOUS
<1>1. AcceptanceInv
  BY InitAcceptance DEF DisksInit, HandlersInit
<1>2. \A j \in Jobs : ~Stored(j) /\ work[j] = Idly
  BY DEF DisksInit, HandlersInit, Init, JournalInit, Stored
<1>3. \A p \in Plans : ~Planned(p)
  BY DEF DisksInit, HandlersInit, Planned
<1>4. DisksTypes
  <2>1. \A v \in Volumes : [bytes |-> v, grown |-> FALSE] \in Volume
    BY DEF Volume, Bytes
  <2>2. Absent \in Volume
    BY DEF Absent, Volume, Bytes
  <2>3. volume \in [Volumes -> Volume]
    BY <2>1, <2>2 DEF DisksInit
  <2> QED
    BY <2>3, IdlyType, DiskPlans DEF DisksInit, HandlersInit, DisksTypes
<1>5. \A j \in Jobs : Fits(Task(j), work[j]) /\ work[j].at = "idle"
  BY <1>2, IdlyType DEF Fits, MakerStates, RemovalStates
<1> QED
  BY <1>1, <1>2, <1>3, <1>4, <1>5 DEF BaseInv, WorkIsRun, WorkFits, ReviewsFit, RecoveriesFit

LEMMA NextBase ==
  ASSUME BaseInv, [DisksNext]_diskVars
  PROVE  BaseInv'
<1> USE DEF BaseInv
<1>1. [Next]_vars /\ AcceptanceInv'
  BY StepImplements, NextAcceptance
<1>2. \A j \in Jobs : Stored(j) => Stored(j)' /\ Task(j)' = Task(j) /\ jobs'[j].recoveryOf = jobs[j].recoveryOf
  BY <1>1, JobsAreKept, StoredJobsGainNothing DEF Task
<1>3. \A p \in Plans : \A r : ReviewFits(p, r) => ReviewFits(p, r)'
  BY <1>1, ReviewsStayFit
<1>4. \A j \in Jobs : work[j].at # "idle" => Stored(j)
  BY WorkerFacts DEF WorkIsRun
<1>5. CASE UNCHANGED diskVars
  <2>1. UNCHANGED <<jobs, locks, runner, review, work, definition, volume, receipt, disposition>>
    BY <1>5 DEF diskVars, vars, journal, volatile, disks
  <2> QED
    BY <1>1, <2>1 DEF DisksTypes, WorkIsRun, At, WorkFits, Fits, Task, ReviewsFit, ReviewFits, RecoveriesFit, Planned, Stored
<1>6. ASSUME NEW p \in Plannable, PlanSteps(p)
      PROVE  BaseInv'
  <2>1. p \in Plans
    BY <1>6, PlansArePlans
  <2>2. /\ review' \in [Plans -> Input \cup {Unplanned}]
        /\ \A q \in Plans : Planned(q) => review'[q] = review[q]
        /\ \A q \in Plans : q # p => review'[q] = review[q]
        /\ review'[p] \in Input /\ ReviewFits(p, review'[p]) /\ UNCHANGED <<vars, work, disks>>
    BY <1>6, <2>1, PlanKeeps
  <2>3. UNCHANGED <<jobs, locks, runner, work, definition, volume, receipt, disposition>>
    BY <2>2 DEF vars, journal, volatile, disks
  <2>4. DisksTypes' /\ WorkIsRun' /\ WorkFits'
    BY <2>2, <2>3 DEF DisksTypes, WorkIsRun, At, WorkFits, Fits, Task
  <2>5. ReviewsFit'
    BY <1>3, <2>2 DEF ReviewsFit, Planned
  <2>6. RecoveriesFit'
    <3>1. \A j \in Jobs : Stored(j) => Task(j) \in Plans
      BY RowOfStored DEF Task, AcceptanceInv, DoubtInv, OwnershipInv, TypeOK, Row
    <3> QED
      BY <2>2, <2>3, <3>1 DEF RecoveriesFit, Stored, Task, Planned
  <2> QED
    BY <1>1, <2>4, <2>5, <2>6
<1>7. ASSUME NEW j \in Jobs, Work(j)
      PROVE  BaseInv'
  <2>1. /\ UNCHANGED <<jobs, runner, review>> /\ At(j, "execute")
    BY <1>7, WorkFrame DEF KeepsEngine, vars, journal, volatile
  <2>2. /\ Fits(Task(j), work'[j])
        /\ work' \in [Jobs -> [at : Stages, i : Nat]]
        /\ \A m \in Jobs : m # j => work'[m] = work[m]
    BY <1>7, <2>1, WorkFollows, FollowsFits
  <2>3. /\ definition' \in [VMs -> Definition \cup {Undefined}]
        /\ volume' \in [Volumes -> Volume]
        /\ disposition' \in [Plans -> Disposition \cup {NoDisposition}]
        /\ receipt' = receipt \/ \E n \in Nat : Record(j, n)
    BY <1>7, WorkWrites
  <2>4. DisksTypes'
    BY <2>1, <2>2, <2>3 DEF DisksTypes, Record
  <2>5. WorkIsRun'
    BY <2>1, <2>2 DEF WorkIsRun, At
  <2>6. WorkFits'
    <3>1. ASSUME NEW m \in Jobs, m # j
          PROVE  receipt'[m] = receipt[m]
      BY <2>3, <3>1 DEF Record, DisksTypes
    <3>2. receipt[j] \in Nat => receipt'[j] \in Nat
      BY <2>3 DEF Record, DisksTypes
    <3>3. work'[j].at \notin Results \cup {"idle"} /\ Kind[Task(j)] \notin Disposals => receipt'[j] \in Nat
      <4>1. CASE work[j].at \notin Results \cup {"idle"}
        BY <3>2, <4>1 DEF WorkFits
      <4>2. CASE work[j].at = "idle" /\ Kind[Task(j)] \notin Disposals
        BY <1>7, <2>1, <4>2, StartsRecord
      <4>3. CASE work[j].at \in Results
        BY <1>7, <4>3, ResultsEnd
      <4> QED
        BY <4>1, <4>2, <4>3
    <3> QED
      BY <2>1, <2>2, <3>1, <3>3 DEF WorkFits, Fits, Task
  <2>7. ReviewsFit' /\ RecoveriesFit'
    BY <2>1 DEF ReviewsFit, ReviewFits, RecoveriesFit, Stored, Task, Planned
  <2> QED
    BY <1>1, <2>4, <2>5, <2>6, <2>7
<1>8. CASE EngineMoves /\ UNCHANGED disks
  <2>1. /\ UNCHANGED review
        /\ work' \in [Jobs -> [at : Stages, i : Nat]]
        /\ \A j \in Jobs : work'[j] = work[j] \/ work'[j].at = "idle"
    BY <1>8, EngineFrame
  <2>2. UNCHANGED <<definition, volume, receipt, disposition>>
    BY <1>8 DEF disks
  <2>3. DisksTypes'
    BY <2>1, <2>2 DEF DisksTypes
  <2>4. WorkIsRun'
    BY <1>8, <2>1, EngineRunsOn DEF WorkIsRun
  <2>5. WorkFits'
    <3>1. ASSUME NEW j \in Jobs, work'[j].at = "idle"
          PROVE  Fits(jobs'[j].planID, work'[j])
      BY <3>1 DEF Fits, MakerStates, RemovalStates
    <3>2. ASSUME NEW j \in Jobs, work'[j] = work[j], work[j].at # "idle"
          PROVE  jobs'[j].planID = jobs[j].planID /\ Fits(jobs'[j].planID, work'[j])
      BY <1>2, <1>4, <3>2 DEF WorkFits, Task
    <3> QED
      BY <2>1, <2>2, <3>1, <3>2 DEF WorkFits, Task, Fits
  <2>6. ReviewsFit'
    BY <1>3, <2>1 DEF ReviewsFit, Planned
  <2>7. RecoveriesFit'
    <3>1. ASSUME NEW j \in Jobs, ~Stored(j), Stored(j)'
          PROVE  /\ Planned(jobs'[j].planID)
                 /\ jobs'[j].planID \in RecoveryPlans => jobs'[j].recoveryOf = review[jobs'[j].planID].parent
                 /\ jobs'[j].planID \notin RecoveryPlans => jobs'[j].recoveryOf = NoJob
      BY <1>8, <3>1, AcceptedIsValid
    <3> QED
      BY <1>2, <2>1, <3>1 DEF RecoveriesFit, Task, Planned
  <2> QED
    BY <1>1, <2>3, <2>4, <2>5, <2>6, <2>7
<1> QED
  BY <1>5, <1>6, <1>7, <1>8, StepKinds

LEMMA BaseHolds == DisksSpec => []BaseInv
BY InitBase, NextBase, PTL DEF DisksSpec

\* Every record, definition and volume is what it is meant to be (Store.PutMetadata,
\* the calls of internal/backend/libvirt).
THEOREM DisksTypeCorrect == DisksSpec => []DisksTypeOK
<1>1. BaseInv => DisksTypeOK
  BY DEF BaseInv, DisksTypes, DisksTypeOK, AcceptanceInv, DoubtInv, OwnershipInv
<1> QED
  BY <1>1, BaseHolds, PTL

-----------------------------------------------------------------------------
(* Why the disks are whole.  The volumes a job is making are in nobody's     *)
(* definition until they are complete; those it is about to delete are in    *)
(* nobody's any more; and no other job can bring either into a definition.   *)

Used(v) == \E vm \in VMs : Uses(vm, v)

\* Of the volumes of plan p, those made and those filled when Execute is at w, and
\* those it will delete.
MadeItems(p, w) ==
  {i \in 1..Count(p) : w.at \in MakerStates /\ i <= w.i /\ (i = w.i => w.at # "allocate")}
CopiedItems(p, w) == {i \in MadeItems(p, w) : i < w.i \/ w.at \in {"filled", "define"}}
DoomedItems(p, w) ==
  {i \in 1..Count(p) :
     \/ Kind[p] = "move" /\ w.at \in {"defined", "delete-old"}
     \/ w.at \in RemovalStates /\ i >= w.i /\ (i = w.i => w.at # "removed")}

Making(j) == {Destination(Task(j), i) : i \in MadeItems(Task(j), work[j])}
Doomed(j) == {Source(Task(j), i) : i \in DoomedItems(Task(j), work[j])}

\* The machine that gets the volumes.
Receiver(p) == IF Kind[p] = "clone" THEN NewMachine[p] ELSE Machine[p]

\* Disks that were added, by jobs whose disposition may still delete them.
Addition(j, v) == Guarded(j) /\ Kind[Task(j)] = "add" /\ v = Destination(Task(j), 1)
Added(v) == \E j \in Jobs : Addition(j, v)

\* What volume i of plan p holds when it is complete.
Intended(p, i) == IF Kind[p] = "add" THEN {"blank"} ELSE BytesAt(Machine[p], Target(p, i))

\* No volume is in two places.
Sharp ==
  \A vm, w \in VMs, s, t \in Slots :
    Defined(vm) /\ Defined(w) /\ definition[vm][s] = definition[w][t] /\ definition[vm][s] # NoVolume
      => vm = w /\ s = t

Whole ==
  \A vm \in VMs, s \in Slots :
    Defined(vm) /\ definition[vm][s] # NoVolume => volume[definition[vm][s]].bytes \in BytesAt(vm, s)

ReviewsAreSharp ==
  \A p \in Plans : Planned(p) =>
    \A s, t \in Slots :
      review[p].definition[s] = review[p].definition[t] /\ review[p].definition[s] # NoVolume => s = t

\* What is in the i-th volume while Execute is at w.
Expected(p, w, i) == {"absent"} \cup (IF i \in CopiedItems(p, w) THEN Intended(p, i) ELSE {"torn"})

MadeAreFree ==
  \A j \in Jobs, p \in Plans, w \in [at : Stages, i : Nat] :
    Task(j) = p /\ work[j] = w =>
      \A i \in MadeItems(p, w) :
        /\ ~Used(Destination(p, i))
        /\ volume[Destination(p, i)].bytes \in Expected(p, w, i)

MakersSeeTheReview ==
  \A j \in Jobs, p \in Plans : Task(j) = p =>
    /\ work[j].at \in MakerStates => AsReviewed(p)
    /\ work[j].at \in {"fill", "filled", "define"} /\ Kind[p] = "move" =>
         volume[Source(p, 1)].bytes = SeenSource(p, 1).bytes
    /\ work[j].at \in {"filled", "define"} /\ Kind[p] = "move" =>
         volume[Destination(p, 1)].bytes \in {"absent", SeenSource(p, 1).bytes}

DoomedAreFree ==
  \A j \in Jobs : \A v \in Doomed(j) :
    /\ ~Used(v) /\ Present(v) /\ ~Added(v)
    /\ \A k \in Jobs : v \notin Making(k) /\ (k # j => v \notin Doomed(k))

\* What a job made is only where it was meant to be, and an addition stays blank.
GuardedAreKept ==
  \A j \in Jobs, p \in Plans : Guarded(j) /\ Task(j) = p =>
    /\ \A i \in 1..Count(p) : \A vm \in VMs, s \in Slots :
         Defined(vm) /\ definition[vm][s] = Destination(p, i) => vm = Receiver(p) /\ s = Target(p, i)
    /\ Kind[p] = "add" => volume[Destination(p, 1)].bytes \in {"absent", "torn", "blank"}

\* A removal that chose the disk was accepted.
Excused(vm, s) ==
  \E j \in Jobs : Stored(j) /\ Kind[Task(j)] = "remove" /\ Machine[Task(j)] = vm /\ s \in Chosen[Task(j)]

\* Volume v is nobody's business.
Spare(v) == ~Used(v) /\ ~Added(v) /\ \A j \in Jobs : v \notin Making(j) /\ v \notin Doomed(j)

InPlace(vm, s) == Defined(vm) /\ definition[vm][s] # NoVolume /\ volume[definition[vm][s]].bytes = Original[vm][s]

DataIsSafe ==
  \A vm \in VMs, s \in Slots :
    Original[vm] # Undefined /\ Original[vm][s] # NoVolume =>
      \/ Excused(vm, s)
      \/ InPlace(vm, s)
      \/ \E v \in Volumes : volume[v].bytes = Original[vm][s] /\ Spare(v)

DataInv ==
  /\ Sharp /\ Whole /\ ReviewsAreSharp /\ MadeAreFree /\ MakersSeeTheReview
  /\ DoomedAreFree /\ GuardedAreKept /\ DataIsSafe

LEMMA BytesAtBound ==
  ASSUME NEW vm \in VMs, NEW s \in Slots
  PROVE  BytesAt(vm, s) \subseteq Volumes \cup {"blank"}
<1>1. \A w \in VMs : Original[w] # Undefined => Original[w][s] \in Volumes \cup {NoVolume}
  BY DiskPlans DEF Definition
<1>2. \A w \in Ancestors(vm) : w \in VMs
  BY DEF Ancestors
<1> QED
  BY <1>1, <1>2 DEF BytesAt

LEMMA IntendedBound ==
  ASSUME NEW p \in Plans, NEW i \in 1..Count(p)
  PROVE  Intended(p, i) \subseteq Volumes \cup {"blank"}
BY BytesAtBound, ItemFacts, DiskPlans DEF Intended

\* A disk of a machine is a volume that is there.
LEMMA UsedIsThere ==
  ASSUME DisksTypes, Whole, NEW vm \in VMs, NEW s \in Slots, Defined(vm), definition[vm][s] # NoVolume
  PROVE  /\ definition[vm][s] \in Volumes
         /\ volume[definition[vm][s]].bytes \in Volumes \cup {"blank"}
         /\ volume[definition[vm][s]].bytes \notin {"absent", "torn"}
<1>1. definition[vm][s] \in Volumes
  BY DEF DisksTypes, Defined, Definition
<1>2. volume[definition[vm][s]].bytes \in BytesAt(vm, s)
  BY DEF Whole
<1>3. volume[definition[vm][s]].bytes \in Volumes \cup {"blank"}
  BY <1>2, BytesAtBound
<1> QED
  BY <1>1, <1>3, DisksDiffer

LEMMA UsedIsPresent ==
  ASSUME DisksTypes, Whole, NEW v \in Volumes, Used(v)
  PROVE  Present(v) /\ volume[v].bytes # "torn"
<1>1. PICK vm \in VMs, s \in Slots : Defined(vm) /\ definition[vm][s] = v
  BY DEF Used, Uses
<1>2. v # NoVolume
  BY DiskPlans
<1> QED
  BY <1>1, <1>2, UsedIsThere DEF Present

\* A job that is not at work neither makes nor dooms anything.
LEMMA IdleItems ==
  ASSUME NEW p, NEW w, w.at = "idle" \/ w.at \in Results
  PROVE  MadeItems(p, w) = {} /\ CopiedItems(p, w) = {} /\ DoomedItems(p, w) = {}
BY DEF MadeItems, CopiedItems, DoomedItems, MakerStates, RemovalStates, Results

LEMMA MakingFacts ==
  ASSUME BaseInv, NEW j \in Jobs, NEW v \in Making(j)
  PROVE  /\ At(j, "execute") /\ Task(j) \in Plans /\ Planned(Task(j)) /\ Kind[Task(j)] \in Makers
         /\ v \in Volumes /\ v \in MadeBy(Task(j)) /\ v \in ResourceIDs[Task(j)]
<1>1. PICK i \in MadeItems(Task(j), work[j]) : v = Destination(Task(j), i)
  BY DEF Making
<1>2. work[j].at \in MakerStates /\ i \in 1..Count(Task(j))
  BY DEF MadeItems
<1>3. At(j, "execute")
  BY <1>2 DEF BaseInv, WorkIsRun, MakerStates
<1>4. Task(j) \in Plans /\ Planned(Task(j)) /\ Kind[Task(j)] \in Makers
  BY <1>2, <1>3, TaskFacts DEF Fits
<1> QED
  BY <1>1, <1>2, <1>3, <1>4, ItemFacts

LEMMA DoomedFacts ==
  ASSUME BaseInv, NEW j \in Jobs, NEW v \in Doomed(j)
  PROVE  /\ At(j, "execute") /\ Task(j) \in Plans /\ Planned(Task(j)) /\ Kind[Task(j)] \in {"move", "remove"}
         /\ v \in Volumes /\ v \in ResourceIDs[Task(j)]
<1>1. PICK i \in DoomedItems(Task(j), work[j]) : v = Source(Task(j), i)
  BY DEF Doomed
<1>2. /\ i \in 1..Count(Task(j))
      /\ (Kind[Task(j)] = "move" /\ work[j].at \in {"defined", "delete-old"}) \/ work[j].at \in RemovalStates
  BY DEF DoomedItems
<1>3. At(j, "execute")
  BY <1>2 DEF BaseInv, WorkIsRun, RemovalStates
<1>4. Task(j) \in Plans /\ Planned(Task(j)) /\ Kind[Task(j)] \in {"move", "remove"}
  BY <1>2, <1>3, TaskFacts DEF Fits
<1> QED
  BY <1>1, <1>2, <1>3, <1>4, SourceFacts DEF BaseInv

-----------------------------------------------------------------------------
(* A step that changes no definition and no bytes keeps all this.            *)

\* Work of j goes on without making or dooming another volume, or ends.
Settles(j) ==
  LET p == Task(j) IN
  \/ work'[j].at = "idle" \/ work'[j].at \in Results
  \/ /\ jobs'[j].planID = p /\ p \in Plans /\ Planned(p)
     /\ MadeItems(p, work'[j]) \subseteq MadeItems(p, work[j])
     /\ \A i \in MadeItems(p, work'[j]) : i \in CopiedItems(p, work'[j]) <=> i \in CopiedItems(p, work[j])
     /\ DoomedItems(p, work'[j]) \subseteq DoomedItems(p, work[j])

\* What was reviewed, excused and guarded stays so; only a job whose volumes are
\* not there yet comes under guard.
Persists ==
  /\ \A p \in Plans : Planned(p) => review'[p] = review[p]
  /\ \A vm \in VMs, s \in Slots : Excused(vm, s) => Excused(vm, s)'
  /\ \A j \in Jobs : Guarded(j)' =>
       LET p == jobs'[j].planID IN
       /\ p \in Plans
       /\ \/ Guarded(j) /\ p = Task(j)
          \/ \A i \in 1..Count(p) : ~Present(Destination(p, i))

Calm ==
  /\ Persists /\ UNCHANGED definition
  /\ \A v \in Volumes : volume'[v].bytes = volume[v].bytes
  /\ \A j \in Jobs : Settles(j)

LEMMA SettlesShrinks ==
  ASSUME NEW j \in Jobs, Settles(j), \A p \in Plans : Planned(p) => review'[p] = review[p]
  PROVE  Making(j)' \subseteq Making(j) /\ Doomed(j)' \subseteq Doomed(j)
<1>1. CASE work'[j].at = "idle" \/ work'[j].at \in Results
  <2>1. MadeItems(jobs'[j].planID, work'[j]) = {} /\ DoomedItems(jobs'[j].planID, work'[j]) = {}
    BY <1>1, IdleItems
  <2> QED
    BY <2>1 DEF Making, Doomed, Task, MadeItems, DoomedItems
<1>2. CASE ~(work'[j].at = "idle" \/ work'[j].at \in Results)
  <2> DEFINE p == Task(j)
  <2>1. /\ jobs'[j].planID = p /\ p \in Plans /\ Planned(p)
        /\ MadeItems(p, work'[j]) \subseteq MadeItems(p, work[j])
        /\ DoomedItems(p, work'[j]) \subseteq DoomedItems(p, work[j])
    BY <1>2 DEF Settles
  <2>2. review'[p] = review[p]
    BY <2>1
  <2>3. Making(j)' = {Destination(p, i) : i \in MadeItems(p, work'[j])}
    BY <2>1 DEF Making, Task, MadeItems
  <2>4. Doomed(j)' = {review[p].definition[Target(p, i)] : i \in DoomedItems(p, work'[j])}
    BY <2>1, <2>2 DEF Doomed, Task, DoomedItems, Source
  <2> QED
    BY <2>1, <2>3, <2>4 DEF Making, Doomed, Source
<1> QED
  BY <1>1, <1>2

LEMMA CalmKeeps ==
  ASSUME BaseInv, DataInv, Calm
  PROVE  Sharp' /\ Whole' /\ MadeAreFree' /\ DoomedAreFree' /\ GuardedAreKept' /\ DataIsSafe'
<1> USE DEF DataInv
<1>1. /\ UNCHANGED definition /\ DisksTypes
      /\ \A v \in Volumes : volume'[v].bytes = volume[v].bytes
      /\ \A v \in Volumes : Present(v)' <=> Present(v)
  BY DEF Calm, Present, BaseInv
<1>2. \A v : Used(v)' <=> Used(v)
  BY <1>1 DEF Used, Uses, Defined
<1>3. \A j \in Jobs : Making(j)' \subseteq Making(j) /\ Doomed(j)' \subseteq Doomed(j)
  BY SettlesShrinks DEF Calm, Persists
<1>4. ASSUME NEW v \in Volumes, Added(v)', Present(v)
      PROVE  Added(v)
  <2>1. PICK j \in Jobs : Guarded(j)' /\ Kind[jobs'[j].planID] = "add" /\ v = Destination(jobs'[j].planID, 1)
    BY <1>4 DEF Added, Addition, Task
  <2>2. jobs'[j].planID \in Plans /\ 1 \in 1..Count(jobs'[j].planID)
    BY <2>1, HasTarget DEF Calm, Persists
  <2>3. Guarded(j) /\ jobs'[j].planID = Task(j)
    BY <1>4, <2>1, <2>2 DEF Calm, Persists
  <2> QED
    BY <2>1, <2>3 DEF Added, Addition
<1>5. Sharp'
  BY <1>1 DEF Sharp, Defined
<1>6. Whole'
  <2>1. ASSUME NEW vm \in VMs, NEW s \in Slots, Defined(vm), definition[vm][s] # NoVolume
        PROVE  volume'[definition[vm][s]].bytes \in BytesAt(vm, s)
    BY <1>1, <2>1, UsedIsThere DEF Whole
  <2> QED
    BY <1>1, <2>1 DEF Whole, Defined
<1>7. MadeAreFree'
  <2> SUFFICES ASSUME NEW j \in Jobs, NEW p \in Plans, NEW w \in [at : Stages, i : Nat],
                      jobs'[j].planID = p, work'[j] = w, NEW i \in MadeItems(p, w),
                      NEW new, new = Destination(p, i)
               PROVE  ~Used(new)' /\ volume'[new].bytes \in Expected(p, w, i)
    BY DEF MadeAreFree, Task
  <2>1. ~(work'[j].at = "idle" \/ work'[j].at \in Results)
    BY IdleItems
  <2>2. /\ Task(j) = p /\ i \in MadeItems(p, work[j])
        /\ i \in CopiedItems(p, w) <=> i \in CopiedItems(p, work[j])
    BY <2>1 DEF Calm, Settles
  <2>3. new \in Volumes /\ work[j] \in [at : Stages, i : Nat]
    BY <1>1, <2>2, MakingFacts DEF Making, DisksTypes
  <2>4. ~Used(new) /\ volume[new].bytes \in Expected(p, work[j], i)
    BY <2>2, <2>3 DEF MadeAreFree
  <2> QED
    BY <1>1, <1>2, <2>2, <2>3, <2>4 DEF Expected
<1>8. DoomedAreFree'
  <2>1. ASSUME NEW j \in Jobs, NEW v \in Doomed(j)
        PROVE  /\ v \in Volumes /\ ~Used(v) /\ Present(v) /\ ~Added(v)
               /\ \A k \in Jobs : v \notin Making(k) /\ (k # j => v \notin Doomed(k))
    BY <2>1, DoomedFacts DEF DoomedAreFree
  <2>2. ASSUME NEW j \in Jobs, NEW v \in Doomed(j)'
        PROVE  /\ ~Used(v)' /\ Present(v)' /\ ~Added(v)'
               /\ \A k \in Jobs : v \notin Making(k)' /\ (k # j => v \notin Doomed(k)')
    BY <1>1, <1>2, <1>3, <1>4, <2>1, <2>2
  <2> QED
    BY <2>2 DEF DoomedAreFree
<1>9. GuardedAreKept'
  <2> SUFFICES ASSUME NEW j \in Jobs, Guarded(j)', NEW p \in Plans, p = jobs'[j].planID
               PROVE  /\ \A i \in 1..Count(p) : \A vm \in VMs, s \in Slots :
                           Defined(vm) /\ definition[vm][s] = Destination(p, i) => vm = Receiver(p) /\ s = Target(p, i)
                      /\ Kind[p] = "add" => volume'[Destination(p, 1)].bytes \in {"absent", "torn", "blank"}
    BY <1>1 DEF GuardedAreKept, Task, Defined
  <2>1. Kind[p] = "add" => 1 \in 1..Count(p)
    BY HasTarget
  <2>2. \A i \in 1..Count(p) : Destination(p, i) \in Volumes
    BY <2>1, ItemFacts
  <2>3. CASE Guarded(j) /\ p = Task(j)
    BY <1>1, <2>1, <2>2, <2>3 DEF GuardedAreKept
  <2>4. CASE \A i \in 1..Count(p) : ~Present(Destination(p, i))
    <3>1. \A i \in 1..Count(p) : ~Used(Destination(p, i))
      BY <1>1, <2>2, <2>4, UsedIsPresent
    <3>2. Kind[p] = "add" => volume'[Destination(p, 1)].bytes = "absent"
      BY <1>1, <2>1, <2>2, <2>4 DEF Present
    <3> QED
      BY <3>1, <3>2 DEF Used, Uses
  <2> QED
    BY <2>3, <2>4 DEF Calm, Persists
<1>10. DataIsSafe'
  <2> SUFFICES ASSUME NEW vm \in VMs, NEW s \in Slots, Original[vm] # Undefined, Original[vm][s] # NoVolume
               PROVE  \/ Excused(vm, s)'
                      \/ InPlace(vm, s)'
                      \/ \E v \in Volumes : volume'[v].bytes = Original[vm][s] /\ Spare(v)'
    BY DEF DataIsSafe
  <2>1. CASE Excused(vm, s)
    BY <2>1 DEF Calm, Persists
  <2>2. CASE InPlace(vm, s)
    BY <1>1, <2>2, UsedIsThere DEF InPlace, Defined
  <2>3. ASSUME NEW v \in Volumes, volume[v].bytes = Original[vm][s], Spare(v)
        PROVE  volume'[v].bytes = Original[vm][s] /\ Spare(v)'
    <3>1. Original[vm][s] \in Volumes
      BY DiskPlans DEF Definition
    <3>2. Present(v)
      BY <2>3, <3>1, DisksDiffer DEF Present
    <3> QED
      BY <1>1, <1>2, <1>3, <1>4, <2>3, <3>2 DEF Spare
  <2> QED
    BY <2>1, <2>2, <2>3 DEF DataIsSafe
<1> QED
  BY <1>5, <1>6, <1>7, <1>8, <1>9, <1>10

-----------------------------------------------------------------------------
(* Which steps are calm.                                                     *)

\* What a step of Execute of job j leaves alone.
LEMMA WorkKeeps ==
  ASSUME BaseInv, NEW j \in Jobs, Work(j)
  PROVE  /\ UNCHANGED <<jobs, locks, runner, review>>
         /\ \A m \in Jobs : m # j => work'[m] = work[m]
         /\ \A m \in Jobs : m # j => Making(m)' = Making(m) /\ Doomed(m)' = Doomed(m)
         /\ Making(j)' = {Destination(Task(j), i) : i \in MadeItems(Task(j), work'[j])}
         /\ Doomed(j)' = {Source(Task(j), i) : i \in DoomedItems(Task(j), work'[j])}
         /\ \A m : Guarded(m)' <=> Guarded(m)
         /\ \A v : Added(v)' <=> Added(v)
         /\ \A vm, s : Excused(vm, s)' <=> Excused(vm, s)
<1>1. UNCHANGED <<jobs, locks, runner, review>> /\ At(j, "execute")
  BY WorkFrame DEF KeepsEngine, vars, journal, volatile
<1>2. \A m \in Jobs : m # j => work'[m] = work[m]
  BY <1>1, WorkFollows, FollowsFits
<1>3. \A m : Guarded(m)' <=> Guarded(m)
  BY <1>1 DEF Guarded, Stored, Task, Holds, Resource
<1>4. \A v : Added(v)' <=> Added(v)
  BY <1>1, <1>3 DEF Added, Addition, Task
<1>5. \A vm, s : Excused(vm, s)' <=> Excused(vm, s)
  BY <1>1 DEF Excused, Stored, Task
<1>6. ASSUME NEW m \in Jobs
      PROVE  /\ Making(m)' = {Destination(Task(m), i) : i \in MadeItems(Task(m), work'[m])}
             /\ Doomed(m)' = {Source(Task(m), i) : i \in DoomedItems(Task(m), work'[m])}
  BY <1>1 DEF Making, Doomed, Task, MadeItems, DoomedItems, Source
<1>7. \A m \in Jobs : m # j => Making(m)' = Making(m) /\ Doomed(m)' = Doomed(m)
  BY <1>2, <1>6 DEF Making, Doomed
<1> QED
  BY <1>1, <1>2, <1>3, <1>4, <1>5, <1>6, <1>7

LEMMA FollowsSettles ==
  ASSUME BaseInv, NEW j \in Jobs, Work(j), work[j].at \notin {"allocate", "fill", "define", "undefine"}
         \/ work'[j].at \in Results
  PROVE  \A m \in Jobs : Settles(m)
<1> DEFINE p == Task(j)
           at == work[j].at
           i == work[j].i
<1>1. /\ p \in Plans /\ Planned(p) /\ Fits(p, work[j]) /\ i \in Nat /\ jobs'[j].planID = p /\ Follows(j)
      /\ Count(p) \in Nat
  BY WorkFrame, TaskFacts, WorkKeeps, WorkFollows, ChosenAre DEF Task
<1>2. ASSUME NEW m \in Jobs, m # j
      PROVE  Settles(m)
  <2>1. work'[m] = work[m] /\ jobs' = jobs
    BY <1>2, WorkKeeps
  <2>2. work[m].at = "idle" \/ (Task(m) \in Plans /\ Planned(Task(m)))
    BY TaskFacts DEF BaseInv, WorkIsRun
  <2> QED
    BY <2>1, <2>2 DEF Settles, Task
<1>3. CASE work'[j].at \in Results
  BY <1>2, <1>3 DEF Settles
<1>4. CASE at = "idle" /\ work'[j].at \notin Results
  <2>1. work'[j].at \in {"resize", "undefine", "delete-new"} \/ (work'[j].at = "allocate" /\ work'[j].i = 1)
    BY <1>1, <1>4 DEF Follows, Reaches
  <2>2. MadeItems(p, work'[j]) = {} /\ DoomedItems(p, work'[j]) = {}
    BY <2>1 DEF MadeItems, DoomedItems, MakerStates, RemovalStates
  <2> QED
    BY <1>1, <1>2, <2>2 DEF Settles
<1>5. CASE at \in {"allocated", "filled"} /\ work'[j].at \notin Results
  <2>1. Kind[p] \in Makers /\ i \in 1..Count(p)
    BY <1>1, <1>5 DEF Fits, MakerStates
  <2>2. \/ at = "allocated" /\ work'[j].at = "fill" /\ work'[j].i = i
        \/ at = "filled" /\ work'[j].at = "define" /\ work'[j].i = i
        \/ at = "filled" /\ work'[j].at = "allocate" /\ work'[j].i = i + 1
    BY <1>1, <1>5 DEF Follows, Reaches, Results
  <2>3. \A n \in 1..Count(p) : n < i + 1 <=> n <= i
    BY <1>1, <2>1
  <2>4. /\ MadeItems(p, work[j]) = {n \in 1..Count(p) : n <= i}
        /\ MadeItems(p, work'[j]) = {n \in 1..Count(p) : n <= i}
    BY <1>1, <1>5, <2>2, <2>3 DEF MadeItems, MakerStates
  <2>5. \A n \in MadeItems(p, work[j]) : n \in CopiedItems(p, work'[j]) <=> n \in CopiedItems(p, work[j])
    BY <1>1, <1>5, <2>2, <2>3, <2>4 DEF CopiedItems
  <2>6. DoomedItems(p, work'[j]) = {}
    BY <2>2 DEF DoomedItems, RemovalStates
  <2> QED
    BY <1>1, <1>2, <2>4, <2>5, <2>6 DEF Settles
<1>6. CASE at \notin {"idle", "allocated", "filled", "allocate", "fill", "define", "undefine"} /\ work'[j].at \notin Results
  <2>1. \/ at = "defined" /\ work'[j].at = "delete-old" /\ Kind[p] = "move"
        \/ work'[j].at \in {"old-deleted", "resized", "new-deleted"}
        \/ at = "undefined" /\ work'[j].at = "intend" /\ work'[j].i = 1
        \/ at = "intend" /\ work'[j].at = "remove" /\ work'[j].i = i
        \/ at = "remove" /\ work'[j].at = "removed" /\ work'[j].i = i
        \/ at = "removed" /\ work'[j].at = "intend" /\ work'[j].i = i + 1
    BY <1>1, <1>6 DEF Follows, Reaches
  <2>2. MadeItems(p, work'[j]) = {}
    BY <2>1 DEF MadeItems, MakerStates
  <2>3. at \in RemovalStates => Kind[p] = "remove" /\ i \in 1..Count(p) /\ (at = "undefined" => i = 1)
    BY <1>1 DEF Fits, RemovalStates
  <2>4. DoomedItems(p, work'[j]) \subseteq DoomedItems(p, work[j])
    <3>1. CASE work'[j].at \in {"old-deleted", "resized", "new-deleted", "delete-old"}
      BY <2>1, <3>1 DEF DoomedItems, RemovalStates
    <3>2. CASE work'[j].at \in {"intend", "remove", "removed"}
      <4>1. work'[j].i \in Nat /\ (work'[j].i = i \/ (at = "removed" /\ work'[j].i = i + 1) \/ (at = "undefined" /\ i = 1))
        BY <1>1, <2>1, <2>3, <3>2 DEF RemovalStates
      <4>2. ASSUME NEW n \in 1..Count(p), n >= work'[j].i, n = work'[j].i => work'[j].at # "removed"
            PROVE  n >= i /\ (n = i => at # "removed")
        BY <1>1, <2>1, <2>3, <3>2, <4>1, <4>2 DEF RemovalStates
      <4>3. at \in RemovalStates
        BY <2>1, <3>2 DEF RemovalStates
      <4> QED
        BY <3>2, <4>2, <4>3 DEF DoomedItems
    <3> QED
      BY <2>1, <3>1, <3>2
  <2> QED
    BY <1>1, <1>2, <2>2, <2>4 DEF Settles
<1> QED
  BY <1>3, <1>4, <1>5, <1>6

\* Planning changes nothing that was there.
LEMMA PlanningIsCalm ==
  ASSUME BaseInv, UNCHANGED <<jobs, locks, work, definition, volume>>,
         \A q \in Plans : Planned(q) => review'[q] = review[q]
  PROVE  Calm
<1>1. \A j \in Jobs : Guarded(j)' => Guarded(j) /\ jobs'[j].planID = Task(j) /\ Task(j) \in Plans
  <2>1. \A j \in Jobs : Stored(j) => Task(j) \in Plans
    BY RowOfStored DEF Task, BaseInv, AcceptanceInv, DoubtInv, OwnershipInv, TypeOK, Row
  <2> QED
    BY <2>1 DEF Guarded, Stored, Task, Holds, Resource
<1>2. Persists
  BY <1>1 DEF Persists, Excused, Stored, Task
<1>3. ASSUME NEW m \in Jobs
      PROVE  Settles(m)
  <2>1. work[m].at = "idle" \/ (Task(m) \in Plans /\ Planned(Task(m)))
    BY TaskFacts DEF BaseInv, WorkIsRun
  <2> QED
    BY <2>1 DEF Settles, Task
<1> QED
  BY <1>2, <1>3 DEF Calm

LEMMA EngineIsCalm ==
  ASSUME BaseInv, EngineMoves, UNCHANGED disks
  PROVE  Calm /\ UNCHANGED <<review, definition, volume>>
<1>1. UNCHANGED <<review, definition, volume>> /\ [Next]_vars /\ AcceptanceInv
      /\ \A j \in Jobs : work'[j] = work[j] \/ work'[j].at = "idle"
  BY EngineFrame, EngineMovesEngine DEF disks, BaseInv
<1>2. \A j \in Jobs : Stored(j) => Stored(j)' /\ jobs'[j].planID = Task(j) /\ Task(j) \in Plans
  BY <1>1, JobsAreKept, RowOfStored DEF Task, BaseInv, AcceptanceInv, DoubtInv, OwnershipInv, TypeOK, Row
<1>3. \A vm \in VMs, s \in Slots : Excused(vm, s) => Excused(vm, s)'
  BY <1>2 DEF Excused, Task
<1>4. ASSUME NEW j \in Jobs, Guarded(j)', NEW p, p = jobs'[j].planID
      PROVE  /\ p \in Plans
             /\ (Guarded(j) /\ p = Task(j)) \/ \A i \in 1..Count(p) : ~Present(Destination(p, i))
  <2>1. CASE Stored(j)
    BY <1>1, <1>2, <1>4, <2>1, GuardsAreKept
  <2>2. CASE ~Stored(j)
    <3>1. Stored(j)' /\ Kind[p] \in Makers
      BY <1>4 DEF Guarded, Task
    <3>2. p \in Plans /\ DiskValid(p, NoJob)
      BY <1>1, <1>4, <2>2, <3>1, AcceptedIsValid
    <3> QED
      BY <3>1, <3>2, ValidMakers
  <2> QED
    BY <2>1, <2>2
<1>5. Persists
  BY <1>1, <1>3, <1>4 DEF Persists
<1>6. ASSUME NEW m \in Jobs
      PROVE  Settles(m)
  <2>1. work[m].at = "idle" \/ (Task(m) \in Plans /\ Planned(Task(m)) /\ Stored(m))
    BY TaskFacts DEF BaseInv, WorkIsRun
  <2> QED
    BY <1>1, <1>2, <2>1 DEF Settles
<1> QED
  BY <1>1, <1>5, <1>6 DEF Calm

\* The steps of Execute that only look, or write a receipt or a size.
Quiet(j) ==
  \/ StartGrow(j) \/ StartMove(j) \/ StartClone(j) \/ StartAddition(j) \/ StartRemoval(j)
  \/ RecordAllocation(j) \/ RecordCopy(j) \/ RecordDefinition(j)
  \/ Resize(j) \/ RecordGrowth(j) \/ EndMove(j)
  \/ RecordUndefined(j) \/ IntendRemoval(j) \/ RecordRemoval(j)
  \/ CloseAddition(j) \/ ConfirmDisposal(j) \/ WorkFails(j)

LEMMA QuietIsCalm ==
  ASSUME BaseInv, NEW j \in Jobs, Work(j), Quiet(j)
  PROVE  Calm
<1>1. /\ UNCHANGED review /\ \A m : Guarded(m)' <=> Guarded(m)
      /\ \A vm, s : Excused(vm, s)' <=> Excused(vm, s)
      /\ jobs' = jobs
  BY WorkKeeps
<1>2. \A m \in Jobs : Guarded(m) => Task(m) \in Plans
  BY RowOfStored DEF Guarded, Task, BaseInv, AcceptanceInv, DoubtInv, OwnershipInv, TypeOK, Row
<1>3. Persists
  BY <1>1, <1>2 DEF Persists, Task
<1>4. UNCHANGED definition /\ \A v \in Volumes : volume'[v].bytes = volume[v].bytes
  <2>1. CASE Resize(j)
    <3>1. PlanOf(j) = Task(j) /\ Task(j) \in Plans /\ Planned(Task(j)) /\ Fits(Task(j), work[j]) /\ DisksTypes
      BY WorkFrame, TaskFacts DEF BaseInv
    <3>2. Source(Task(j), 1) \in Volumes /\ SeenSource(Task(j), 1) \in Volume
      BY <2>1, <3>1, SourceFacts, HasTarget DEF Resize, In, Fits, BaseInv
    <3>3. volume[Source(Task(j), 1)] = SeenSource(Task(j), 1)
      BY <2>1, <3>1, GrowBefore DEF Resize
    <3>4. /\ volume' = [volume EXCEPT ![Source(Task(j), 1)] = [SeenSource(Task(j), 1) EXCEPT !.grown = TRUE]]
          /\ UNCHANGED definition
      BY <2>1, <3>1 DEF Resize, Written
    <3>5. [SeenSource(Task(j), 1) EXCEPT !.grown = TRUE].bytes = SeenSource(Task(j), 1).bytes
      BY <3>2 DEF Volume
    <3> QED
      BY <3>1, <3>3, <3>4, <3>5 DEF DisksTypes
  <2>2. CASE ~Resize(j)
    BY <2>2 DEF Quiet, StartGrow, StartMove, StartClone, StartAddition, StartRemoval, Starts, RecordAllocation,
         RecordCopy, RecordDefinition, RecordGrowth, EndMove, RecordUndefined, IntendRemoval, RecordRemoval,
         CloseAddition, ConfirmDisposal, WorkFails, disks
  <2> QED
    BY <2>1, <2>2
<1>5. work[j].at \notin {"allocate", "fill", "define", "undefine"} \/ work'[j].at \in Results
  <2>1. CASE WorkFails(j)
    <3>1. \E at \in {"error", "not-done"} : Go(j, at)
      BY <2>1 DEF WorkFails
    <3> QED
      BY <3>1, GoIs DEF Results, Stages, BaseInv
  <2>2. CASE ~WorkFails(j)
    BY <2>2 DEF Quiet, StartGrow, StartMove, StartClone, StartAddition, StartRemoval, Starts, RecordAllocation,
         RecordCopy, RecordDefinition, Resize, RecordGrowth, EndMove, RecordUndefined, IntendRemoval, RecordRemoval,
         CloseAddition, ConfirmDisposal, In
  <2> QED
    BY <2>1, <2>2
<1>6. \A m \in Jobs : Settles(m)
  BY <1>5, FollowsSettles
<1> QED
  BY <1>3, <1>4, <1>6 DEF Calm

-----------------------------------------------------------------------------
(* What a step of Execute changes is locked by its job.                      *)

LEMMA SourcesLocked ==
  ASSUME BaseInv, NEW p \in Plans, Planned(p), Kind[p] \in {"grow", "move", "clone", "remove"}, NEW i \in 1..Count(p)
  PROVE  Source(p, i) \in Volumes /\ Source(p, i) \in ResourceIDs[p]
BY SourceFacts DEF BaseInv

\* What a disposition closes, and what that has locked.
LEMMA DisposalFacts ==
  ASSUME BaseInv, NEW j \in Jobs, At(j, "execute"), Kind[Task(j)] \in Disposals, NEW a, a = review[Task(j)].of
  PROVE  \E r \in Jobs :
           /\ r # j /\ Stored(r) /\ Task(r) = a /\ jobs[j].recoveryOf = r /\ Guarded(r)
           /\ a \in Plans /\ Kind[a] = "add" /\ Machine[a] = Machine[Task(j)]
           /\ Destination(a, 1) \in Volumes /\ Destination(a, 1) \in ResourceIDs[Task(j)]
<1> DEFINE p == Task(j)
           r == review[p].parent
<1>1. /\ p \in Plans /\ Planned(p) /\ Stored(j) /\ Holds(j) /\ r \in Jobs /\ Stored(r) /\ a = Task(r)
      /\ Kind[a] = "add" /\ Machine[a] = Machine[p] /\ jobs[j].recoveryOf = r
  <2>1. p \in Plans /\ Planned(p) /\ Stored(j) /\ Holds(j)
    BY TaskFacts, WorkerFacts DEF BaseInv
  <2>2. ReviewFits(p, review[p]) /\ p \in RecoveryPlans
    BY <2>1, DiskPlans DEF BaseInv, ReviewsFit
  <2> QED
    BY <2>1, <2>2 DEF ReviewFits, BaseInv, RecoveriesFit
<1>2. a \in Plans
  BY <1>1, RowOfStored DEF Task, BaseInv, AcceptanceInv, DoubtInv, OwnershipInv, TypeOK, Row
<1>3. r # j
  BY <1>1 DEF Makers, Disposals
<1>4. ResourceIDs[a] \subseteq ResourceIDs[p]
  BY <1>1, NullsAreNotValues DEF BaseInv, AcceptanceInv, Acceptances, RecoveriesAreChained, Resource, Task
<1>5. Guarded(r)
  BY <1>1 DEF Guarded, Makers
<1>6. Destination(a, 1) \in Volumes /\ Destination(a, 1) \in ResourceIDs[a]
  BY <1>1, <1>2, HasTarget, ItemFacts DEF Makers
<1> QED
  BY <1>1, <1>2, <1>3, <1>4, <1>5, <1>6

\* Where j works, and what it writes, it has the locks.
Local(j) ==
  /\ \A vm \in VMs : definition'[vm] # definition[vm] => vm \in ResourceIDs[Task(j)]
  /\ \A v \in Volumes : volume'[v] # volume[v] => v \in ResourceIDs[Task(j)]

LEMMA WorkIsLocal ==
  ASSUME BaseInv, NEW j \in Jobs, Work(j)
  PROVE  Local(j)
<1> DEFINE p == Task(j)
           i == work[j].i
<1>1. /\ At(j, "execute") /\ PlanOf(j) = p /\ p \in Plans /\ Planned(p)
      /\ Fits(p, work[j]) /\ DisksTypes
  BY TaskFacts, WorkFrame DEF BaseInv
<1>2. ASSUME NEW v, NEW c, Written(v, c), v \in ResourceIDs[p], UNCHANGED definition
      PROVE  Local(j)
  BY <1>1, <1>2 DEF Written, DisksTypes, Local
<1>3. ASSUME NEW vm, NEW d, Defines(vm, d), vm \in ResourceIDs[p], UNCHANGED volume
      PROVE  Local(j)
  BY <1>1, <1>3 DEF Defines, DisksTypes, Local
<1>4. UNCHANGED <<definition, volume>> => Local(j)
  BY DEF Local
<1>5. CASE Quiet(j) /\ ~Resize(j)
  <2>1. UNCHANGED <<definition, volume>>
    BY <1>5 DEF Quiet, StartGrow, StartMove, StartClone, StartAddition, StartRemoval, Starts, RecordAllocation,
       RecordCopy, RecordDefinition, RecordGrowth, EndMove, RecordUndefined, IntendRemoval, RecordRemoval,
       CloseAddition, ConfirmDisposal, WorkFails, disks
  <2> QED
    BY <1>4, <2>1
<1>6. CASE Resize(j)
  <2>1. Source(p, 1) \in ResourceIDs[p]
    BY <1>1, <1>6, HasTarget, SourcesLocked DEF Resize, In, Fits
  <2> QED
    BY <1>1, <1>2, <1>6, <2>1 DEF Resize
<1>7. CASE AllocateMoved(j) \/ AllocateCloned(j) \/ AllocateAdded(j)
  <2>1. Written(Destination(p, i), Torn) /\ UNCHANGED definition /\ work[j].at = "allocate"
    BY <1>1, <1>7 DEF AllocateMoved, AllocateCloned, AllocateAdded, Allocates, In
  <2>2. Destination(p, i) \in ResourceIDs[p]
    BY <1>1, <2>1, ItemFacts DEF Fits, MakerStates
  <2> QED
    BY <1>2, <2>1, <2>2
<1>8. CASE Fill(j)
  <2>1. (\E c : Written(Destination(p, i), c)) /\ UNCHANGED definition /\ work[j].at = "fill"
    BY <1>1, <1>8 DEF Fill, In
  <2>2. Destination(p, i) \in ResourceIDs[p]
    BY <1>1, <2>1, ItemFacts DEF Fits, MakerStates
  <2> QED
    BY <1>2, <2>1, <2>2
<1>9. CASE DefineMovedDisk(j) \/ DefineClone(j) \/ DefineAddedDisk(j)
  <2>1. PICK vm, d : Defines(vm, d) /\ UNCHANGED volume /\ (vm = Machine[p] \/ (Kind[p] = "clone" /\ vm = NewMachine[p]))
    BY <1>1, <1>9 DEF DefineMovedDisk, DefineClone, DefineAddedDisk, Redefines, Does
  <2> QED
    BY <1>1, <1>3, <2>1, RequestsAreValid
<1>10. CASE DeleteOldVolume(j) \/ DeleteRemovalDisk(j)
  <2>1. \/ Written(Source(p, 1), Absent) /\ UNCHANGED definition /\ work[j].at = "delete-old"
        \/ Written(Source(p, i), Absent) /\ UNCHANGED definition /\ work[j].at = "remove"
    BY <1>1, <1>10 DEF DeleteOldVolume, DeleteRemovalDisk, In
  <2>2. CASE work[j].at = "delete-old"
    <3>1. Source(p, 1) \in ResourceIDs[p]
      BY <1>1, <2>2, HasTarget, SourcesLocked DEF Fits
    <3> QED
      BY <1>2, <2>1, <2>2, <3>1
  <2>3. CASE work[j].at = "remove"
    <3>1. Source(p, i) \in ResourceIDs[p]
      BY <1>1, <2>3, SourcesLocked DEF Fits, RemovalStates
    <3> QED
      BY <1>2, <2>1, <2>3, <3>1
  <2> QED
    BY <2>1, <2>2, <2>3
<1>11. CASE RemoveDefinition(j)
  <2>1. Defines(Machine[p], Undefined) /\ UNCHANGED volume
    BY <1>1, <1>11 DEF RemoveDefinition
  <2> QED
    BY <1>1, <1>3, <2>1, RequestsAreValid
<1>12. CASE DeleteUnreferencedDisk(j)
  <2>1. Written(Destination(review[p].of, 1), Absent) /\ UNCHANGED definition /\ work[j].at = "delete-new"
    BY <1>1, <1>12 DEF DeleteUnreferencedDisk, In
  <2>2. Destination(review[p].of, 1) \in ResourceIDs[p]
    BY <1>1, <2>1, DisposalFacts DEF Fits, Disposals
  <2> QED
    BY <1>2, <2>1, <2>2
<1> QED
  BY <1>5, <1>6, <1>7, <1>8, <1>9, <1>10, <1>11, <1>12 DEF Work, Quiet

\* What another job looks at stays as it is.
LEMMA OthersSeeNoChange ==
  ASSUME BaseInv, NEW j \in Jobs, Work(j), NEW k \in Jobs, k # j, work[k].at \in MakerStates,
         NEW q \in Plans, q = Task(k)
  PROVE  /\ AsReviewed(q) => AsReviewed(q)'
         /\ Kind[q] = "move" =>
              /\ volume'[Source(q, 1)] = volume[Source(q, 1)]
              /\ volume'[Destination(q, 1)] = volume[Destination(q, 1)]
<1>1. At(j, "execute") /\ At(k, "execute") /\ AcceptanceInv /\ Local(j) /\ jobs' = jobs /\ review' = review
  BY WorkFrame, WorkIsLocal, WorkKeeps DEF BaseInv, WorkIsRun, MakerStates
<1>2. ResourceIDs[Task(j)] \cap ResourceIDs[q] = {}
  BY <1>1, WorkersApart
<1>3. q \in Plans /\ Planned(q) /\ Machine[q] \in VMs
  BY <1>1, TaskFacts, DiskPlans
<1>4. definition'[Machine[q]] = definition[Machine[q]]
  BY <1>1, <1>2, <1>3, RequestsAreValid DEF Local
<1>5. AsReviewed(q) => AsReviewed(q)'
  BY <1>1, <1>4 DEF AsReviewed
<1>6. Kind[q] = "move" =>
        /\ Source(q, 1) \in Volumes /\ Source(q, 1) \in ResourceIDs[q]
        /\ Destination(q, 1) \in Volumes /\ Destination(q, 1) \in ResourceIDs[q]
  BY <1>3, HasTarget, SourcesLocked, ItemFacts DEF Makers
<1> QED
  BY <1>1, <1>2, <1>3, <1>5, <1>6 DEF Local

\* A volume that was made is not one that was used when the plan was reviewed.
LEMMA MadeIsNotSource ==
  ASSUME BaseInv, DataInv, NEW j \in Jobs, work[j].at \in MakerStates, NEW i \in MadeItems(Task(j), work[j]),
         NEW n \in 1..Count(Task(j)), Kind[Task(j)] \in {"move", "clone"}
  PROVE  /\ Source(Task(j), n) # Destination(Task(j), i)
         /\ Used(Source(Task(j), n)) /\ ~Used(Destination(Task(j), i))
         /\ definition[Machine[Task(j)]][Target(Task(j), n)] = Source(Task(j), n)
         /\ Defined(Machine[Task(j)])
<1> DEFINE p == Task(j)
<1>1. p \in Plans /\ Planned(p) /\ review[p] \in Input /\ work[j] \in [at : Stages, i : Nat]
  BY TaskFacts DEF BaseInv, WorkIsRun, MakerStates, DisksTypes
<1>2. AsReviewed(p)
  BY <1>1 DEF DataInv, MakersSeeTheReview
<1>3. Machine[p] \in VMs /\ Target(p, n) \in Slots
  BY <1>1, DiskPlans, ItemFacts
<1>4. Defined(Machine[p])
  BY <1>1, <1>2, DiskPlans DEF AsReviewed, Input, Defined
<1>5. Used(Source(p, n))
  BY <1>2, <1>3, <1>4 DEF Used, Uses, Source, AsReviewed
<1>6. ~Used(Destination(p, i))
  BY <1>1 DEF DataInv, MadeAreFree
<1> QED
  BY <1>2, <1>4, <1>5, <1>6 DEF Source, AsReviewed

LEMMA MakersStay ==
  ASSUME BaseInv, DataInv, NEW j \in Jobs, Work(j)
  PROVE  MakersSeeTheReview'
<1> PICK p \in Plans : p = Task(j)
  BY WorkFrame, TaskFacts
<1> DEFINE i == work[j].i
           Kept == /\ work'[j].at \in MakerStates => AsReviewed(p)'
                   /\ work'[j].at \in {"fill", "filled", "define"} /\ Kind[p] = "move" =>
                        volume'[Source(p, 1)].bytes = SeenSource(p, 1).bytes
                   /\ work'[j].at \in {"filled", "define"} /\ Kind[p] = "move" =>
                        volume'[Destination(p, 1)].bytes \in {"absent", SeenSource(p, 1).bytes}
<1>1. /\ jobs' = jobs /\ review' = review /\ \A m \in Jobs : m # j => work'[m] = work[m]
      /\ At(j, "execute") /\ PlanOf(j) = p /\ p \in Plans /\ Planned(p) /\ Fits(p, work[j]) /\ Follows(j)
      /\ DisksTypes /\ MakersSeeTheReview
  BY WorkKeeps, WorkFrame, TaskFacts, WorkFollows DEF DataInv, BaseInv
<1>2. ASSUME NEW k \in Jobs, k # j, NEW q \in Plans, Task(k) = q
      PROVE  /\ work'[k].at \in MakerStates => AsReviewed(q)'
             /\ work'[k].at \in {"fill", "filled", "define"} /\ Kind[q] = "move" =>
                  volume'[Source(q, 1)].bytes = SeenSource(q, 1).bytes
             /\ work'[k].at \in {"filled", "define"} /\ Kind[q] = "move" =>
                  volume'[Destination(q, 1)].bytes \in {"absent", SeenSource(q, 1).bytes}
  <2>1. work'[k] = work[k]
    BY <1>1, <1>2
  <2>2. CASE work[k].at \in MakerStates
    <3>1. AsReviewed(q)'
      BY <1>1, <1>2, <2>2, OthersSeeNoChange DEF MakersSeeTheReview
    <3>2. Kind[q] = "move" => volume'[Source(q, 1)] = volume[Source(q, 1)] /\ volume'[Destination(q, 1)] = volume[Destination(q, 1)]
      BY <1>2, <2>2, OthersSeeNoChange
    <3> QED
      BY <1>1, <1>2, <2>1, <2>2, <3>1, <3>2 DEF MakersSeeTheReview
  <2>3. CASE work[k].at \notin MakerStates
    BY <2>1, <2>3 DEF MakerStates
  <2> QED
    BY <2>2, <2>3
<1>3. ASSUME UNCHANGED definition, AsReviewed(p)
      PROVE  AsReviewed(p)'
  BY <1>1, <1>3 DEF AsReviewed
<1>4. ASSUME work'[j].at \notin MakerStates
      PROVE  Kept
  BY <1>4 DEF MakerStates
<1>5. ASSUME StartMove(j) \/ StartClone(j) \/ StartAddition(j)
      PROVE  Kept
  <2>1. UNCHANGED definition /\ work[j].at = "idle"
    BY <1>5 DEF StartMove, StartClone, StartAddition, Starts, In
  <2>2. (work'[j].at = "allocate" /\ Kind[p] \in Makers /\ DiskValid(p, NoJob)) \/ work'[j].at \notin MakerStates
    BY <1>1, <2>1 DEF Follows, Reaches, MakerStates, Results
  <2>3. work'[j].at \in MakerStates => AsReviewed(p)'
    BY <1>1, <1>3, <2>1, <2>2, ValidMakers
  <2> QED
    BY <2>2, <2>3 DEF MakerStates
<1>6. ASSUME AllocateMoved(j) \/ AllocateCloned(j) \/ AllocateAdded(j)
      PROVE  Kept
  <2>1. /\ UNCHANGED definition /\ work[j].at = "allocate" /\ Written(Destination(p, i), Torn)
        /\ Kind[p] # "move" \/ AllocateMoved(j)
    BY <1>1, <1>6 DEF AllocateMoved, AllocateCloned, AllocateAdded, Allocates, In, Does
  <2>2. AsReviewed(p)'
    BY <1>1, <1>3, <2>1 DEF MakersSeeTheReview, MakerStates
  <2>3. work'[j].at \notin {"filled", "define"}
    BY <1>1, <2>1 DEF Follows, Reaches, Results
  <2>4. CASE Kind[p] = "move"
    <3>1. i = 1
      BY <1>1, <2>1, <2>4, OneTarget DEF Fits, MakerStates
    <3>2. MoveState(p) = "before" /\ volume[Source(p, 1)] = SeenSource(p, 1)
      BY <1>1, <2>1, <2>4, <3>1 DEF AllocateMoved, MoveValid, SourceUnchanged
    <3>3. Source(p, 1) # Destination(p, 1)
      BY <3>2, MoveBefore
    <3>4. volume'[Source(p, 1)] = volume[Source(p, 1)]
      BY <1>1, <2>1, <3>1, <3>3, <2>4, SourcesLocked, HasTarget DEF Written, DisksTypes
    <3> QED
      BY <2>2, <2>3, <3>2, <3>4
  <2> QED
    BY <2>2, <2>3, <2>4
<1>7. ASSUME RecordAllocation(j) \/ RecordCopy(j)
      PROVE  Kept
  <2>1. UNCHANGED <<definition, volume>> /\ (work[j].at = "filled" \/ (work[j].at = "allocated" /\ Kind[p] = "add"))
    BY <1>1, <1>7 DEF RecordAllocation, RecordCopy, In, Fits
  <2>2. AsReviewed(p)'
    BY <1>1, <1>3, <2>1 DEF MakersSeeTheReview, MakerStates
  <2> QED
    BY <1>1, <2>1, <2>2 DEF MakersSeeTheReview
<1>8. ASSUME Fill(j)
      PROVE  Kept
  <2>1. /\ UNCHANGED definition /\ work[j].at = "fill"
        /\ Written(Destination(p, i), IF Kind[p] = "add" THEN Blank ELSE volume[Source(p, i)])
    BY <1>1, <1>8 DEF Fill, In
  <2>2. AsReviewed(p)' /\ i \in 1..Count(p)
    BY <1>1, <1>3, <2>1 DEF MakersSeeTheReview, MakerStates, Fits
  <2>3. CASE Kind[p] = "move"
    <3>1. i = 1 /\ 1 \in 1..Count(p) /\ i \in MadeItems(p, work[j])
      BY <1>1, <2>1, <2>2, <2>3, OneTarget DEF MadeItems, MakerStates
    <3>2. volume[Source(p, 1)].bytes = SeenSource(p, 1).bytes
      BY <1>1, <2>1, <2>3 DEF MakersSeeTheReview
    <3>3. Source(p, 1) # Destination(p, 1) /\ Source(p, 1) \in Volumes /\ Destination(p, 1) \in Volumes
      BY <1>1, <2>1, <2>3, <3>1, MadeIsNotSource, SourcesLocked, ItemFacts DEF MakerStates
    <3>4. volume'[Source(p, 1)] = volume[Source(p, 1)] /\ volume'[Destination(p, 1)] = volume[Source(p, 1)]
      BY <1>1, <2>1, <2>3, <3>1, <3>3 DEF Written, DisksTypes
    <3> QED
      BY <2>2, <3>2, <3>4
  <2> QED
    BY <2>2, <2>3
<1>9. ASSUME ~(\/ StartMove(j) \/ StartClone(j) \/ StartAddition(j)
               \/ AllocateMoved(j) \/ AllocateCloned(j) \/ AllocateAdded(j)
               \/ RecordAllocation(j) \/ RecordCopy(j) \/ Fill(j))
      PROVE  Kept
  <2>1. \E at \in Stages \ MakerStates, n \in Nat : Go(j, at) \/ GoTo(j, at, n)
    <3>1. \/ \E at \in {"resize", "undefine", "intend", "defined", "delete-old", "ok", "resized", "old-deleted",
                        "undefined", "remove", "removed", "delete-new", "new-deleted", "error", "not-done"} :
               Go(j, at)
          \/ \E at \in {"resize", "undefine", "intend"} : GoTo(j, at, 1)
          \/ GoTo(j, "intend", i + 1)
      BY <1>9 DEF Work, StartGrow, StartRemoval, Starts, DefineMovedDisk, DefineClone, DefineAddedDisk,
         Redefines, RecordDefinition, Resize, RecordGrowth, DeleteOldVolume, EndMove, RemoveDefinition,
         RecordUndefined, IntendRemoval, DeleteRemovalDisk, RecordRemoval, CloseAddition,
         DeleteUnreferencedDisk, ConfirmDisposal, WorkFails
    <3>2. i \in Nat /\ i + 1 \in Nat
      BY <1>1 DEF DisksTypes
    <3> QED
      BY <3>1, <3>2 DEF Stages, MakerStates, Results
  <2>2. work'[j].at \notin MakerStates
    BY <1>1, <2>1, GoIs, GoToIs
  <2> QED
    BY <1>4, <2>2
<1>10. Kept
  BY <1>4, <1>5, <1>6, <1>7, <1>8, <1>9
<1>11. ASSUME NEW k \in Jobs, NEW q \in Plans, jobs'[k].planID = q
       PROVE  /\ work'[k].at \in MakerStates => AsReviewed(q)'
              /\ work'[k].at \in {"fill", "filled", "define"} /\ Kind[q] = "move" =>
                   volume'[Source(q, 1)'].bytes = SeenSource(q, 1)'.bytes
              /\ work'[k].at \in {"filled", "define"} /\ Kind[q] = "move" =>
                   volume'[Destination(q, 1)].bytes \in {"absent", SeenSource(q, 1)'.bytes}
  <2>1. Task(k) = q /\ Source(q, 1)' = Source(q, 1) /\ SeenSource(q, 1)' = SeenSource(q, 1)
    BY <1>1, <1>11 DEF Task, Source, SeenSource
  <2>2. CASE k = j
    BY <1>10, <2>1, <2>2 DEF AsReviewed
  <2>3. CASE k # j
    BY <1>2, <2>1, <2>3
  <2> QED
    BY <2>2, <2>3
<1> QED
  BY <1>11 DEF MakersSeeTheReview, Task

-----------------------------------------------------------------------------
(* Steps that write one volume that nobody uses.                             *)

LEMMA WriteKeeps ==
  ASSUME BaseInv, DataInv, NEW j \in Jobs, Work(j), UNCHANGED definition,
         NEW v \in Volumes, NEW c \in Volume, Written(v, c), ~Used(v),
         Making(j)' \subseteq Making(j) \cup {v}, Doomed(j)' \subseteq Doomed(j),
         \A m \in Jobs : v \notin Doomed(m)',
         \A m \in Jobs : m # j => v \notin Making(m),
         volume[v].bytes \notin Volumes \/ ~Spare(v),
         Added(v) => c.bytes \in {"absent", "torn", "blank"},
         \A i \in MadeItems(Task(j), work'[j]) :
           volume'[Destination(Task(j), i)].bytes \in Expected(Task(j), work'[j], i)
  PROVE  Sharp' /\ Whole' /\ MadeAreFree' /\ DoomedAreFree' /\ GuardedAreKept' /\ DataIsSafe'
<1> USE DEF DataInv
<1>1. /\ UNCHANGED <<definition, jobs, review>> /\ DisksTypes
      /\ \A u \in Volumes : u # v => volume'[u] = volume[u]
      /\ volume'[v] = c
  BY WorkKeeps DEF BaseInv, Written, DisksTypes
<1>2. \A u : Used(u)' <=> Used(u)
  BY <1>1 DEF Used, Uses, Defined
<1>3. /\ \A m \in Jobs : m # j => Making(m)' = Making(m) /\ Doomed(m)' = Doomed(m) /\ work'[m] = work[m]
      /\ \A m : Guarded(m)' <=> Guarded(m)
      /\ \A u : Added(u)' <=> Added(u)
      /\ \A vm, s : Excused(vm, s)' <=> Excused(vm, s)
      /\ Making(j)' = {Destination(Task(j), i) : i \in MadeItems(Task(j), work'[j])}
  BY WorkKeeps
<1>4. Sharp'
  BY <1>1 DEF Sharp, Defined
<1>5. Whole'
  <2>1. ASSUME NEW vm \in VMs, NEW s \in Slots, Defined(vm), definition[vm][s] # NoVolume
        PROVE  volume'[definition[vm][s]].bytes \in BytesAt(vm, s)
    <3>1. definition[vm][s] \in Volumes /\ Used(definition[vm][s])
      BY <1>1, <2>1, UsedIsThere DEF Used, Uses
    <3> QED
      BY <1>1, <2>1, <3>1 DEF Whole
  <2> QED
    BY <1>1, <2>1 DEF Whole, Defined
<1>6. MadeAreFree'
  <2> SUFFICES ASSUME NEW k \in Jobs, NEW p \in Plans, NEW w \in [at : Stages, i : Nat],
                      jobs'[k].planID = p, work'[k] = w, NEW i \in MadeItems(p, w),
                      NEW new, new = Destination(p, i)
               PROVE  ~Used(new)' /\ volume'[new].bytes \in Expected(p, w, i)
    BY DEF MadeAreFree, Task
  <2>1. Task(k) = p
    BY <1>1 DEF Task
  <2>2. CASE k # j
    <3>1. work[k] = w /\ new \in Making(k)
      BY <1>3, <2>1, <2>2 DEF Making
    <3>2. new \in Volumes /\ new # v
      BY <2>2, <3>1, MakingFacts
    <3> QED
      BY <1>1, <1>2, <2>1, <3>1, <3>2 DEF MadeAreFree
  <2>3. CASE k = j
    <3>1. new \in Making(j) \cup {v}
      BY <1>3, <2>1, <2>3
    <3>2. ~Used(new)
      <4>1. ASSUME new \in Making(j)
            PROVE  ~Used(new)
        <5>1. PICK n \in MadeItems(p, work[j]) : new = Destination(p, n)
          BY <2>1, <2>3, <4>1 DEF Making
        <5>2. work[j] \in [at : Stages, i : Nat]
          BY <1>1 DEF DisksTypes
        <5> QED
          BY <2>1, <2>3, <5>1, <5>2 DEF MadeAreFree
      <4> QED
        BY <3>1, <4>1
    <3> QED
      BY <1>2, <2>1, <2>3, <3>2
  <2> QED
    BY <2>2, <2>3
<1>7. DoomedAreFree'
  <2>1. ASSUME NEW m \in Jobs, NEW u \in Doomed(m)'
        PROVE  /\ u \in Doomed(m) /\ u \in Volumes /\ u # v
    BY <1>3, <2>1, DoomedFacts
  <2>2. ASSUME NEW m \in Jobs, NEW u \in Doomed(m)'
        PROVE  /\ ~Used(u)' /\ Present(u)' /\ ~Added(u)'
               /\ \A k \in Jobs : u \notin Making(k)' /\ (k # m => u \notin Doomed(k)')
    <3>1. u \in Doomed(m) /\ u \in Volumes /\ u # v
      BY <2>1, <2>2
    <3>2. /\ ~Used(u) /\ Present(u) /\ ~Added(u)
          /\ \A k \in Jobs : u \notin Making(k) /\ (k # m => u \notin Doomed(k))
      BY <3>1 DEF DoomedAreFree
    <3>3. Present(u)'
      BY <1>1, <3>1, <3>2 DEF Present
    <3>4. ASSUME NEW k \in Jobs
          PROVE  u \notin Making(k)' /\ (k # m => u \notin Doomed(k)')
      BY <1>3, <3>1, <3>2, <3>4
    <3> QED
      BY <1>2, <1>3, <3>2, <3>3, <3>4
  <2> QED
    BY <2>2 DEF DoomedAreFree
<1>8. GuardedAreKept'
  <2> SUFFICES ASSUME NEW k \in Jobs, Guarded(k), NEW p \in Plans, p = Task(k)
               PROVE  /\ \A i \in 1..Count(p) : \A vm \in VMs, s \in Slots :
                           Defined(vm) /\ definition[vm][s] = Destination(p, i) => vm = Receiver(p) /\ s = Target(p, i)
                      /\ Kind[p] = "add" => volume'[Destination(p, 1)].bytes \in {"absent", "torn", "blank"}
    BY <1>1, <1>3 DEF GuardedAreKept, Task, Defined
  <2>1. Kind[p] = "add" => Destination(p, 1) \in Volumes /\ Added(Destination(p, 1))
    BY HasTarget, ItemFacts DEF Added, Addition
  <2>2. Kind[p] = "add" => volume'[Destination(p, 1)].bytes \in {"absent", "torn", "blank"}
    <3>1. CASE Destination(p, 1) = v
      BY <1>1, <2>1, <3>1
    <3>2. CASE Destination(p, 1) # v
      BY <1>1, <2>1, <3>2 DEF GuardedAreKept
    <3> QED
      BY <3>1, <3>2
  <2> QED
    BY <2>2 DEF GuardedAreKept
<1>9. DataIsSafe'
  <2> SUFFICES ASSUME NEW vm \in VMs, NEW s \in Slots, Original[vm] # Undefined, Original[vm][s] # NoVolume
               PROVE  \/ Excused(vm, s)'
                      \/ InPlace(vm, s)'
                      \/ \E u \in Volumes : volume'[u].bytes = Original[vm][s] /\ Spare(u)'
    BY DEF DataIsSafe
  <2>1. CASE Excused(vm, s)
    BY <1>3, <2>1
  <2>2. CASE InPlace(vm, s)
    <3>1. definition[vm][s] \in Volumes /\ Used(definition[vm][s])
      BY <1>1, <2>2, UsedIsThere DEF Used, Uses, InPlace
    <3> QED
      BY <1>1, <2>2, <3>1 DEF InPlace, Defined
  <2>3. ASSUME NEW u \in Volumes, volume[u].bytes = Original[vm][s], Spare(u)
        PROVE  volume'[u].bytes = Original[vm][s] /\ Spare(u)'
    <3>1. Original[vm][s] \in Volumes
      BY DiskPlans DEF Definition
    <3>2. u # v
      BY <2>3, <3>1
    <3>3. ASSUME NEW k \in Jobs
          PROVE  u \notin Making(k)' /\ u \notin Doomed(k)'
      BY <1>3, <2>3, <3>2 DEF Spare
    <3> QED
      BY <1>1, <1>2, <1>3, <2>3, <3>2, <3>3 DEF Spare
  <2> QED
    BY <2>1, <2>2, <2>3 DEF DataIsSafe
<1> QED
  BY <1>4, <1>5, <1>6, <1>7, <1>8, <1>9

\* The volumes a plan makes have names of their own.
LEMMA DestinationsDiffer ==
  ASSUME NEW p \in Plans, Kind[p] \in Makers, NEW i \in 1..Count(p), NEW n \in 1..Count(p),
         Destination(p, i) = Destination(p, n)
  PROVE  i = n
<1>1. CASE Kind[p] = "clone"
  <2>1. Target(p, i) \in Chosen[p] /\ Target(p, n) \in Chosen[p]
    BY ItemFacts
  <2>2. Target(p, i) = Target(p, n)
    BY <1>1, <2>1, RequestsAreValid DEF Destination
  <2> QED
    BY <2>2, TargetsDiffer
<1>2. CASE Kind[p] # "clone"
  <2>1. Count(p) = 1
    BY <1>2, OneTarget DEF Makers
  <2> QED
    BY <2>1
<1> QED
  BY <1>1, <1>2

\* A volume that a job at work makes is in nobody else's hands.
LEMMA OwnVolume ==
  ASSUME BaseInv, NEW j \in Jobs, At(j, "execute"), NEW v, v \in ResourceIDs[Task(j)]
  PROVE  \A m \in Jobs : m # j => v \notin Making(m) /\ v \notin Doomed(m)
<1>1. ASSUME NEW m \in Jobs, m # j, v \in Making(m) \/ v \in Doomed(m)
      PROVE  FALSE
  <2>1. At(m, "execute") /\ v \in ResourceIDs[Task(m)]
    BY <1>1, MakingFacts, DoomedFacts
  <2> QED
    BY <1>1, <2>1, WorkersApart DEF BaseInv
<1> QED
  BY <1>1

\* A job that is no recovery meets no addition but its own.
LEMMA OwnAddition ==
  ASSUME BaseInv, NEW j \in Jobs, At(j, "execute"), Kind[Task(j)] \notin Disposals,
         NEW v, v \in ResourceIDs[Task(j)], Added(v)
  PROVE  Kind[Task(j)] = "add"
<1>1. PICK k \in Jobs : Guarded(k) /\ Kind[Task(k)] = "add" /\ v = Destination(Task(k), 1)
  BY DEF Added, Addition
<1>2. Task(k) \in Plans
  BY <1>1, RowOfStored DEF Guarded, Task, BaseInv, AcceptanceInv, DoubtInv, OwnershipInv, TypeOK, Row
<1>3. v \in ResourceIDs[Task(k)]
  BY <1>1, <1>2, HasTarget, ItemFacts DEF Makers
<1>4. jobs[j].recoveryOf # k
  BY TaskFacts, DiskPlans, NullsAreNotValues DEF BaseInv, RecoveriesFit
<1> QED
  BY <1>1, <1>3, <1>4, GuardedApart DEF BaseInv

LEMMA AllocationKeeps ==
  ASSUME BaseInv, DataInv, NEW j \in Jobs, Work(j), AllocateMoved(j) \/ AllocateCloned(j) \/ AllocateAdded(j)
  PROVE  Sharp' /\ Whole' /\ MadeAreFree' /\ DoomedAreFree' /\ GuardedAreKept' /\ DataIsSafe'
<1> PICK p \in Plans : p = Task(j)
  BY WorkFrame, TaskFacts
<1> DEFINE i == work[j].i
           v == Destination(p, i)
<1>1. /\ At(j, "execute") /\ PlanOf(j) = p /\ Fits(p, work[j]) /\ Follows(j) /\ i \in Nat /\ DisksTypes
  BY WorkFrame, TaskFacts, WorkFollows DEF BaseInv
<1>2. work[j].at = "allocate" /\ ~Present(v) /\ Written(v, Torn) /\ UNCHANGED definition
  BY <1>1 DEF AllocateMoved, AllocateCloned, AllocateAdded, Allocates, In
<1>3. Kind[p] \in Makers /\ i \in 1..Count(p) /\ v \in Volumes /\ v \in ResourceIDs[p]
  BY <1>1, <1>2, ItemFacts DEF Fits, MakerStates
<1>4. work'[j].i = i /\ work'[j].at \in {"fill", "allocated"}
  <2>1. ~(\E to \in Results : Reaches(j, to, i))
    <3>1. \E at \in {"fill", "allocated"} : Go(j, at)
      BY DEF AllocateMoved, AllocateCloned, AllocateAdded, Allocates
    <3>2. work'[j].at \in {"fill", "allocated"}
      BY <1>1, <3>1, GoIs DEF Stages
    <3> QED
      BY <3>2 DEF Reaches, Results
  <2> QED
    BY <1>1, <1>2, <2>1 DEF Follows, Reaches
<1>5. /\ MadeItems(p, work'[j]) = {n \in 1..Count(p) : n <= i}
      /\ MadeItems(p, work[j]) = {n \in 1..Count(p) : n < i}
      /\ CopiedItems(p, work'[j]) = {n \in 1..Count(p) : n < i}
      /\ CopiedItems(p, work[j]) = {n \in 1..Count(p) : n < i}
      /\ DoomedItems(p, work'[j]) = {}
  BY <1>1, <1>2, <1>3, <1>4 DEF MadeItems, CopiedItems, DoomedItems, MakerStates, RemovalStates
<1>6. ~Used(v)
  BY <1>1, <1>2, <1>3, UsedIsPresent DEF DataInv
<1>7. Making(j)' \subseteq Making(j) \cup {v} /\ Doomed(j)' = {}
  <2>1. Making(j)' = {Destination(p, n) : n \in MadeItems(p, work'[j])}
        /\ Making(j) = {Destination(p, n) : n \in MadeItems(p, work[j])}
        /\ Doomed(j)' = {Source(p, n) : n \in DoomedItems(p, work'[j])}
    BY WorkKeeps DEF Making
  <2>2. \A n \in 1..Count(p) : n <= i => n < i \/ n = i
    BY <1>3
  <2> QED
    BY <1>5, <2>1, <2>2
<1>8. \A m \in Jobs : v \notin Doomed(m)' /\ (m # j => v \notin Making(m))
  BY <1>1, <1>3, <1>7, OwnVolume, WorkKeeps
<1>9. volume[v].bytes \notin Volumes
  BY <1>2, DisksDiffer DEF Present
<1>10. ASSUME NEW n \in MadeItems(Task(j), work'[j])
       PROVE  volume'[Destination(Task(j), n)].bytes \in Expected(Task(j), work'[j], n)
  <2>1. n \in 1..Count(p) /\ n <= i
    BY <1>5
  <2>2. CASE n = i
    <3>1. volume'[v] = Torn
      BY <1>1, <1>2, <1>3 DEF Written, DisksTypes
    <3>2. n \notin CopiedItems(p, work'[j])
      BY <1>3, <1>5, <2>2
    <3> QED
      BY <2>2, <3>1, <3>2 DEF Expected, Torn
  <2>3. CASE n # i
    <3>1. n \in MadeItems(p, work[j]) /\ n \in CopiedItems(p, work[j]) /\ n \in CopiedItems(p, work'[j])
      BY <1>3, <1>5, <2>1, <2>3
    <3>2. volume[Destination(p, n)].bytes \in Expected(p, work[j], n)
      BY <1>1, <3>1 DEF DataInv, MadeAreFree, DisksTypes
    <3>3. Destination(p, n) # v /\ Destination(p, n) \in Volumes
      BY <1>3, <2>1, <2>3, DestinationsDiffer, ItemFacts
    <3>4. volume'[Destination(p, n)] = volume[Destination(p, n)]
      BY <1>1, <1>2, <3>3 DEF Written, DisksTypes
    <3> QED
      BY <3>1, <3>2, <3>4 DEF Expected
  <2> QED
    BY <2>2, <2>3
<1>11. Torn \in Volume /\ Torn.bytes = "torn"
  BY DEF Torn, Volume, Bytes
<1> HIDE DEF v
<1> QED
  BY <1>2, <1>3, <1>6, <1>7, <1>8, <1>9, <1>10, <1>11, WriteKeeps

LEMMA FillKeeps ==
  ASSUME BaseInv, DataInv, NEW j \in Jobs, Work(j), Fill(j)
  PROVE  Sharp' /\ Whole' /\ MadeAreFree' /\ DoomedAreFree' /\ GuardedAreKept' /\ DataIsSafe'
<1> PICK p \in Plans : p = Task(j)
  BY WorkFrame, TaskFacts
<1> DEFINE i == work[j].i
           v == Destination(p, i)
           c == IF Kind[p] = "add" THEN Blank ELSE volume[Source(p, i)]
<1>1. /\ At(j, "execute") /\ PlanOf(j) = p /\ Fits(p, work[j]) /\ Planned(p) /\ i \in Nat /\ DisksTypes
  BY WorkFrame, TaskFacts DEF BaseInv
<1>2. work[j].at = "fill" /\ Written(v, c) /\ UNCHANGED definition /\ Go(j, "filled")
  BY <1>1 DEF Fill, In
<1>3. Kind[p] \in Makers /\ i \in 1..Count(p) /\ v \in Volumes /\ v \in ResourceIDs[p]
  BY <1>1, <1>2, ItemFacts DEF Fits, MakerStates
<1>4. work'[j].i = i /\ work'[j].at = "filled"
  BY <1>1, <1>2, GoIs DEF Stages
<1>5. /\ MadeItems(p, work'[j]) = {n \in 1..Count(p) : n <= i}
      /\ MadeItems(p, work[j]) = {n \in 1..Count(p) : n <= i}
      /\ CopiedItems(p, work'[j]) = {n \in 1..Count(p) : n <= i}
      /\ CopiedItems(p, work[j]) = {n \in 1..Count(p) : n < i}
      /\ DoomedItems(p, work'[j]) = {}
  BY <1>1, <1>2, <1>3, <1>4 DEF MadeItems, CopiedItems, DoomedItems, MakerStates, RemovalStates
<1>6. /\ Making(j)' = {Destination(p, n) : n \in MadeItems(p, work'[j])}
      /\ Making(j) = {Destination(p, n) : n \in MadeItems(p, work[j])}
      /\ Doomed(j)' = {Source(p, n) : n \in DoomedItems(p, work'[j])}
  BY WorkKeeps DEF Making
<1>7. Making(j)' \subseteq Making(j) \cup {v} /\ Doomed(j)' = {} /\ v \in Making(j) /\ i \in MadeItems(p, work[j])
  BY <1>3, <1>5, <1>6
<1>8. ~Used(v)
  BY <1>1, <1>7 DEF DataInv, MadeAreFree, DisksTypes
<1>9. \A m \in Jobs : v \notin Doomed(m)' /\ (m # j => v \notin Making(m))
  BY <1>1, <1>3, <1>7, OwnVolume, WorkKeeps
<1>10. ~Spare(v)
  BY <1>7 DEF Spare
<1>11. c \in Volume /\ c.bytes \in Intended(p, i)
  <2>1. CASE Kind[p] = "add"
    BY <2>1 DEF Intended, Blank, Volume, Bytes
  <2>2. CASE Kind[p] # "add"
    <3>1. Kind[p] \in {"move", "clone"}
      BY <1>3, <2>2 DEF Makers
    <3>2. Source(p, i) \in Volumes /\ Machine[p] \in VMs /\ Target(p, i) \in Slots
      BY <1>1, <1>3, <3>1, SourcesLocked, DiskPlans, ItemFacts
    <3>3. definition[Machine[p]][Target(p, i)] = Source(p, i) /\ Defined(Machine[p])
      BY <1>1, <1>2, <1>3, <1>7, <3>1, MadeIsNotSource DEF MakerStates
    <3>4. volume[Source(p, i)].bytes \in BytesAt(Machine[p], Target(p, i))
      BY <3>2, <3>3, DiskPlans DEF DataInv, Whole
    <3> QED
      BY <1>1, <2>2, <3>2, <3>4 DEF Intended, DisksTypes
  <2> QED
    BY <2>1, <2>2
<1>12. Added(v) => c.bytes \in {"absent", "torn", "blank"}
  <2>1. Kind[p] \notin Disposals
    BY <1>3 DEF Makers, Disposals
  <2>2. Added(v) => Kind[p] = "add"
    BY <1>1, <1>3, <2>1, OwnAddition
  <2> QED
    BY <2>2 DEF Blank
<1>13. ASSUME NEW n \in MadeItems(Task(j), work'[j])
       PROVE  volume'[Destination(Task(j), n)].bytes \in Expected(Task(j), work'[j], n)
  <2>1. n \in 1..Count(p) /\ n <= i /\ n \in CopiedItems(p, work'[j])
    BY <1>5
  <2>2. CASE n = i
    <3>1. volume'[v] = c
      BY <1>1, <1>2, <1>3 DEF Written, DisksTypes
    <3> QED
      BY <1>11, <2>1, <2>2, <3>1 DEF Expected
  <2>3. CASE n # i
    <3>1. n \in MadeItems(p, work[j]) /\ n \in CopiedItems(p, work[j])
      BY <1>3, <1>5, <2>1, <2>3
    <3>2. volume[Destination(p, n)].bytes \in Expected(p, work[j], n)
      BY <1>1, <3>1 DEF DataInv, MadeAreFree, DisksTypes
    <3>3. Destination(p, n) # v /\ Destination(p, n) \in Volumes
      BY <1>3, <2>1, <2>3, DestinationsDiffer, ItemFacts
    <3>4. volume'[Destination(p, n)] = volume[Destination(p, n)]
      BY <1>1, <1>2, <3>3 DEF Written, DisksTypes
    <3> QED
      BY <2>1, <3>1, <3>2, <3>4 DEF Expected
  <2> QED
    BY <2>2, <2>3
<1> HIDE DEF v, c
<1> QED
  BY <1>2, <1>3, <1>7, <1>8, <1>9, <1>10, <1>11, <1>12, <1>13, WriteKeeps

\* A doomed volume is deleted.
LEMMA DeletionKeeps ==
  ASSUME BaseInv, DataInv, NEW j \in Jobs, Work(j), NEW p \in Plans, p = Task(j),
         NEW n \in DoomedItems(p, work[j]), Written(Source(p, n), Absent), UNCHANGED definition,
         MadeItems(p, work'[j]) = {}, DoomedItems(p, work'[j]) \subseteq DoomedItems(p, work[j]) \ {n}
  PROVE  Sharp' /\ Whole' /\ MadeAreFree' /\ DoomedAreFree' /\ GuardedAreKept' /\ DataIsSafe'
<1> DEFINE v == Source(p, n)
<1>1. /\ At(j, "execute") /\ Planned(p)
      /\ Making(j)' = {Destination(p, i) : i \in MadeItems(p, work'[j])}
      /\ Doomed(j)' = {Source(p, i) : i \in DoomedItems(p, work'[j])}
      /\ Doomed(j) = {Source(p, i) : i \in DoomedItems(p, work[j])}
      /\ \A m \in Jobs : m # j => Doomed(m)' = Doomed(m)
  BY WorkFrame, WorkKeeps, TaskFacts DEF Doomed
<1>2. v \in Doomed(j) /\ v \in Volumes
  BY <1>1, DoomedFacts
<1>3. /\ ~Used(v) /\ ~Added(v) /\ ~Spare(v)
      /\ \A m \in Jobs : v \notin Making(m) /\ (m # j => v \notin Doomed(m))
  BY <1>2 DEF DataInv, DoomedAreFree, Spare
<1>4. v \notin Doomed(j)'
  <2>1. ASSUME NEW i \in DoomedItems(p, work'[j]), Source(p, i) = v
        PROVE  FALSE
    <3>1. i # n /\ i \in 1..Count(p) /\ n \in 1..Count(p)
      BY <2>1 DEF DoomedItems
    <3>2. Target(p, i) \in Slots /\ Target(p, n) \in Slots /\ v # NoVolume
      BY <1>2, <3>1, ItemFacts, DiskPlans
    <3>3. Target(p, i) = Target(p, n)
      BY <1>1, <2>1, <3>2 DEF DataInv, ReviewsAreSharp, Source
    <3> QED
      BY <3>1, <3>3, TargetsDiffer
  <2> QED
    BY <1>1, <2>1
<1>5. Making(j)' \subseteq Making(j) \cup {v} /\ Doomed(j)' \subseteq Doomed(j)
  BY <1>1
<1>6. \A m \in Jobs : v \notin Doomed(m)' /\ (m # j => v \notin Making(m))
  BY <1>1, <1>3, <1>4
<1>7. Absent \in Volume
  BY DEF Absent, Volume, Bytes
<1>8. \A i \in MadeItems(Task(j), work'[j]) :
        volume'[Destination(Task(j), i)].bytes \in Expected(Task(j), work'[j], i)
  OBVIOUS
<1> HIDE DEF v
<1>9. Written(v, Absent)
  BY DEF v
<1> QED
  BY <1>2, <1>3, <1>5, <1>6, <1>7, <1>8, <1>9, WriteKeeps

LEMMA DeleteOldKeeps ==
  ASSUME BaseInv, DataInv, NEW j \in Jobs, Work(j), DeleteOldVolume(j)
  PROVE  Sharp' /\ Whole' /\ MadeAreFree' /\ DoomedAreFree' /\ GuardedAreKept' /\ DataIsSafe'
<1> PICK p \in Plans : p = Task(j)
  BY WorkFrame, TaskFacts
<1>1. At(j, "execute") /\ PlanOf(j) = p /\ Fits(p, work[j])
  BY WorkFrame, TaskFacts
<1>2. work[j].at = "delete-old" /\ Written(Source(p, 1), Absent) /\ UNCHANGED definition /\ Go(j, "old-deleted")
  BY <1>1 DEF DeleteOldVolume, In
<1>3. work'[j].at = "old-deleted"
  BY <1>2, GoIs DEF Stages, BaseInv
<1>4. Kind[p] = "move" /\ 1 \in 1..Count(p)
  BY <1>1, <1>2, HasTarget DEF Fits
<1>5. 1 \in DoomedItems(p, work[j]) /\ MadeItems(p, work'[j]) = {} /\ DoomedItems(p, work'[j]) = {}
  BY <1>2, <1>3, <1>4 DEF DoomedItems, MadeItems, MakerStates, RemovalStates
<1> QED
  BY <1>2, <1>5, DeletionKeeps

LEMMA DeleteRemovalKeeps ==
  ASSUME BaseInv, DataInv, NEW j \in Jobs, Work(j), DeleteRemovalDisk(j)
  PROVE  Sharp' /\ Whole' /\ MadeAreFree' /\ DoomedAreFree' /\ GuardedAreKept' /\ DataIsSafe'
<1> PICK p \in Plans : p = Task(j)
  BY WorkFrame, TaskFacts
<1> DEFINE i == work[j].i
<1>1. At(j, "execute") /\ PlanOf(j) = p /\ Fits(p, work[j])
  BY WorkFrame, TaskFacts
<1>2. work[j].at = "remove" /\ Written(Source(p, i), Absent) /\ UNCHANGED definition /\ Go(j, "removed")
  BY <1>1 DEF DeleteRemovalDisk, In
<1>3. work'[j].at = "removed" /\ work'[j].i = i
  BY <1>2, GoIs DEF Stages, BaseInv
<1>4. Kind[p] = "remove" /\ i \in 1..Count(p)
  BY <1>1, <1>2 DEF Fits, RemovalStates
<1>5. /\ i \in DoomedItems(p, work[j]) /\ MadeItems(p, work'[j]) = {}
      /\ DoomedItems(p, work'[j]) \subseteq DoomedItems(p, work[j]) \ {i}
  BY <1>2, <1>3, <1>4 DEF DoomedItems, MadeItems, MakerStates, RemovalStates
<1> QED
  BY <1>2, <1>5, DeletionKeeps

\* The volume of an addition is deleted only after its machine let go of it.
LEMMA DeleteUnreferencedKeeps ==
  ASSUME BaseInv, DataInv, NEW j \in Jobs, Work(j), DeleteUnreferencedDisk(j)
  PROVE  Sharp' /\ Whole' /\ MadeAreFree' /\ DoomedAreFree' /\ GuardedAreKept' /\ DataIsSafe'
<1> PICK p \in Plans : p = Task(j)
  BY WorkFrame, TaskFacts
<1> PICK a : a = review[p].of
  OBVIOUS
<1> DEFINE v == Destination(a, 1)
<1>1. At(j, "execute") /\ PlanOf(j) = p /\ Fits(p, work[j])
  BY WorkFrame, TaskFacts
<1>2. /\ work[j].at = "delete-new" /\ Written(v, Absent) /\ UNCHANGED definition /\ Go(j, "new-deleted")
      /\ ~Referenced(a)
  BY <1>1 DEF DeleteUnreferencedDisk, In
<1>3. work'[j].at = "new-deleted" /\ Kind[p] \in Disposals
  BY <1>1, <1>2, GoIs DEF Stages, BaseInv, Fits, Disposals
<1>4. PICK r \in Jobs :
        /\ Task(r) = a /\ Guarded(r) /\ a \in Plans /\ Kind[a] = "add" /\ Machine[a] = Machine[p]
        /\ v \in Volumes /\ v \in ResourceIDs[p]
  BY <1>1, <1>3, DisposalFacts
<1>5. Added(v)
  BY <1>4 DEF Added, Addition
<1>6. ~Used(v)
  <2>1. ASSUME NEW vm \in VMs, NEW s \in Slots, Defined(vm), definition[vm][s] = v
        PROVE  FALSE
    <3>1. vm = Machine[a] /\ s = Target(a, 1)
      BY <1>4, <2>1, HasTarget DEF DataInv, GuardedAreKept, Receiver
    <3> QED
      BY <1>2, <2>1, <3>1 DEF Referenced
  <2> QED
    BY <2>1 DEF Used, Uses
<1>7. MadeItems(p, work'[j]) = {} /\ DoomedItems(p, work'[j]) = {}
  BY <1>3 DEF MadeItems, DoomedItems, MakerStates, RemovalStates
<1>8. Making(j)' = {} /\ Doomed(j)' = {} /\ \A m \in Jobs : m # j => Doomed(m)' = Doomed(m)
  BY <1>7, WorkKeeps
<1>9. \A m \in Jobs : v \notin Doomed(m)' /\ (m # j => v \notin Making(m))
  BY <1>1, <1>4, <1>8, OwnVolume
<1>10. ~Spare(v)
  BY <1>5 DEF Spare
<1>11. Absent \in Volume /\ Absent.bytes = "absent"
  BY DEF Absent, Volume, Bytes
<1>12. \A i \in MadeItems(Task(j), work'[j]) :
         volume'[Destination(Task(j), i)].bytes \in Expected(Task(j), work'[j], i)
  BY <1>7
<1> HIDE DEF v
<1> QED
  BY <1>2, <1>4, <1>6, <1>8, <1>9, <1>10, <1>11, <1>12, WriteKeeps

-----------------------------------------------------------------------------
(* Steps that write a definition.                                            *)

\* A clone holds what its original holds, an added disk is blank.
LEMMA IntendedBelongs ==
  ASSUME NEW p \in Plans, Kind[p] \in Makers, NEW i \in 1..Count(p)
  PROVE  Intended(p, i) \subseteq BytesAt(Receiver(p), Target(p, i))
<1>1. Machine[p] \in VMs /\ NewMachine[p] \in VMs /\ Target(p, i) \in Chosen[p]
  BY DiskPlans, ItemFacts
<1>2. CASE Kind[p] = "clone"
  <2>1. Ancestors(Machine[p]) \subseteq Ancestors(NewMachine[p])
    BY <1>1, <1>2 DEF Ancestors, Clones
  <2>2. BytesAt(Machine[p], Target(p, i)) \subseteq BytesAt(NewMachine[p], Target(p, i))
    BY <2>1 DEF BytesAt
  <2> QED
    BY <1>2, <2>2 DEF Intended, Receiver
<1>3. CASE Kind[p] = "add"
  <2>1. Machine[p] \in Ancestors(Machine[p])
    BY <1>1 DEF Ancestors
  <2>2. "blank" \in BytesAt(Machine[p], Target(p, i))
    BY <1>1, <1>3, <2>1 DEF BytesAt
  <2> QED
    BY <1>3, <2>2 DEF Intended, Receiver
<1>4. CASE Kind[p] = "move"
  BY <1>4 DEF Intended, Receiver
<1> QED
  BY <1>2, <1>3, <1>4 DEF Makers

\* The definition d of machine vm, which was old, gets the volumes that p made.
Redefined(p, vm, d, old) ==
  /\ d = [s \in Slots |-> IF s \in Chosen[p] THEN NewVolume[p][s] ELSE old[s]]
  /\ Defined(vm) => old = definition[vm]
  /\ ~Defined(vm) => \A s \in Slots : old[s] = NoVolume

\* What job j made for target s of its plan p.
Complete(j, p) ==
  \A s \in Chosen[p] :
    LET new == NewVolume[p][s] IN
    /\ new \in Making(j) /\ new \in Volumes /\ new \in ResourceIDs[p] /\ ~Used(new) /\ new # NoVolume
    /\ volume[new].bytes \in BytesAt(Receiver(p), s)
    /\ \E i \in 1..Count(p) : Target(p, i) = s /\ new = Destination(p, i)

LEMMA CopiesAreComplete ==
  ASSUME BaseInv, DataInv, NEW j \in Jobs, NEW p \in Plans, p = Task(j), work[j].at = "define",
         \A i \in 1..Count(p) : Present(Destination(p, i))
  PROVE  Complete(j, p)
<1>1. Fits(p, work[j]) /\ work[j] \in [at : Stages, i : Nat] /\ Count(p) \in Nat
  BY ChosenAre DEF BaseInv, WorkFits, DisksTypes
<1>2. Kind[p] \in Makers /\ work[j].i = Count(p)
  BY <1>1 DEF Fits, MakerStates
<1>3. ASSUME NEW s \in Chosen[p], NEW new, new = NewVolume[p][s]
      PROVE  /\ new \in Making(j) /\ new \in Volumes /\ new \in ResourceIDs[p] /\ ~Used(new) /\ new # NoVolume
             /\ volume[new].bytes \in BytesAt(Receiver(p), s)
             /\ \E i \in 1..Count(p) : Target(p, i) = s /\ new = Destination(p, i)
  <2>1. PICK i \in 1..Count(p) : Target(p, i) = s
    BY EveryTarget
  <2>2. new = Destination(p, i) /\ new \in Volumes /\ new \in ResourceIDs[p]
    BY <1>2, <1>3, <2>1, ItemFacts DEF Destination
  <2>3. i \in MadeItems(p, work[j]) /\ i \in CopiedItems(p, work[j])
    BY <1>1, <1>2 DEF MadeItems, CopiedItems, MakerStates
  <2>4. ~Used(new) /\ volume[new].bytes \in Expected(p, work[j], i)
    BY <1>1, <2>2, <2>3 DEF DataInv, MadeAreFree
  <2>5. volume[new].bytes \in Intended(p, i)
    BY <2>2, <2>3, <2>4 DEF Expected, Present
  <2>6. volume[new].bytes \in BytesAt(Receiver(p), s)
    BY <1>2, <2>1, <2>5, IntendedBelongs
  <2>7. new \in Making(j)
    BY <2>2, <2>3 DEF Making
  <2> QED
    BY <2>1, <2>2, <2>4, <2>6, <2>7, DiskPlans
<1> QED
  BY <1>3 DEF Complete

\* What the new definition is made of.
LEMMA RedefinedIs ==
  ASSUME DisksTypes, NEW p \in Plans, NEW vm \in VMs, NEW d, NEW old, Redefined(p, vm, d, old), Defines(vm, d),
         NEW j, Complete(j, p), d \in Definition
  PROVE  /\ Defined(vm)' /\ definition'[vm] = d
         /\ \A w \in VMs : w # vm => definition'[w] = definition[w]
         /\ \A s \in Chosen[p] : d[s] = NewVolume[p][s]
         /\ \A s \in Slots : s \notin Chosen[p] /\ d[s] # NoVolume => Defined(vm) /\ d[s] = definition[vm][s]
         /\ \A s \in Slots : s \notin Chosen[p] /\ Defined(vm) => d[s] = definition[vm][s]
         /\ \A v \in Volumes : Used(v)' => Used(v) \/ \E s \in Chosen[p] : v = NewVolume[p][s]
<1>1. definition'[vm] = d /\ \A w \in VMs : w # vm => definition'[w] = definition[w]
  BY DEF Defines, DisksTypes
<1>2. Defined(vm)'
  BY <1>1, DiskPlans DEF Defined
<1>3. \A s \in Chosen[p] : d[s] = NewVolume[p][s]
  BY ChosenAre DEF Redefined
<1>4. \A s \in Slots : s \notin Chosen[p] /\ d[s] # NoVolume => Defined(vm) /\ d[s] = definition[vm][s]
  BY DEF Redefined
<1>5. \A s \in Slots : s \notin Chosen[p] /\ Defined(vm) => d[s] = definition[vm][s]
  BY DEF Redefined
<1>6. ASSUME NEW v \in Volumes, Used(v)'
      PROVE  Used(v) \/ \E s \in Chosen[p] : v = NewVolume[p][s]
  <2>1. PICK w \in VMs, s \in Slots : definition'[w] # Undefined /\ definition'[w][s] = v
    BY <1>6 DEF Used, Uses, Defined
  <2>2. CASE w # vm
    BY <1>1, <2>1, <2>2 DEF Used, Uses, Defined
  <2>3. CASE w = vm /\ s \notin Chosen[p]
    <3>1. d[s] = v /\ (Defined(vm) => definition[vm][s] = v)
      BY <1>1, <1>5, <2>1, <2>3
    <3>2. CASE Defined(vm)
      BY <3>1, <3>2 DEF Used, Uses
    <3>3. CASE ~Defined(vm)
      BY <1>4, <2>3, <3>1, <3>3, DiskPlans
    <3> QED
      BY <3>2, <3>3
  <2>4. CASE w = vm /\ s \in Chosen[p]
    BY <1>1, <1>3, <2>1, <2>4
  <2> QED
    BY <2>2, <2>3, <2>4
<1> QED
  BY <1>1, <1>2, <1>3, <1>4, <1>5, <1>6

LEMMA RedefinitionKeeps ==
  ASSUME BaseInv, DataInv, NEW j \in Jobs, Work(j), NEW p \in Plans, p = Task(j), Kind[p] \in Makers,
         NEW d \in Definition, NEW old, NEW vm \in VMs, vm = Receiver(p), Redefined(p, vm, d, old), Defines(vm, d),
         UNCHANGED volume, Complete(j, p),
         Making(j)' = {},
         \A u \in Doomed(j)' :
           Kind[p] = "move" /\ Defined(vm) /\ \E s \in Chosen[p] : u = definition[vm][s] /\ u \in Volumes /\ u \in ResourceIDs[p],
         \A s \in Chosen[p] : Defined(vm) /\ definition[vm][s] # NoVolume =>
           volume[NewVolume[p][s]].bytes = volume[definition[vm][s]].bytes
  PROVE  Sharp' /\ Whole' /\ MadeAreFree' /\ DoomedAreFree' /\ GuardedAreKept' /\ DataIsSafe'
<1> USE DEF DataInv
<1>1. /\ UNCHANGED <<jobs, review, volume>> /\ DisksTypes /\ At(j, "execute")
  BY WorkKeeps, WorkFrame DEF BaseInv
<1>2. /\ \A m \in Jobs : m # j => Making(m)' = Making(m) /\ Doomed(m)' = Doomed(m) /\ work'[m] = work[m]
      /\ \A m : Guarded(m)' <=> Guarded(m)
      /\ \A u : Added(u)' <=> Added(u)
      /\ \A w, s : Excused(w, s)' <=> Excused(w, s)
  BY WorkKeeps
<1>3. /\ Defined(vm)' /\ definition'[vm] = d
      /\ \A w \in VMs : w # vm => definition'[w] = definition[w]
      /\ \A s \in Chosen[p] : d[s] = NewVolume[p][s]
      /\ \A s \in Slots : s \notin Chosen[p] /\ d[s] # NoVolume => Defined(vm) /\ d[s] = definition[vm][s]
      /\ \A s \in Slots : s \notin Chosen[p] /\ Defined(vm) => d[s] = definition[vm][s]
      /\ \A v \in Volumes : Used(v)' => Used(v) \/ \E s \in Chosen[p] : v = NewVolume[p][s]
  BY <1>1, RedefinedIs
<1>4. ASSUME NEW s \in Chosen[p]
      PROVE  /\ s \in Slots /\ NewVolume[p][s] \in Making(j) /\ NewVolume[p][s] \in Volumes
             /\ NewVolume[p][s] \in ResourceIDs[p] /\ ~Used(NewVolume[p][s]) /\ NewVolume[p][s] # NoVolume
             /\ volume[NewVolume[p][s]].bytes \in BytesAt(vm, s)
             /\ \E i \in 1..Count(p) : Target(p, i) = s /\ NewVolume[p][s] = Destination(p, i)
  BY ChosenAre DEF Complete
\* Where a disk of the new definitions comes from.
<1>5. ASSUME NEW w \in VMs, NEW s \in Slots, definition'[w] # Undefined, definition'[w][s] # NoVolume
      PROVE  \/ w = vm /\ s \in Chosen[p] /\ definition'[w][s] = NewVolume[p][s]
             \/ ~(w = vm /\ s \in Chosen[p]) /\ Defined(w) /\ definition'[w][s] = definition[w][s]
  BY <1>3, <1>5 DEF Defined
<1>6. ASSUME NEW s \in Chosen[p], NEW t \in Chosen[p], NewVolume[p][s] = NewVolume[p][t]
      PROVE  s = t
  <2>1. PICK i \in 1..Count(p), n \in 1..Count(p) :
          Target(p, i) = s /\ NewVolume[p][s] = Destination(p, i) /\ Target(p, n) = t /\ NewVolume[p][t] = Destination(p, n)
    BY <1>4
  <2>2. Destination(p, i) = Destination(p, n)
    BY <1>6, <2>1
  <2>3. i = n
    BY <2>2, DestinationsDiffer
  <2> QED
    BY <2>1, <2>3
<1>7. \A w \in VMs, s \in Slots : Defined(w) => Used(definition[w][s])
  BY DEF Used, Uses
<1>8. Sharp'
  <2> SUFFICES ASSUME NEW w \in VMs, NEW x \in VMs, NEW s \in Slots, NEW t \in Slots,
                      definition'[w] # Undefined, definition'[x] # Undefined,
                      definition'[w][s] = definition'[x][t], definition'[w][s] # NoVolume
               PROVE  w = x /\ s = t
    BY DEF Sharp, Defined
  <2>1. \/ w = vm /\ s \in Chosen[p] /\ definition'[w][s] = NewVolume[p][s]
        \/ ~(w = vm /\ s \in Chosen[p]) /\ Defined(w) /\ definition'[w][s] = definition[w][s]
    BY <1>5
  <2>2. \/ x = vm /\ t \in Chosen[p] /\ definition'[x][t] = NewVolume[p][t]
        \/ ~(x = vm /\ t \in Chosen[p]) /\ Defined(x) /\ definition'[x][t] = definition[x][t]
    BY <1>5
  <2>3. CASE Defined(w) /\ definition'[w][s] = definition[w][s] /\ Defined(x) /\ definition'[x][t] = definition[x][t]
    <3>1. definition[w][s] = definition[x][t] /\ definition[w][s] # NoVolume
      BY <2>3
    <3>2. Sharp
      OBVIOUS
    <3> QED
      BY <2>3, <3>1, <3>2 DEF Sharp
  <2>4. CASE w = vm /\ s \in Chosen[p] /\ definition'[w][s] = NewVolume[p][s]
    BY <1>4, <1>6, <1>7, <2>2, <2>4
  <2>5. CASE x = vm /\ t \in Chosen[p] /\ definition'[x][t] = NewVolume[p][t]
    BY <1>4, <1>6, <1>7, <2>1, <2>5
  <2> QED
    BY <2>1, <2>2, <2>3, <2>4, <2>5
<1>9. Whole'
  <2> SUFFICES ASSUME NEW w \in VMs, NEW s \in Slots, definition'[w] # Undefined, definition'[w][s] # NoVolume
               PROVE  volume[definition'[w][s]].bytes \in BytesAt(w, s)
    BY <1>1 DEF Whole, Defined
  <2> QED
    BY <1>4, <1>5 DEF Whole
<1>10. MadeAreFree'
  <2> SUFFICES ASSUME NEW k \in Jobs, NEW q \in Plans, NEW w \in [at : Stages, i : Nat],
                      jobs'[k].planID = q, work'[k] = w, NEW i \in MadeItems(q, w),
                      NEW new, new = Destination(q, i)
               PROVE  ~Used(new)' /\ volume'[new].bytes \in Expected(q, w, i)
    BY DEF MadeAreFree, Task
  <2>1. Task(k) = q
    BY <1>1 DEF Task
  <2>2. k # j
    <3>1. Making(j)' = {Destination(Task(j), n) : n \in MadeItems(Task(j), work'[j])}
      BY WorkKeeps
    <3> QED
      BY <2>1, <3>1
  <2>3. work[k] = w /\ new \in Making(k)
    BY <1>2, <2>1, <2>2 DEF Making
  <2>4. new \in Volumes /\ ~Used(new) /\ volume[new].bytes \in Expected(q, w, i)
    BY <2>1, <2>3, MakingFacts DEF MadeAreFree
  <2>5. \A s \in Chosen[p] : new # NewVolume[p][s]
    BY <1>1, <1>4, <2>2, <2>3, OwnVolume
  <2> QED
    BY <1>1, <1>3, <2>4, <2>5
<1>11. DoomedAreFree'
  <2>1. ASSUME NEW m \in Jobs, NEW u \in Doomed(m)'
        PROVE  /\ ~Used(u)' /\ Present(u)' /\ ~Added(u)'
               /\ \A k \in Jobs : u \notin Making(k)' /\ (k # m => u \notin Doomed(k)')
    <3>1. CASE m # j
      <4>1. /\ u \in Doomed(m) /\ u \in Volumes /\ ~Used(u) /\ Present(u) /\ ~Added(u)
            /\ \A k \in Jobs : u \notin Making(k) /\ (k # m => u \notin Doomed(k))
        BY <1>2, <2>1, <3>1, DoomedFacts DEF DoomedAreFree
      <4>2. ~Used(u)' /\ Present(u)' /\ ~Added(u)'
        BY <1>1, <1>2, <1>3, <1>4, <4>1 DEF Present
      <4>3. u \notin Doomed(j)'
        BY <1>7, <4>1, ChosenAre
      <4>4. ASSUME NEW k \in Jobs
            PROVE  u \notin Making(k)' /\ (k # m => u \notin Doomed(k)')
        BY <1>2, <4>1, <4>3, <4>4
      <4> QED
        BY <4>2, <4>4
    <3>2. CASE m = j
      <4>1. PICK s \in Chosen[p] : Kind[p] = "move" /\ Defined(vm) /\ u = definition[vm][s] /\ u \in Volumes /\ u \in ResourceIDs[p]
        BY <2>1, <3>2
      <4>2. s \in Slots /\ Used(u) /\ u # NoVolume
        BY <1>4, <1>7, <4>1, DiskPlans
      <4>3. ~Used(u)'
        <5>1. ASSUME NEW w \in VMs, NEW t \in Slots, definition'[w] # Undefined, definition'[w][t] = u
              PROVE  FALSE
          <6>1. \/ t \in Chosen[p] /\ u = NewVolume[p][t]
                \/ ~(w = vm /\ t \in Chosen[p]) /\ Defined(w) /\ u = definition[w][t]
            BY <1>5, <4>2, <5>1
          <6>2. CASE t \in Chosen[p] /\ u = NewVolume[p][t]
            BY <1>4, <4>2, <6>2
          <6>3. CASE ~(w = vm /\ t \in Chosen[p]) /\ Defined(w) /\ u = definition[w][t]
            <7>1. definition[vm][s] = definition[w][t] /\ definition[vm][s] # NoVolume
              BY <4>1, <4>2, <6>3
            <7>2. Sharp
              OBVIOUS
            <7>3. vm = w /\ s = t
              BY <4>1, <4>2, <6>3, <7>1, <7>2 DEF Sharp
            <7> QED
              BY <6>3, <7>3
          <6> QED
            BY <6>1, <6>2, <6>3
        <5> QED
          BY <5>1 DEF Used, Uses, Defined
      <4>4. Present(u) /\ ~Added(u)
        BY <1>1, <4>1, <4>2, UsedIsPresent, OwnAddition DEF Disposals
      <4>5. ASSUME NEW k \in Jobs
            PROVE  u \notin Making(k)' /\ (k # m => u \notin Doomed(k)')
        BY <1>1, <1>2, <3>2, <4>1, <4>5, OwnVolume
      <4> QED
        BY <1>1, <1>2, <4>3, <4>4, <4>5 DEF Present
    <3> QED
      BY <3>1, <3>2
  <2> QED
    BY <2>1 DEF DoomedAreFree
<1>12. GuardedAreKept'
  <2> SUFFICES ASSUME NEW k \in Jobs, Guarded(k), NEW q \in Plans, q = Task(k)
               PROVE  /\ \A i \in 1..Count(q) : \A w \in VMs, s \in Slots :
                           definition'[w] # Undefined /\ definition'[w][s] = Destination(q, i) => w = Receiver(q) /\ s = Target(q, i)
                      /\ Kind[q] = "add" => volume[Destination(q, 1)].bytes \in {"absent", "torn", "blank"}
    BY <1>1, <1>2 DEF GuardedAreKept, Task, Defined
  <2>1. ASSUME NEW i \in 1..Count(q), NEW w \in VMs, NEW s \in Slots,
               definition'[w] # Undefined, definition'[w][s] = Destination(q, i)
        PROVE  w = Receiver(q) /\ s = Target(q, i)
    <3>1. Kind[q] \in Makers /\ Destination(q, i) \in ResourceIDs[q] /\ Destination(q, i) # NoVolume
      BY ItemFacts, DiskPlans DEF Guarded
    <3>2. CASE w = vm /\ s \in Chosen[p] /\ definition'[w][s] = NewVolume[p][s]
      <4>1. k = j
        <5>1. jobs[j].recoveryOf # k
          BY <1>1, TaskFacts, DiskPlans, NullsAreNotValues DEF BaseInv, RecoveriesFit, Makers, Disposals
        <5>2. NewVolume[p][s] \in ResourceIDs[p] \cap ResourceIDs[q]
          BY <1>4, <2>1, <3>1, <3>2
        <5> QED
          BY <1>1, <5>1, <5>2, GuardedApart DEF BaseInv
      <4>2. PICK n \in 1..Count(p) : Target(p, n) = s /\ NewVolume[p][s] = Destination(p, n)
        BY <1>4, <3>2
      <4>3. n = i
        BY <2>1, <3>2, <4>1, <4>2, DestinationsDiffer
      <4> QED
        BY <3>2, <4>1, <4>2, <4>3
    <3>3. CASE Defined(w) /\ definition'[w][s] = definition[w][s]
      <4>1. definition[w][s] = Destination(q, i)
        BY <2>1, <3>3
      <4>2. GuardedAreKept
        OBVIOUS
      <4> QED
        BY <3>3, <4>1, <4>2 DEF GuardedAreKept
    <3> QED
      BY <1>5, <2>1, <3>1, <3>2, <3>3
  <2> QED
    BY <2>1 DEF GuardedAreKept
<1>13. DataIsSafe'
  <2> SUFFICES ASSUME NEW w \in VMs, NEW s \in Slots, Original[w] # Undefined, Original[w][s] # NoVolume
               PROVE  \/ Excused(w, s)'
                      \/ InPlace(w, s)'
                      \/ \E u \in Volumes : volume'[u].bytes = Original[w][s] /\ Spare(u)'
    BY DEF DataIsSafe
  <2>1. CASE Excused(w, s)
    BY <1>2, <2>1
  <2>2. CASE InPlace(w, s)
    <3>1. CASE w = vm /\ s \in Chosen[p]
      <4>1. volume[NewVolume[p][s]].bytes = Original[w][s]
        BY <2>2, <3>1 DEF InPlace
      <4> QED
        BY <1>1, <1>3, <1>4, <3>1, <4>1 DEF InPlace
    <3>2. CASE ~(w = vm /\ s \in Chosen[p])
      <4>1. definition'[w] # Undefined /\ definition'[w][s] = definition[w][s]
        BY <1>3, <2>2, <3>2 DEF InPlace, Defined
      <4> QED
        BY <1>1, <2>2, <4>1 DEF InPlace, Defined
    <3> QED
      BY <3>1, <3>2
  <2>3. ASSUME NEW u \in Volumes, volume[u].bytes = Original[w][s], Spare(u)
        PROVE  volume'[u].bytes = Original[w][s] /\ Spare(u)'
    <3>1. ~Used(u)'
      BY <1>3, <1>4, <2>3 DEF Spare
    <3>2. u \notin Doomed(j)'
      BY <1>4, <1>7, <2>3 DEF Spare
    <3>3. ASSUME NEW k \in Jobs
          PROVE  u \notin Making(k)' /\ u \notin Doomed(k)'
      BY <1>2, <2>3, <3>2, <3>3 DEF Spare
    <3> QED
      BY <1>1, <1>2, <2>3, <3>1, <3>3 DEF Spare
  <2> QED
    BY <2>1, <2>2, <2>3 DEF DataIsSafe
<1> QED
  BY <1>8, <1>9, <1>10, <1>11, <1>12, <1>13

LEMMA DefinitionKeeps ==
  ASSUME BaseInv, DataInv, NEW j \in Jobs, Work(j), DefineMovedDisk(j) \/ DefineClone(j) \/ DefineAddedDisk(j)
  PROVE  Sharp' /\ Whole' /\ MadeAreFree' /\ DoomedAreFree' /\ GuardedAreKept' /\ DataIsSafe'
<1> PICK p \in Plans : p = Task(j)
  BY WorkFrame, TaskFacts
<1> DEFINE New(old) == [s \in Slots |-> IF s \in Chosen[p] THEN NewVolume[p][s] ELSE old[s]]
           None == [s \in Slots |-> NoVolume]
<1>1. /\ At(j, "execute") /\ PlanOf(j) = p /\ Fits(p, work[j]) /\ Planned(p) /\ review[p] \in Input /\ DisksTypes
      /\ Machine[p] \in VMs /\ NewMachine[p] \in VMs
  BY WorkFrame, TaskFacts, DiskPlans DEF BaseInv
<1>2. work[j].at = "define" /\ UNCHANGED volume /\ Go(j, "defined")
  BY <1>1 DEF DefineMovedDisk, DefineClone, DefineAddedDisk, Redefines, In
<1>3. work'[j].at = "defined" /\ Kind[p] \in Makers
  BY <1>1, <1>2, GoIs DEF Stages, Fits, MakerStates
<1>4. /\ MadeItems(p, work'[j]) = {}
      /\ DoomedItems(p, work'[j]) \subseteq {i \in 1..Count(p) : Kind[p] = "move"}
  BY <1>3 DEF MadeItems, DoomedItems, MakerStates, RemovalStates
<1>5. Making(j)' = {} /\ Doomed(j)' = {Source(p, i) : i \in DoomedItems(p, work'[j])}
  BY <1>4, WorkKeeps
<1>6. \A old \in Definition : New(old) \in Definition
  BY DiskPlans DEF Definition
<1>7. AsReviewed(p) => Defined(Machine[p]) /\ definition[Machine[p]] \in Definition
  BY <1>1, DiskPlans DEF AsReviewed, Input, Defined
<1>8. \A old, vm : Defines(vm, New(old)) /\ Defined(vm) /\ old = definition[vm] => Redefined(p, vm, New(old), old)
  BY DEF Redefined
<1>9. \A vm : Defines(vm, New(None)) /\ ~Defined(vm) => Redefined(p, vm, New(None), None)
  BY DEF Redefined
<1> HIDE DEF New
<1>10. CASE DefineMovedDisk(j)
  <2> DEFINE vm == Machine[p]
  <2>1. /\ Kind[p] = "move" /\ Defines(vm, New(definition[vm]))
        /\ AsReviewed(p) /\ Present(Source(p, 1)) /\ Present(Destination(p, 1))
    BY <1>1, <1>10, MoveCopied DEF DefineMovedDisk, Redefines, Does, New
  <2>2. Count(p) = 1 /\ Chosen[p] = {Target(p, 1)} /\ 1 \in 1..Count(p)
    BY <2>1, OneTarget
  <2>3. Complete(j, p)
    BY <1>2, <2>1, <2>2, CopiesAreComplete
  <2>4. definition[vm][Target(p, 1)] = Source(p, 1) /\ Source(p, 1) \in Volumes /\ Source(p, 1) \in ResourceIDs[p]
    BY <1>1, <2>1, <2>2, SourcesLocked DEF AsReviewed, Source
  <2>5. \A u \in Doomed(j)' :
          Kind[p] = "move" /\ Defined(vm) /\ \E s \in Chosen[p] : u = definition[vm][s] /\ u \in Volumes /\ u \in ResourceIDs[p]
    <3>1. \A i \in DoomedItems(p, work'[j]) : i = 1
      BY <1>4, <2>2
    <3> QED
      BY <1>5, <1>7, <2>1, <2>2, <2>4, <3>1
  <2>6. volume[Destination(p, 1)].bytes = volume[Source(p, 1)].bytes
    BY <1>2, <2>1 DEF DataInv, MakersSeeTheReview, Present
  <2>7. \A s \in Chosen[p] : Defined(vm) /\ definition[vm][s] # NoVolume =>
          volume[NewVolume[p][s]].bytes = volume[definition[vm][s]].bytes
    BY <2>2, <2>4, <2>6 DEF Destination
  <2>8. vm = Receiver(p)
    BY <2>1 DEF Receiver
  <2>9. New(definition[vm]) \in Definition /\ Redefined(p, vm, New(definition[vm]), definition[vm])
    BY <1>6, <1>7, <1>8, <2>1
  <2> HIDE DEF vm
  <2> QED
    BY <1>1, <1>2, <1>3, <1>5, <2>1, <2>3, <2>5, <2>7, <2>8, <2>9, RedefinitionKeeps DEF vm
<1>11. CASE DefineClone(j)
  <2> DEFINE vm == NewMachine[p]
  <2>1. Kind[p] = "clone" /\ Defines(vm, New(None)) /\ CloneState(p) = "copied"
    BY <1>1, <1>11 DEF DefineClone, Redefines, Does, New
  <2>2. ~Defined(vm)
    BY <2>1, CloneUnfinished
  <2>3. Complete(j, p)
    BY <1>2, <2>1, CloneCopied, CopiesAreComplete
  <2>4. \A u \in Doomed(j)' : FALSE
    BY <1>4, <1>5, <2>1
  <2>5. vm = Receiver(p)
    BY <2>1 DEF Receiver
  <2>6. New(None) \in Definition /\ Redefined(p, vm, New(None), None)
    <3>1. None \in Definition
      BY DEF Definition
    <3> QED
      BY <1>6, <1>9, <2>1, <2>2, <3>1
  <2> HIDE DEF vm, None
  <2> QED
    BY <1>1, <1>2, <1>3, <1>5, <2>1, <2>2, <2>3, <2>4, <2>5, <2>6, RedefinitionKeeps DEF vm
<1>12. CASE DefineAddedDisk(j)
  <2> DEFINE vm == Machine[p]
  <2>1. /\ Kind[p] = "add" /\ Defines(vm, New(definition[vm])) /\ AsReviewed(p) /\ Present(Destination(p, 1))
    BY <1>1, <1>12, AddIs DEF DefineAddedDisk, Redefines, Does, New
  <2>2. Count(p) = 1 /\ Chosen[p] = {Target(p, 1)}
    BY <2>1, OneTarget
  <2>3. Complete(j, p)
    BY <1>2, <2>1, <2>2, CopiesAreComplete
  <2>4. \A u \in Doomed(j)' : FALSE
    BY <1>4, <1>5, <2>1
  <2>5. \A s \in Chosen[p] : definition[vm][s] = NoVolume
    BY <1>1, <2>1 DEF AsReviewed, BaseInv, ReviewsFit, ReviewFits
  <2>6. vm = Receiver(p)
    BY <2>1 DEF Receiver
  <2>7. New(definition[vm]) \in Definition /\ Redefined(p, vm, New(definition[vm]), definition[vm])
    BY <1>6, <1>7, <1>8, <2>1
  <2> HIDE DEF vm
  <2> QED
    BY <1>1, <1>2, <1>3, <1>5, <2>1, <2>3, <2>4, <2>5, <2>6, <2>7, RedefinitionKeeps DEF vm
<1> QED
  BY <1>10, <1>11, <1>12

\* With the definition of a machine go all its disks: those chosen are doomed, the
\* others are nobody's.
LEMMA UndefinitionKeeps ==
  ASSUME BaseInv, DataInv, NEW j \in Jobs, Work(j), RemoveDefinition(j)
  PROVE  Sharp' /\ Whole' /\ MadeAreFree' /\ DoomedAreFree' /\ GuardedAreKept' /\ DataIsSafe'
<1> USE DEF DataInv
<1> PICK p \in Plans : p = Task(j)
  BY WorkFrame, TaskFacts
<1> DEFINE vm == Machine[p]
<1>1. /\ At(j, "execute") /\ PlanOf(j) = p /\ Fits(p, work[j]) /\ Planned(p) /\ review[p] \in Input /\ DisksTypes
      /\ vm \in VMs /\ Stored(j)
  BY WorkFrame, TaskFacts, DiskPlans DEF BaseInv
<1>2. /\ work[j].at = "undefine" /\ UNCHANGED volume /\ Go(j, "undefined") /\ AsReviewed(p)
      /\ definition' = [definition EXCEPT ![vm] = Undefined]
  BY <1>1 DEF RemoveDefinition, In, Defines
<1>3. work'[j].at = "undefined" /\ Kind[p] = "remove" /\ definition[vm] = review[p].definition /\ Defined(vm)
  BY <1>1, <1>2, GoIs, DiskPlans DEF Stages, Fits, AsReviewed, Input, Defined
<1>4. /\ MadeItems(p, work'[j]) = {} /\ DoomedItems(p, work'[j]) \subseteq 1..Count(p)
  BY <1>3 DEF MadeItems, DoomedItems, MakerStates
<1>5. /\ Making(j)' = {} /\ Doomed(j)' = {Source(p, i) : i \in DoomedItems(p, work'[j])}
      /\ \A m \in Jobs : m # j => Making(m)' = Making(m) /\ Doomed(m)' = Doomed(m) /\ work'[m] = work[m]
      /\ \A m : Guarded(m)' <=> Guarded(m)
      /\ \A u : Added(u)' <=> Added(u)
      /\ \A w, s : Excused(w, s)' <=> Excused(w, s)
      /\ UNCHANGED <<jobs, review>>
  BY <1>4, WorkKeeps
<1>6. definition'[vm] = Undefined /\ \A w \in VMs : w # vm => definition'[w] = definition[w]
  BY <1>1, <1>2 DEF DisksTypes
\* Whatever was a disk of this machine is a disk of none.
<1>7. ASSUME NEW u, NEW s \in Slots, u = definition[vm][s], u # NoVolume
      PROVE  Used(u) /\ ~Used(u)'
  <2>1. Used(u)
    BY <1>1, <1>3, <1>7 DEF Used, Uses
  <2>2. ASSUME NEW w \in VMs, NEW t \in Slots, definition'[w] # Undefined, definition'[w][t] = u
        PROVE  FALSE
    <3>1. w # vm /\ Defined(w) /\ definition[w][t] = definition[vm][s]
      BY <1>6, <1>7, <2>2 DEF Defined
    <3>2. Sharp
      OBVIOUS
    <3>3. w = vm
      BY <1>1, <1>3, <1>7, <3>1, <3>2 DEF Sharp
    <3> QED
      BY <3>1, <3>3
  <2> QED
    BY <2>1, <2>2 DEF Used, Uses, Defined
<1>8. ASSUME NEW u, Used(u)'
      PROVE  Used(u)
  BY <1>6, <1>8 DEF Used, Uses, Defined
<1>9. ASSUME NEW i \in 1..Count(p), NEW u, u = Source(p, i)
      PROVE  /\ u \in Volumes /\ u \in ResourceIDs[p] /\ Target(p, i) \in Chosen[p] /\ Target(p, i) \in Slots
             /\ u = definition[vm][Target(p, i)] /\ Used(u) /\ ~Used(u)'
  <2>1. u \in Volumes /\ u \in ResourceIDs[p] /\ Target(p, i) \in Chosen[p] /\ Target(p, i) \in Slots
    BY <1>1, <1>3, <1>9, SourcesLocked, ItemFacts
  <2>2. u = definition[vm][Target(p, i)] /\ u # NoVolume
    BY <1>3, <1>9, <2>1, DiskPlans DEF Source
  <2> QED
    BY <1>7, <2>1, <2>2
<1>10. Sharp'
  <2> SUFFICES ASSUME NEW w \in VMs, NEW x \in VMs, NEW s \in Slots, NEW t \in Slots,
                      definition'[w] # Undefined, definition'[x] # Undefined,
                      definition'[w][s] = definition'[x][t], definition'[w][s] # NoVolume
               PROVE  w = x /\ s = t
    BY DEF Sharp, Defined
  <2>1. Defined(w) /\ Defined(x) /\ definition[w][s] = definition[x][t] /\ definition[w][s] # NoVolume
    BY <1>6 DEF Defined
  <2>2. Sharp
    OBVIOUS
  <2> QED
    BY <2>1, <2>2 DEF Sharp
<1>11. Whole'
  <2> SUFFICES ASSUME NEW w \in VMs, NEW s \in Slots, definition'[w] # Undefined, definition'[w][s] # NoVolume
               PROVE  volume'[definition'[w][s]].bytes \in BytesAt(w, s)
    BY DEF Whole, Defined
  <2>1. Defined(w) /\ definition'[w] = definition[w]
    BY <1>6 DEF Defined
  <2> QED
    BY <1>2, <2>1 DEF Whole
<1>12. MadeAreFree'
  <2> SUFFICES ASSUME NEW k \in Jobs, NEW q \in Plans, NEW w \in [at : Stages, i : Nat],
                      jobs'[k].planID = q, work'[k] = w, NEW i \in MadeItems(q, w),
                      NEW new, new = Destination(q, i)
               PROVE  ~Used(new)' /\ volume'[new].bytes \in Expected(q, w, i)
    BY DEF MadeAreFree, Task
  <2>1. Task(k) = q
    BY <1>5 DEF Task
  <2>2. k # j
    BY <1>4, <2>1
  <2>3. ~Used(new) /\ volume[new].bytes \in Expected(q, w, i)
    BY <1>5, <2>1, <2>2 DEF MadeAreFree
  <2> QED
    BY <1>2, <1>8, <2>3
<1>13. DoomedAreFree'
  <2>1. ASSUME NEW m \in Jobs, NEW u \in Doomed(m)'
        PROVE  /\ ~Used(u)' /\ Present(u)' /\ ~Added(u)'
               /\ \A k \in Jobs : u \notin Making(k)' /\ (k # m => u \notin Doomed(k)')
    <3>1. CASE m # j
      <4>1. /\ ~Used(u) /\ Present(u) /\ ~Added(u)
            /\ \A k \in Jobs : u \notin Making(k) /\ (k # m => u \notin Doomed(k))
        BY <1>5, <2>1, <3>1 DEF DoomedAreFree
      <4>2. u \notin Doomed(j)'
        BY <1>4, <1>5, <1>9, <4>1
      <4>3. ASSUME NEW k \in Jobs
            PROVE  u \notin Making(k)' /\ (k # m => u \notin Doomed(k)')
        BY <1>5, <4>1, <4>2, <4>3
      <4> QED
        BY <1>2, <1>5, <1>8, <4>1, <4>3 DEF Present
    <3>2. CASE m = j
      <4>1. PICK i \in 1..Count(p) : u = Source(p, i)
        BY <1>4, <1>5, <2>1, <3>2
      <4>2. u \in Volumes /\ u \in ResourceIDs[p] /\ Used(u) /\ ~Used(u)'
        BY <1>9, <4>1
      <4>3. Present(u) /\ ~Added(u)
        BY <1>1, <1>3, <4>2, UsedIsPresent, OwnAddition DEF Disposals
      <4>4. ASSUME NEW k \in Jobs
            PROVE  u \notin Making(k)' /\ (k # m => u \notin Doomed(k)')
        BY <1>1, <1>5, <3>2, <4>2, <4>4, OwnVolume
      <4> QED
        BY <1>2, <1>5, <4>2, <4>3, <4>4 DEF Present
    <3> QED
      BY <3>1, <3>2
  <2> QED
    BY <2>1 DEF DoomedAreFree
<1>14. GuardedAreKept'
  <2> SUFFICES ASSUME NEW k \in Jobs, Guarded(k), NEW q \in Plans, q = Task(k)
               PROVE  /\ \A i \in 1..Count(q) : \A w \in VMs, s \in Slots :
                           definition'[w] # Undefined /\ definition'[w][s] = Destination(q, i) => w = Receiver(q) /\ s = Target(q, i)
                      /\ Kind[q] = "add" => volume'[Destination(q, 1)].bytes \in {"absent", "torn", "blank"}
    BY <1>5 DEF GuardedAreKept, Task, Defined
  <2>1. ASSUME NEW i \in 1..Count(q), NEW w \in VMs, NEW s \in Slots,
               definition'[w] # Undefined, definition'[w][s] = Destination(q, i)
        PROVE  w = Receiver(q) /\ s = Target(q, i)
    <3>1. Defined(w) /\ definition[w][s] = Destination(q, i)
      BY <1>6, <2>1 DEF Defined
    <3>2. GuardedAreKept
      OBVIOUS
    <3> QED
      BY <3>1, <3>2 DEF GuardedAreKept
  <2> QED
    BY <1>2, <2>1 DEF GuardedAreKept
<1>15. DataIsSafe'
  <2> SUFFICES ASSUME NEW w \in VMs, NEW s \in Slots, Original[w] # Undefined, Original[w][s] # NoVolume
               PROVE  \/ Excused(w, s)'
                      \/ InPlace(w, s)'
                      \/ \E u \in Volumes : volume'[u].bytes = Original[w][s] /\ Spare(u)'
    BY DEF DataIsSafe
  <2>1. CASE Excused(w, s)
    BY <1>5, <2>1
  <2>2. CASE InPlace(w, s) /\ w # vm
    BY <1>2, <1>6, <2>2 DEF InPlace, Defined
  <2>3. CASE InPlace(w, s) /\ w = vm /\ s \in Chosen[p]
    <3>1. Excused(w, s)
      BY <1>1, <1>3, <2>3 DEF Excused
    <3> QED
      BY <1>5, <3>1
  <2>4. CASE InPlace(w, s) /\ w = vm /\ s \notin Chosen[p]
    <3>1. PICK u : u = definition[vm][s]
      OBVIOUS
    <3>2. u # NoVolume /\ volume[u].bytes = Original[w][s] /\ Original[w][s] \in Volumes
      BY <2>4, <3>1, DiskPlans DEF InPlace, Definition
    <3>3. Used(u) /\ ~Used(u)' /\ u \in Volumes
      BY <1>1, <1>3, <1>7, <3>1, <3>2, UsedIsThere
    <3>4. ~Added(u)
      <4>1. ASSUME NEW k \in Jobs, Guarded(k), Kind[Task(k)] = "add", u = Destination(Task(k), 1)
            PROVE  FALSE
        <5>1. Task(k) \in Plans
          BY <4>1, RowOfStored DEF Guarded, Task, BaseInv, AcceptanceInv, DoubtInv, OwnershipInv, TypeOK, Row
        <5>2. volume[u].bytes \in {"absent", "torn", "blank"}
          BY <4>1, <5>1 DEF GuardedAreKept
        <5> QED
          BY <3>2, <5>2, DisksDiffer
      <4> QED
        BY <4>1 DEF Added, Addition
    <3>5. u \notin Doomed(j)'
      <4>1. ASSUME NEW i \in 1..Count(p), u = Source(p, i)
            PROVE  FALSE
        <5>1. Target(p, i) \in Chosen[p] /\ Target(p, i) \in Slots /\ u = definition[vm][Target(p, i)]
          BY <1>9, <4>1
        <5>2. definition[vm][Target(p, i)] = definition[vm][s] /\ definition[vm][s] # NoVolume
          BY <3>1, <3>2, <5>1
        <5>3. Sharp
          OBVIOUS
        <5>4. Target(p, i) = s
          BY <1>1, <1>3, <5>1, <5>2, <5>3 DEF Sharp
        <5> QED
          BY <2>4, <5>1, <5>4
      <4> QED
        BY <1>4, <1>5, <4>1
    <3>6. ASSUME NEW k \in Jobs
          PROVE  u \notin Making(k)' /\ u \notin Doomed(k)'
      <4>1. CASE k = j
        BY <1>5, <3>5, <4>1
      <4>2. CASE k # j
        <5>1. u \notin Doomed(k)
          BY <3>3 DEF DoomedAreFree
        <5>2. u \notin Making(k)
          <6>1. ASSUME NEW i \in MadeItems(Task(k), work[k]), u = Destination(Task(k), i)
                PROVE  FALSE
            <7>1. u \in Making(k)
              BY <6>1 DEF Making
            <7>2. Task(k) \in Plans /\ work[k] \in [at : Stages, i : Nat]
              BY <1>1, <7>1, MakingFacts DEF DisksTypes
            <7> QED
              BY <3>3, <6>1, <7>2 DEF MadeAreFree
          <6> QED
            BY <6>1 DEF Making
        <5> QED
          BY <1>5, <4>2, <5>1, <5>2
      <4> QED
        BY <4>1, <4>2
    <3> QED
      BY <1>2, <1>5, <3>2, <3>3, <3>4, <3>6 DEF Spare
  <2>5. ASSUME NEW u \in Volumes, volume[u].bytes = Original[w][s], Spare(u)
        PROVE  volume'[u].bytes = Original[w][s] /\ Spare(u)'
    <3>1. u \notin Doomed(j)'
      BY <1>4, <1>5, <1>9, <2>5 DEF Spare
    <3>2. ASSUME NEW k \in Jobs
          PROVE  u \notin Making(k)' /\ u \notin Doomed(k)'
      BY <1>5, <2>5, <3>1, <3>2 DEF Spare
    <3> QED
      BY <1>2, <1>5, <1>8, <2>5, <3>2 DEF Spare
  <2> QED
    BY <2>1, <2>2, <2>3, <2>4, <2>5 DEF DataIsSafe
<1> QED
  BY <1>10, <1>11, <1>12, <1>13, <1>14, <1>15

-----------------------------------------------------------------------------
(* Every step keeps the disks whole and the data safe.                       *)

LEMMA InitData == DisksInit => DataInv
<1> SUFFICES ASSUME DisksInit PROVE DataInv
  OBVIOUS
<1>1. /\ definition = Original
      /\ \A j \in Jobs : ~Stored(j) /\ work[j] = Idly
      /\ \A p \in Plans : ~Planned(p)
  BY DEF DisksInit, HandlersInit, Init, JournalInit, Stored, Planned
<1>2. \A vm \in VMs, s \in Slots : Defined(vm) /\ definition[vm][s] # NoVolume =>
        definition[vm][s] \in Volumes /\ volume[definition[vm][s]].bytes = Original[vm][s]
  <2>1. ASSUME NEW vm \in VMs, NEW s \in Slots, Original[vm] # Undefined, Original[vm][s] # NoVolume
        PROVE  Original[vm][s] \in Volumes /\ volume[Original[vm][s]].bytes = Original[vm][s]
    <3>1. Original[vm][s] \in Volumes
      BY <2>1, DiskPlans DEF Definition
    <3> QED
      BY <2>1, <3>1 DEF DisksInit
  <2> QED
    BY <1>1, <2>1 DEF Defined
<1>3. Sharp
  BY <1>1, DisksDiffer DEF Sharp, Defined
<1>4. Whole
  <2>1. ASSUME NEW vm \in VMs, NEW s \in Slots, Original[vm] # Undefined, Original[vm][s] # NoVolume
        PROVE  Original[vm][s] \in BytesAt(vm, s)
    <3>1. vm \in Ancestors(vm)
      BY DEF Ancestors
    <3> QED
      BY <2>1, <3>1 DEF BytesAt
  <2> QED
    BY <1>1, <1>2, <2>1 DEF Whole, Defined
<1>5. ReviewsAreSharp
  BY <1>1 DEF ReviewsAreSharp
<1>6. \A p \in Plans, w \in [at : Stages, i : Nat] : \A j \in Jobs : work[j] = w =>
        w.at = "idle" /\ MadeItems(p, w) = {} /\ DoomedItems(p, w) = {}
  BY <1>1, IdlyType, IdleItems
<1>7. MadeAreFree
  BY <1>6 DEF MadeAreFree
<1>8. MakersSeeTheReview
  BY <1>1, IdlyType DEF MakersSeeTheReview, MakerStates
<1>9. DoomedAreFree
  <2>1. \A j \in Jobs : DoomedItems(Task(j), work[j]) = {}
    BY <1>1, IdlyType, IdleItems
  <2> QED
    BY <2>1 DEF DoomedAreFree, Doomed
<1>10. GuardedAreKept
  BY <1>1 DEF GuardedAreKept, Guarded
<1>11. DataIsSafe
  BY <1>1, <1>2 DEF DataIsSafe, InPlace, Defined
<1> QED
  BY <1>3, <1>4, <1>5, <1>7, <1>8, <1>9, <1>10, <1>11 DEF DataInv

LEMMA PlanningKeeps ==
  ASSUME BaseInv, DataInv, UNCHANGED <<jobs, locks, work, definition, volume>>,
         \A q \in Plans : Planned(q) => review'[q] = review[q],
         ReviewsAreSharp'
  PROVE  DataInv'
<1>1. Calm
  BY PlanningIsCalm
<1>2. MakersSeeTheReview'
  <2> SUFFICES ASSUME NEW j \in Jobs, NEW p \in Plans, jobs'[j].planID = p
               PROVE  /\ work'[j].at \in MakerStates => AsReviewed(p)'
                      /\ work'[j].at \in {"fill", "filled", "define"} /\ Kind[p] = "move" =>
                           volume'[Source(p, 1)'].bytes = SeenSource(p, 1)'.bytes
                      /\ work'[j].at \in {"filled", "define"} /\ Kind[p] = "move" =>
                           volume'[Destination(p, 1)].bytes \in {"absent", SeenSource(p, 1)'.bytes}
    BY DEF MakersSeeTheReview, Task
  <2>1. Task(j) = p /\ work'[j] = work[j]
    BY DEF Task
  <2>2. CASE work[j].at \in MakerStates
    <3>1. Planned(p)
      BY <2>1, <2>2, TaskFacts DEF BaseInv, WorkIsRun, MakerStates
    <3>2. review'[p] = review[p]
      BY <3>1
    <3> QED
      BY <2>1, <2>2, <3>2 DEF DataInv, MakersSeeTheReview, AsReviewed, Source, SeenSource
  <2>3. CASE work[j].at \notin MakerStates
    BY <2>1, <2>3 DEF MakerStates
  <2> QED
    BY <2>2, <2>3
<1> QED
  BY <1>1, <1>2, CalmKeeps DEF DataInv

LEMMA WorkKeepsData ==
  ASSUME BaseInv, DataInv, NEW j \in Jobs, Work(j)
  PROVE  DataInv'
<1>1. Sharp' /\ Whole' /\ MadeAreFree' /\ DoomedAreFree' /\ GuardedAreKept' /\ DataIsSafe'
  <2>1. CASE Quiet(j)
    BY <2>1, QuietIsCalm, CalmKeeps
  <2>2. CASE AllocateMoved(j) \/ AllocateCloned(j) \/ AllocateAdded(j)
    BY <2>2, AllocationKeeps
  <2>3. CASE Fill(j)
    BY <2>3, FillKeeps
  <2>4. CASE DefineMovedDisk(j) \/ DefineClone(j) \/ DefineAddedDisk(j)
    BY <2>4, DefinitionKeeps
  <2>5. CASE DeleteOldVolume(j)
    BY <2>5, DeleteOldKeeps
  <2>6. CASE DeleteRemovalDisk(j)
    BY <2>6, DeleteRemovalKeeps
  <2>7. CASE DeleteUnreferencedDisk(j)
    BY <2>7, DeleteUnreferencedKeeps
  <2>8. CASE RemoveDefinition(j)
    BY <2>8, UndefinitionKeeps
  <2> QED
    BY <2>1, <2>2, <2>3, <2>4, <2>5, <2>6, <2>7, <2>8 DEF Work, Quiet
<1>2. MakersSeeTheReview'
  BY MakersStay
<1>3. review' = review
  BY WorkKeeps
<1>4. ReviewsAreSharp'
  BY <1>3 DEF ReviewsAreSharp, Planned, DataInv
<1> QED
  BY <1>1, <1>2, <1>4 DEF DataInv

LEMMA NextData ==
  ASSUME BaseInv, DataInv, [DisksNext]_diskVars
  PROVE  DataInv'
<1>1. CASE UNCHANGED diskVars
  <2>1. UNCHANGED <<jobs, locks, review, work, definition, volume>>
    BY <1>1 DEF diskVars, vars, journal, disks
  <2>2. ReviewsAreSharp'
    BY <2>1 DEF ReviewsAreSharp, Planned, DataInv
  <2> QED
    BY <2>1, <2>2, PlanningKeeps
<1>2. ASSUME NEW p \in Plannable, PlanSteps(p)
      PROVE  DataInv'
  <2>1. p \in Plans
    BY <1>2, PlansArePlans
  <2>2. /\ \A q \in Plans : Planned(q) => review'[q] = review[q]
        /\ \A q \in Plans : q # p => review'[q] = review[q]
        /\ UNCHANGED <<vars, work, disks>>
        /\ \E vm \in VMs : Defined(vm) /\ review'[p].definition = definition[vm]
    BY <1>2, <2>1, PlanKeeps
  <2>3. ReviewsAreSharp'
    <3>1. \A s, t \in Slots :
            review'[p].definition[s] = review'[p].definition[t] /\ review'[p].definition[s] # NoVolume => s = t
      BY <2>2 DEF DataInv, Sharp
    <3> QED
      BY <2>2, <3>1 DEF ReviewsAreSharp, Planned, DataInv
  <2>4. UNCHANGED <<jobs, locks, work, definition, volume>>
    BY <2>2 DEF vars, journal, disks
  <2> QED
    BY <2>2, <2>3, <2>4, PlanningKeeps
<1>3. ASSUME NEW j \in Jobs, Work(j)
      PROVE  DataInv'
  BY <1>3, WorkKeepsData
<1>4. CASE EngineMoves /\ UNCHANGED disks
  <2>1. Calm /\ UNCHANGED <<review, definition, volume>>
    BY <1>4, EngineIsCalm
  <2>2. /\ \A j \in Jobs : work'[j] = work[j] \/ work'[j].at = "idle"
        /\ \A j \in Jobs : Stored(j) => jobs'[j].planID = Task(j)
    BY <1>4, EngineFrame, EngineMovesEngine, JobsAreKept DEF BaseInv, Task
  <2>3. ReviewsAreSharp'
    BY <2>1 DEF ReviewsAreSharp, Planned, DataInv
  <2>4. MakersSeeTheReview'
    <3> SUFFICES ASSUME NEW j \in Jobs, NEW p \in Plans, jobs'[j].planID = p
                 PROVE  /\ work'[j].at \in MakerStates => AsReviewed(p)
                        /\ work'[j].at \in {"fill", "filled", "define"} /\ Kind[p] = "move" =>
                             volume[Source(p, 1)].bytes = SeenSource(p, 1).bytes
                        /\ work'[j].at \in {"filled", "define"} /\ Kind[p] = "move" =>
                             volume[Destination(p, 1)].bytes \in {"absent", SeenSource(p, 1).bytes}
      BY <2>1 DEF MakersSeeTheReview, Task, AsReviewed, Source, SeenSource
    <3>1. CASE work'[j] = work[j] /\ work[j].at \in MakerStates
      <4>1. Task(j) = p
        BY <2>2, <3>1, TaskFacts DEF BaseInv, WorkIsRun, MakerStates
      <4> QED
        BY <3>1, <4>1 DEF DataInv, MakersSeeTheReview
    <3>2. CASE work'[j].at \notin MakerStates
      BY <3>2 DEF MakerStates
    <3> QED
      BY <2>2, <3>1, <3>2 DEF MakerStates
  <2> QED
    BY <2>1, <2>3, <2>4, CalmKeeps DEF DataInv
<1> QED
  BY <1>1, <1>2, <1>3, <1>4, StepKinds

LEMMA DataHolds == DisksSpec => [](BaseInv /\ DataInv)
BY InitBase, NextBase, InitData, NextData, PTL DEF DisksSpec

\* Whatever fails or crashes on the way, a disk of a machine is complete, holds what
\* the guest left there, and is the disk of no other machine (the Execute methods of
\* the disk handlers).
THEOREM DisksStayWhole == DisksSpec => []DisksAreWhole
<1>1. BaseInv /\ DataInv => DisksAreWhole
  <2> SUFFICES ASSUME BaseInv, DataInv, NEW vm \in VMs, Defined(vm), NEW s \in Slots, definition[vm][s] # NoVolume
               PROVE  /\ volume[definition[vm][s]].bytes \in BytesAt(vm, s)
                      /\ ~UsedBesides(vm, definition[vm][s])
    BY DEF DisksAreWhole, Filled
  <2>1. volume[definition[vm][s]].bytes \in BytesAt(vm, s)
    BY DEF DataInv, Whole
  <2>2. ASSUME NEW w \in VMs \ {vm}, NEW t \in Slots, Defined(w), definition[w][t] = definition[vm][s]
        PROVE  FALSE
    BY <2>2 DEF DataInv, Sharp
  <2> QED
    BY <2>1, <2>2 DEF UsedBesides, Uses
<1> QED
  BY <1>1, DataHolds, PTL

\* The data of every disk is in the pools until a removal that chose it was accepted
\* (DeleteOldVolume, DeleteRemovalDisk, DeleteUnreferencedDisk).
THEOREM NoDataIsLost == DisksSpec => []DataSurvives
<1>1. BaseInv /\ DataInv => DataSurvives
  <2> SUFFICES ASSUME BaseInv, DataInv, NEW vm \in VMs, NEW s \in Slots, Original[vm] # Undefined, Original[vm][s] # NoVolume
               PROVE  (\E v \in Volumes : volume[v].bytes = Original[vm][s]) \/ Excused(vm, s)
    BY DEF DataSurvives, Excused, Task
  <2>1. CASE InPlace(vm, s)
    BY <2>1, UsedIsThere DEF InPlace, BaseInv, DataInv
  <2> QED
    BY <2>1 DEF DataInv, DataIsSafe
<1> QED
  BY <1>1, DataHolds, PTL

-----------------------------------------------------------------------------
(* Why the outcomes are true.  What was observed complete, and what an       *)
(* operation says it left alone, stay so while the job has its locks.        *)

\* The engine is about to write that j has succeeded.
Assured(j) == At(j, "finish") \/ (~MutexFree /\ request.op = "settle" /\ request.job = j)

\* Execute of j has returned and said that nothing was done.
Declined(j) == At(j, "returned") /\ runner[j].outcome = "not-done"

\* A goroutine that goes on, or returns, is alone to move.
LEMMA ReturnEnds ==
  ASSUME TypeOK, NEW j \in Jobs, NEW row, Return(j, row)
  PROVE  /\ ~At(j, "finish")' /\ ~At(j, "returned")'
         /\ \A m \in Jobs : m # j => runner'[m] = runner[m]
BY DEF Return, At, Idle, TypeOK

LEMMA ContinueGoes ==
  ASSUME TypeOK, NEW j \in Jobs, NEW row, NEW pc, Continue(j, row, pc), pc \notin {"finish", "returned"}
  PROVE  /\ ~At(j, "finish")' /\ ~At(j, "returned")'
         /\ \A m \in Jobs : m # j => runner'[m] = runner[m]
BY DEF Continue, At, TypeOK

\* All steps of a goroutine but the end of Execute and the confirmation of its step.
LEMMA OthersStand ==
  ASSUME TypeOK, NEW j \in Jobs,
         Boundary(j) \/ ValidateFails(j) \/ RecordIntent(j) \/ ExecuteFailed(j) \/ StartVerifying(j)
         \/ StepNotVerified(j) \/ Finish(j)
  PROVE  /\ ~At(j, "finish")' /\ ~At(j, "returned")' /\ UNCHANGED request
         /\ \A m \in Jobs : m # j => runner'[m] = runner[m]
<1>1. CASE Boundary(j)
  BY <1>1, ReturnEnds, ContinueGoes DEF Boundary
<1>2. CASE ValidateFails(j) \/ RecordIntent(j)
  BY <1>2, ReturnEnds, ContinueGoes DEF ValidateFails, RecordIntent
<1>3. CASE ExecuteFailed(j) \/ StartVerifying(j)
  BY <1>3, ReturnEnds, ContinueGoes DEF ExecuteFailed, StartVerifying
<1>4. CASE StepNotVerified(j) \/ Finish(j)
  BY <1>4, ReturnEnds DEF StepNotVerified, Finish
<1> QED
  BY <1>1, <1>2, <1>3, <1>4

\* A step of the engine that may change who is assured of what.
LEMMA AssuredComes ==
  ASSUME AcceptanceInv, EngineMoves, NEW j \in Jobs, Assured(j)'
  PROVE  Stored(j) /\ (Assured(j) \/ \E i : DiskDone(Task(j), i, j))
<1>1. /\ TypeOK /\ RunnersHold /\ RequestIsCurrent
      /\ runner \in [Jobs -> RunnerState \cup {Idle}]
  BY DEF AcceptanceInv, DoubtInv, OwnershipInv, Ownership, TypeOK
<1>2. Assured(j) => Stored(j)
  BY <1>1 DEF Assured, RunnersHold, RequestIsCurrent, At, Live
<1>3. ASSUME NEW i \in Jobs, ExecuteReturns(i)
      PROVE  Assured(j)
  BY <1>1, <1>3 DEF ExecuteReturns, Execute, Assured, At, MutexFree
<1>4. ASSUME NEW i \in Jobs, EngineSteps(i, DiskValid, DiskDone)
      PROVE  Assured(j) \/ (Stored(j) /\ \E n : DiskDone(Task(j), n, j))
  <2>1. CASE Applied(i, DiskValid)
    <3>1. (\E row : Start(i, row)) /\ UNCHANGED request
      BY <2>1 DEF Applied, Apply, ApplyRecovery
    <3> QED
      BY <1>1, <3>1 DEF Start, Assured, At, MutexFree, Idle
  <2>2. CASE \/ Boundary(i) \/ ValidateFails(i) \/ RecordIntent(i) \/ ExecuteFailed(i) \/ StartVerifying(i)
             \/ StepNotVerified(i) \/ Finish(i)
    <3>1. /\ ~At(i, "finish")' /\ UNCHANGED request
          /\ \A m \in Jobs : m # i => runner'[m] = runner[m]
      BY <1>1, <2>2, OthersStand
    <3> QED
      BY <3>1 DEF Assured, At, MutexFree
  <2>5. CASE At(i, "reconcile") /\ DiskDone(PlanOf(i), runner[i].i, i) /\ StepVerified(i)
    <3>1. CASE i = j
      BY <1>1, <2>5, <3>1 DEF RunnersHold, At, Live, PlanOf, Task
    <3>2. CASE i # j
      BY <1>1, <2>5, <3>2 DEF StepVerified, Assured, At, MutexFree
    <3> QED
      BY <3>1, <3>2
  <2>6. CASE CancelRead(i) \/ ReconcileRead(i) \/ Recover(i)
    BY <1>1, <2>6 DEF CancelRead, ReconcileRead, Recover, volatile, Assured, At, MutexFree
  <2> QED
    BY <1>4, <2>1, <2>2, <2>5, <2>6 DEF EngineSteps
<1>5. CASE ProcessSteps(DiskDone)
  <2>1. CASE CancelWrite \/ ReconcileSettle \/ RequestFails
    BY <1>2, <2>1 DEF CancelWrite, ReconcileSettle, RequestFails, Assured, At, MutexFree
  <2>2. CASE Open \/ Serve
    BY <1>2, <2>2 DEF Open, Serve, volatile, Assured, At, MutexFree
  <2>3. CASE ~MutexFree /\ DiskDone(request.row.planID, request.row.step, request.job) /\ ReconcileObserve
    <3>1. request.row.planID = Task(request.job) /\ Stored(request.job)
      BY <1>1, <2>3 DEF RequestIsCurrent, Task
    <3>2. CASE At(j, "finish")'
      BY <2>3, <3>2, <1>2 DEF ReconcileObserve, Assured, At
    <3>3. CASE ~At(j, "finish")'
      <4>1. request'.job = j /\ ~MutexFree'
        BY <3>3 DEF Assured
      <4>2. request'.job = request.job
        BY <1>1, <2>3, <4>1 DEF ReconcileObserve, MutexFree, TypeOK
      <4> QED
        BY <2>3, <3>1, <4>1, <4>2
    <3> QED
      BY <3>2, <3>3
  <2>4. CASE Crash
    BY <1>1, <2>4 DEF Crash, Assured, At, MutexFree, Idle
  <2> QED
    BY <1>2, <1>5, <2>1, <2>2, <2>3, <2>4 DEF ProcessSteps
<1> QED
  BY <1>2, <1>3, <1>4, <1>5 DEF EngineMoves

LEMMA DeclinedComes ==
  ASSUME AcceptanceInv, EngineMoves, NEW j \in Jobs, Declined(j)'
  PROVE  Declined(j) \/ (At(j, "execute") /\ work[j].at = "not-done")
<1>1. runner \in [Jobs -> RunnerState \cup {Idle}]
  BY DEF AcceptanceInv, DoubtInv, OwnershipInv, Ownership, TypeOK
<1> USE <1>1 DEF Declined, At
<1>2. ASSUME NEW i \in Jobs, ExecuteReturns(i)
      PROVE  Declined(j) \/ (At(j, "execute") /\ work[j].at = "not-done")
  BY <1>2 DEF ExecuteReturns, Execute
<1>3. ASSUME NEW i \in Jobs, EngineSteps(i, DiskValid, DiskDone)
      PROVE  Declined(j)
  <2>1. CASE Applied(i, DiskValid)
    <3>1. \E row : Start(i, row)
      BY <2>1 DEF Applied, Apply, ApplyRecovery
    <3> QED
      BY <3>1 DEF Start, Idle
  <2>2. CASE \/ Boundary(i) \/ ValidateFails(i) \/ RecordIntent(i) \/ ExecuteFailed(i) \/ StartVerifying(i)
             \/ StepNotVerified(i) \/ Finish(i)
    <3>1. /\ ~At(i, "returned")'
          /\ \A m \in Jobs : m # i => runner'[m] = runner[m]
      BY <2>2, OthersStand DEF AcceptanceInv, DoubtInv, OwnershipInv
    <3> QED
      BY <3>1
  <2>5. CASE StepVerified(i)
    BY <2>5 DEF StepVerified
  <2>6. CASE CancelRead(i) \/ ReconcileRead(i) \/ Recover(i)
    BY <2>6 DEF CancelRead, ReconcileRead, Recover, volatile
  <2> QED
    BY <1>3, <2>1, <2>2, <2>5, <2>6 DEF EngineSteps
<1>4. CASE ProcessSteps(DiskDone)
  <2>1. CASE CancelWrite \/ ReconcileObserve \/ ReconcileSettle \/ RequestFails \/ Open \/ Serve
    BY <2>1 DEF CancelWrite, ReconcileObserve, ReconcileSettle, RequestFails, Open, Serve, volatile
  <2>2. CASE Crash
    BY <2>2 DEF Crash, Idle
  <2> QED
    BY <1>4, <2>1, <2>2 DEF ProcessSteps
<1> QED
  BY <1>2, <1>3, <1>4 DEF EngineMoves

\* Whoever changes the state of a row to an outcome has reason to.
LEMMA OutcomesHaveReason ==
  ASSUME AcceptanceInv, EngineMoves, NEW j \in Jobs, Stored(j), jobs'[j].state # jobs[j].state
  PROVE  /\ jobs'[j].state = "succeeded" => Assured(j)
         /\ jobs'[j].state = "failed" /\ At(j, "returned") => Declined(j)
<1>1. /\ TypeOK /\ RunnersHold /\ RequestIsCurrent
      /\ jobs \in [Jobs -> Row \cup {NoRow}]
  BY DEF AcceptanceInv, DoubtInv, OwnershipInv, Ownership, TypeOK, JournalTypeOK
<1>2. ASSUME NEW i \in Jobs, NEW row, Update(i, row)
      PROVE  i = j /\ jobs'[j].state = row.state
  BY <1>1, <1>2 DEF Update, Merged
<1>3. ASSUME NEW i \in Jobs, NEW state, Update(i, Copy(i, state)), Live(i)
      PROVE  i = j /\ jobs'[j].state = state
  <2>1. runner[i] \in RunnerState
    BY <1>1, <1>3, RunnerOfLive
  <2>2. Copy(i, state).state = state
    BY <2>1 DEF Copy, RunnerState, Row
  <2> QED
    BY <1>2, <1>3, <2>2
<1>4. ASSUME NEW i \in Jobs, ExecuteReturns(i)
      PROVE  FALSE
  BY <1>4 DEF ExecuteReturns, Execute, journal
<1>5. ASSUME NEW i \in Jobs, EngineSteps(i, DiskValid, DiskDone)
      PROVE  /\ jobs'[j].state = "succeeded" => Assured(j)
             /\ jobs'[j].state = "failed" /\ At(j, "returned") => Declined(j)
  <2>1. CASE Applied(i, DiskValid)
    <3>1. PICK k, p, c : Apply(i, k, p) \/ ApplyRecovery(i, k, p, c)
      BY <2>1 DEF Applied
    <3>2. CASE Apply(i, k, p)
      <4>1. jobs' = [jobs EXCEPT ![i] = NewRow(p, NoJob)] /\ ~Stored(i)
        BY <3>2 DEF Apply, Accept
      <4> QED
        BY <1>1, <4>1 DEF Stored
    <3>3. CASE ApplyRecovery(i, k, p, c)
      <4>1. /\ jobs' = [jobs EXCEPT ![i] = NewRow(p, c), ![c].state = "partial", ![c].recoveryOperationID = i]
            /\ ~Stored(i)
        BY <3>3 DEF ApplyRecovery, AcceptRecovery
      <4>2. jobs'[j].state = "partial"
        BY <1>1, <4>1 DEF Stored, Row
      <4> QED
        BY <4>2
    <3> QED
      BY <3>1, <3>2, <3>3
  <2>2. CASE Boundary(i)
    <3>1. PICK state \in {"recovery-required", "canceled", "validating"} : Update(i, [AtBoundary(i) EXCEPT !.state = state])
      BY <2>2 DEF Boundary, Return, Continue
    <3>2. Live(i) /\ Stored(i)
      BY <2>2, <3>1 DEF Boundary, At, Live, Update
    <3>3. AtBoundary(i) \in Row
      BY <1>1, <3>2, BoundaryRow
    <3>4. [AtBoundary(i) EXCEPT !.state = state].state = state
      BY <3>3 DEF Row
    <3> QED
      BY <1>2, <3>1, <3>4
  <2>3. CASE ValidateFails(i)
    <3>1. Live(i) /\ At(i, "validate") /\ \E state : Update(i, Copy(i, state)) /\ state # "succeeded"
      BY <2>3 DEF ValidateFails, Return, At, Live
    <3> QED
      BY <1>3, <3>1 DEF At
  <2>4. CASE RecordIntent(i)
    <3>1. Live(i) /\ Update(i, Copy(i, "running"))
      BY <2>4 DEF RecordIntent, Continue, At, Live
    <3> QED
      BY <1>3, <3>1
  <2>5. CASE ExecuteFailed(i)
    <3>1. Live(i) /\ At(i, "returned") /\ Update(i, Copy(i, AfterError(i)))
      BY <2>5 DEF ExecuteFailed, Return, At, Live
    <3>2. AfterError(i) # "succeeded" /\ (AfterError(i) = "failed" => runner[i].outcome = "not-done")
      BY DEF AfterError
    <3>3. i = j /\ jobs'[j].state = AfterError(i)
      BY <1>3, <3>1
    <3> QED
      BY <3>1, <3>2, <3>3 DEF Declined
  <2>6. CASE StartVerifying(i)
    <3>1. Live(i) /\ Update(i, Copy(i, "verifying"))
      BY <2>6 DEF StartVerifying, Continue, At, Live
    <3> QED
      BY <1>3, <3>1
  <2>7. CASE StepNotVerified(i)
    <3>1. Live(i) /\ Update(i, Copy(i, "recovery-required"))
      BY <2>7 DEF StepNotVerified, Return, At, Live
    <3> QED
      BY <1>3, <3>1
  <2>8. CASE Finish(i)
    <3>1. Live(i) /\ At(i, "finish") /\ Update(i, Copy(i, "succeeded"))
      BY <2>8 DEF Finish, Return, At, Live
    <3> QED
      BY <1>3, <3>1 DEF Assured
  <2>9. CASE StepVerified(i) \/ CancelRead(i) \/ ReconcileRead(i)
    BY <2>9 DEF StepVerified, CancelRead, ReconcileRead, journal
  <2>10. CASE Recover(i)
    <3>1. Update(i, [jobs[i] EXCEPT !.state = "recovery-required"])
      BY <2>10 DEF Recover
    <3>2. jobs[i] \in Row
      BY <1>1, <3>1 DEF Update, Stored
    <3>3. [jobs[i] EXCEPT !.state = "recovery-required"].state = "recovery-required"
      BY <3>2 DEF Row
    <3> QED
      BY <1>2, <3>1, <3>3
  <2> QED
    BY <1>5, <2>1, <2>2, <2>3, <2>4, <2>5, <2>6, <2>7, <2>8, <2>9, <2>10 DEF EngineSteps
<1>6. CASE ProcessSteps(DiskDone)
  <2>1. CASE CancelWrite
    <3>1. Update(request.job, request.row) /\ request.row.state \in Active /\ request.job \in Jobs
      BY <1>1, <2>1 DEF CancelWrite, RequestIsCurrent, TypeOK, MutexFree, RequestState
    <3>2. jobs'[j].state \in Active
      BY <1>2, <3>1
    <3> QED
      BY <3>2 DEF Active
  <2>2. CASE ReconcileSettle
    <3>1. Update(request.job, request.row) /\ request.row.state = "succeeded" /\ request.job \in Jobs
      BY <1>1, <2>2 DEF ReconcileSettle, RequestIsCurrent, TypeOK, MutexFree, RequestState
    <3>2. request.job = j /\ jobs'[j].state = "succeeded"
      BY <1>2, <3>1
    <3> QED
      BY <2>2, <3>2 DEF Assured, ReconcileSettle
  <2>3. CASE RequestFails \/ Open \/ Serve \/ ReconcileObserve \/ Crash
    BY <2>3 DEF RequestFails, Open, Serve, ReconcileObserve, Crash, journal
  <2> QED
    BY <1>6, <2>1, <2>2, <2>3 DEF ProcessSteps
<1> QED
  BY <1>4, <1>5, <1>6 DEF EngineMoves

\* Nobody is at work on a job that is about to succeed.
LEMMA AssuredRest ==
  ASSUME AcceptanceInv, NEW j \in Jobs, At(j, "execute")
  PROVE  ~Assured(j) /\ ~Declined(j)
<1>1. jobs[j].state \in Active /\ RequestIsCurrent
  BY WorkerFacts DEF AcceptanceInv, DoubtInv, OwnershipInv, Ownership
<1> QED
  BY <1>1 DEF Assured, Declined, At, RequestIsCurrent, Active

\* What another job's work writes is not what j has locked.
LEMMA LockedStay ==
  ASSUME BaseInv, NEW k \in Jobs, Work(k), NEW j \in Jobs, j # k, Stored(j), Holds(j), NEW p \in Plans, p = Task(j)
  PROVE  /\ \A vm \in VMs : vm \in ResourceIDs[p] => definition'[vm] = definition[vm]
         /\ \A v \in Volumes : v \in ResourceIDs[p] => volume'[v] = volume[v]
<1>1. Local(k) /\ Stored(k) /\ Holds(k) /\ Task(k) \in Plans
  BY WorkFrame, WorkIsLocal, WorkerFacts DEF BaseInv
<1>2. ResourceIDs[p] \cap ResourceIDs[Task(k)] = {}
  BY <1>1 DEF Holds, Resource, Task
<1> QED
  BY <1>1, <1>2 DEF Local

\* A disposition has locked what it is about.
LEMMA DisposalLocks ==
  ASSUME BaseInv, NEW j \in Jobs, Stored(j), Kind[Task(j)] \in Disposals, NEW a, a = review[Task(j)].of
  PROVE  /\ a \in Plans /\ Kind[a] = "add" /\ Machine[a] = Machine[Task(j)] /\ Task(j) \in Plans
         /\ Destination(a, 1) \in Volumes /\ Destination(a, 1) \in ResourceIDs[Task(j)]
         /\ Target(a, 1) \in Slots
<1> DEFINE p == Task(j)
           r == review[p].parent
<1>1. p \in Plans /\ Planned(p)
  BY RowOfStored DEF Task, BaseInv, AcceptanceInv, DoubtInv, OwnershipInv, TypeOK, Row, RecoveriesFit
<1>2. /\ r \in Jobs /\ Stored(r) /\ a = Task(r)
      /\ Kind[a] = "add" /\ Machine[a] = Machine[p] /\ jobs[j].recoveryOf = r
  <2>1. ReviewFits(p, review[p]) /\ p \in RecoveryPlans
    BY <1>1, DiskPlans DEF BaseInv, ReviewsFit
  <2> QED
    BY <2>1 DEF ReviewFits, BaseInv, RecoveriesFit
<1>3. a \in Plans
  BY <1>2, RowOfStored DEF Task, BaseInv, AcceptanceInv, DoubtInv, OwnershipInv, TypeOK, Row
<1>4. ResourceIDs[a] \subseteq ResourceIDs[p]
  BY <1>2, NullsAreNotValues DEF BaseInv, AcceptanceInv, Acceptances, RecoveriesAreChained, Resource, Task
<1>5. Destination(a, 1) \in Volumes /\ Destination(a, 1) \in ResourceIDs[a] /\ Target(a, 1) \in Slots
  BY <1>2, <1>3, HasTarget, ItemFacts DEF Makers
<1> QED
  BY <1>1, <1>2, <1>3, <1>4, <1>5

\* What plan p promised is there; what it says it left alone is as it was.
Fulfilled(p) ==
  /\ Kind[p] = "grow" => volume[Source(p, 1)].grown /\ AsReviewed(p)
  /\ Kind[p] \in {"move", "add"} => Defined(Machine[p]) /\ \A s \in Chosen[p] : definition[Machine[p]][s] = NewVolume[p][s]
  /\ Kind[p] = "clone" => Defined(NewMachine[p]) /\ \A s \in Chosen[p] : definition[NewMachine[p]][s] = NewVolume[p][s]
  /\ Kind[p] = "remove" => ~Defined(Machine[p]) /\ \A i \in 1..Count(p) : ~Present(Source(p, i))
  /\ Kind[p] = "accept" => Referenced(review[p].of)
  /\ Kind[p] = "delete" => ~Present(Destination(review[p].of, 1)) /\ ~Referenced(review[p].of)

Unchanged(p) == AsReviewed(p) /\ (Kind[p] = "grow" => volume[Source(p, 1)] = SeenSource(p, 1))

LEMMA AchievedIs ==
  ASSUME NEW j, NEW p, p = Task(j)
  PROVE  (Achieved(j) <=> Fulfilled(p)) /\ (Untouched(j) <=> Unchanged(p))
BY DEF Achieved, Fulfilled, Untouched, Unchanged, Task

\* Both look only at what the plan has locked.
LEMMA LocksKeepOutcomes ==
  ASSUME BaseInv, NEW j \in Jobs, Stored(j), NEW p \in Plans, p = Task(j), review'[p] = review[p],
         \A vm \in VMs : vm \in ResourceIDs[p] => definition'[vm] = definition[vm],
         \A v \in Volumes : v \in ResourceIDs[p] => volume'[v] = volume[v]
  PROVE  /\ Fulfilled(p) => Fulfilled(p)'
         /\ Unchanged(p) => Unchanged(p)'
         /\ Kind[p] = "accept" /\ Referenced(review[p].of) => Referenced(review[p].of)'
<1>1. Planned(p) /\ Machine[p] \in VMs /\ NewMachine[p] \in VMs
  BY DiskPlans DEF BaseInv, RecoveriesFit
<1>2. definition'[Machine[p]] = definition[Machine[p]]
  BY <1>1, RequestsAreValid
<1>3. AsReviewed(p)' <=> AsReviewed(p)
  BY <1>2 DEF AsReviewed
<1>4. Kind[p] = "clone" => definition'[NewMachine[p]] = definition[NewMachine[p]]
  BY <1>1, RequestsAreValid
<1>5. ASSUME Kind[p] \in {"grow", "remove"}, NEW i \in 1..Count(p)
      PROVE  Source(p, i)' = Source(p, i) /\ volume'[Source(p, i)] = volume[Source(p, i)] /\ SeenSource(p, i)' = SeenSource(p, i)
  <2>1. Source(p, i) \in Volumes /\ Source(p, i) \in ResourceIDs[p]
    BY <1>1, <1>5, SourcesLocked
  <2> QED
    BY <2>1 DEF Source, SeenSource
<1>6. ASSUME Kind[p] \in Disposals
      PROVE  /\ Referenced(review[p].of)' <=> Referenced(review[p].of)
             /\ Present(Destination(review[p].of, 1))' <=> Present(Destination(review[p].of, 1))
  <2>1. PICK a : a = review[p].of
    OBVIOUS
  <2>2. review'[p].of = a
    BY <2>1
  <2>3. Machine[a] = Machine[p] /\ Destination(a, 1) \in Volumes /\ Destination(a, 1) \in ResourceIDs[p]
    BY <1>6, <2>1, DisposalLocks
  <2>4. volume'[Destination(a, 1)] = volume[Destination(a, 1)]
    BY <2>3
  <2> QED
    BY <1>2, <2>1, <2>2, <2>3, <2>4 DEF Referenced, Present, Defined
<1>7. Kind[p] \in {"grow", "remove"} => 1 \in 1..Count(p)
  BY HasTarget
<1>8. Kind[p] = "grow" => /\ Source(p, 1)' = Source(p, 1) /\ volume'[Source(p, 1)] = volume[Source(p, 1)]
                          /\ SeenSource(p, 1)' = SeenSource(p, 1)
  BY <1>5, <1>7
<1>9. Kind[p] = "remove" => \A i \in 1..Count(p) : Source(p, i)' = Source(p, i) /\ volume'[Source(p, i)] = volume[Source(p, i)]
  BY <1>5
<1>10. Defined(Machine[p])' <=> Defined(Machine[p])
  BY <1>2 DEF Defined
<1>11. Kind[p] = "accept" => (Referenced(review[p].of)' <=> Referenced(review[p].of))
  BY <1>6 DEF Disposals
<1>12. Unchanged(p) => Unchanged(p)'
  BY <1>3, <1>8 DEF Unchanged
<1>13. ASSUME Fulfilled(p) PROVE Fulfilled(p)'
  <2>1. (Kind[p] = "grow" => volume[Source(p, 1)].grown /\ AsReviewed(p))'
    BY <1>3, <1>8, <1>13 DEF Fulfilled
  <2>2. (Kind[p] \in {"move", "add"} => Defined(Machine[p]) /\ \A s \in Chosen[p] : definition[Machine[p]][s] = NewVolume[p][s])'
    BY <1>2, <1>10, <1>13 DEF Fulfilled
  <2>3. (Kind[p] = "clone" => Defined(NewMachine[p]) /\ \A s \in Chosen[p] : definition[NewMachine[p]][s] = NewVolume[p][s])'
    BY <1>4, <1>13 DEF Fulfilled, Defined
  <2>4. (Kind[p] = "remove" => ~Defined(Machine[p]) /\ \A i \in 1..Count(p) : ~Present(Source(p, i)))'
    BY <1>9, <1>10, <1>13 DEF Fulfilled, Present
  <2>5. (Kind[p] = "accept" => Referenced(review[p].of))'
    BY <1>11, <1>13 DEF Fulfilled
  <2>6. (Kind[p] = "delete" => ~Present(Destination(review[p].of, 1)) /\ ~Referenced(review[p].of))'
    BY <1>6, <1>13 DEF Fulfilled, Disposals
  <2> QED
    BY <2>1, <2>2, <2>3, <2>4, <2>5, <2>6 DEF Fulfilled
<1> QED
  BY <1>11, <1>12, <1>13

\* A disposition is of a job there is, and an accepted disk stays in use.
DispositionsNameJobs == \A a \in Plans : disposition[a] # NoDisposition => Stored(disposition[a].job)

AcceptedIsUsed ==
  \A j \in Jobs, p \in Plans :
    Task(j) = p /\ Stored(j) /\ Holds(j) /\ Kind[p] = "accept"
    /\ disposition[review[p].of] = [by |-> p, job |-> j] => Referenced(review[p].of)

AssuredIsTrue ==
  \A j \in Jobs, p \in Plans : Task(j) = p /\ Assured(j) /\ Holds(j) => Fulfilled(p)

DeclinedIsTrue ==
  \A j \in Jobs, p \in Plans : Task(j) = p /\ (Declined(j) \/ work[j].at = "not-done") => Unchanged(p)

OutcomeInv == DispositionsNameJobs /\ AcceptedIsUsed /\ AssuredIsTrue /\ DeclinedIsTrue

\* What Reconcile confirms is there.
LEMMA DoneIsFulfilled ==
  ASSUME BaseInv, DataInv, AcceptedIsUsed, NEW j \in Jobs, Stored(j), Holds(j), NEW p \in Plans, p = Task(j),
         NEW i, DiskDone(p, i, j)
  PROVE  Fulfilled(p)
<1>1. Planned(p) /\ Machine[p] \in VMs /\ NewMachine[p] \in VMs /\ DisksTypes /\ review[p] \in Input
  BY DiskPlans DEF BaseInv, RecoveriesFit, DisksTypes, Planned
<1>2. ASSUME Kind[p] \in Makers, NEW n \in 1..Count(p), NEW vm \in VMs, Uses(vm, Destination(p, n))
      PROVE  vm = Receiver(p) /\ definition[vm][Target(p, n)] = NewVolume[p][Target(p, n)] /\ Defined(vm)
  <2>1. Guarded(j)
    BY <1>2 DEF Guarded
  <2>2. PICK s \in Slots : definition[vm][s] = Destination(p, n) /\ Defined(vm)
    BY <1>2 DEF Uses
  <2>3. vm = Receiver(p) /\ s = Target(p, n)
    BY <2>1, <2>2 DEF DataInv, GuardedAreKept
  <2> QED
    BY <2>2, <2>3 DEF Destination
<1>3. CASE Kind[p] = "grow"
  <2>1. GrowState(p) = "grown"
    BY <1>3 DEF DiskDone, GrowDone, Disposals
  <2>2. AsReviewed(p) /\ volume[Source(p, 1)] = [SeenSource(p, 1) EXCEPT !.grown = TRUE]
    BY <2>1 DEF GrowState
  <2>3. SeenSource(p, 1) \in Volume
    BY <1>1, <1>3, HasTarget, SourceFacts DEF BaseInv
  <2>4. volume[Source(p, 1)].grown
    BY <2>2, <2>3 DEF Volume
  <2> QED
    BY <1>3, <2>2, <2>4 DEF Fulfilled
<1>4. CASE Kind[p] = "move"
  <2>1. MoveState(p) \in {"retargeted", "old-deleted"}
    BY <1>4 DEF DiskDone, MoveDone, Disposals
  <2>2. Uses(Machine[p], Destination(p, 1))
    BY <2>1 DEF MoveState
  <2>3. 1 \in 1..Count(p) /\ Chosen[p] = {Target(p, 1)}
    BY <1>4, HasTarget, OneTarget
  <2>4. Defined(Machine[p]) /\ definition[Machine[p]][Target(p, 1)] = NewVolume[p][Target(p, 1)]
    BY <1>1, <1>2, <1>4, <2>2, <2>3 DEF Makers
  <2> QED
    BY <1>4, <2>3, <2>4 DEF Fulfilled
<1>5. CASE Kind[p] = "clone"
  <2>1. CloneState(p) = "defined"
    BY <1>5 DEF DiskDone, CloneDone, Disposals
  <2>2. Defined(NewMachine[p]) /\ \A n \in 1..Count(p) : Uses(NewMachine[p], Destination(p, n))
    <3> DEFINE copies == {n \in 1..Count(p) : Present(Destination(p, n))}
    <3>1. Defined(NewMachine[p]) /\ copies = 1..Count(p) /\ \A n \in copies : Uses(NewMachine[p], Destination(p, n))
      BY <2>1 DEF CloneState
    <3> QED
      BY <3>1
  <2>3. ASSUME NEW s \in Chosen[p]
        PROVE  definition[NewMachine[p]][s] = NewVolume[p][s]
    <3>1. PICK n \in 1..Count(p) : Target(p, n) = s
      BY EveryTarget
    <3> QED
      BY <1>1, <1>2, <1>5, <2>2, <3>1 DEF Makers
  <2> QED
    BY <1>5, <2>2, <2>3 DEF Fulfilled
<1>6. CASE Kind[p] = "add"
  <2> DEFINE after == [review[p].definition EXCEPT ![Target(p, 1)] = Destination(p, 1)]
  <2>1. AddState(p) = "added"
    BY <1>6 DEF DiskDone, AdditionDone, Disposals
  <2>2. definition[Machine[p]] = after
    BY <2>1 DEF AddState
  <2>3. 1 \in 1..Count(p) /\ Chosen[p] = {Target(p, 1)} /\ Target(p, 1) \in Slots /\ Destination(p, 1) \in Volumes
    BY <1>6, HasTarget, OneTarget, ItemFacts
  <2>4. review[p].definition \in Definition
    BY <1>1 DEF Input
  <2>5. after \in Definition /\ after[Target(p, 1)] = Destination(p, 1)
    BY <2>3, <2>4 DEF Definition
  <2>6. Defined(Machine[p])
    BY <2>2, <2>5, DiskPlans DEF Defined
  <2> QED
    BY <1>6, <2>2, <2>3, <2>5, <2>6 DEF Fulfilled, Destination
<1>7. CASE Kind[p] = "remove"
  <2>1. ~Defined(Machine[p]) /\ RemovalState(p, Count(p))
    BY <1>7 DEF DiskDone, RemovalDone, Disposals
  <2>2. \A n \in 1..Count(p) : volume[Source(p, n)] = Absent
    BY <2>1, ChosenAre DEF RemovalState
  <2> QED
    BY <1>7, <2>1, <2>2 DEF Fulfilled, Present, Absent
<1>8. CASE Kind[p] = "accept"
  <2>1. disposition[review[p].of] = [by |-> p, job |-> j]
    BY <1>8 DEF DiskDone, DisposalDone, Disposals
  <2> QED
    BY <1>8, <2>1 DEF Fulfilled, AcceptedIsUsed
<1>9. CASE Kind[p] = "delete"
  <2>1. PICK a : a = review[p].of
    OBVIOUS
  <2>2. ~Present(Destination(a, 1)) /\ Defined(Machine[p])
    BY <1>9, <2>1 DEF DiskDone, DisposalDone, Disposals
  <2>3. Machine[a] = Machine[p] /\ Destination(a, 1) \in Volumes /\ Target(a, 1) \in Slots
    BY <1>9, <2>1, DisposalLocks DEF Disposals
  <2>4. Referenced(a) => Used(Destination(a, 1))
    BY <1>1, <2>3 DEF Referenced, Used, Uses
  <2>5. ~Referenced(a)
    BY <1>1, <2>2, <2>3, <2>4, UsedIsPresent DEF DataInv
  <2> QED
    BY <1>9, <2>1, <2>2, <2>5 DEF Fulfilled
<1>10. Kind[p] \notin {"grow", "move", "clone", "add", "remove", "accept", "delete"} => Fulfilled(p)
  BY DEF Fulfilled
<1> QED
  BY <1>3, <1>4, <1>5, <1>6, <1>7, <1>8, <1>9, <1>10

\* Execute says that nothing was done only of what is as it was reviewed.
LEMMA LeftAlone ==
  ASSUME BaseInv, DataInv, NEW j \in Jobs, At(j, "execute"), LeavesNothing(j), NEW p \in Plans, p = Task(j)
  PROVE  Unchanged(p)
<1>1. PlanOf(j) = p
  BY TaskFacts
<1>2. CASE Kind[p] = "grow"
  BY <1>1, <1>2, GrowBefore DEF LeavesNothing, Unchanged
<1>3. CASE Kind[p] = "move"
  BY <1>1, <1>3, MoveBefore, MoveCopied DEF LeavesNothing, Unchanged
<1>4. CASE Kind[p] \in {"clone", "add"}
  <2>1. work[j].at \in MakerStates
    BY <1>1, <1>4 DEF LeavesNothing, MakerStates
  <2> QED
    BY <1>4, <2>1 DEF DataInv, MakersSeeTheReview, Unchanged
<1> QED
  BY <1>1, <1>2, <1>3, <1>4 DEF LeavesNothing

\* The one step by which work ends so.
LEMMA NotDoneIsFailure ==
  ASSUME BaseInv, NEW j \in Jobs, Work(j), work'[j].at = "not-done"
  PROVE  LeavesNothing(j) /\ UNCHANGED disks
<1>1. DisksTypes /\ work[j].at # "not-done"
  BY ResultsEnd DEF BaseInv, Results
<1>2. ASSUME NEW at, Go(j, at)
      PROVE  at = "not-done"
  BY <1>1, <1>2 DEF Go, DisksTypes
<1>3. ASSUME NEW at, NEW i, GoTo(j, at, i)
      PROVE  at = "not-done"
  BY <1>1, <1>3 DEF GoTo, DisksTypes
<1>4. ~(StartGrow(j) \/ StartMove(j) \/ StartClone(j) \/ StartAddition(j) \/ StartRemoval(j))
  BY <1>3 DEF StartGrow, StartMove, StartClone, StartAddition, StartRemoval, Starts
<1>5. ~(AllocateMoved(j) \/ AllocateCloned(j) \/ AllocateAdded(j) \/ RecordAllocation(j) \/ Fill(j))
  BY <1>2 DEF AllocateMoved, AllocateCloned, AllocateAdded, Allocates, RecordAllocation, Fill
<1>6. ~(RecordCopy(j) \/ RecordRemoval(j))
  BY <1>2, <1>3 DEF RecordCopy, RecordRemoval
<1>7. ~(DefineMovedDisk(j) \/ DefineClone(j) \/ DefineAddedDisk(j) \/ RecordDefinition(j))
  BY <1>2 DEF DefineMovedDisk, DefineClone, DefineAddedDisk, Redefines, RecordDefinition
<1>8. ~(Resize(j) \/ RecordGrowth(j) \/ DeleteOldVolume(j) \/ EndMove(j) \/ RemoveDefinition(j))
  BY <1>2 DEF Resize, RecordGrowth, DeleteOldVolume, EndMove, RemoveDefinition
<1>9. ~(RecordUndefined(j) \/ IntendRemoval(j) \/ DeleteRemovalDisk(j))
  BY <1>2, <1>3 DEF RecordUndefined, IntendRemoval, DeleteRemovalDisk
<1>10. ~(CloseAddition(j) \/ DeleteUnreferencedDisk(j) \/ ConfirmDisposal(j))
  BY <1>2 DEF CloseAddition, DeleteUnreferencedDisk, ConfirmDisposal
<1>11. WorkFails(j)
  BY <1>4, <1>5, <1>6, <1>7, <1>8, <1>9, <1>10 DEF Work
<1> QED
  BY <1>2, <1>11 DEF WorkFails

LEMMA InitOutcomes == DisksInit => OutcomeInv
<1> SUFFICES ASSUME DisksInit PROVE OutcomeInv
  OBVIOUS
<1>1. \A j \in Jobs : ~Stored(j) /\ ~Assured(j) /\ ~Declined(j) /\ work[j].at # "not-done"
  BY DEF DisksInit, HandlersInit, Init, JournalInit, Stored, Assured, Declined, At, Idle, Idly, MutexFree
<1>2. \A a \in Plans : disposition[a] = NoDisposition
  BY DEF DisksInit
<1> QED
  BY <1>1, <1>2 DEF OutcomeInv, DispositionsNameJobs, AcceptedIsUsed, AssuredIsTrue, DeclinedIsTrue

\* A job with an outcome on its way is stored, and one that still runs has its locks.
LEMMA OutcomesAreOfJobs ==
  ASSUME BaseInv, NEW j \in Jobs
  PROVE  /\ Assured(j) => Stored(j)
         /\ Declined(j) \/ work[j].at = "not-done" => Stored(j) /\ Holds(j)
<1>1. RunnersHold /\ RequestIsCurrent /\ WorkIsRun
  BY DEF BaseInv, AcceptanceInv, DoubtInv, OwnershipInv, Ownership
<1> QED
  BY <1>1 DEF RunnersHold, RequestIsCurrent, WorkIsRun, Assured, Declined, At, Live

\* Only a disposition closes an addition, and it leaves the definition alone.
LEMMA DispositionWrites ==
  ASSUME BaseInv, NEW k \in Jobs, Work(k), NEW p \in Plans, p = Task(k)
  PROVE  /\ \/ UNCHANGED disposition
            \/ /\ disposition' = [disposition EXCEPT ![review[p].of] = [by |-> p, job |-> k]]
               /\ Kind[p] \in Disposals /\ DisposalValid(p)
         /\ Kind[p] \in Disposals => UNCHANGED definition
<1>1. PlanOf(k) = p /\ Fits(p, work[k])
  BY TaskFacts, WorkFrame
<1>2. CASE DefineMovedDisk(k) \/ DefineClone(k) \/ DefineAddedDisk(k)
  BY <1>1, <1>2 DEF DefineMovedDisk, DefineClone, DefineAddedDisk, Redefines, Does, Disposals
<1>3. CASE RemoveDefinition(k)
  BY <1>1, <1>3 DEF RemoveDefinition, In, Fits, Disposals
<1>4. CASE CloseAddition(k)
  BY <1>1, <1>4 DEF CloseAddition
<1>5. CASE ~(DefineMovedDisk(k) \/ DefineClone(k) \/ DefineAddedDisk(k) \/ RemoveDefinition(k) \/ CloseAddition(k))
  <2>1. UNCHANGED <<definition, disposition>>
    BY <1>5 DEF Work, StartGrow, StartMove, StartClone, StartAddition, StartRemoval, Starts, RecordAllocation,
       RecordCopy, RecordDefinition, RecordGrowth, EndMove, RecordUndefined, IntendRemoval, RecordRemoval,
       ConfirmDisposal, WorkFails, disks, AllocateMoved, AllocateCloned, AllocateAdded, Allocates, Fill, Resize,
       DeleteOldVolume, DeleteRemovalDisk, DeleteUnreferencedDisk
  <2> QED
    BY <2>1
<1> QED
  BY <1>2, <1>3, <1>4, <1>5

\* A step that changes neither definitions nor volumes.
LEMMA StillnessKeepsOutcomes ==
  ASSUME BaseInv, UNCHANGED <<definition, volume>>, \A q \in Plans : Planned(q) => review'[q] = review[q],
         NEW j \in Jobs, Stored(j), NEW p \in Plans, p = Task(j)
  PROVE  /\ Fulfilled(p) => Fulfilled(p)'
         /\ Unchanged(p) => Unchanged(p)'
         /\ Kind[p] = "accept" /\ Referenced(review[p].of) => Referenced(review[p].of)'
         /\ review'[p] = review[p]
<1>1. review'[p] = review[p]
  BY DEF BaseInv, RecoveriesFit
<1> QED
  BY <1>1, LocksKeepOutcomes

LEMMA PlanningKeepsOutcomes ==
  ASSUME BaseInv, OutcomeInv, UNCHANGED <<vars, work, disks>>, \A q \in Plans : Planned(q) => review'[q] = review[q]
  PROVE  OutcomeInv'
<1>1. UNCHANGED <<jobs, locks, runner, request, work, disposition>>
  BY DEF vars, journal, volatile, disks
<1>2. ASSUME NEW j \in Jobs
      PROVE  /\ Stored(j)' <=> Stored(j)
             /\ Holds(j)' <=> Holds(j)
             /\ Task(j)' = Task(j)
             /\ Assured(j)' <=> Assured(j)
             /\ Declined(j)' <=> Declined(j)
  BY <1>1 DEF Stored, Holds, Resource, Task, Assured, Declined, At, MutexFree
<1>3. ASSUME NEW j \in Jobs, NEW p \in Plans, Stored(j), p = Task(j)
      PROVE  /\ Fulfilled(p) => Fulfilled(p)'
             /\ Unchanged(p) => Unchanged(p)'
             /\ Kind[p] = "accept" /\ Referenced(review[p].of) => Referenced(review[p].of)'
             /\ review'[p] = review[p]
  BY <1>3, StillnessKeepsOutcomes DEF disks
<1>4. DispositionsNameJobs'
  BY <1>1 DEF OutcomeInv, DispositionsNameJobs, Stored
<1>5. AcceptedIsUsed'
  BY <1>1, <1>2, <1>3 DEF OutcomeInv, AcceptedIsUsed
<1>6. AssuredIsTrue'
  BY <1>2, <1>3, OutcomesAreOfJobs DEF OutcomeInv, AssuredIsTrue
<1>7. DeclinedIsTrue'
  BY <1>1, <1>2, <1>3, OutcomesAreOfJobs DEF OutcomeInv, DeclinedIsTrue
<1> QED
  BY <1>4, <1>5, <1>6, <1>7 DEF OutcomeInv

LEMMA WorkKeepsOutcomes ==
  ASSUME BaseInv, DataInv, OutcomeInv, NEW k \in Jobs, Work(k)
  PROVE  OutcomeInv'
<1>1. /\ UNCHANGED <<jobs, locks, runner, request, review>> /\ At(k, "execute")
      /\ \A m \in Jobs : m # k => work'[m] = work[m]
      /\ Stored(k) /\ Task(k) \in Plans /\ DisksTypes
  BY WorkFrame, WorkKeeps, TaskFacts DEF BaseInv, KeepsEngine, vars, volatile
<1>2. ASSUME NEW j \in Jobs
      PROVE  /\ Stored(j)' <=> Stored(j)
             /\ Holds(j)' <=> Holds(j)
             /\ Task(j)' = Task(j)
             /\ Assured(j)' <=> Assured(j)
             /\ Declined(j)' <=> Declined(j)
  BY <1>1 DEF Stored, Holds, Resource, Task, Assured, Declined, At, MutexFree
<1>3. ASSUME NEW j \in Jobs, NEW p \in Plans, Stored(j), Holds(j), p = Task(j), j # k
      PROVE  /\ Fulfilled(p) => Fulfilled(p)'
             /\ Unchanged(p) => Unchanged(p)'
             /\ Kind[p] = "accept" /\ Referenced(review[p].of) => Referenced(review[p].of)'
  <2>1. /\ \A vm \in VMs : vm \in ResourceIDs[p] => definition'[vm] = definition[vm]
        /\ \A v \in Volumes : v \in ResourceIDs[p] => volume'[v] = volume[v]
        /\ review'[p] = review[p]
    BY <1>1, <1>3, LockedStay
  <2> QED
    BY <1>3, <2>1, LocksKeepOutcomes
<1>4. PICK q \in Plans : q = Task(k)
  BY <1>1
<1>5. /\ \/ UNCHANGED disposition
         \/ /\ disposition' = [disposition EXCEPT ![review[q].of] = [by |-> q, job |-> k]]
            /\ Kind[q] \in Disposals /\ DisposalValid(q)
      /\ Kind[q] \in Disposals => UNCHANGED definition
  BY <1>4, DispositionWrites
<1>6. DispositionsNameJobs'
  <2>1. \A a \in Plans : disposition'[a] = disposition[a] \/ disposition'[a] = [by |-> q, job |-> k]
    BY <1>1, <1>5 DEF DisksTypes
  <2> QED
    BY <1>1, <2>1 DEF OutcomeInv, DispositionsNameJobs, Stored
<1>7. AcceptedIsUsed'
  <2> SUFFICES ASSUME NEW j \in Jobs, NEW p \in Plans, p = Task(j), Stored(j), Holds(j), Kind[p] = "accept",
                      disposition'[review[p].of] = [by |-> p, job |-> j]
               PROVE  Referenced(review[p].of)'
    BY <1>1, <1>2 DEF AcceptedIsUsed
  <2>1. PICK a : a = review[p].of
    OBVIOUS
  <2>2. a \in Plans
    BY <2>1, DisposalLocks DEF Disposals
  <2>3. CASE j # k
    <3>1. disposition[a] = [by |-> p, job |-> j]
      BY <1>1, <1>5, <2>1, <2>2, <2>3 DEF DisksTypes
    <3> QED
      BY <1>3, <2>1, <2>3, <3>1 DEF OutcomeInv, AcceptedIsUsed
  <2>4. CASE j = k
    <3>1. p = q /\ UNCHANGED definition
      BY <1>4, <1>5, <2>4 DEF Disposals
    <3>2. Referenced(a)
      <4>1. CASE UNCHANGED disposition
        BY <2>1, <4>1 DEF OutcomeInv, AcceptedIsUsed
      <4>2. CASE DisposalValid(q)
        BY <2>1, <3>1, <4>2 DEF DisposalValid
      <4> QED
        BY <1>5, <4>1, <4>2
    <3>3. review'[p].of = a
      BY <1>1, <2>1
    <3> QED
      BY <2>1, <3>1, <3>2, <3>3 DEF Referenced, Defined
  <2> QED
    BY <2>3, <2>4
<1>8. AssuredIsTrue'
  <2> SUFFICES ASSUME NEW j \in Jobs, NEW p \in Plans, p = Task(j), Assured(j), Holds(j)
               PROVE  Fulfilled(p)'
    BY <1>2 DEF AssuredIsTrue
  <2>1. j # k /\ Stored(j)
    BY <1>1, AssuredRest, OutcomesAreOfJobs DEF BaseInv
  <2> QED
    BY <1>3, <2>1 DEF OutcomeInv, AssuredIsTrue
<1>9. DeclinedIsTrue'
  <2> SUFFICES ASSUME NEW j \in Jobs, NEW p \in Plans, p = Task(j), Declined(j) \/ work'[j].at = "not-done"
               PROVE  Unchanged(p)'
    BY <1>2 DEF DeclinedIsTrue
  <2>1. CASE j # k
    <3>1. Declined(j) \/ work[j].at = "not-done"
      BY <1>1, <2>1
    <3> QED
      BY <1>3, <2>1, <3>1, OutcomesAreOfJobs DEF OutcomeInv, DeclinedIsTrue
  <2>2. CASE j = k
    <3>1. LeavesNothing(k) /\ UNCHANGED disks
      BY <1>1, <2>2, AssuredRest, NotDoneIsFailure DEF BaseInv
    <3>2. Unchanged(p)
      BY <1>1, <2>2, <3>1, LeftAlone
    <3> QED
      BY <1>1, <2>2, <3>1, <3>2, StillnessKeepsOutcomes DEF disks
  <2> QED
    BY <2>1, <2>2
<1> QED
  BY <1>6, <1>7, <1>8, <1>9 DEF OutcomeInv

LEMMA EngineKeepsOutcomes ==
  ASSUME BaseInv, DataInv, OutcomeInv, EngineMoves, UNCHANGED disks
  PROVE  OutcomeInv'
<1>1. /\ AcceptanceInv /\ DisksTypes /\ [Next]_vars /\ UNCHANGED <<review, definition, volume, disposition>>
      /\ \A j \in Jobs : work'[j] = work[j] \/ work'[j].at = "idle"
  BY EngineFrame, EngineMovesEngine DEF BaseInv, disks
<1>2. \A j \in Jobs : Stored(j) => /\ Stored(j)' /\ jobs'[j].planID = jobs[j].planID
                                   /\ Holds(j)' => Holds(j)
  BY <1>1, JobsAreKept, StoredJobsGainNothing
<1>3. ASSUME NEW j \in Jobs, NEW p \in Plans, Stored(j), p = Task(j)
      PROVE  /\ Fulfilled(p) => Fulfilled(p)'
             /\ Unchanged(p) => Unchanged(p)'
             /\ Kind[p] = "accept" /\ Referenced(review[p].of) => Referenced(review[p].of)'
  BY <1>1, <1>3, StillnessKeepsOutcomes
<1>4. DispositionsNameJobs'
  <2> SUFFICES ASSUME NEW a \in Plans, disposition'[a] # NoDisposition
               PROVE  jobs'[disposition'[a].job] # NoRow
    BY DEF DispositionsNameJobs, Stored
  <2>1. PICK j : j = disposition[a].job
    OBVIOUS
  <2>2. disposition[a] # NoDisposition /\ disposition'[a].job = j
    BY <1>1, <2>1
  <2>3. j \in Jobs /\ Stored(j)
    BY <1>1, <2>1, <2>2 DEF OutcomeInv, DispositionsNameJobs, DisksTypes, Disposition
  <2> QED
    BY <1>2, <2>2, <2>3 DEF Stored
<1>5. AcceptedIsUsed'
  <2> SUFFICES ASSUME NEW j \in Jobs, NEW p \in Plans, jobs'[j].planID = p, Stored(j)', Holds(j)', Kind[p] = "accept",
                      disposition'[review'[p].of] = [by |-> p, job |-> j]
               PROVE  Referenced(review[p].of)'
    BY <1>1 DEF AcceptedIsUsed, Task
  <2>1. disposition[review[p].of] = [by |-> p, job |-> j]
    BY <1>1
  <2>2. CASE Stored(j)
    <3>1. p = Task(j) /\ Holds(j)
      BY <1>2, <2>2 DEF Task
    <3>2. Referenced(review[p].of)
      BY <2>1, <2>2, <3>1 DEF OutcomeInv, AcceptedIsUsed
    <3> QED
      BY <1>3, <2>2, <3>1, <3>2
  <2>3. CASE ~Stored(j)
    <3>1. Planned(p)
      BY <1>1, <2>3, AcceptedIsValid
    <3>2. review[p].of \in Plans
      BY <1>1, <3>1 DEF DisksTypes, Planned, Input
    <3>3. [by |-> p, job |-> j] # NoDisposition
      BY DiskNulls DEF Disposition
    <3>4. Stored(j)
      BY <2>1, <3>2, <3>3 DEF OutcomeInv, DispositionsNameJobs
    <3> QED
      BY <2>3, <3>4
  <2> QED
    BY <2>2, <2>3
<1>6. AssuredIsTrue'
  <2> SUFFICES ASSUME NEW j \in Jobs, NEW p \in Plans, jobs'[j].planID = p, Assured(j)', Holds(j)'
               PROVE  Fulfilled(p)'
    BY DEF AssuredIsTrue, Task
  <2>1. Stored(j) /\ (Assured(j) \/ \E i : DiskDone(Task(j), i, j))
    BY <1>1, AssuredComes
  <2>2. p = Task(j) /\ Holds(j)
    BY <1>2, <2>1 DEF Task
  <2>3. CASE Assured(j)
    BY <1>3, <2>1, <2>2, <2>3 DEF OutcomeInv, AssuredIsTrue
  <2>4. CASE \E i : DiskDone(Task(j), i, j)
    <3>1. PICK i : DiskDone(p, i, j)
      BY <2>2, <2>4
    <3>2. Fulfilled(p)
      BY <2>1, <2>2, <3>1, DoneIsFulfilled DEF OutcomeInv
    <3> QED
      BY <1>3, <2>1, <2>2, <3>2
  <2> QED
    BY <2>1, <2>3, <2>4
<1>7. DeclinedIsTrue'
  <2> SUFFICES ASSUME NEW j \in Jobs, NEW p \in Plans, jobs'[j].planID = p, Declined(j)' \/ work'[j].at = "not-done"
               PROVE  Unchanged(p)'
    BY DEF DeclinedIsTrue, Task
  <2>1. Declined(j) \/ work[j].at = "not-done"
    BY <1>1, DeclinedComes
  <2>2. Stored(j)
    BY <2>1, OutcomesAreOfJobs
  <2>3. p = Task(j)
    BY <1>2, <2>2 DEF Task
  <2> QED
    BY <1>3, <2>1, <2>2, <2>3 DEF OutcomeInv, DeclinedIsTrue
<1> QED
  BY <1>4, <1>5, <1>6, <1>7 DEF OutcomeInv

LEMMA NextOutcomes ==
  ASSUME BaseInv, DataInv, OutcomeInv, [DisksNext]_diskVars
  PROVE  OutcomeInv'
<1>1. CASE UNCHANGED diskVars
  <2>1. UNCHANGED <<vars, work, disks>> /\ UNCHANGED review
    BY <1>1 DEF diskVars
  <2> QED
    BY <2>1, PlanningKeepsOutcomes
<1>2. ASSUME NEW p \in Plannable, PlanSteps(p)
      PROVE  OutcomeInv'
  <2>1. UNCHANGED <<vars, work, disks>> /\ \A q \in Plans : Planned(q) => review'[q] = review[q]
    BY <1>2, PlansArePlans, PlanKeeps
  <2> QED
    BY <2>1, PlanningKeepsOutcomes
<1>3. ASSUME NEW j \in Jobs, Work(j)
      PROVE  OutcomeInv'
  BY <1>3, WorkKeepsOutcomes
<1>4. CASE EngineMoves /\ UNCHANGED disks
  BY <1>4, EngineKeepsOutcomes
<1> QED
  BY <1>1, <1>2, <1>3, <1>4, StepKinds

LEMMA OutcomesHold == DisksSpec => [](BaseInv /\ DataInv /\ OutcomeInv)
<1>1. DisksInit => BaseInv /\ DataInv /\ OutcomeInv
  BY InitBase, InitData, InitOutcomes
<1>2. BaseInv /\ DataInv /\ OutcomeInv /\ [DisksNext]_diskVars => (BaseInv /\ DataInv /\ OutcomeInv)'
  BY NextBase, NextData, NextOutcomes
<1> QED
  BY <1>1, <1>2, PTL DEF DisksSpec

\* A job that succeeds while it has its locks has brought about what was reviewed, and
\* one that fails after Execute has changed nothing (Reconcile and operations.NotDone
\* in the disk handlers, Engine.run, Engine.Reconcile).
THEOREM DiskReportsAreTrue == DisksSpec => DiskOutcomesAreTrue
<1> DEFINE Tells ==
             \A j \in Jobs :
               Stored(j) /\ Holds(j) /\ jobs'[j].state # jobs[j].state =>
                 /\ jobs'[j].state = "succeeded" => Achieved(j)
                 /\ jobs'[j].state = "failed" /\ At(j, "returned") => Untouched(j)
<1>1. BaseInv /\ DataInv /\ OutcomeInv /\ [DisksNext]_diskVars => [Tells]_diskVars
  <2> SUFFICES ASSUME BaseInv, OutcomeInv, [DisksNext]_diskVars, NEW j \in Jobs, Stored(j), Holds(j),
                      jobs'[j].state # jobs[j].state
               PROVE  /\ jobs'[j].state = "succeeded" => Achieved(j)
                      /\ jobs'[j].state = "failed" /\ At(j, "returned") => Untouched(j)
    OBVIOUS
  <2>1. jobs' # jobs
    OBVIOUS
  <2>2. EngineMoves
    <3>1. CASE UNCHANGED diskVars
      BY <2>1, <3>1 DEF diskVars, vars, journal
    <3>2. ASSUME NEW p \in Plannable, PlanSteps(p)
          PROVE  FALSE
      BY <2>1, <3>2, PlansFrame DEF vars, journal
    <3>3. ASSUME NEW k \in Jobs, Work(k)
          PROVE  FALSE
      BY <2>1, <3>3, WorkFrame DEF KeepsEngine, vars, journal
    <3> QED
      BY <3>1, <3>2, <3>3, StepKinds
  <2>3. /\ jobs'[j].state = "succeeded" => Assured(j)
        /\ jobs'[j].state = "failed" /\ At(j, "returned") => Declined(j)
    BY <2>2, OutcomesHaveReason DEF BaseInv
  <2>4. Task(j) \in Plans
    BY RowOfStored DEF Task, BaseInv, AcceptanceInv, DoubtInv, OwnershipInv, TypeOK, Row
  <2>5. PICK p \in Plans : p = Task(j)
    BY <2>4
  <2>6. /\ Assured(j) => Fulfilled(p)
        /\ Declined(j) => Unchanged(p)
    BY <2>5 DEF OutcomeInv, AssuredIsTrue, DeclinedIsTrue
  <2> QED
    BY <2>3, <2>5, <2>6, AchievedIs
<1>2. [][Tells]_diskVars <=> DiskOutcomesAreTrue
  BY DEF DiskOutcomesAreTrue
<1> HIDE DEF Tells
<1> QED
  BY <1>1, <1>2, OutcomesHold, PTL DEF DisksSpec

=============================================================================
