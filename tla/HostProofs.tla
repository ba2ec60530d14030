----------------------------- MODULE HostProofs -----------------------------
(***************************************************************************)
(* Host implements Engine, hence keeps the engine's promises for every     *)
(* kind of operation; and what these promises are for: no network runs     *)
(* without its filter, no two networks share a subnet, nobody loses the    *)
(* access to a disk they were told they have, and a guest sees the scripts *)
(* of a recipe once, in order, and of one recipe at a time. Then what the  *)
(* handlers keep of a machine: a sealed set holds one state of it, and     *)
(* images that are offered to a new machine are those that were prepared.  *)
(***************************************************************************)
EXTENDS Host, EngineProofs

-----------------------------------------------------------------------------
(* What the steps of the handlers leave alone. *)

\* Execute of job j has gone on, and no other job's; Go and GoTo say how far.
Progresses(j) ==
  /\ DOMAIN work' = DOMAIN work
  /\ \A m \in DOMAIN work : "at" \in DOMAIN work[m] => "at" \in DOMAIN work'[m]
  /\ \A m \in DOMAIN work : m # j => work'[m] = work[m]

LEMMA GoProgresses ==
  ASSUME NEW j, NEW at, Go(j, at)
  PROVE  Progresses(j)
BY DEF Go, Progresses

LEMMA GoToProgresses ==
  ASSUME NEW j, NEW at, NEW i, GoTo(j, at, i)
  PROVE  Progresses(j)
BY DEF GoTo, Progresses

LEMMA StayProgresses ==
  ASSUME NEW j, UNCHANGED work
  PROVE  Progresses(j)
BY DEF Progresses

\* The handlers other than those of networks and of access to disks.
LEMMA RecipeFrame ==
  ASSUME NEW j, RecipeWork(j) \/ \E s \in Stages : ScriptEnds(j, s)
  PROVE  KeepsEngine /\ Progresses(j)
BY GoProgresses, StayProgresses
   DEF RecipeWork, IntendStage, SendScript, CancelScript, RecordStage, EndStage, RecipeStep, ScriptEnds

LEMMA CaptureFrame ==
  ASSUME NEW j, CaptureWork(j)
  PROVE  KeepsEngine /\ Progresses(j)
BY GoProgresses, GoToProgresses, StayProgresses
   DEF CaptureWork, CaptureStep,
       StartCapture, CheckSource, ConvertDisk, RecheckSource, RecordPublication,
       NamePartial, WriteMembers, RenameSet, InspectPublished, RemoveStaging,
       IntendBackup, Upload, RecordSnapshot, IntendRoundtrip, DownloadRoundtrip, RecordRoundtrip,
       IntendRecovery, DownloadSet, SealSet, RecordRecovery,
       IntendRestore, RestoreVolume, RecordVolume, DefineRestored, ObserveSet, ObserveRecovery

LEMMA ImportFrame ==
  ASSUME NEW j, ImportWork(j)
  PROVE  KeepsEngine /\ Progresses(j)
BY GoProgresses, StayProgresses
   DEF ImportWork, ImportStep, StartPreparation, CopyPiece, RecheckOriginal, RecordArtifact,
       PublishCopies, SyncParent, CancelPreparation, RecordDiscard, BeginRemoval, EndRemoval

LEMMA MachineFrame ==
  ASSUME NEW j, MachineWork(j)
  PROVE  KeepsEngine /\ Progresses(j)
BY GoProgresses, StayProgresses
   DEF MachineWork, MachineStep, LiveStep, CallMachine, CallAnswered, BootFails,
       AskToShutDown, SeeShutDown, GiveUpShutDown, CheckEdit, DefineEdit, ReadEditBack,
       SetProcessors, AskForMemory, SeeMemory, AskForMemoryBack, SeeMemoryBack,
       LiveRefused, LiveRechecked, Subscribe, ArmReboot, RequestReboot, RecordReboot,
       RemoveDefinition, RecordRemoval

LEMMA PoolFrame ==
  ASSUME NEW j, PoolWork(j)
  PROVE  KeepsEngine /\ Progresses(j)
BY GoProgresses, StayProgresses
   DEF PoolWork, PoolStep, CheckPool, ReservePool, DefinePool, StartPool, SetPoolAutostart, ReadPoolBack

LEMMA ConfigurationFrame ==
  ASSUME NEW j, ConfigurationWork(j)
  PROVE  KeepsEngine /\ Progresses(j)
BY GoProgresses, StayProgresses
   DEF ConfigurationWork, ConfigurationStep, ReadyVolumes, CheckDefinition, ReadBase,
       DefineConfiguration, ReadDefinitionBack

LEMMA NetworkFrame ==
  ASSUME NEW j, NetworkWork(j)
  PROVE  KeepsEngine /\ Progresses(j)
BY GoProgresses, StayProgresses
   DEF NetworkWork, NetworkStep, CheckSubnet, ReserveSubnet, DefineNetwork,
       AskForFilter, CheckFilter, ActivateNetwork, Asks

LEMMA AccessFrame ==
  ASSUME NEW j, AccessWork(j)
  PROVE  KeepsEngine /\ Progresses(j)
BY GoProgresses, StayProgresses
   DEF AccessWork, AccessStep, CancelAccess, AskForAccess, ObserveAccess, StoreAccessReceipt, Asks

\* The helper lets the job it works for know, if that still waits.
LEMMA HelperFrame ==
  ASSUME NetworkHelper \/ AccessHelper
  PROVE  /\ KeepsEngine /\ Progresses(call.job)
         /\ \/ UNCHANGED work
            \/ At(call.job, "execute") /\ (Go(call.job, "ok") \/ Go(call.job, "error"))
<1>1. KeepsEngine
  BY DEF NetworkHelper, IntendFilter, IntendRule, AddRule, FilterDone, FilterBreaks, FiltersFor,
         AccessHelper, IntendAccess, SetACL, RecordAccess, AccessBreaks, SetsFor
<1>2. \/ UNCHANGED work
      \/ At(call.job, "execute") /\ (Go(call.job, "ok") \/ Go(call.job, "error"))
  BY DEF NetworkHelper, IntendFilter, IntendRule, AddRule, FilterDone, FilterBreaks,
         AccessHelper, IntendAccess, SetACL, RecordAccess, AccessBreaks, Answers, Breaks, In
<1> QED
  BY <1>1, <1>2, GoProgresses, StayProgresses

LEMMA ChangesFrame ==
  ASSUME HostChanges
  PROVE  /\ KeepsEngine
         /\ ~(NetworkHelper \/ AccessHelper) => UNCHANGED work
<1>1. CASE NetworkHelper \/ AccessHelper
  BY <1>1, HelperFrame
<1>2. CASE ~(NetworkHelper \/ AccessHelper)
  BY <1>2 DEF HostChanges, ReloadFirewall, GuestWrites, EditSource, GuestActs, OthersStartPool, OthersMeddle,
              KeepsEngine
<1> QED
  BY <1>1, <1>2

LEMMA WorkFrame ==
  ASSUME NEW j, HostWork(j)
  PROVE  Stored(j) /\ KeepsEngine /\ Progresses(j)
BY RecipeFrame, CaptureFrame, ImportFrame, MachineFrame, PoolFrame, ConfigurationFrame,
   NetworkFrame, AccessFrame DEF HostWork, IsAbout

LEMMA PlansFrame ==
  ASSUME NEW p, HostPlans(p)
  PROVE  /\ UNCHANGED <<vars, work>> /\ ~Planned(p)
         /\ \E input : review' = [review EXCEPT ![p] = input]
<1>1. \E input : StorePlan(p, input)
  BY DEF HostPlans, PlanNetwork, PlanNetworkResume, PlanGrant, PlanRevocation, PlanRecipe, PlanCapture,
         PlanFromSet, PlanRecovery, PlanPreparation, PlanDiscard, PlanMachine, PlanPool, PlanConfiguration
<1> QED
  BY <1>1 DEF StorePlan

-----------------------------------------------------------------------------
(* Every step of the host is a step of the engine or none. *)

\* The engine's own steps, with the answers of the handlers.
EngineMoves ==
  \/ \E j \in Jobs : HostWorkFails(j) \/ ExecuteReturns(j) \/ EngineSteps(j, HostValid, HostDone)
  \/ ProcessSteps(HostDone)

LEMMA InitImplements == HostInit => Init
BY DEF HostInit, HandlersInit

LEMMA EngineMovesEngine ==
  ASSUME EngineMoves
  PROVE  UNCHANGED vars \/ Next
<1>1. ASSUME NEW j \in Jobs, HostWorkFails(j)
      PROVE  UNCHANGED vars
  BY <1>1 DEF HostWorkFails, KeepsEngine
<1>2. ASSUME NEW j \in Jobs, ExecuteReturns(j)
      PROVE  Next
  <2>1. \E outcome \in Outcome \ {"none"} : Execute(j, outcome)
    BY <1>2 DEF ExecuteReturns, Outcome, Results
  <2> QED
    BY <2>1 DEF Next, Run
<1>3. ASSUME NEW j \in Jobs, EngineSteps(j, HostValid, HostDone)
      PROVE  Next
  <2>1. CASE Applied(j, HostValid)
    BY <2>1 DEF Applied, Made, Next
  <2> QED
    BY <1>3, <2>1 DEF EngineSteps, Next, Run
<1>4. CASE ProcessSteps(HostDone)
  BY <1>4 DEF ProcessSteps, Next
<1> QED
  BY <1>1, <1>2, <1>3, <1>4 DEF EngineMoves

LEMMA StepImplements == [HostNext]_hostVars => [Next]_vars
<1> SUFFICES ASSUME [HostNext]_hostVars
             PROVE  UNCHANGED vars \/ Next
  OBVIOUS
<1>1. CASE UNCHANGED hostVars
  BY <1>1 DEF hostVars
<1>2. ASSUME NEW p \in Plannable, HostPlans(p)
      PROVE  UNCHANGED vars
  BY <1>2, PlansFrame
<1>3. ASSUME NEW j \in Jobs, HostWork(j)
      PROVE  UNCHANGED vars
  BY <1>3, WorkFrame DEF KeepsEngine
<1>4. CASE HostChanges
  BY <1>4, ChangesFrame DEF KeepsEngine
<1>5. CASE EngineMoves
  BY <1>5, EngineMovesEngine
<1>6. CASE PowerLoss
  BY <1>6 DEF PowerLoss, Next
<1> QED
  BY <1>1, <1>2, <1>3, <1>4, <1>5, <1>6 DEF HostNext, EngineMoves

\* Whatever the jobs are about, they run as jobs of the engine (Execute, Validate
\* and Reconcile of the handlers called by Engine.run).
THEOREM HostImplementsEngine == HostSpec => Spec
BY InitImplements, StepImplements, PTL DEF HostSpec, Spec

\* What the engine promises holds on the host: jobs that share a resource never
\* run together, and one whose effect is in doubt keeps its resources (Engine.run,
\* Store.Update).
THEOREM HostJobsAreSafe == HostSpec => [](RunnersAreExclusive /\ DoubtKeepsLocks)
BY HostImplementsEngine, Exclusion, DoubtIsGuarded, PTL

-----------------------------------------------------------------------------
(* What every handler relies on: a stored job has a stored plan, whose       *)
(* review is what it was, and nothing was done for a job before it was       *)
(* stored.                                                                   *)

WorkShape ==
  /\ DOMAIN work = Jobs /\ DOMAIN review = Plans
  /\ \A j \in Jobs : "at" \in DOMAIN work[j]

WorkIsStored == \A j \in Jobs : ~Stored(j) => work[j].at = "idle"

JobsArePlanned == \A j \in Jobs : Stored(j) => Planned(jobs[j].planID)

HandlersInv == AcceptanceInv /\ WorkShape /\ WorkIsStored /\ JobsArePlanned

LEMMA UpdateKeeps ==
  ASSUME TypeOK, NEW i, NEW row, Update(i, row), NEW j \in Jobs
  PROVE  Stored(j)' => Stored(j)
BY DEF Update, Stored, TypeOK, JournalTypeOK

\* An accepted job is that of a plan that was made.
LEMMA AcceptedWasMade ==
  ASSUME TypeOK, EngineMoves, NEW j \in Jobs, ~Stored(j), Stored(j)'
  PROVE  Planned(jobs'[j].planID)
<1>1. CASE \E i \in Jobs : Applied(i, HostValid)
  <2>1. PICK i \in Jobs, p \in Made, k \in Keys, c \in Jobs \cup {NoJob} :
          \/ Apply(i, k, p)
          \/ c \in Jobs /\ ApplyRecovery(i, k, p, c)
    BY <1>1 DEF Applied
  <2>2. CASE Apply(i, k, p)
    BY <2>1, <2>2 DEF Apply, Accept, Stored, NewRow, Made, TypeOK, JournalTypeOK
  <2>3. CASE c \in Jobs /\ ApplyRecovery(i, k, p, c)
    <3>1. c # i /\ Stored(c) /\ jobs'[i] = NewRow(p, c) /\ \A m \in Jobs \ {i, c} : jobs'[m] = jobs[m]
      BY <2>3 DEF ApplyRecovery, AcceptRecovery, Recoverable, TypeOK, JournalTypeOK
    <3> QED
      BY <3>1 DEF Stored, NewRow, Made
  <2> QED
    BY <2>1, <2>2, <2>3
<1>2. CASE ~(\E i \in Jobs : Applied(i, HostValid))
  <2>1. jobs' = jobs \/ \E i, row : Update(i, row)
    BY <1>2 DEF EngineMoves, HostWorkFails, KeepsEngine, ExecuteReturns, Execute, EngineSteps, ProcessSteps, Boundary,
         ValidateFails, RecordIntent, ExecuteFailed, StartVerifying, StepVerified, StepNotVerified, Finish,
         CancelRead, ReconcileRead, Recover, CancelWrite, ReconcileObserve, ReconcileSettle, RequestFails,
         Open, Serve, Crash, Return, Continue, vars, journal
  <2> QED
    BY <2>1, UpdateKeeps DEF Stored
<1> QED
  BY <1>1, <1>2

\* How far Execute of a job is changes only when its handler does something, when
\* what it does ends, and when the process dies.
LEMMA WorkStep ==
  ASSUME WorkShape, HostNext
  PROVE  /\ DOMAIN work' = Jobs
         /\ \A j \in Jobs :
              /\ "at" \in DOMAIN work'[j]
              /\ \/ work'[j] = work[j]
                 \/ Stored(j) /\ HostWork(j)
                 \/ At(j, "execute") /\ work'[j].at \in {"ok", "error"}
                 \/ work'[j].at = "idle"
<1> DEFINE Shape == /\ DOMAIN work' = Jobs
                    /\ \A j \in Jobs :
                         /\ "at" \in DOMAIN work'[j]
                         /\ \/ work'[j] = work[j]
                            \/ Stored(j) /\ HostWork(j)
                            \/ At(j, "execute") /\ work'[j].at \in {"ok", "error"}
                            \/ work'[j].at = "idle"
<1> SUFFICES Shape
  OBVIOUS
<1>1. CASE UNCHANGED work
  BY <1>1 DEF WorkShape
<1>2. ASSUME NEW j \in Jobs, HostWork(j)
      PROVE  Shape
  BY <1>2, WorkFrame DEF Progresses, WorkShape
<1>3. ASSUME NEW i, NEW at \in {"ok", "error"}, At(i, "execute"), Go(i, at)
      PROVE  Shape
  <2>1. Progresses(i)
    BY <1>3, GoProgresses
  <2>2. i \in Jobs => work'[i].at = at
    BY <1>3 DEF Go, WorkShape
  <2> QED
    BY <1>3, <2>1, <2>2 DEF Progresses, WorkShape
<1>4. ASSUME work' = [j \in Jobs |-> Idly]
      PROVE  Shape
  BY <1>4 DEF Idly
<1>5. ASSUME NEW j \in Jobs, ExecuteReturns(j)
      PROVE  Shape
  BY <1>5 DEF ExecuteReturns, Idly, WorkShape
<1>6. CASE \E p \in Plannable : HostPlans(p)
  BY <1>1, <1>6, PlansFrame
<1>7. CASE HostChanges
  BY <1>1, <1>3, <1>7, ChangesFrame, HelperFrame
<1>8. CASE EngineMoves
  BY <1>1, <1>3, <1>4, <1>5, <1>8 DEF EngineMoves, HostWorkFails, Busy, EngineSteps, ProcessSteps
<1>9. CASE PowerLoss
  BY <1>4, <1>9 DEF PowerLoss
<1> QED
  BY <1>2, <1>6, <1>7, <1>8, <1>9 DEF HostNext, EngineMoves

\* A stored plan is never stored again, so what was reviewed stays.
LEMMA ReviewsAreKept ==
  ASSUME WorkShape, HostNext
  PROVE  DOMAIN review' = Plans /\ \A p \in Plans : Planned(p) => review'[p] = review[p]
<1>1. ASSUME NEW p \in Plannable, HostPlans(p)
      PROVE  DOMAIN review' = Plans /\ \A q \in Plans : Planned(q) => review'[q] = review[q]
  BY <1>1, PlansFrame DEF WorkShape
<1>2. CASE UNCHANGED review
  BY <1>2 DEF WorkShape
<1>3. ASSUME NEW j \in Jobs, HostWork(j)
      PROVE  UNCHANGED review
  BY <1>3, WorkFrame DEF KeepsEngine
<1>4. CASE HostChanges
  BY <1>2, <1>4, ChangesFrame DEF KeepsEngine
<1>5. CASE EngineMoves
  BY <1>2, <1>5 DEF EngineMoves, HostWorkFails, KeepsEngine, ExecuteReturns, EngineSteps, ProcessSteps
<1>6. CASE PowerLoss
  BY <1>2, <1>6 DEF PowerLoss
<1> QED
  BY <1>1, <1>2, <1>3, <1>4, <1>5, <1>6 DEF HostNext, EngineMoves

LEMMA ReviewOfStored ==
  ASSUME HandlersInv, NEW j \in Jobs, Stored(j)
  PROVE  jobs[j].planID \in Plans /\ Planned(jobs[j].planID)
BY RowOfStored DEF HandlersInv, AcceptanceInv, DoubtInv, OwnershipInv, TypeOK, JobsArePlanned, Row

LEMMA InitHandlers == HostInit => HandlersInv
<1> SUFFICES ASSUME HostInit PROVE HandlersInv
  OBVIOUS
<1>1. AcceptanceInv
  BY InitImplements, InitAcceptance
<1>2. \A j \in Jobs : ~Stored(j)
  BY DEF HostInit, HandlersInit, Init, JournalInit, Stored
<1>3. WorkShape /\ WorkIsStored
  BY DEF HostInit, HandlersInit, WorkShape, WorkIsStored, Idly
<1> QED
  BY <1>1, <1>2, <1>3 DEF HandlersInv, JobsArePlanned

LEMMA NextHandlers ==
  ASSUME HandlersInv, [HostNext]_hostVars
  PROVE  HandlersInv'
<1>1. [Next]_vars /\ AcceptanceInv /\ AcceptanceInv' /\ TypeOK /\ WorkShape
  BY StepImplements, NextAcceptance DEF HandlersInv, AcceptanceInv, DoubtInv, OwnershipInv
<1>2. \A j \in Jobs : Stored(j) => Stored(j)' /\ jobs'[j].planID = jobs[j].planID
  BY <1>1, JobsAreKept
<1>3. CASE UNCHANGED hostVars
  <2>1. UNCHANGED <<jobs, review, work>>
    BY <1>3 DEF hostVars, vars, journal
  <2> QED
    BY <1>1, <2>1 DEF HandlersInv, WorkShape, WorkIsStored, JobsArePlanned, Stored, Planned
<1>4. CASE HostNext
  <2>1. WorkShape' /\ WorkIsStored'
    <3>1. \A j \in Jobs : At(j, "execute") => Stored(j)
      BY <1>1 DEF AcceptanceInv, DoubtInv, OwnershipInv, Ownership, RunnersHold, At, Live
    <3> QED
      BY <1>1, <1>2, <1>4, <3>1, WorkStep, ReviewsAreKept DEF HandlersInv, WorkShape, WorkIsStored
  <2>2. ASSUME NEW j \in Jobs, Stored(j)'
        PROVE  review'[jobs'[j].planID] # Unplanned
    <3>1. CASE Stored(j)
      BY <1>1, <1>2, <1>4, <3>1, ReviewsAreKept, ReviewOfStored DEF Planned
    <3>2. CASE ~Stored(j)
      <4>1. EngineMoves
        <5>1. UNCHANGED jobs => FALSE
          BY <2>2, <3>2 DEF Stored
        <5> QED
          BY <1>4, <5>1, PlansFrame, WorkFrame, ChangesFrame
             DEF HostNext, EngineMoves, PowerLoss, Crash, KeepsEngine, vars, journal
      <4>2. Planned(jobs'[j].planID)
        BY <1>1, <2>2, <3>2, <4>1, AcceptedWasMade
      <4>3. jobs'[j].planID \in Plans
        BY <1>1, <2>2, RowOfStored DEF AcceptanceInv, DoubtInv, OwnershipInv, TypeOK, JournalTypeOK, Stored, Row
      <4> QED
        BY <1>1, <1>4, <4>2, <4>3, ReviewsAreKept DEF Planned
    <3> QED
      BY <3>1, <3>2
  <2> QED
    BY <1>1, <2>1, <2>2 DEF HandlersInv, JobsArePlanned, Planned
<1> QED
  BY <1>3, <1>4

-----------------------------------------------------------------------------
(* Which handler works on what.                                              *)

LEMMA NetworkIsNetworks ==
  ASSUME NEW j, HostWork(j), Kind[jobs[j].planID] \in NetworkKinds
  PROVE  NetworkWork(j)
BY DEF HostWork, IsAbout, NetworkKinds, AccessKinds, CaptureKinds, ImportKinds, MachineKinds, Lifecycle,
       PoolKinds, ConfigurationKinds, DefiningKinds

LEMMA AccessIsAccesses ==
  ASSUME NEW j, HostWork(j), Kind[jobs[j].planID] \in AccessKinds
  PROVE  AccessWork(j)
BY DEF HostWork, IsAbout, NetworkKinds, AccessKinds, CaptureKinds, ImportKinds, MachineKinds, Lifecycle,
       PoolKinds, ConfigurationKinds, DefiningKinds

\* The networks and their filters are changed by their own handler and helper, by
\* a reload and by a loss of power.
LEMMA NetworksStep ==
  ASSUME HostNext
  PROVE  \/ UNCHANGED networks
         \/ \E j \in Jobs : IsAbout(j, NetworkKinds) /\ NetworkWork(j)
         \/ NetworkHelper \/ ReloadFirewall \/ NetworksLosePower
<1>1. ASSUME NEW p \in Plannable, HostPlans(p)
      PROVE  UNCHANGED networks
  BY <1>1 DEF HostPlans, PlanNetwork, PlanNetworkResume
<1> QED
  BY <1>1 DEF HostNext, HostWork, HostChanges, PowerLoss

\* The file and the helper's records on it, likewise.
LEMMA AccessesStep ==
  ASSUME HostNext
  PROVE  \/ UNCHANGED accesses
         \/ \E j \in Jobs : IsAbout(j, AccessKinds) /\ AccessWork(j)
         \/ AccessHelper
<1>1. ASSUME NEW p \in Plannable, HostPlans(p)
      PROVE  UNCHANGED accesses
  BY <1>1 DEF HostPlans, PlanGrant, PlanRevocation
<1> QED
  BY <1>1 DEF HostNext, HostWork, HostChanges, PowerLoss

-----------------------------------------------------------------------------
(* Networks do not run unfiltered.                                           *)

\* Both firewalls have every rule, and a stored job of this network intended it.
Guarded(n) ==
  \A r \in Rules :
    /\ r \in filter[n]
    /\ \E k \in Jobs : Stored(k) /\ <<k, r>> \in ruleIntent /\ NetworkOf(k) = n

Activates(j) ==
  /\ Stored(j) /\ Kind[jobs[j].planID] \in NetworkKinds
  /\ work[j].at = "activate" /\ NetworkOf(j) \in NetworkPlans

FilterInv ==
  /\ DOMAIN network = NetworkPlans /\ DOMAIN filter = NetworkPlans
  /\ \A j \in Jobs : Activates(j) => Guarded(NetworkOf(j))
  /\ \A n \in NetworkPlans : network[n] = "active" => Guarded(n)

\* Rules are only added, and a reload keeps those of a network that has them all.
LEMMA GuardedStays ==
  ASSUME HandlersInv, FilterInv, HostNext
  PROVE  /\ DOMAIN filter' = NetworkPlans
         /\ \A n \in NetworkPlans : Guarded(n) => Guarded(n)'
<1>1. \A k \in Jobs : Stored(k) => Stored(k)' /\ NetworkOf(k)' = NetworkOf(k)
  BY StepImplements, JobsAreKept DEF HandlersInv, NetworkOf
<1>2. ruleIntent \subseteq ruleIntent'
  BY NetworksStep DEF networks, NetworkWork, CheckSubnet, ReserveSubnet, DefineNetwork,
     AskForFilter, CheckFilter, ActivateNetwork, NetworkHelper, IntendFilter, IntendRule, AddRule, FilterDone,
     FilterBreaks, ReloadFirewall, NetworksLosePower
<1>3. \/ filter' = filter \/ filter' = Reloaded
      \/ \E n, r : filter' = [filter EXCEPT ![n] = @ \cup {r}]
  BY NetworksStep DEF networks, NetworkWork, CheckSubnet, ReserveSubnet, DefineNetwork,
     AskForFilter, CheckFilter, ActivateNetwork, NetworkHelper, IntendFilter, IntendRule, AddRule, FilterDone,
     FilterBreaks, ReloadFirewall, NetworksLosePower
<1>4. /\ DOMAIN filter' = NetworkPlans
      /\ \A n \in NetworkPlans : Rules \subseteq filter[n] => Rules \subseteq filter'[n]
  BY <1>3 DEF FilterInv, Reloaded, Rules
<1> QED
  BY <1>1, <1>2, <1>4 DEF Guarded

\* The last look of the handler before it activates (networkCreationHandler.Execute).
LEMMA CheckedIsGuarded ==
  ASSUME HandlersInv, NEW j \in Jobs, CheckFilter(j), Stored(j)
  PROVE  Guarded(NetworkOf(j))
BY DEF CheckFilter, ObservesFilter, Filtered, Guarded

LEMMA InitFilter == HostInit => FilterInv
<1> SUFFICES ASSUME HostInit PROVE FilterInv
  OBVIOUS
<1>1. \A j \in Jobs : ~Stored(j)
  BY DEF HostInit, HandlersInit, Init, JournalInit, Stored
<1> QED
  BY <1>1 DEF HostInit, NetworksInit, FilterInv, Activates

LEMMA NextFilter ==
  ASSUME HandlersInv, FilterInv, [HostNext]_hostVars
  PROVE  FilterInv'
<1>1. CASE UNCHANGED hostVars
  BY <1>1 DEF hostVars, vars, journal, networks, FilterInv, Activates, Guarded, NetworkOf, Stored
<1>2. CASE HostNext
  <2>1. /\ DOMAIN filter' = NetworkPlans
        /\ \A n \in NetworkPlans : Guarded(n) => Guarded(n)'
    BY <1>2, GuardedStays
  <2>2. \A j \in Jobs : Stored(j) => Stored(j)' /\ jobs'[j].planID = jobs[j].planID
    BY <1>2, StepImplements, JobsAreKept DEF HandlersInv
  <2>3. ASSUME NEW j \in Jobs, Activates(j)'
        PROVE  Guarded(NetworkOf(j))'
    <3>1. CASE Stored(j)
      <4>1. /\ Kind[jobs[j].planID] \in NetworkKinds
            /\ NetworkOf(j)' = NetworkOf(j) /\ NetworkOf(j) \in NetworkPlans
        BY <2>2, <2>3, <3>1 DEF Activates, NetworkOf
      <4>2. CASE work'[j] = work[j]
        BY <2>1, <2>3, <3>1, <4>1, <4>2 DEF Activates, FilterInv
      <4>3. CASE HostWork(j) /\ work'[j] # work[j]
        <5>1. NetworkWork(j)
          BY <4>1, <4>3, NetworkIsNetworks
        <5>2. CheckFilter(j)
          BY <2>3, <4>3, <5>1 DEF NetworkWork, CheckSubnet, ReserveSubnet, DefineNetwork, AskForFilter, Asks,
                      ActivateNetwork, Go, Activates, HandlersInv, WorkShape
        <5> QED
          BY <2>1, <3>1, <4>1, <5>2, CheckedIsGuarded
      <4> QED
        BY <1>2, <2>3, <4>2, <4>3, WorkStep DEF Activates, HandlersInv
    <3>2. CASE ~Stored(j)
      BY <1>2, <2>3, <3>2, WorkStep DEF Activates, HandlersInv, WorkIsStored, AcceptanceInv, DoubtInv, OwnershipInv,
                                       Ownership, RunnersHold, At, Live
    <3> QED
      BY <3>1, <3>2
  <2>4. DOMAIN network' = NetworkPlans
    BY <1>2, NetworksStep DEF networks, FilterInv, NetworkWork, CheckSubnet, ReserveSubnet, DefineNetwork,
       AskForFilter, CheckFilter, ActivateNetwork, NetworkHelper, IntendFilter, IntendRule, AddRule, FilterDone,
       FilterBreaks, ReloadFirewall, NetworksLosePower
  <2>5. ASSUME NEW n \in NetworkPlans, network'[n] = "active"
        PROVE  Guarded(n)'
    <3>1. network[n] = "active" \/ \E j \in Jobs : IsAbout(j, NetworkKinds) /\ ActivateNetwork(j) /\ n = NetworkOf(j)
      BY <1>2, <2>5, NetworksStep DEF networks, FilterInv, NetworkWork, CheckSubnet, ReserveSubnet, DefineNetwork,
         AskForFilter, CheckFilter, ActivateNetwork, NetworkHelper, IntendFilter, IntendRule, AddRule, FilterDone,
         FilterBreaks, ReloadFirewall, NetworksLosePower
    <3>2. ASSUME NEW j \in Jobs, IsAbout(j, NetworkKinds), ActivateNetwork(j), n = NetworkOf(j)
          PROVE  Guarded(n)
      <4>1. Activates(j)
        BY <3>2 DEF IsAbout, ActivateNetwork, NetworkStep, In, Activates
      <4> QED
        BY <3>2, <4>1 DEF FilterInv
    <3> QED
      BY <2>1, <3>1, <3>2 DEF FilterInv
  <2> QED
    BY <2>1, <2>3, <2>4, <2>5 DEF FilterInv
<1> QED
  BY <1>1, <1>2

\* A network that runs has every rule in the running and in the permanent firewall,
\* intended by a job of its own, across failures, crashes of either process,
\* reloads of the firewall and losses of power (networkCreationHandler.Execute,
\* NetworkExecutor.Execute).
THEOREM ActiveIsFiltered == HostSpec => []ActiveNetworksAreFiltered
<1>1. HostInit => HandlersInv /\ FilterInv
  BY InitHandlers, InitFilter
<1>2. HandlersInv /\ FilterInv /\ [HostNext]_hostVars => (HandlersInv /\ FilterInv)'
  BY NextHandlers, NextFilter
<1>3. FilterInv => ActiveNetworksAreFiltered
  BY DEF FilterInv, Guarded, ActiveNetworksAreFiltered, Owns
<1> QED
  BY <1>1, <1>2, <1>3, PTL DEF HostSpec

-----------------------------------------------------------------------------
(* Networks do not share a subnet.  It is checked in one step and reserved   *)
(* in the next; what holds in between is that nobody else reserves, since    *)
(* every network plan names the host's network allocation.                   *)

Reserves(j) == Live(j) /\ jobs[j].planID \in NetworkPlans /\ work[j].at = "reserve"

SubnetIsFree(p) ==
  \A m \in NetworkPlans \ {p} : reserved[m] # NoJob => Subnet(m) # Subnet(p)

SubnetInv ==
  /\ DOMAIN reserved = NetworkPlans
  /\ \A n \in NetworkPlans : reserved[n] # NoJob => Planned(n)
  /\ \A j \in Jobs : Reserves(j) => SubnetIsFree(jobs[j].planID)
  /\ SubnetsAreExclusive

LEMMA StartsAreNew ==
  ASSUME TypeOK, [Next]_vars, NEW j \in Jobs, Live(j)', ~Live(j)
  PROVE  ~Stored(j)
<1>1. ASSUME NEW i \in Jobs, NEW k \in Keys, NEW p \in Plans,
             Apply(i, k, p) \/ \E c \in Jobs : ApplyRecovery(i, k, p, c)
      PROVE  ~Stored(j)
  BY <1>1 DEF Apply, ApplyRecovery, Accept, AcceptRecovery, Start, Live, TypeOK
<1>2. ASSUME NEW i \in Jobs, Run(i) \/ JournalWriteFails(i)
      PROVE  FALSE
  <2>1. Live(i) /\ \A m \in Jobs : m # i => runner'[m] = runner[m]
    BY <1>2 DEF Run, JournalWriteFails, Boundary, ValidateFails, RecordIntent, Execute, NoteRead, NoteWrite,
                ExecuteFailed, StartVerifying, StepVerified, StepNotVerified, Finish, Return, Continue,
                Live, At, TypeOK
  <2> QED
    BY <2>1 DEF Live
<1>3. ASSUME UNCHANGED runner \/ Crash
      PROVE  FALSE
  BY <1>3 DEF Crash, Live, Idle
<1>4. CASE UNCHANGED vars
  BY <1>3, <1>4 DEF vars, volatile
<1>5. CASE Next
  BY <1>1, <1>2, <1>3, <1>5
     DEF Next, CancelRead, ReconcileRead, CancelWrite, ReconcileObserve, ReconcileSettle, RequestFails,
         Open, Serve, Recover, volatile
<1> QED
  BY <1>4, <1>5

LEMMA LivePlan ==
  ASSUME HandlersInv, NEW j \in Jobs, Live(j)
  PROVE  /\ Stored(j) /\ PlanOf(j) = jobs[j].planID
         /\ jobs[j].planID \in Plans /\ Planned(jobs[j].planID)
BY ReviewOfStored DEF HandlersInv, AcceptanceInv, DoubtInv, OwnershipInv, Ownership, RunnersHold, PlanOf

\* Two networks are never created at a time (networkResources, Store.Accept).
LEMMA OneNetworkRuns ==
  ASSUME HandlersInv, NEW i \in Jobs, NEW j \in Jobs, Live(i), Live(j),
         jobs[i].planID \in NetworkPlans, jobs[j].planID \in NetworkPlans
  PROVE  i = j
<1>1. RunnersAreExclusive
  BY DEF HandlersInv, AcceptanceInv, DoubtInv, OwnershipInv, Ownership, RunnersHold, RunnersAreExclusive, Holds
<1> QED
  BY <1>1, NetworksAreAllocatedAlone DEF RunnersAreExclusive, Resource

LEMMA InitSubnets == HostInit => SubnetInv
BY DEF HostInit, HandlersInit, Init, NetworksInit, SubnetInv, Reserves, Live, Idle, SubnetsAreExclusive

LEMMA NextSubnets ==
  ASSUME HandlersInv, SubnetInv, [HostNext]_hostVars
  PROVE  SubnetInv'
<1>1. CASE UNCHANGED hostVars
  BY <1>1 DEF hostVars, vars, journal, volatile, networks, SubnetInv, Reserves, Live, SubnetIsFree, Subnet, Planned,
              SubnetsAreExclusive
<1>2. CASE HostNext
  <2>1. /\ TypeOK /\ WorkShape /\ HandlersInv' /\ [Next]_vars
        /\ \A j \in Jobs : Stored(j) => Stored(j)' /\ jobs'[j].planID = jobs[j].planID
        /\ \A p \in Plans : Planned(p) => Planned(p)' /\ Subnet(p)' = Subnet(p)
    BY <1>2, NextHandlers, StepImplements, JobsAreKept, ReviewsAreKept
       DEF HandlersInv, AcceptanceInv, DoubtInv, OwnershipInv, Planned, Subnet
  <2>2. \/ reserved' = reserved
        \/ \E i \in Jobs : IsAbout(i, NetworkKinds) /\ ReserveSubnet(i)
    BY <1>2, NetworksStep DEF networks, NetworkWork, CheckSubnet, DefineNetwork,
       AskForFilter, CheckFilter, ActivateNetwork, NetworkHelper, IntendFilter, IntendRule, AddRule, FilterDone,
       FilterBreaks, ReloadFirewall, NetworksLosePower
  <2>3. ASSUME NEW j \in Jobs, Reserves(j)'
        PROVE  /\ Live(j) /\ jobs'[j].planID = jobs[j].planID /\ jobs[j].planID \in NetworkPlans
               /\ SubnetIsFree(jobs[j].planID)
    <3>1. Live(j)
      BY <1>2, <2>1, <2>3, StartsAreNew, WorkStep DEF Reserves, HandlersInv, WorkIsStored, At, Live
    <3>2. /\ Stored(j) /\ PlanOf(j) = jobs[j].planID /\ jobs'[j].planID = jobs[j].planID
          /\ jobs[j].planID \in NetworkPlans /\ Kind[jobs[j].planID] = "network"
      BY <2>1, <2>3, <3>1, LivePlan DEF Reserves, NetworkPlans
    <3>3. CASE work'[j] = work[j]
      BY <2>3, <3>1, <3>2, <3>3 DEF Reserves, SubnetInv
    <3>4. CASE HostWork(j) /\ work'[j] # work[j]
      <4>1. NetworkWork(j)
        BY <3>2, <3>4, NetworkIsNetworks DEF NetworkKinds
      <4>2. CheckSubnet(j)
        BY <2>1, <2>3, <3>4, <4>1 DEF NetworkWork, ReserveSubnet, DefineNetwork, AskForFilter, Asks, CheckFilter,
                    ActivateNetwork, Go, Reserves, WorkShape
      <4>3. SubnetFree(Subnet(PlanOf(j)), PlanOf(j))
        BY <4>2 DEF CheckSubnet
      <4> QED
        BY <3>1, <3>2, <4>3 DEF SubnetFree, SubnetIsFree, SubnetInv
    <3> QED
      BY <1>2, <2>1, <2>3, <3>1, <3>2, <3>3, <3>4, WorkStep DEF Reserves
  <2>4. ASSUME DOMAIN reserved' = NetworkPlans, \A m \in NetworkPlans : reserved'[m] = reserved[m]
        PROVE  SubnetInv'
    BY <2>1, <2>3, <2>4, LivePlan DEF SubnetInv, SubnetIsFree, SubnetsAreExclusive, NetworkPlans
  <2>5. ASSUME NEW i \in Jobs, IsAbout(i, NetworkKinds), ReserveSubnet(i)
        PROVE  SubnetInv'
    <3> DEFINE n == jobs[i].planID
    <3>1. /\ Live(i) /\ work[i].at = "reserve" /\ PlanOf(i) = n /\ Planned(n) /\ n \in Plans
          /\ reserved' = [reserved EXCEPT ![n] = i]
      BY <2>5, LivePlan DEF ReserveSubnet, NetworkStep, In, At, Live
    <3>2. CASE n \notin NetworkPlans
      BY <2>4, <3>1, <3>2 DEF SubnetInv, SubnetIsFree, SubnetsAreExclusive
    <3>3. CASE n \in NetworkPlans
      <4>1. SubnetIsFree(n)
        BY <3>1, <3>3 DEF Reserves, SubnetInv
      <4>2. \A j \in Jobs : Reserves(j)' => j = i
        BY <2>3, <3>1, <3>3, OneNetworkRuns
      <4>3. /\ DOMAIN reserved' = NetworkPlans
            /\ \A m \in NetworkPlans : m # n => reserved'[m] = reserved[m]
        BY <3>1 DEF SubnetInv
      <4>4. \A m \in NetworkPlans : reserved'[m] # NoJob => Planned(m) /\ Planned(m)' /\ Subnet(m)' = Subnet(m)
        BY <2>1, <3>1, <4>3 DEF SubnetInv, NetworkPlans
      <4>5. SubnetsAreExclusive'
        BY <4>1, <4>3, <4>4, <3>1, <2>1 DEF SubnetInv, SubnetIsFree, SubnetsAreExclusive
      <4>6. \A j \in Jobs : Reserves(j)' => SubnetIsFree(jobs[j].planID)'
        BY <4>1, <4>2, <4>3, <4>4, <3>1, <2>1, <2>3 DEF SubnetIsFree
      <4> QED
        BY <4>3, <4>4, <4>5, <4>6 DEF SubnetInv
    <3> QED
      BY <3>2, <3>3
  <2> QED
    BY <2>2, <2>4, <2>5 DEF SubnetInv
<1> QED
  BY <1>1, <1>2

\* No two networks have one subnet, whoever was interrupted between the check and
\* the reservation, and although a resumed creation checks its own anew
\* (checkNetworkCIDR, networkCreationHandler.Execute).
THEOREM SubnetsDiffer == HostSpec => []SubnetsAreExclusive
<1>1. HostInit => HandlersInv /\ SubnetInv
  BY InitHandlers, InitSubnets
<1>2. HandlersInv /\ SubnetInv /\ [HostNext]_hostVars => (HandlersInv /\ SubnetInv)'
  BY NextHandlers, NextSubnets
<1>3. SubnetInv => SubnetsAreExclusive
  BY DEF SubnetInv
<1> QED
  BY <1>1, <1>2, <1>3, PTL DEF HostSpec

-----------------------------------------------------------------------------
(* Nobody loses the access they were told they have.  An intent adds its     *)
(* author to the readers, or takes nobody but its author away, because what  *)
(* a revocation brings back is compared with what the grant left.            *)

Sound(j) ==
  LET intent == accessIntent[j]
      kind == Kind[jobs[j].planID]
      user == Author[jobs[j].planID] IN
  /\ Stored(j) /\ kind \in AccessKinds
  /\ kind = "grant" => intent.desired = intent.before.readers \cup {user}
  /\ kind = "revoke" => intent.before.readers = intent.desired \cup {user}

IntentsAreSound ==
  /\ DOMAIN accessIntent = Jobs
  /\ \A j \in Jobs : Readable(accessIntent[j]) => Sound(j)
  /\ ~HelperFree =>
       /\ call.job \in Jobs /\ Stored(call.job) /\ {"job", "at"} \subseteq DOMAIN call
       /\ call.at \in {"set", "record"} => Sound(call.job)

RevocationsNameGrants ==
  \A p \in AccessPlans : Kind[p] = "revoke" /\ Planned(p) =>
    LET grant == review[p].grant IN
    /\ grant \in Jobs /\ Stored(grant)
    /\ Kind[jobs[grant].planID] = "grant" /\ Author[jobs[grant].planID] = Author[p]

ConfirmedGrantsLast ==
  \A j \in Jobs, i \in Nat :
    /\ Stored(j) /\ Kind[jobs[j].planID] = "grant"
    /\ <<j, i>> \in verified /\ ~Revokes(Author[jobs[j].planID])
    => Author[jobs[j].planID] \in file.readers

AccessInv == IntentsAreSound /\ RevocationsNameGrants /\ ConfirmedGrantsLast

\* A step is confirmed only when its handler has seen its effect on the host.
LEMMA ConfirmedWasDone ==
  ASSUME HandlersInv, HostNext, NEW j \in Jobs, NEW i \in Nat,
         <<j, i>> \in verified', <<j, i>> \notin verified
  PROVE  /\ Stored(j) /\ HostDone(jobs[j].planID, i, j)
         /\ UNCHANGED <<jobs, networks, accesses, recipes, captures, imports, machines, pools, configurations>>
<1>1. EngineMoves /\ UNCHANGED <<networks, accesses, recipes, captures, imports, machines, pools, configurations>>
  BY PlansFrame, WorkFrame, ChangesFrame
     DEF HostNext, EngineMoves, PowerLoss, Crash, KeepsEngine, vars, observed
<1>2. \/ \E m \in Jobs : At(m, "reconcile") /\ HostDone(PlanOf(m), runner[m].i, m) /\ StepVerified(m)
      \/ ~MutexFree /\ HostDone(request.row.planID, request.row.step, request.job) /\ ReconcileObserve
  BY <1>1, ZenonT(40) DEF EngineMoves, HostWorkFails, KeepsEngine, ExecuteReturns, Execute, EngineSteps, ProcessSteps, Boundary,
         ValidateFails, RecordIntent, ExecuteFailed, StartVerifying, StepNotVerified, Finish, Applied, Apply,
         ApplyRecovery, CancelRead, ReconcileRead, Recover, CancelWrite, ReconcileSettle, RequestFails,
         Open, Serve, Crash, Return, Continue, vars, observed
<1>3. ASSUME NEW m \in Jobs, At(m, "reconcile"), HostDone(PlanOf(m), runner[m].i, m), StepVerified(m)
      PROVE  Stored(j) /\ HostDone(jobs[j].planID, i, j) /\ UNCHANGED jobs
  <2>1. Stored(m) /\ PlanOf(m) = jobs[m].planID
    BY <1>3, LivePlan DEF At, Live
  <2>2. <<j, i>> = <<m, runner[m].i>> /\ UNCHANGED jobs
    BY <1>3 DEF StepVerified, journal
  <2> QED
    BY <1>3, <2>1, <2>2
<1>4. ASSUME ~MutexFree, HostDone(request.row.planID, request.row.step, request.job), ReconcileObserve
      PROVE  Stored(j) /\ HostDone(jobs[j].planID, i, j) /\ UNCHANGED jobs
  <2>1. Stored(request.job) /\ request.row.planID = jobs[request.job].planID
    BY <1>4 DEF HandlersInv, AcceptanceInv, DoubtInv, OwnershipInv, Ownership, RequestIsCurrent
  <2>2. <<j, i>> = <<request.job, request.row.step>> /\ UNCHANGED jobs
    BY <1>4 DEF ReconcileObserve, journal
  <2> QED
    BY <1>4, <2>1, <2>2
<1> QED
  BY <1>1, <1>2, <1>3, <1>4

\* The helper takes up one call at a time, of a job that runs.
LEMMA CallStep ==
  ASSUME HandlersInv, HostNext
  PROVE  \/ call' = call \/ call' = NoCall
         \/ \E j \in Jobs : Asks(j) /\ Stored(j)
         \/ NetworkHelper \/ AccessHelper
<1>1. ASSUME NEW p \in Plannable, HostPlans(p)
      PROVE  call' = call
  BY <1>1 DEF HostPlans, PlanNetwork, PlanNetworkResume, PlanGrant, PlanRevocation
<1>2. ASSUME NEW j \in Jobs, HostWork(j)
      PROVE  call' = call \/ (Asks(j) /\ Stored(j))
  <2>1. CASE NetworkWork(j) \/ AccessWork(j)
    BY <1>2, <2>1, WorkFrame
       DEF NetworkWork, CheckSubnet, ReserveSubnet, DefineNetwork, AskForFilter, CheckFilter, ActivateNetwork,
           AccessWork, CancelAccess, AskForAccess, ObserveAccess, StoreAccessReceipt
  <2> QED
    BY <1>2, <2>1 DEF HostWork
<1>3. CASE HostChanges
  BY <1>3 DEF HostChanges, ReloadFirewall
<1> QED
  BY <1>1, <1>2, <1>3 DEF HostNext, PowerLoss

\* The helper's records are written once: an intent that can be read stays.
LEMMA IntentsAreKept ==
  ASSUME HandlersInv, AccessInv, HostNext
  PROVE  /\ DOMAIN accessIntent' = Jobs
         /\ \A j \in Jobs :
              \/ accessIntent'[j] = accessIntent[j]
              \/ IntendAccess /\ j = call.job
              \/ accessIntent'[j] = TornRecord /\ call' = NoCall
BY AccessesStep
   DEF AccessInv, IntentsAreSound, accesses, AccessWork, CancelAccess, AskForAccess, ObserveAccess,
       StoreAccessReceipt, AccessHelper, IntendAccess, SetACL, RecordAccess, AccessBreaks, Breaks

\* What the helper is about to do takes nobody away but the author of a revocation
\* (AccessExecutor.desired).
LEMMA IntendedIsSound ==
  ASSUME HandlersInv, AccessInv, HostNext, IntendAccess
  PROVE  Sound(call.job)'
<1> DEFINE j == call.job
           p == jobs[j].planID
<1>1. /\ j \in Jobs /\ Stored(j) /\ p \in Plans /\ Planned(p) /\ Kind[p] \in AccessKinds
      /\ file = review[p].before /\ (Kind[p] = "revoke" => Revocable(review[p].grant, file))
      /\ accessIntent' = [accessIntent EXCEPT ![j] = [before |-> file, desired |-> DesiredFor(p)]]
      /\ call' = [call EXCEPT !.at = "set"] /\ KeepsEngine
  BY ReviewOfStored DEF AccessInv, IntentsAreSound, IntendAccess, SetsFor, HelperAllows, Proceeds
<1>2. /\ call'.job = j /\ jobs'[j] = jobs[j] /\ Stored(j)'
      /\ accessIntent'[j].before = file /\ accessIntent'[j].desired = DesiredFor(p)
  BY <1>1 DEF AccessInv, IntentsAreSound, KeepsEngine, vars, journal, Stored
<1>3. Kind[p] = "grant" => DesiredFor(p) = file.readers \cup {Author[p]}
  BY <1>1 DEF DesiredFor, Granted
<1>4. ASSUME Kind[p] = "revoke"
      PROVE  file.readers = DesiredFor(p) \cup {Author[p]}
  <2> DEFINE g == review[p].grant
  <2>1. /\ g \in Jobs /\ Stored(g) /\ Kind[jobs[g].planID] = "grant"
        /\ Author[jobs[g].planID] = Author[p]
    BY <1>1, <1>4 DEF AccessInv, RevocationsNameGrants, AccessPlans
  <2>2. Readable(accessIntent[g]) /\ file.readers = accessIntent[g].desired
    BY <1>1, <1>4 DEF Revocable, MatchesAccess
  <2>3. Sound(g)
    BY <2>1, <2>2 DEF AccessInv, IntentsAreSound
  <2> QED
    BY <1>4, <2>1, <2>2, <2>3 DEF Sound, DesiredFor
<1> QED
  BY <1>1, <1>2, <1>3, <1>4 DEF Sound

LEMMA NextIntents ==
  ASSUME HandlersInv, AccessInv, HostNext
  PROVE  IntentsAreSound'
<1>1. \A j \in Jobs : Stored(j) => Stored(j)' /\ jobs'[j].planID = jobs[j].planID
  BY StepImplements, JobsAreKept DEF HandlersInv
<1>2. ASSUME NEW j \in Jobs, Sound(j), accessIntent'[j] = accessIntent[j]
      PROVE  Sound(j)'
  BY <1>1, <1>2 DEF Sound
<1>3. ASSUME NEW j \in Jobs, Readable(accessIntent'[j])
      PROVE  Sound(j)'
  <2>1. CASE accessIntent'[j] = accessIntent[j]
    BY <1>2, <1>3, <2>1 DEF AccessInv, IntentsAreSound, Readable
  <2>2. CASE IntendAccess /\ j = call.job
    <3>1. call'.job = call.job
      BY <2>2 DEF IntendAccess, SetsFor, Proceeds, AccessInv, IntentsAreSound
    <3> QED
      BY <2>2, <3>1, IntendedIsSound
  <2> QED
    BY <1>3, <2>1, <2>2, IntentsAreKept DEF Readable
<1>4. ASSUME call' # NoCall
      PROVE  \E j \in Jobs :
               /\ call'.job = j /\ Stored(j) /\ {"job", "at"} \subseteq DOMAIN call'
               /\ (call'.at \in {"set", "record"} => Sound(j)')
  <2>1. CASE call' = call
    BY <1>2, <1>4, <2>1, IntentsAreKept, IntendedIsSound DEF AccessInv, IntentsAreSound, HelperFree
  <2>2. ASSUME NEW j \in Jobs, Asks(j), Stored(j)
        PROVE  call'.job = j /\ {"job", "at"} \subseteq DOMAIN call' /\ call'.at = "received"
    BY <2>2 DEF Asks
  <2>3. CASE NetworkHelper
    <3>1. /\ ~HelperFree
          /\ {"job", "at"} \subseteq DOMAIN call'
          /\ call'.job = call.job /\ call'.at \in {"intend rule", "add rule", "added"}
      BY <1>4, <2>3 DEF AccessInv, IntentsAreSound, NetworkHelper, IntendFilter, IntendRule, AddRule, FilterDone, FilterBreaks, FiltersFor,
                        Proceeds, Answers, Breaks
    <3> QED
      BY <3>1 DEF AccessInv, IntentsAreSound
  <2>4. CASE AccessHelper
    <3>1. /\ ~HelperFree
          /\ {"job", "at"} \subseteq DOMAIN call' /\ call'.job = call.job
          /\ \/ IntendAccess
             \/ call.at = "set" /\ UNCHANGED accessIntent
      BY <1>4, <2>4 DEF AccessInv, IntentsAreSound, AccessHelper, IntendAccess, SetACL, RecordAccess, AccessBreaks, SetsFor,
                        Proceeds, Answers, Breaks
    <3> QED
      BY <1>2, <3>1, IntendedIsSound DEF AccessInv, IntentsAreSound
  <2> QED
    BY <1>4, <2>1, <2>2, <2>3, <2>4, CallStep
<1> QED
  BY <1>1, <1>3, <1>4, IntentsAreKept DEF IntentsAreSound, HelperFree

LEMMA NextRevocations ==
  ASSUME HandlersInv, AccessInv, HostNext
  PROVE  RevocationsNameGrants'
<1>1. \A j \in Jobs : Stored(j) => Stored(j)' /\ jobs'[j].planID = jobs[j].planID
  BY StepImplements, JobsAreKept DEF HandlersInv
<1>2. ASSUME NEW p \in AccessPlans, Kind[p] = "revoke", review'[p] # Unplanned, ~Planned(p)
      PROVE  /\ review'[p].grant \in Jobs /\ Stored(review'[p].grant)
             /\ Kind[jobs[review'[p].grant].planID] = "grant"
             /\ Author[jobs[review'[p].grant].planID] = Author[p]
  <2>1. PICK q \in Plannable : HostPlans(q)
    BY <1>2, WorkFrame, ChangesFrame
       DEF HostNext, KeepsEngine, HostWorkFails, ExecuteReturns, EngineSteps, ProcessSteps, PowerLoss, Planned
  <2>2. q = p
    BY <1>2, <2>1, PlansFrame DEF HandlersInv, WorkShape, AccessPlans, Planned
  <2>3. PlanRevocation(p)
    BY <1>2, <2>1, <2>2
       DEF HostPlans, NetworkPlans, NetworkResumptions, GrantPlans, RecipePlans, CapturePlans, BackupPlans,
           RestorePlans, RecoverPlans, PreparePlans, DiscardPlans, MachinePlans, MachineKinds, Lifecycle,
           PoolPlans, PoolKinds, ConfigurationPlans, ConfigurationKinds, DefiningKinds
  <2> QED
    BY <2>3 DEF PlanRevocation, StorePlan, HandlersInv, WorkShape, AccessPlans
<1>3. ASSUME NEW p \in AccessPlans, Planned(p)
      PROVE  review'[p] = review[p]
  BY <1>3, ReviewsAreKept DEF HandlersInv, AccessPlans
<1> QED
  BY <1>1, <1>2, <1>3 DEF AccessInv, RevocationsNameGrants, Planned

\* The file changes only as a sound intent says.
LEMMA FileStep ==
  ASSUME HandlersInv, AccessInv, HostNext, NEW u \in file.readers, u \notin file'.readers
  PROVE  Revokes(u)
<1>1. SetACL
  BY AccessesStep
     DEF accesses, AccessWork, CancelAccess, AskForAccess, ObserveAccess, StoreAccessReceipt,
         AccessHelper, IntendAccess, RecordAccess, AccessBreaks
<1>2. /\ Sound(call.job) /\ call.job \in Jobs
      /\ file = accessIntent[call.job].before /\ file'.readers = accessIntent[call.job].desired
  BY <1>1 DEF SetACL, SetsFor, AccessInv, IntentsAreSound
<1> QED
  BY <1>2 DEF Sound, AccessKinds, Revokes

LEMMA NextConfirmed ==
  ASSUME HandlersInv, AccessInv, HostNext
  PROVE  ConfirmedGrantsLast'
<1>1. \A j \in Jobs : Stored(j) => Stored(j)' /\ jobs'[j].planID = jobs[j].planID
  BY StepImplements, JobsAreKept DEF HandlersInv
<1>2. \A u : Revokes(u) => Revokes(u)'
  BY <1>1 DEF Revokes
<1>3. ASSUME NEW j \in Jobs, NEW i \in Nat, Stored(j)', <<j, i>> \in verified'
      PROVE  Stored(j)
  <2>1. CASE <<j, i>> \in verified
    BY <2>1 DEF HandlersInv, AcceptanceInv, Acceptances, NothingUnstoredVerified
  <2>2. CASE <<j, i>> \notin verified
    BY <1>3, <2>2, ConfirmedWasDone
  <2> QED
    BY <2>1, <2>2
<1>4. ASSUME NEW j \in Jobs, NEW i \in Nat, Stored(j), Kind[jobs[j].planID] = "grant",
             <<j, i>> \in verified', NEW u, u = Author[jobs[j].planID], ~Revokes(u)'
      PROVE  u \in file'.readers
  <2>1. CASE <<j, i>> \in verified
    <3>1. u \in file.readers
      BY <1>2, <1>4, <2>1 DEF AccessInv, ConfirmedGrantsLast
    <3> QED
      BY <1>2, <1>4, <3>1, FileStep
  <2>2. CASE <<j, i>> \notin verified
    <3>1. HostDone(jobs[j].planID, i, j) /\ UNCHANGED accesses
      BY <1>4, <2>2, ConfirmedWasDone
    <3>2. AccessDone(jobs[j].planID, j)
      <4>1. /\ Kind[jobs[j].planID] \in AccessKinds
            /\ Kind[jobs[j].planID] \notin NetworkKinds \cup {"recipe"} \cup CaptureKinds \cup ImportKinds
                 \cup MachineKinds \cup PoolKinds \cup ConfigurationKinds
        BY <1>4 DEF NetworkKinds, AccessKinds, CaptureKinds, ImportKinds, MachineKinds, Lifecycle, PoolKinds,
                    ConfigurationKinds, DefiningKinds
      <4> QED
        BY <3>1, <4>1, Zenon DEF HostDone
    <3>3. Readable(accessIntent[j]) /\ file.readers = accessIntent[j].desired
      BY <3>2 DEF AccessDone, ObservedAccess, ObservesAccess, MatchesAccess
    <3>4. Sound(j)
      BY <3>3 DEF AccessInv, IntentsAreSound
    <3> QED
      BY <1>4, <3>1, <3>3, <3>4 DEF Sound, accesses
  <2> QED
    BY <2>1, <2>2
<1> QED
  BY <1>1, <1>3, <1>4 DEF ConfirmedGrantsLast, Revokes

LEMMA InitAccess == HostInit => AccessInv
<1> SUFFICES ASSUME HostInit PROVE AccessInv
  OBVIOUS
<1>1. (\A j \in Jobs : ~Stored(j)) /\ \A p \in Plans : ~Planned(p)
  BY DEF HostInit, HandlersInit, Init, JournalInit, Stored, Planned
<1> QED
  BY <1>1 DEF HostInit, HelperInit, AccessInit, HelperFree, AccessInv, IntentsAreSound, Readable,
              RevocationsNameGrants, AccessPlans, ConfirmedGrantsLast

LEMMA NextAccess ==
  ASSUME HandlersInv, AccessInv, [HostNext]_hostVars
  PROVE  AccessInv'
<1>1. CASE HostNext
  BY <1>1, NextIntents, NextRevocations, NextConfirmed DEF AccessInv
<1>2. CASE UNCHANGED hostVars
  <2>1. UNCHANGED <<jobs, review, call, verified, file, accessIntent>>
    BY <1>2 DEF hostVars, vars, journal, observed, accesses
  <2> QED
    BY <2>1 DEF AccessInv, IntentsAreSound, Readable, Sound, Stored, HelperFree, RevocationsNameGrants,
                Planned, ConfirmedGrantsLast, Revokes
<1> QED
  BY <1>1, <1>2

\* Whoever was told that they can read a disk can read it until they accept a
\* revocation themselves, whatever others were granted or had revoked meanwhile and
\* whichever process died between two records of the helper (AccessExecutor.desired,
\* AccessExecutor.Execute, Service.Reconcile).
THEOREM GrantsLast == HostSpec => []GrantsAreKept
<1>1. HostInit => HandlersInv /\ AccessInv
  BY InitHandlers, InitAccess
<1>2. HandlersInv /\ AccessInv /\ [HostNext]_hostVars => (HandlersInv /\ AccessInv)'
  BY NextHandlers, NextAccess
<1>3. HandlersInv /\ AccessInv => GrantsAreKept
  <2> SUFFICES ASSUME HandlersInv, AccessInv, NEW u \in Principals, HasGrant(u), ~Revokes(u)
               PROVE  u \in file.readers
    BY DEF GrantsAreKept
  <2>1. PICK j \in Jobs : /\ Stored(j) /\ Kind[jobs[j].planID] = "grant"
                          /\ Author[jobs[j].planID] = u /\ jobs[j].state = "succeeded"
    BY DEF HasGrant
  <2>2. LastStep(j) \in Nat
    BY <2>1, LastStepIsNat DEF HandlersInv, AcceptanceInv, DoubtInv, OwnershipInv
  <2>3. <<j, 0>> \in verified
    BY <2>1, <2>2 DEF HandlersInv, AcceptanceInv, DoubtInv, Progress, SuccessIsObserved
  <2> QED
    BY <2>1, <2>3 DEF AccessInv, ConfirmedGrantsLast
<1> QED
  BY <1>1, <1>2, <1>3, PTL DEF HostSpec

-----------------------------------------------------------------------------
(* A guest sees each script of a recipe once and in order, and never those   *)
(* of two jobs at a time.  A script goes on when its job has stopped; what   *)
(* keeps others out is that the stage it belongs to has no receipt, so its   *)
(* job can neither end nor be observed complete, and keeps the machine.      *)

Recipe(j) == Stored(j) /\ Kind[jobs[j].planID] = "recipe"

\* What the record of a stage may become.
MayNote(s) == Meanings(s) \cup (IF s = ApplyStage THEN {"skip-apply"} ELSE {})

IsSent(j, s) == \E i \in 1..Len(sent[j]) : sent[j][i] = s

\* The records of job j: each stage follows on those before it.
StagesAreOrdered(j) ==
  /\ \A s \in Stages : stage[j][s] \in MayNote(s) \cup {Unknown, NoIntent}
  /\ \A s \in Stages : stage[j][s] # NoIntent => CompleteUpTo(j, s - 1)
  /\ \A s \in Stages : IsSent(j, s) => stage[j][s] # NoIntent
  /\ \A s \in Stages : <<j, s>> \in running => stage[j][s] = Unknown
  /\ \A i \in 2..Len(sent[j]) : sent[j][i - 1] < sent[j][i]
  /\ IsSent(j, ApplyStage) => stage[j][Check] = "needs-apply"

\* How far Execute of job j is in its stage.
StagesFollowWork(j) ==
  LET s == StageOf(j)
      at == work[j].at IN
  /\ at \in {"idle", "send", "waiting", "noted", "ok", "error"} \cup Receipts
  /\ at \in {"send", "waiting"} \cup Receipts => stage[j][s] = Unknown
  /\ at = "send" => ~IsSent(j, s) /\ ~Skipped(j, s)
  /\ at \in Receipts => at \in MayNote(s) /\ <<j, s>> \notin running

\* What it has not done yet.
StagesFollowRunner(j) ==
  /\ ~At(j, "execute") => work[j].at = "idle"
  /\ Live(j) => \A t \in Stages : t > StageOf(j) => stage[j][t] = NoIntent
  /\ At(j, "boundary") \/ At(j, "validate") => stage[j][StageOf(j)] = NoIntent
  /\ At(j, "returned") => runner[j].outcome \in {"ok", "error"}
  /\ StagesFollowWork(j)

StagesInv ==
  /\ GuestSetupTypeOK
  /\ \A j \in Jobs : StagesAreOrdered(j)
  /\ \A j \in Jobs : Recipe(j) => StagesFollowRunner(j)
  /\ \A j \in Jobs : ~Recipe(j) => \A s \in Stages : stage[j][s] = NoIntent

ReceiptsConfirm ==
  \A j \in Jobs, i \in 0..3 : Recipe(j) /\ <<j, i>> \in verified => CompleteUpTo(j, i + 1)

\* Recoveries are those of networks, so nobody takes over from a recipe.
RecoveriesAreOfNetworks ==
  \A p \in RecoveryPlans : Planned(p) =>
    LET parent == review[p].parent IN
    parent \in Jobs /\ Stored(parent) /\ Kind[jobs[parent].planID] \in NetworkKinds

ScriptsHoldGuests == \A j \in Jobs, s \in Stages : <<j, s>> \in running => Holds(j)

RecipeInv == StagesInv /\ ReceiptsConfirm /\ RecoveriesAreOfNetworks /\ ScriptsHoldGuests

-----------------------------------------------------------------------------

LEMMA RecipeIsRecipes ==
  ASSUME NEW j, HostWork(j), Kind[jobs[j].planID] = "recipe"
  PROVE  RecipeWork(j) \/ \E s \in Stages : ScriptEnds(j, s)
BY DEF HostWork, IsAbout, NetworkKinds, AccessKinds, CaptureKinds, ImportKinds, MachineKinds, Lifecycle,
       PoolKinds, ConfigurationKinds, DefiningKinds

\* What a recipe does of its own.
RecipeMoves(j) == IsAbout(j, {"recipe"}) /\ (RecipeWork(j) \/ \E s \in Stages : ScriptEnds(j, s))

\* The records and the guests, likewise.
LEMMA RecipesStep ==
  ASSUME HostNext
  PROVE  \/ UNCHANGED recipes
         \/ \E j \in Jobs : RecipeMoves(j)
         \/ GuestsLosePower /\ PowerLoss
<1>1. ASSUME NEW p \in Plannable, HostPlans(p)
      PROVE  UNCHANGED recipes
  BY <1>1 DEF HostPlans, PlanRecipe
<1> QED
  BY <1>1 DEF HostNext, HostWork, HostChanges, PowerLoss, RecipeMoves

\* A step of the engine that runs job j.
RunnerSteps(j) ==
  \/ runner'[j] = runner[j] \/ runner'[j] = Idle
  \/ ~Stored(j) /\ Stored(j)' /\ runner'[j].pc = "boundary" /\ runner'[j].i = 0
  \/ At(j, "boundary") /\ runner'[j].pc = "validate" /\ runner'[j].i = runner[j].i
  \/ At(j, "validate") /\ runner'[j].pc = "execute" /\ runner'[j].i = runner[j].i
  \/ /\ ExecuteReturns(j)
     /\ runner'[j].pc = "returned" /\ runner'[j].i = runner[j].i /\ runner'[j].outcome = work[j].at
  \/ At(j, "returned") /\ runner'[j].pc = "reconcile" /\ runner'[j].i = runner[j].i
  \/ At(j, "reconcile") /\ runner'[j].pc = "finish" /\ runner'[j].i = runner[j].i
  \/ At(j, "reconcile") /\ runner'[j].pc = "boundary" /\ runner'[j].i = runner[j].i + 1

LEMMA EngineRuns ==
  ASSUME HandlersInv, EngineMoves, NEW j \in Jobs
  PROVE  /\ RunnerSteps(j)
         /\ \/ work'[j] = work[j] /\ (runner'[j] = runner[j] \/ ~At(j, "execute"))
            \/ ExecuteReturns(j) /\ work'[j] = Idly
            \/ Busy(j) /\ UNCHANGED runner /\ work'[j].at = "error"
            \/ runner'[j] = Idle /\ work'[j] = Idly
<1>1. TypeOK /\ WorkShape
  BY DEF HandlersInv, AcceptanceInv, DoubtInv, OwnershipInv
<1>2. Live(j) => runner[j] \in RunnerState
  BY <1>1, RunnerOfLive
<1>3. ASSUME NEW m \in Jobs, HostWorkFails(m)
      PROVE  UNCHANGED runner /\ (work'[j] = work[j] \/ (Busy(j) /\ work'[j].at = "error"))
  BY <1>1, <1>3 DEF HostWorkFails, KeepsEngine, vars, volatile, Go, WorkShape
<1>4. ASSUME NEW m \in Jobs, ExecuteReturns(m)
      PROVE  /\ RunnerSteps(j)
             /\ \/ work'[j] = work[j] /\ runner'[j] = runner[j]
                \/ ExecuteReturns(j) /\ work'[j] = Idly
  <2>1. CASE m = j
    <3>1. runner'[j] = [runner[j] EXCEPT !.pc = "returned", !.outcome = work[j].at] /\ work'[j] = Idly
      BY <1>1, <1>4, <2>1 DEF ExecuteReturns, Execute, TypeOK, WorkShape
    <3>2. runner[j] \in RunnerState
      BY <1>2, <1>4, <2>1 DEF ExecuteReturns, Execute, At, Live
    <3>3. /\ runner'[j].pc = "returned" /\ runner'[j].i = runner[j].i
          /\ runner'[j].outcome = work[j].at
      BY <3>1, <3>2 DEF RunnerState
    <3> QED
      BY <1>4, <2>1, <3>1, <3>3 DEF RunnerSteps
  <2>2. CASE m # j
    BY <1>1, <1>4, <2>2 DEF ExecuteReturns, Execute, TypeOK, WorkShape, RunnerSteps
  <2> QED
    BY <2>1, <2>2
<1>5. ASSUME NEW m \in Jobs, EngineSteps(m, HostValid, HostDone)
      PROVE  RunnerSteps(j) /\ UNCHANGED work /\ (runner'[j] = runner[j] \/ ~At(j, "execute"))
  <2>1. CASE Applied(m, HostValid)
    <3>1. PICK k \in Keys, p \in Made, c \in Jobs \cup {NoJob} :
            \/ Apply(m, k, p)
            \/ c \in Jobs /\ ApplyRecovery(m, k, p, c)
      BY <2>1 DEF Applied
    <3>2. /\ ~Stored(m)
          /\ \E row : runner' = [runner EXCEPT ![m] = [Idle EXCEPT !.pc = "boundary", !.row = row]]
      BY <1>5, <2>1, <3>1 DEF Applied, Apply, ApplyRecovery, Start
    <3>3. Stored(m)'
      <4>1. NewRow(p, NoJob) # NoRow /\ (c \in Jobs => NewRow(p, c) # NoRow)
        BY NewRowType, NullsAreNotValues DEF Made
      <4>2. c \in Jobs => c # m \/ ~ApplyRecovery(m, k, p, c)
        BY DEF ApplyRecovery, AcceptRecovery, Recoverable
      <4> QED
        BY <1>1, <3>1, <4>1, <4>2 DEF Apply, ApplyRecovery, Accept, AcceptRecovery, Stored, TypeOK, JournalTypeOK
    <3>4. runner'[m].pc = "boundary" /\ runner'[m].i = 0 /\ (m # j => runner'[j] = runner[j])
      BY <1>1, <3>2 DEF Idle, TypeOK
    <3>5. ~At(m, "execute")
      BY <3>2 DEF HandlersInv, AcceptanceInv, DoubtInv, OwnershipInv, Ownership, RunnersHold, At, Live
    <3> QED
      BY <1>5, <3>2, <3>3, <3>4, <3>5 DEF RunnerSteps, EngineSteps
  <2>2. CASE Boundary(m) \/ RecordIntent(m) \/ StartVerifying(m)
    <3>1. /\ UNCHANGED work /\ ~At(m, "execute")
          /\ \/ \E row, pc :
                  /\ Continue(m, row, pc)
                  /\ <<runner[m].pc, pc>> \in
                       {<<"boundary", "validate">>, <<"validate", "execute">>, <<"returned", "reconcile">>}
             \/ runner' = [runner EXCEPT ![m] = Idle]
      BY <1>5, <2>2 DEF EngineSteps, Boundary, RecordIntent, StartVerifying, Return, At
    <3>2. CASE m = j
      <4>1. CASE runner' = [runner EXCEPT ![m] = Idle]
        BY <1>1, <3>1, <3>2, <4>1 DEF RunnerSteps, TypeOK
      <4>2. ASSUME NEW row, NEW pc, Continue(m, row, pc)
            PROVE  runner'[j].pc = pc /\ (Live(j) => runner'[j].i = runner[j].i)
        BY <1>1, <1>2, <3>2, <4>2 DEF Continue, TypeOK, RunnerState, Idle, Live
      <4> QED
        BY <3>1, <3>2, <4>1, <4>2 DEF RunnerSteps, At, Live
    <3>3. CASE m # j
      BY <1>1, <3>1, <3>3 DEF Continue, RunnerSteps, TypeOK
    <3> QED
      BY <3>2, <3>3
  <2>3. CASE StepVerified(m)
    <3>1. /\ UNCHANGED work /\ At(m, "reconcile")
          /\ \/ runner' = [runner EXCEPT ![m].pc = "finish"]
             \/ runner' = [runner EXCEPT ![m].pc = "boundary", ![m].i = runner[m].i + 1, ![m].outcome = "none"]
      BY <1>5, <2>3 DEF EngineSteps, StepVerified
    <3> QED
      BY <1>1, <1>2, <3>1 DEF RunnerSteps, TypeOK, RunnerState, At, Live
  <2>4. CASE ValidateFails(m) \/ ExecuteFailed(m) \/ StepNotVerified(m) \/ Finish(m)
    BY <1>1, <1>5, <2>4 DEF EngineSteps, ValidateFails, ExecuteFailed, StepNotVerified, Finish, Return,
                            RunnerSteps, TypeOK, At
  <2>5. CASE CancelRead(m) \/ ReconcileRead(m) \/ Recover(m)
    BY <1>5, <2>5 DEF EngineSteps, CancelRead, ReconcileRead, Recover, volatile, RunnerSteps
  <2> QED
    BY <1>5, <2>1, <2>2, <2>3, <2>4, <2>5 DEF EngineSteps
<1>6. CASE ProcessSteps(HostDone)
  <2>1. CASE UNCHANGED <<runner, work>>
    BY <2>1 DEF RunnerSteps
  <2>2. CASE Crash /\ work' = [i \in Jobs |-> Idly]
    BY <2>2 DEF Crash, RunnerSteps
  <2> QED
    BY <1>6, <2>1, <2>2
       DEF ProcessSteps, CancelWrite, ReconcileObserve, ReconcileSettle, RequestFails, Open, Serve, volatile
<1> QED
  BY <1>3, <1>4, <1>5, <1>6 DEF EngineMoves, RunnerSteps

-----------------------------------------------------------------------------

LEMMA ReceiptsAre ==
  /\ Receipts = {"ready", "stage failed", "already-configured", "needs-apply", "applied", "verified", "skip-apply"}
  /\ \A s \in Stages : Meanings(s) \subseteq Receipts /\ MayNote(s) \subseteq Receipts
  /\ NoIntent \notin Receipts /\ NoIntent # Unknown /\ Unknown \notin Receipts
  /\ \A x \in MayNote(Check) : Complete(x) => x \in {"already-configured", "needs-apply"}
<1>1. /\ Meanings(Readiness) = {"ready", "stage failed"}
      /\ Meanings(Check) = {"already-configured", "needs-apply", "stage failed"}
      /\ Meanings(ApplyStage) = {"applied", "stage failed"}
      /\ Meanings(Verify) = {"verified", "stage failed"}
  BY DEF Meanings, Readiness, Check, ApplyStage, Verify
<1>2. Stages = {Readiness, Check, ApplyStage, Verify} /\ ApplyStage # Check
  BY DEF Stages, ApplyStage, Check
<1>3. UNION {Meanings(s) : s \in Stages}
        = Meanings(Readiness) \cup Meanings(Check) \cup Meanings(ApplyStage) \cup Meanings(Verify)
  BY <1>2
<1>4. Receipts = {"ready", "stage failed", "already-configured", "needs-apply", "applied", "verified", "skip-apply"}
  BY <1>1, <1>3 DEF Receipts
<1>5. \A s \in Stages : Meanings(s) \subseteq Receipts /\ MayNote(s) \subseteq Receipts
  BY <1>1, <1>2, <1>4 DEF MayNote
<1>6. NoIntent \notin Receipts /\ NoIntent # Unknown
  BY RecipePlansAreComplete
<1>7. Unknown \notin Receipts
  BY <1>4 DEF Unknown
<1>8. \A x \in MayNote(Check) : Complete(x) => x \in {"already-configured", "needs-apply"}
  BY <1>1, <1>2 DEF MayNote, Complete
<1> QED
  BY <1>4, <1>5, <1>6, <1>7, <1>8

\* A recipe that runs is at one of its four stages.
LEMMA StageOfRecipe ==
  ASSUME HandlersInv, NEW j \in Jobs, Live(j), Recipe(j) \/ Kind[PlanOf(j)] = "recipe"
  PROVE  /\ Recipe(j) /\ PlanOf(j) = jobs[j].planID /\ jobs[j].planID \in RecipePlans
         /\ LastStep(j) = 3 /\ runner[j].i \in Nat /\ StageOf(j) \in Stages
<1>1. /\ Stored(j) /\ PlanOf(j) = jobs[j].planID /\ jobs[j].planID \in Plans
      /\ runner[j].i \in Nat /\ RunnerProgress(j)
  BY LivePlan, LiveFacts DEF HandlersInv, AcceptanceInv, DoubtInv, OwnershipInv
<1>2. Recipe(j) /\ jobs[j].planID \in RecipePlans /\ LastStep(j) = 3
  BY <1>1, RecipePlansAreComplete DEF Recipe, RecipePlans, LastStep
<1>3. runner[j].i <= 3
  BY <1>1, <1>2 DEF RunnerProgress
<1> QED
  BY <1>1, <1>2, <1>3 DEF StageOf, Stages, Readiness, Check, ApplyStage, Verify

StagesOf(j) == StagesAreOrdered(j) /\ StagesFollowRunner(j)

LEMMA RecipeMovesItself ==
  ASSUME StagesInv, WorkShape, NEW j \in Jobs, RecipeMoves(j)
  PROVE  /\ KeepsEngine /\ DOMAIN work' = Jobs
         /\ \A m \in Jobs : m # j =>
              /\ stage'[m] = stage[m] /\ sent'[m] = sent[m] /\ work'[m] = work[m]
              /\ \A s \in Stages : <<m, s>> \in running' <=> <<m, s>> \in running
<1>1. KeepsEngine /\ Progresses(j)
  BY RecipeFrame DEF RecipeMoves
<1>2. ASSUME NEW m \in Jobs, m # j
      PROVE  /\ stage'[m] = stage[m] /\ sent'[m] = sent[m]
             /\ \A s \in Stages : <<m, s>> \in running' <=> <<m, s>> \in running
  BY <1>2 DEF RecipeMoves, RecipeWork, IntendStage, SendScript, CancelScript, RecordStage, EndStage, ScriptEnds,
              Notes, recipes, StagesInv, GuestSetupTypeOK
<1> QED
  BY <1>1, <1>2 DEF Progresses, WorkShape

\* What does not change when job j's handler works.
LEMMA StayFollowing ==
  ASSUME KeepsEngine, NEW j \in Jobs
  PROVE  /\ StageOf(j)' = StageOf(j) /\ Stored(j)' = Stored(j) /\ Live(j)' = Live(j) /\ Recipe(j)' = Recipe(j)
         /\ runner'[j] = runner[j]
         /\ \A pc : At(j, pc)' <=> At(j, pc)
BY DEF KeepsEngine, vars, volatile, journal, StageOf, Stored, Live, At, Recipe

LEMMA ExecuteFollows ==
  ASSUME KeepsEngine, NEW j \in Jobs, At(j, "execute"), StagesFollowWork(j)',
         \A t \in Stages : t > StageOf(j) => stage'[j][t] = NoIntent
  PROVE  StagesFollowRunner(j)'
BY StayFollowing DEF StagesFollowRunner, At

LEMMA IntendKeeps ==
  ASSUME HandlersInv, StagesInv, NEW j \in Jobs, Recipe(j), IntendStage(j)
  PROVE  StagesOf(j)'
<1> DEFINE s == StageOf(j)
<1>1. /\ At(j, "execute") /\ Live(j) /\ s \in Stages /\ KeepsEngine
      /\ CompleteUpTo(j, s - 1) /\ stage[j][s] = NoIntent
      /\ StagesAreOrdered(j) /\ StagesFollowRunner(j)
  BY StageOfRecipe DEF IntendStage, RecipeStep, In, At, Live, StagesInv
<1>2. /\ stage'[j] = [stage[j] EXCEPT ![s] = Unknown] /\ DOMAIN stage[j] = Stages
      /\ UNCHANGED <<sent, running>>
      /\ work'[j].at = IF Skipped(j, s) THEN "skip-apply" ELSE "send"
  BY DEF IntendStage, Notes, Go, StagesInv, GuestSetupTypeOK, HandlersInv, WorkShape
<1>3. /\ stage'[j][s] = Unknown /\ \A t \in Stages : t # s => stage'[j][t] = stage[j][t]
  BY <1>1, <1>2
<1>4. \A t \in Stages : t > s => stage[j][t] = NoIntent
  BY <1>1 DEF StagesFollowRunner
<1>5. \A t \in Stages : t <= s => \A r \in 1..(t - 1) : r \in Stages /\ r # s
  BY <1>1 DEF Stages, Readiness, Check, ApplyStage, Verify
<1>6. StagesAreOrdered(j)'
  <2>1. \A t \in Stages : stage'[j][t] \in MayNote(t) \cup {Unknown, NoIntent}
    BY <1>1, <1>3 DEF StagesAreOrdered
  <2>2. ASSUME NEW t \in Stages, stage'[j][t] # NoIntent
        PROVE  CompleteUpTo(j, t - 1)'
    <3>1. t <= s
      BY <1>1, <1>3, <1>4, <2>2 DEF Stages, Readiness, Check, ApplyStage, Verify
    <3>2. CompleteUpTo(j, t - 1)
      BY <1>1, <1>3, <2>2 DEF StagesAreOrdered
    <3> QED
      BY <1>3, <1>5, <3>1, <3>2 DEF CompleteUpTo
  <2>3. \A t \in Stages : IsSent(j, t)' <=> IsSent(j, t)
    BY <1>2 DEF IsSent
  <2>4. \A t \in Stages : IsSent(j, t) => t # s
    BY <1>1 DEF StagesAreOrdered
  <2>5. IsSent(j, ApplyStage) => stage'[j][Check] = "needs-apply"
    BY <1>1, <1>3, ReceiptsAre DEF StagesAreOrdered, Stages
  <2>6. \A t \in Stages : <<j, t>> \in running' => stage'[j][t] = Unknown
    BY <1>1, <1>2, <1>3 DEF StagesAreOrdered
  <2> QED
    BY <1>1, <1>2, <1>3, <2>1, <2>2, <2>3, <2>4, <2>5, <2>6
       DEF StagesAreOrdered, Stages
<1>7. StageOf(j)' = s
  BY <1>1, StayFollowing
<1>8. StagesFollowWork(j)'
  <2>1. CASE Skipped(j, s)
    <3>1. work'[j].at = "skip-apply" /\ s = ApplyStage
      BY <1>2, <2>1 DEF Skipped
    <3>2. "skip-apply" \in MayNote(s) /\ <<j, s>> \notin running'
      BY <1>1, <1>2, <3>1, ReceiptsAre DEF MayNote, StagesAreOrdered
    <3> QED
      BY <1>3, <1>7, <3>1, <3>2, ReceiptsAre DEF StagesFollowWork
  <2>2. CASE ~Skipped(j, s)
    <3>1. ~IsSent(j, s) /\ ~IsSent(j, s)'
      BY <1>1, <1>2, <1>7 DEF IsSent, StagesAreOrdered
    <3>2. ~Skipped(j, s)'
      BY <1>3, <1>7, <2>2 DEF Skipped, ApplyStage, Check, Stages
    <3>3. work'[j].at = "send"
      BY <1>2, <2>2
    <3> QED
      BY <1>3, <1>7, <3>1, <3>2, <3>3, ReceiptsAre DEF StagesFollowWork
  <2> QED
    BY <2>1, <2>2
<1>9. StagesFollowRunner(j)'
  <2>1. \A t \in Stages : t > s => stage'[j][t] = NoIntent
    BY <1>1, <1>3, <1>4 DEF Stages, Readiness, Check, ApplyStage, Verify
  <2> QED
    BY <1>1, <1>8, <2>1, ExecuteFollows
<1> QED
  BY <1>6, <1>9 DEF StagesOf

LEMMA SendKeeps ==
  ASSUME HandlersInv, StagesInv, NEW j \in Jobs, Recipe(j), SendScript(j)
  PROVE  StagesOf(j)'
<1> DEFINE s == StageOf(j)
<1>1. /\ At(j, "execute") /\ Live(j) /\ s \in Stages /\ KeepsEngine
      /\ StagesAreOrdered(j) /\ StagesFollowRunner(j) /\ work[j].at = "send"
  BY StageOfRecipe DEF SendScript, RecipeStep, In, At, Live, StagesInv
<1>2. /\ UNCHANGED stage
      /\ sent[j] \in Seq(Stages) /\ sent'[j] = Append(sent[j], s)
      /\ running' = running \cup {<<j, s>>}
      /\ work'[j].at = "waiting"
  BY DEF SendScript, Go, StagesInv, GuestSetupTypeOK, HandlersInv, WorkShape
<1>3. stage[j][s] = Unknown /\ ~IsSent(j, s) /\ ~Skipped(j, s)
  BY <1>1 DEF StagesFollowRunner, StagesFollowWork
<1>4. \A t \in Stages : IsSent(j, t) => t < s
  BY <1>1, <1>3 DEF StagesAreOrdered, StagesFollowRunner, Stages, Readiness, Check, ApplyStage, Verify
<1>5. \A t \in Stages : IsSent(j, t)' => IsSent(j, t) \/ t = s
  BY <1>2 DEF IsSent
<1>6. \A i \in 2..Len(sent'[j]) : sent'[j][i - 1] < sent'[j][i]
  <2>1. Len(sent'[j]) = Len(sent[j]) + 1 /\ Len(sent[j]) \in Nat
    BY <1>2
  <2> SUFFICES ASSUME NEW i \in 2..(Len(sent[j]) + 1)
               PROVE  sent'[j][i - 1] < sent'[j][i]
    BY <2>1
  <2>2. CASE i <= Len(sent[j])
    BY <1>1, <1>2, <2>1, <2>2 DEF StagesAreOrdered
  <2>3. CASE i = Len(sent[j]) + 1
    <3>1. sent'[j][i] = s /\ sent'[j][i - 1] = sent[j][i - 1] /\ i - 1 \in 1..Len(sent[j])
      BY <1>2, <2>1, <2>3
    <3>2. sent[j][i - 1] \in Stages /\ IsSent(j, sent[j][i - 1])
      BY <1>2, <3>1 DEF IsSent
    <3> QED
      BY <1>4, <3>1, <3>2
  <2> QED
    BY <2>1, <2>2, <2>3
<1>7. s = ApplyStage => stage[j][Check] = "needs-apply"
  <2>1. ASSUME s = ApplyStage
        PROVE  Complete(stage[j][Check]) /\ stage[j][Check] \in MayNote(Check)
    <3>1. CompleteUpTo(j, s - 1)
      BY <1>1, <1>3, ReceiptsAre DEF StagesAreOrdered
    <3>2. Complete(stage[j][Check])
      BY <2>1, <3>1 DEF CompleteUpTo, Check, ApplyStage
    <3> QED
      BY <1>1, <3>2, ReceiptsAre DEF StagesAreOrdered, Complete, Stages
  <2> QED
    BY <1>3, <2>1, ReceiptsAre DEF Skipped
<1>8. StagesAreOrdered(j)'
  <2>1. \A t \in Stages : IsSent(j, t)' => stage[j][t] # NoIntent
    BY <1>1, <1>3, <1>5, ReceiptsAre DEF StagesAreOrdered
  <2>2. IsSent(j, ApplyStage)' => stage[j][Check] = "needs-apply"
    BY <1>1, <1>5, <1>7 DEF StagesAreOrdered, Stages
  <2>3. \A t \in Stages : <<j, t>> \in running' => stage[j][t] = Unknown
    BY <1>1, <1>2, <1>3 DEF StagesAreOrdered
  <2> QED
    BY <1>1, <1>2, <1>6, <2>1, <2>2, <2>3 DEF StagesAreOrdered, CompleteUpTo
<1>9. StagesFollowRunner(j)'
  <2>1. StagesFollowWork(j)'
    BY <1>1, <1>2, <1>3, StayFollowing, ReceiptsAre DEF StagesFollowWork
  <2> QED
    BY <1>1, <1>2, <2>1, ExecuteFollows DEF StagesFollowRunner
<1> QED
  BY <1>8, <1>9 DEF StagesOf

LEMMA RecordKeeps ==
  ASSUME HandlersInv, StagesInv, NEW j \in Jobs, Recipe(j), RecordStage(j)
  PROVE  StagesOf(j)'
<1> DEFINE s == StageOf(j)
           at == work[j].at
<1>1. /\ At(j, "execute") /\ Live(j) /\ s \in Stages /\ KeepsEngine
      /\ StagesAreOrdered(j) /\ StagesFollowRunner(j) /\ StagesFollowWork(j)
  BY StageOfRecipe DEF RecordStage, At, Live, StagesInv, StagesFollowRunner
<1>2. /\ stage'[j] = [stage[j] EXCEPT ![s] = at] /\ DOMAIN stage[j] = Stages
      /\ UNCHANGED <<sent, running>>
      /\ work'[j].at = "noted"
  BY DEF RecordStage, Notes, Go, StagesInv, GuestSetupTypeOK, HandlersInv, WorkShape
<1>3. /\ at \in MayNote(s) /\ at # NoIntent /\ <<j, s>> \notin running /\ stage[j][s] = Unknown
  BY <1>1, ReceiptsAre DEF RecordStage, StagesFollowWork
<1>4. /\ stage'[j][s] = at /\ \A t \in Stages : t # s => stage'[j][t] = stage[j][t]
  BY <1>1, <1>2
<1>5. \A t \in Stages : t > s => stage[j][t] = NoIntent /\ stage'[j][t] = NoIntent
  BY <1>1, <1>4 DEF StagesFollowRunner, Stages, Readiness, Check, ApplyStage, Verify
<1>6. \A t \in Stages : t <= s => \A r \in 1..(t - 1) : r \in Stages /\ r # s
  BY <1>1 DEF Stages, Readiness, Check, ApplyStage, Verify
<1>7. StagesAreOrdered(j)'
  <2>1. \A t \in Stages : stage'[j][t] \in MayNote(t) \cup {Unknown, NoIntent}
    BY <1>1, <1>3, <1>4 DEF StagesAreOrdered
  <2>2. ASSUME NEW t \in Stages, stage'[j][t] # NoIntent
        PROVE  CompleteUpTo(j, t - 1)'
    <3>1. t <= s
      BY <1>1, <1>5, <2>2 DEF Stages, Readiness, Check, ApplyStage, Verify
    <3>2. CompleteUpTo(j, t - 1)
      BY <1>1, <1>3, <1>4, <2>2, ReceiptsAre DEF StagesAreOrdered
    <3> QED
      BY <1>4, <1>6, <3>1, <3>2 DEF CompleteUpTo
  <2>3. \A t \in Stages : IsSent(j, t)' <=> IsSent(j, t)
    BY <1>2 DEF IsSent
  <2>4. \A t \in Stages : IsSent(j, t) => stage'[j][t] # NoIntent
    BY <1>1, <1>3, <1>4 DEF StagesAreOrdered
  <2>5. IsSent(j, ApplyStage) => stage'[j][Check] = "needs-apply"
    BY <1>1, <1>3, <1>4, ReceiptsAre DEF StagesAreOrdered, Stages
  <2>6. \A t \in Stages : <<j, t>> \in running' => stage'[j][t] = Unknown
    BY <1>1, <1>2, <1>3, <1>4 DEF StagesAreOrdered
  <2> QED
    BY <1>1, <1>2, <2>1, <2>2, <2>3, <2>4, <2>5, <2>6
       DEF StagesAreOrdered, Stages
<1>8. StagesFollowWork(j)'
  BY <1>2, ReceiptsAre DEF StagesFollowWork
<1> QED
  BY <1>1, <1>5, <1>7, <1>8, ExecuteFollows DEF StagesOf

\* A script that ends, or that nobody waits for any more.
LEMMA EndsKeep ==
  ASSUME HandlersInv, StagesInv, NEW j \in Jobs, Recipe(j),
         CancelScript(j) \/ EndStage(j) \/ \E s \in Stages : ScriptEnds(j, s)
  PROVE  StagesOf(j)'
<1>1. StagesAreOrdered(j) /\ StagesFollowRunner(j) /\ StagesFollowWork(j) /\ KeepsEngine
  BY DEF StagesInv, StagesFollowRunner, CancelScript, EndStage, ScriptEnds, RecipeStep
<1>2. UNCHANGED <<stage, sent>> /\ running' \subseteq running
  BY DEF CancelScript, EndStage, ScriptEnds, recipes
<1>3. StagesAreOrdered(j)'
  BY <1>1, <1>2 DEF StagesAreOrdered, IsSent, CompleteUpTo
<1>4. /\ StageOf(j)' = StageOf(j) /\ (Skipped(j, StageOf(j))' <=> Skipped(j, StageOf(j)))
      /\ IsSent(j, StageOf(j))' <=> IsSent(j, StageOf(j))
  BY <1>1, <1>2, StayFollowing DEF Skipped, IsSent
<1>5. CASE UNCHANGED work
  BY <1>1, <1>2, <1>3, <1>4, <1>5, StayFollowing DEF StagesFollowRunner, StagesFollowWork, StagesOf, At
<1>6. CASE ~UNCHANGED work
  <2>1. /\ At(j, "execute") /\ Live(j)
        /\ \/ work'[j].at \in {"ok", "error"}
           \/ /\ work[j].at = "waiting" /\ work'[j].at \in Meanings(StageOf(j))
              /\ <<j, StageOf(j)>> \notin running'
    BY <1>6 DEF CancelScript, EndStage, ScriptEnds, RecipeStep, In, Go, At, Live, HandlersInv, WorkShape
  <2>2. StageOf(j) \in Stages
    BY <2>1, StageOfRecipe
  <2>3. StagesFollowWork(j)'
    BY <1>1, <1>2, <1>4, <2>1, <2>2, ReceiptsAre DEF StagesFollowWork, MayNote
  <2>4. \A t \in Stages : t > StageOf(j) => stage'[j][t] = NoIntent
    BY <1>1, <1>2, <2>1 DEF StagesFollowRunner
  <2> QED
    BY <1>1, <1>3, <2>1, <2>3, <2>4, ExecuteFollows DEF StagesOf
<1> QED
  BY <1>5, <1>6

LEMMA MovesKeepStages ==
  ASSUME HandlersInv, StagesInv, NEW j \in Jobs, RecipeMoves(j)
  PROVE  StagesInv'
<1>1. /\ KeepsEngine /\ Recipe(j) /\ WorkShape
      /\ \A m \in Jobs : m # j =>
              /\ stage'[m] = stage[m] /\ sent'[m] = sent[m] /\ work'[m] = work[m]
              /\ \A s \in Stages : <<m, s>> \in running' <=> <<m, s>> \in running
  BY RecipeMovesItself DEF RecipeMoves, IsAbout, Recipe, HandlersInv
<1>2. StagesOf(j)'
  BY <1>1, IntendKeeps, SendKeeps, RecordKeeps, EndsKeep DEF RecipeMoves, RecipeWork
<1>3. ASSUME NEW m \in Jobs, m # j
      PROVE  /\ StagesAreOrdered(m)'
             /\ Recipe(m) => StagesFollowRunner(m)'
  <2>1. StagesAreOrdered(m)
    BY DEF StagesInv
  <2>2. StagesAreOrdered(m)'
    BY <1>1, <1>3, <2>1 DEF StagesAreOrdered, IsSent, CompleteUpTo
  <2>3. Recipe(m) => StagesFollowRunner(m)
    BY DEF StagesInv
  <2>4. CASE Recipe(m) /\ StageOf(m) \in Stages
    <3>1. runner'[m] = runner[m] /\ StageOf(m)' = StageOf(m) /\ Live(m)' = Live(m)
      BY <1>1, StayFollowing
    <3>2. StagesFollowWork(m)'
      BY <1>1, <1>3, <2>3, <2>4, <3>1 DEF StagesFollowRunner, StagesFollowWork, IsSent, Skipped
    <3>3. stage'[m] = stage[m] /\ work'[m] = work[m] /\ \A pc : At(m, pc)' <=> At(m, pc)
      BY <1>1, <1>3, StayFollowing
    <3> QED
      BY <2>2, <2>3, <2>4, <3>1, <3>2, <3>3 DEF StagesFollowRunner
  <2>5. CASE Recipe(m) /\ StageOf(m) \notin Stages
    <3>1. ~Live(m)
      BY <2>5, StageOfRecipe
    <3>2. work[m].at = "idle"
      BY <2>3, <2>5, <3>1 DEF StagesFollowRunner, At, Live
    <3>3. ~Live(m)' /\ work'[m].at = "idle"
      BY <1>1, <1>3, <3>1, <3>2, StayFollowing
    <3>4. StagesFollowWork(m)'
      BY <3>3, ReceiptsAre DEF StagesFollowWork
    <3>5. \A pc \in {"boundary", "validate", "execute", "returned"} : ~At(m, pc)'
      BY <3>3 DEF At, Live
    <3> QED
      BY <2>2, <3>3, <3>4, <3>5 DEF StagesFollowRunner
  <2> QED
    BY <2>2, <2>4, <2>5
<1>4. GuestSetupTypeOK'
  <2>1. CASE IntendStage(j)
    BY <2>1 DEF IntendStage, Notes, StagesInv, GuestSetupTypeOK
  <2>2. CASE SendScript(j)
    <3>1. StageOf(j) \in Stages
      BY <1>1, <2>2, StageOfRecipe DEF SendScript, RecipeStep, In, At, Live
    <3> QED
      BY <2>2, <3>1 DEF SendScript, StagesInv, GuestSetupTypeOK
  <2>3. CASE RecordStage(j)
    BY <2>3 DEF RecordStage, Notes, StagesInv, GuestSetupTypeOK
  <2>4. CASE CancelScript(j) \/ EndStage(j) \/ \E s \in Stages : ScriptEnds(j, s)
    BY <2>4 DEF CancelScript, EndStage, ScriptEnds, recipes, StagesInv, GuestSetupTypeOK
  <2> QED
    BY <2>1, <2>2, <2>3, <2>4 DEF RecipeMoves, RecipeWork
<1>5. \A m \in Jobs : Recipe(m)' <=> Recipe(m)
  BY <1>1, StayFollowing
<1> QED
  BY <1>1, <1>2, <1>3, <1>4, <1>5 DEF StagesInv, StagesOf

\* The engine goes on with job j.
LEMMA RunKeepsStages ==
  ASSUME HandlersInv, HandlersInv', StagesInv, EngineMoves, UNCHANGED recipes, NEW j \in Jobs, Recipe(j)'
  PROVE  StagesFollowRunner(j)'
<1>1. Stored(j) => Recipe(j)
  BY StepImplements, EngineMovesEngine, JobsAreKept DEF HandlersInv, Recipe
<1>2. ~Stored(j) => ~Recipe(j)
  BY DEF Recipe
<1>3. UNCHANGED <<stage, sent, running>>
  BY DEF recipes
<1>4. RunnerSteps(j)
  BY EngineRuns
<1>5. ASSUME work'[j].at = "idle"
      PROVE  StagesFollowWork(j)'
  BY <1>5, ReceiptsAre DEF StagesFollowWork
<1>6. CASE ~Stored(j)
  <2>1. work[j].at = "idle" /\ ~Live(j) /\ \A s \in Stages : stage[j][s] = NoIntent
    BY <1>2, <1>6 DEF HandlersInv, WorkIsStored, StagesInv, AcceptanceInv, DoubtInv, OwnershipInv, Ownership, RunnersHold
  <2>2. work'[j].at = "idle"
    <3>1. ~Busy(j)
      BY <2>1 DEF Busy, At, Live
    <3> QED
      BY <2>1, <3>1, EngineRuns DEF Idly
  <2>3. runner'[j] = runner[j] \/ runner'[j] = Idle \/ (runner'[j].pc = "boundary" /\ runner'[j].i = 0)
    BY <1>4, <2>1 DEF RunnerSteps, At, Live, ExecuteReturns, Execute
  <2>4. At(j, "boundary")' => StageOf(j)' \in Stages
    BY <2>1, <2>3 DEF Live, At, StageOf, Idle, Stages, Readiness
  <2> QED
    BY <1>3, <1>5, <2>1, <2>2, <2>3, <2>4 DEF StagesFollowRunner, At, Live, Idle
<1>7. CASE Stored(j)
  <2>1. Recipe(j) /\ StagesFollowRunner(j)
    BY <1>1, <1>7 DEF StagesInv
  <2>2. Live(j) => StageOf(j) \in Stages /\ runner[j].i \in Nat
    BY <2>1, StageOfRecipe
  <2>3. Live(j)' => StageOf(j)' \in Stages /\ Live(j)
    <3> SUFFICES ASSUME Live(j)'
                 PROVE  StageOf(j)' \in Stages /\ Live(j)
      OBVIOUS
    <3>1. Live(j)
      BY <1>4, <1>7 DEF RunnerSteps, Live, At, Idle, ExecuteReturns, Execute
    <3>2. runner'[j].i \in Nat
      BY <1>4, <1>7, <2>2, <3>1 DEF RunnerSteps, Live, Idle
    <3>3. jobs'[j].planID = jobs[j].planID /\ LastStep(j) = 3
      BY <1>7, <2>1, <3>1, StageOfRecipe, StepImplements, EngineMovesEngine, JobsAreKept DEF HandlersInv
    <3>4. runner'[j].i <= 3
      BY <3>3 DEF HandlersInv, AcceptanceInv, DoubtInv, Progress, RunnersProgress, RunnerProgress, LastStep
    <3> QED
      BY <3>1, <3>2, <3>4 DEF StageOf, Stages, Readiness, Check, ApplyStage, Verify
  <2>4. CASE ExecuteReturns(j)
    <3>1. /\ At(j, "execute") /\ work'[j] = Idly /\ runner'[j].pc = "returned" /\ runner'[j].i = runner[j].i
          /\ runner'[j].outcome = work[j].at /\ work[j].at \in {"ok", "error"}
      <4>1. At(j, "execute") /\ work'[j] = Idly /\ runner'[j] = [runner[j] EXCEPT !.pc = "returned", !.outcome = work[j].at]
        BY <2>4 DEF ExecuteReturns, Execute, HandlersInv, WorkShape, AcceptanceInv, DoubtInv, OwnershipInv, TypeOK
      <4>2. runner[j] \in RunnerState
        BY <4>1, RunnerOfLive DEF HandlersInv, AcceptanceInv, DoubtInv, OwnershipInv, At, Live
      <4>3. work[j].at \in {"ok", "error"}
        BY <2>1, <2>4, ReceiptsAre DEF ExecuteReturns, Results, StagesFollowRunner, StagesFollowWork
      <4> QED
        BY <4>1, <4>2, <4>3 DEF RunnerState
    <3> QED
      BY <1>3, <1>5, <2>1, <3>1 DEF StagesFollowRunner, At, Live, StageOf, Idly
  <2>5. CASE ~ExecuteReturns(j) /\ runner'[j] = runner[j]
    <3>1. CASE work'[j] = work[j]
      BY <1>3, <2>1, <2>5, <3>1 DEF StagesFollowRunner, StagesFollowWork, At, Live, StageOf, IsSent, Skipped
    <3>2. CASE Busy(j) /\ work'[j].at = "error"
      BY <1>3, <2>1, <2>5, <3>2, ReceiptsAre DEF StagesFollowRunner, StagesFollowWork, At, Live, StageOf, Busy
    <3>3. CASE work'[j] = Idly
      BY <1>3, <1>5, <2>1, <2>5, <3>3 DEF StagesFollowRunner, At, Live, StageOf, Idly
    <3> QED
      BY <2>5, <3>1, <3>2, <3>3, EngineRuns
  <2>6. CASE ~ExecuteReturns(j) /\ runner'[j] = Idle
    <3>1. ~Live(j)' /\ \A pc \in {"boundary", "validate", "execute", "returned"} : ~At(j, pc)'
      BY <2>6 DEF Live, At, Idle
    <3>2. work'[j].at = "idle"
      <4>1. CASE runner'[j] = runner[j] \/ ~At(j, "execute")
        <5>1. ~At(j, "execute")
          BY <3>1, <4>1 DEF At
        <5> QED
          BY <2>1, <2>6, <5>1, EngineRuns DEF StagesFollowRunner, Busy, Idly
      <4> QED
        BY <2>6, <4>1, EngineRuns DEF Idly, Busy
    <3> QED
      BY <1>5, <3>1, <3>2 DEF StagesFollowRunner
  <2>7. CASE ~ExecuteReturns(j) /\ runner'[j] # runner[j] /\ runner'[j] # Idle
    <3>1. ~At(j, "execute") /\ work'[j].at = "idle" /\ Live(j)
      BY <1>4, <1>7, <2>1, <2>7, EngineRuns DEF RunnerSteps, StagesFollowRunner, At, Live, Busy, Idly
    <3>2. /\ At(j, "returned")' => FALSE
          /\ StageOf(j)' >= StageOf(j)
          /\ At(j, "boundary")' => StageOf(j)' > StageOf(j)
          /\ At(j, "validate")' => At(j, "boundary") /\ StageOf(j)' = StageOf(j)
      BY <1>4, <1>7, <2>2, <2>7, <3>1 DEF RunnerSteps, At, Live, StageOf
    <3>3. \A t \in Stages : t > StageOf(j) => stage[j][t] = NoIntent
      BY <2>1, <3>1 DEF StagesFollowRunner
    <3>4. Live(j)' => \A t \in Stages : t > StageOf(j)' => stage'[j][t] = NoIntent
      BY <1>3, <2>2, <2>3, <3>1, <3>2, <3>3 DEF Stages, Readiness, Check, ApplyStage, Verify
    <3>5. At(j, "boundary")' \/ At(j, "validate")' => stage'[j][StageOf(j)'] = NoIntent
      BY <1>3, <2>1, <2>3, <3>2, <3>3 DEF StagesFollowRunner, At, Live
    <3> QED
      BY <1>5, <3>1, <3>2, <3>4, <3>5 DEF StagesFollowRunner
  <2> QED
    BY <2>4, <2>5, <2>6, <2>7
<1> QED
  BY <1>6, <1>7

LEMMA NextStages ==
  ASSUME HandlersInv, StagesInv, [HostNext]_hostVars
  PROVE  StagesInv'
<1>1. CASE UNCHANGED hostVars
  <2>1. UNCHANGED <<jobs, runner, work, stage, sent, running>>
    BY <1>1 DEF hostVars, vars, journal, volatile, recipes
  <2> QED
    BY <2>1 DEF StagesInv, GuestSetupTypeOK, StagesAreOrdered, IsSent, CompleteUpTo, Recipe, Stored,
                StagesFollowRunner, StagesFollowWork, StageOf, Skipped, At, Live
<1>2. CASE HostNext /\ \E j \in Jobs : RecipeMoves(j)
  BY <1>2, MovesKeepStages
<1>3. CASE HostNext /\ UNCHANGED <<stage, sent>> /\ running' \subseteq running /\ ~\E j \in Jobs : RecipeMoves(j)
  <2>1. /\ HandlersInv' /\ \A j \in Jobs : Recipe(j) => Recipe(j)'
    BY <1>3, NextHandlers, StepImplements, JobsAreKept DEF HandlersInv, Recipe
  <2>2. \A j \in Jobs : StagesAreOrdered(j)'
    BY <1>3 DEF StagesInv, StagesAreOrdered, IsSent, CompleteUpTo
  <2>3. \A j \in Jobs : ~Recipe(j)' => \A s \in Stages : stage'[j][s] = NoIntent
    BY <1>3, <2>1 DEF StagesInv
  <2>4. GuestSetupTypeOK'
    BY <1>3 DEF StagesInv, GuestSetupTypeOK
  <2>5. ASSUME NEW j \in Jobs, Recipe(j), runner'[j] = runner[j],
               work'[j] = work[j] \/ (At(j, "execute") /\ work'[j].at \in {"ok", "error"})
        PROVE  StagesFollowRunner(j)'
    <3>1. StagesFollowRunner(j) /\ StageOf(j)' = StageOf(j) /\ Live(j)' = Live(j) /\ \A pc : At(j, pc)' <=> At(j, pc)
      BY <2>5 DEF StagesInv, StageOf, Live, At
    <3>2. StagesFollowWork(j)'
      <4>1. CASE work'[j] = work[j]
        BY <1>3, <3>1, <4>1 DEF StagesFollowRunner, StagesFollowWork, IsSent, Skipped
      <4>2. CASE work'[j].at \in {"ok", "error"}
        BY <4>2, ReceiptsAre DEF StagesFollowWork
      <4> QED
        BY <2>5, <4>1, <4>2
    <3>3. UNCHANGED stage /\ (~At(j, "execute") => work'[j] = work[j])
      BY <1>3, <2>5
    <3> QED
      BY <2>5, <3>1, <3>2, <3>3 DEF StagesFollowRunner
  <2>6. ASSUME NEW j \in Jobs, Recipe(j)', UNCHANGED <<vars, work>>
        PROVE  StagesFollowRunner(j)'
    BY <2>5, <2>6 DEF vars, journal, volatile, Recipe, Stored
  <2>7. ASSUME NEW j \in Jobs, Recipe(j)'
        PROVE  StagesFollowRunner(j)'
    <3>1. CASE \E p \in Plannable : HostPlans(p)
      BY <2>6, <2>7, <3>1, PlansFrame
    <3>2. ASSUME NEW m \in Jobs, HostWork(m)
          PROVE  StagesFollowRunner(j)'
      <4>1. Stored(m) /\ KeepsEngine /\ Progresses(m)
        BY <3>2, WorkFrame
      <4>2. Recipe(j) /\ runner'[j] = runner[j]
        BY <2>7, <4>1, StayFollowing
      <4>3. m # j
        BY <1>3, <3>2, <4>1, <4>2, RecipeIsRecipes DEF Recipe, RecipeMoves, IsAbout
      <4> QED
        BY <2>5, <4>1, <4>2, <4>3 DEF Progresses, HandlersInv, WorkShape
    <3>3. CASE HostChanges
      <4>1. KeepsEngine
        BY <3>3, ChangesFrame
      <4>2. CASE UNCHANGED work
        BY <2>6, <2>7, <4>1, <4>2 DEF KeepsEngine
      <4>3. CASE ~UNCHANGED work
        <5>1. \/ work'[j] = work[j]
              \/ At(j, "execute") /\ work'[j].at \in {"ok", "error"}
          BY <3>3, <4>3, ChangesFrame, HelperFrame DEF Go, HandlersInv, WorkShape
        <5> QED
          BY <2>5, <2>7, <4>1, <5>1, StayFollowing
      <4> QED
        BY <4>2, <4>3
    <3>4. CASE EngineMoves /\ UNCHANGED recipes
      BY <2>1, <2>7, <3>4, RunKeepsStages
    <3>5. CASE PowerLoss
      <4>1. runner'[j] = Idle /\ work'[j] = Idly
        BY <3>5 DEF PowerLoss, Crash
      <4>2. work'[j].at = "idle"
        BY <4>1 DEF Idly
      <4>3. StagesFollowWork(j)'
        BY <4>2, ReceiptsAre DEF StagesFollowWork
      <4> QED
        BY <4>1, <4>2, <4>3 DEF StagesFollowRunner, At, Live, Idle, Idly
    <3> QED
      BY <1>3, <3>1, <3>2, <3>3, <3>4, <3>5 DEF HostNext, EngineMoves
  <2> QED
    BY <2>1, <2>2, <2>3, <2>4, <2>7 DEF StagesInv
<1>4. HostNext => \/ \E j \in Jobs : RecipeMoves(j)
                  \/ UNCHANGED <<stage, sent>> /\ running' \subseteq running
  BY RecipesStep DEF recipes, GuestsLosePower
<1> QED
  BY <1>1, <1>2, <1>3, <1>4

\* A receipt is never written over.
LEMMA ReceiptsAreKept ==
  ASSUME HandlersInv, StagesInv, HostNext, NEW j \in Jobs, NEW s \in Stages, Complete(stage[j][s])
  PROVE  stage'[j][s] = stage[j][s]
<1>1. CASE UNCHANGED stage
  BY <1>1
<1>2. ASSUME NEW m \in Jobs, RecipeMoves(m), stage' # stage
      PROVE  stage'[j][s] = stage[j][s]
  <2>1. /\ stage[m][StageOf(m)] \in {NoIntent, Unknown}
        /\ \E receipt : stage' = [stage EXCEPT ![m][StageOf(m)] = receipt]
    <3>1. CASE IntendStage(m)
      BY <3>1 DEF IntendStage, Notes
    <3>2. CASE RecordStage(m)
      BY <1>2, <3>2 DEF RecordStage, Notes, RecipeMoves, IsAbout, Recipe, StagesInv, StagesFollowRunner, StagesFollowWork
    <3> QED
      BY <1>2, <3>1, <3>2 DEF RecipeMoves, RecipeWork, SendScript, CancelScript, EndStage, ScriptEnds, recipes
  <2>2. m # j \/ StageOf(m) # s
    BY <2>1, ReceiptsAre DEF Complete
  <2> QED
    BY <2>1, <2>2 DEF StagesInv, GuestSetupTypeOK
<1> QED
  BY <1>1, <1>2, RecipesStep DEF recipes, GuestsLosePower

LEMMA NextReceipts ==
  ASSUME HandlersInv, StagesInv, ReceiptsConfirm, HostNext
  PROVE  ReceiptsConfirm'
<1> SUFFICES ASSUME NEW j \in Jobs, NEW i \in 0..3, Recipe(j)', <<j, i>> \in verified'
             PROVE  CompleteUpTo(j, i + 1)'
  BY DEF ReceiptsConfirm
<1>1. Stored(j) => Recipe(j)
  BY StepImplements, JobsAreKept DEF HandlersInv, Recipe
<1>2. CompleteUpTo(j, i + 1)
  <2>1. CASE <<j, i>> \in verified
    <3>1. Stored(j)
      BY <2>1 DEF HandlersInv, AcceptanceInv, Acceptances, NothingUnstoredVerified
    <3> QED
      BY <1>1, <2>1, <3>1 DEF ReceiptsConfirm
  <2>2. CASE <<j, i>> \notin verified
    <3>1. Recipe(j) /\ HostDone(jobs[j].planID, i, j)
      BY <1>1, <2>2, ConfirmedWasDone
    <3>2. /\ Kind[jobs[j].planID] = "recipe"
          /\ Kind[jobs[j].planID] \notin NetworkKinds \cup AccessKinds \cup CaptureKinds \cup ImportKinds
               \cup MachineKinds \cup PoolKinds \cup ConfigurationKinds
      BY <3>1 DEF Recipe, NetworkKinds, AccessKinds, CaptureKinds, ImportKinds, MachineKinds, Lifecycle, PoolKinds,
                  ConfigurationKinds, DefiningKinds
    <3>3. RecipeDone(i, j)
      BY <3>1, <3>2, Zenon DEF HostDone
    <3> QED
      BY <3>3 DEF RecipeDone
  <2> QED
    BY <2>1, <2>2
<1>3. \A t \in 1..(i + 1) : t \in Stages
  BY DEF Stages, Readiness, Check, ApplyStage, Verify
<1> QED
  BY <1>2, <1>3, ReceiptsAreKept DEF CompleteUpTo

LEMMA NextRecoveries ==
  ASSUME HandlersInv, RecoveriesAreOfNetworks, HostNext
  PROVE  RecoveriesAreOfNetworks'
<1>1. \A j \in Jobs : Stored(j) => Stored(j)' /\ jobs'[j].planID = jobs[j].planID
  BY StepImplements, JobsAreKept DEF HandlersInv
<1>2. ASSUME NEW p \in RecoveryPlans, review'[p] # Unplanned, ~Planned(p)
      PROVE  LET parent == review'[p].parent IN
             parent \in Jobs /\ Stored(parent) /\ Kind[jobs[parent].planID] \in NetworkKinds
  <2>1. PICK q \in Plannable : HostPlans(q)
    BY <1>2, WorkFrame, ChangesFrame
       DEF HostNext, KeepsEngine, HostWorkFails, ExecuteReturns, EngineSteps, ProcessSteps, PowerLoss, Planned
  <2>2. p \in Plans /\ q = p
    BY <1>2, <2>1, PlansFrame, PlanKinds DEF HandlersInv, WorkShape, Planned
  <2>3. PlanNetworkResume(p)
    BY <1>2, <2>1, <2>2, NetworkPlansAreComplete, AccessPlansAreComplete, RecipePlansAreComplete,
       CapturePlansAreComplete, ImportPlansAreComplete, MachinePlansAreComplete, PoolPlansAreComplete,
       ConfigurationPlansAreComplete
       DEF HostPlans, NetworkPlans, GrantPlans, AccessPlans, AccessKinds, RecipePlans, CapturePlans, BackupPlans,
           RestorePlans, RecoverPlans, PreparePlans, DiscardPlans
  <2> QED
    BY <2>2, <2>3 DEF PlanNetworkResume, StorePlan, HandlersInv, WorkShape
<1>3. ASSUME NEW p \in RecoveryPlans, Planned(p)
      PROVE  review'[p] = review[p]
  BY <1>3, ReviewsAreKept, PlanKinds DEF HandlersInv
<1> QED
  BY <1>1, <1>2, <1>3 DEF RecoveriesAreOfNetworks, Planned

-----------------------------------------------------------------------------
(* Who gives the resources of a job away. *)

LEMMA ReleaseEnds ==
  ASSUME TypeOK, NEW m \in Jobs, NEW row, row.state \in JobState, Update(m, row), NEW j \in Jobs, Stored(j), Holds(j),
         jobs'[j].planID = jobs[j].planID, ~Holds(j)'
  PROVE  m = j /\ row.state \in Finished
<1>1. Resource(j) \subseteq Resources /\ Resource(j)' = Resource(j)
  BY RowOfStored, PlansAreComplete DEF Resource, Row, TypeOK
<1> QED
  BY <1>1 DEF Update, Released, Held, Holds

LEMMA LocksEnd ==
  ASSUME HandlersInv, EngineMoves, NEW j \in Jobs, Stored(j), Holds(j), ~Holds(j)'
  PROVE  \/ (At(j, "boundary") \/ At(j, "validate")) /\ ~KeepsLocks(j)
         \/ At(j, "returned") /\ runner[j].outcome \in {"canceled-safely", "not-done"}
         \/ jobs'[j].state = "succeeded"
         \/ \E p \in RecoveryPlans : Planned(p) /\ review[p].parent = j
<1> DEFINE Ends == \/ (At(j, "boundary") \/ At(j, "validate")) /\ ~KeepsLocks(j)
                   \/ At(j, "returned") /\ runner[j].outcome \in {"canceled-safely", "not-done"}
                   \/ jobs'[j].state = "succeeded"
                   \/ \E p \in RecoveryPlans : Planned(p) /\ review[p].parent = j
<1>1. TypeOK /\ jobs'[j].planID = jobs[j].planID /\ Resource(j)' = Resource(j)
  BY StepImplements, EngineMovesEngine, JobsAreKept DEF HandlersInv, AcceptanceInv, DoubtInv, OwnershipInv, Resource
<1>2. ASSUME UNCHANGED journal
      PROVE  FALSE
  BY <1>1, <1>2 DEF journal, Holds
<1>3. ASSUME NEW m \in Jobs, Live(m), NEW state \in JobState, Update(m, Copy(m, state))
      PROVE  m = j /\ state \in Finished /\ jobs'[j].state = state
  <2>1. Copy(m, state).state = state
    BY <1>1, <1>3, CopyFields
  <2>2. m = j /\ state \in Finished
    BY <1>1, <1>3, <2>1, ReleaseEnds
  <2>3. jobs'[m].state = state
    <3>1. Copy(m, state) \in Row
      BY <1>1, <1>3, CopyFields
    <3> QED
      BY <1>1, <1>3, <2>1, <3>1 DEF Update, Merged, Row, TypeOK, JournalTypeOK
  <2> QED
    BY <2>2, <2>3
<1>4. ASSUME NEW m \in Jobs, EngineSteps(m, HostValid, HostDone)
      PROVE  Ends
  <2>1. CASE Applied(m, HostValid)
    <3>1. PICK p \in Made, k \in Keys :
            \/ Apply(m, k, p)
            \/ p \in RecoveryPlans /\ \E c \in Jobs : c = review[p].parent /\ ApplyRecovery(m, k, p, c)
      BY <2>1 DEF Applied
    <3>2. ASSUME Apply(m, k, p)
          PROVE  FALSE
      <4>1. \A r \in Resources : locks'[r] = locks[r] \/ locks[r] = NoJob
        BY <3>2 DEF Apply, Accept
      <4> QED
        BY <1>1, <4>1, NullsAreNotValues, RowOfStored, PlansAreComplete DEF Holds, Resource, TypeOK, JournalTypeOK, Row
    <3>3. ASSUME NEW c \in Jobs, ApplyRecovery(m, k, p, c), c # j
          PROVE  FALSE
      <4>1. \A r \in Resources : locks'[r] = locks[r] \/ locks[r] = NoJob \/ locks[r] = c
        BY <3>3 DEF ApplyRecovery, AcceptRecovery, Held
      <4> QED
        BY <1>1, <3>3, <4>1, NullsAreNotValues, RowOfStored, PlansAreComplete
           DEF Holds, Resource, TypeOK, JournalTypeOK, Row
    <3> QED
      BY <3>1, <3>2, <3>3 DEF Made
  <2>2. CASE Boundary(m)
    <3> DEFINE row(state) == [AtBoundary(m) EXCEPT !.state = state]
    <3>1. Live(m) /\ AtBoundary(m) \in Row
      BY <1>1, <2>2, LiveFacts, BoundaryRow DEF Boundary, At, Live, HandlersInv, AcceptanceInv, DoubtInv, OwnershipInv
    <3>2. \A state \in JobState : row(state).state = state
      BY <3>1 DEF Row
    <3>3. PICK state \in {"recovery-required", "canceled", "validating"} :
            /\ Update(m, row(state)) /\ At(m, "boundary")
            /\ state = "canceled" => ~KeepsLocks(m)
      BY <2>2 DEF Boundary, Return, Continue
    <3>4. m = j /\ state \in Finished
      BY <1>1, <3>2, <3>3, ReleaseEnds DEF JobState, Active, Unresolved, Finished
    <3> QED
      BY <3>3, <3>4 DEF Finished
  <2>3. CASE ValidateFails(m) \/ RecordIntent(m)
    <3>1. PICK state \in {"recovery-required", "failed", "running"} :
            /\ Update(m, Copy(m, state)) /\ At(m, "validate")
            /\ state = "failed" => ~KeepsLocks(m)
      BY <2>3 DEF ValidateFails, RecordIntent, Return, Continue
    <3> QED
      BY <1>3, <3>1 DEF At, Live, JobState, Active, Unresolved, Finished
  <2>4. CASE ExecuteFailed(m)
    <3>1. PICK state \in {"recovery-required", "failed", "canceled"} :
            /\ Update(m, Copy(m, state)) /\ At(m, "returned")
            /\ state # "recovery-required" => runner[m].outcome \in {"canceled-safely", "not-done"}
      BY <2>4 DEF ExecuteFailed, Return, AfterError
    <3> QED
      BY <1>3, <3>1 DEF At, Live, JobState, Active, Unresolved, Finished
  <2>5. CASE StartVerifying(m) \/ StepNotVerified(m) \/ Finish(m)
    <3>1. PICK state \in {"verifying", "recovery-required", "succeeded"} :
            Update(m, Copy(m, state)) /\ Live(m)
      BY <2>5 DEF StartVerifying, StepNotVerified, Finish, Return, Continue, At, Live
    <3> QED
      BY <1>3, <3>1 DEF JobState, Active, Unresolved, Finished
  <2>6. CASE Recover(m)
    <3>1. Update(m, [jobs[m] EXCEPT !.state = "recovery-required"]) /\ jobs[m] \in Row
      BY <1>1, <2>6, RowOfStored DEF Recover, Interrupted, TypeOK
    <3>2. [jobs[m] EXCEPT !.state = "recovery-required"].state = "recovery-required"
      BY <3>1 DEF Row
    <3> QED
      BY <1>1, <3>1, <3>2, ReleaseEnds DEF JobState, Active, Unresolved, Finished
  <2>7. CASE StepVerified(m) \/ CancelRead(m) \/ ReconcileRead(m)
    BY <1>2, <2>7 DEF StepVerified, CancelRead, ReconcileRead
  <2> QED
    BY <1>4, <2>1, <2>2, <2>3, <2>4, <2>5, <2>6, <2>7 DEF EngineSteps
<1>5. CASE CancelWrite \/ ReconcileSettle
  <2>1. /\ Update(request.job, request.row) /\ request.job \in Jobs /\ request.row \in Row
        /\ request.row.state \in Active \cup {"succeeded"}
    BY <1>1, <1>5 DEF CancelWrite, ReconcileSettle, HandlersInv, AcceptanceInv, DoubtInv, OwnershipInv, Ownership,
                      RequestIsCurrent, MutexFree, TypeOK, RequestState
  <2>2. request.job = j /\ request.row.state = "succeeded"
    BY <1>1, <2>1, ReleaseEnds DEF JobState, Active, Finished
  <2> QED
    BY <1>1, <2>1, <2>2 DEF Update, Merged, Row, TypeOK, JournalTypeOK
<1>6. CASE ProcessSteps(HostDone) /\ ~(CancelWrite \/ ReconcileSettle)
  BY <1>2, <1>6 DEF ProcessSteps, ReconcileObserve, RequestFails, Open, Serve, Crash
<1>7. ASSUME NEW m \in Jobs, HostWorkFails(m) \/ ExecuteReturns(m)
      PROVE  FALSE
  BY <1>2, <1>7 DEF HostWorkFails, KeepsEngine, ExecuteReturns, Execute, vars
<1> QED
  BY <1>4, <1>5, <1>6, <1>7 DEF EngineMoves

\* A script that still runs has no receipt, so its job can neither end nor be
\* observed complete.
LEMMA NextScripts ==
  ASSUME HandlersInv, RecipeInv, HostNext, ReceiptsConfirm', StagesInv', HandlersInv'
  PROVE  ScriptsHoldGuests'
<1> SUFFICES ASSUME NEW j \in Jobs, NEW s \in Stages, <<j, s>> \in running'
             PROVE  Holds(j)'
  BY DEF ScriptsHoldGuests
<1>1. stage'[j][s] = Unknown /\ Recipe(j)'
  BY ReceiptsAre DEF StagesInv, StagesAreOrdered
<1>2. CASE \E m \in Jobs : RecipeMoves(m)
  <2>1. PICK m \in Jobs : RecipeMoves(m)
    BY <1>2
  <2>2. KeepsEngine
    BY <2>1, RecipeFrame DEF RecipeMoves
  <2>3. CASE <<j, s>> \in running
    BY <2>2, <2>3 DEF RecipeInv, ScriptsHoldGuests, KeepsEngine, vars, journal, Holds, Resource
  <2>4. CASE <<j, s>> \notin running
    <3> SendScript(m)
      BY <2>1, <2>4 DEF RecipeMoves, RecipeWork, IntendStage, CancelScript, RecordStage, EndStage, ScriptEnds, recipes
    <3>1. SendScript(m) /\ m = j
      BY <2>4 DEF SendScript
    <3>2. Holds(j)
      BY <3>1 DEF SendScript, RecipeStep, In, At, Live, HandlersInv, AcceptanceInv, DoubtInv, OwnershipInv,
                  Ownership, RunnersHold
    <3> QED
      BY <2>2, <3>2 DEF KeepsEngine, vars, journal, Holds, Resource
  <2> QED
    BY <2>3, <2>4
<1>3. CASE GuestsLosePower
  BY <1>3 DEF GuestsLosePower
<1>4. CASE UNCHANGED recipes
  <2>1. <<j, s>> \in running /\ stage[j][s] = Unknown /\ Holds(j) /\ Recipe(j)
    BY <1>1, <1>4, ReceiptsAre DEF recipes, RecipeInv, ScriptsHoldGuests, StagesInv, StagesAreOrdered
  <2>2. CASE UNCHANGED journal
    BY <2>1, <2>2 DEF journal, Holds, Resource
  <2>3. CASE EngineMoves
    <3>1. SUFFICES ASSUME ~Holds(j)'
                   PROVE  FALSE
      OBVIOUS
    <3>2. ASSUME At(j, "boundary") \/ At(j, "validate"), ~KeepsLocks(j)
          PROVE  FALSE
      <4>1. runner[j].row.planID = jobs[j].planID /\ Live(j)
        BY <3>2 DEF At, Live, HandlersInv, AcceptanceInv, DoubtInv, OwnershipInv, Ownership, RunnersHold
      <4>2. jobs[j].planID \in RecipePlans /\ runner[j].i \in Nat
        BY <2>1, <4>1, StageOfRecipe
      <4>3. runner[j].i = 0
        BY <3>2, <4>1, <4>2, RecipePlansAreComplete DEF KeepsLocks
      <4>4. stage[j][1] = NoIntent
        BY <2>1, <3>2, <4>3 DEF RecipeInv, StagesInv, StagesFollowRunner, StageOf
      <4>5. \A t \in Stages : t > 1 => stage[j][t] = NoIntent
        BY <2>1, <4>1, <4>3 DEF RecipeInv, StagesInv, StagesFollowRunner, StageOf
      <4>6. s = 1 \/ s > 1
        BY DEF Stages, Readiness, Check, ApplyStage, Verify
      <4> QED
        BY <2>1, <4>4, <4>5, <4>6, ReceiptsAre
    <3>3. ASSUME At(j, "returned"), runner[j].outcome \in {"canceled-safely", "not-done"}
          PROVE  FALSE
      BY <2>1, <3>3 DEF RecipeInv, StagesInv, StagesFollowRunner
    <3>4. ASSUME jobs'[j].state = "succeeded"
          PROVE  FALSE
      <4>1. jobs'[j].planID = jobs[j].planID
        BY <2>1, StepImplements, JobsAreKept DEF HandlersInv, Recipe
      <4>2. jobs[j].planID \in Plans
        BY <2>1, ReviewOfStored DEF Recipe
      <4>3. Steps[jobs[j].planID] = 4
        BY <2>1, <4>2, RecipePlansAreComplete DEF Recipe, RecipePlans
      <4>4. \A i \in 0..3 : <<j, i>> \in verified'
        BY <1>1, <3>4, <4>1, <4>3
           DEF HandlersInv, AcceptanceInv, DoubtInv, Progress, SuccessIsObserved, LastStep, Recipe
      <4>5. \A t \in 1..4 : Complete(stage'[j][t])
        BY <1>1, <4>4 DEF ReceiptsConfirm, CompleteUpTo
      <4>6. s \in 1..4
        BY DEF Stages, Readiness, Check, ApplyStage, Verify
      <4> QED
        BY <1>1, <4>5, <4>6, ReceiptsAre DEF Complete
    <3>5. ASSUME NEW p \in RecoveryPlans, Planned(p), review[p].parent = j
          PROVE  FALSE
      BY <2>1, <3>5 DEF RecipeInv, RecoveriesAreOfNetworks, Recipe, NetworkKinds
    <3> QED
      BY <2>1, <2>3, <3>1, <3>2, <3>3, <3>4, <3>5, LocksEnd DEF Recipe
  <2> QED
    BY <2>2, <2>3, PlansFrame, WorkFrame, ChangesFrame
       DEF HostNext, EngineMoves, PowerLoss, Crash, KeepsEngine, vars
<1> QED
  BY <1>2, <1>3, <1>4, RecipesStep

LEMMA InitRecipes == HostInit => RecipeInv
<1> SUFFICES ASSUME HostInit PROVE RecipeInv
  OBVIOUS
<1>1. (\A j \in Jobs : ~Stored(j)) /\ \A p \in Plans : ~Planned(p)
  BY DEF HostInit, HandlersInit, Init, JournalInit, Stored, Planned
<1>2. /\ \A j \in Jobs, s \in Stages : stage[j][s] = NoIntent
      /\ \A j \in Jobs : sent[j] = <<>>
      /\ running = {}
  BY DEF HostInit, GuestSetupInit
<1>3. GuestSetupTypeOK
  BY DEF HostInit, GuestSetupInit, GuestSetupTypeOK
<1>4. \A j \in Jobs : StagesAreOrdered(j)
  <2>1. \A j \in Jobs : Len(sent[j]) = 0
    BY <1>2
  <2>2. \A j \in Jobs, s \in Stages : ~IsSent(j, s)
    BY <2>1 DEF IsSent
  <2> QED
    BY <1>2, <2>1, <2>2 DEF StagesAreOrdered, Stages
<1> QED
  BY <1>1, <1>2, <1>3, <1>4, PlanKinds
     DEF RecipeInv, StagesInv, ReceiptsConfirm, RecoveriesAreOfNetworks, ScriptsHoldGuests, Recipe

LEMMA NextRecipes ==
  ASSUME HandlersInv, RecipeInv, [HostNext]_hostVars
  PROVE  RecipeInv'
<1>1. StagesInv' /\ HandlersInv'
  BY NextStages, NextHandlers DEF RecipeInv
<1>2. CASE HostNext
  BY <1>1, <1>2, NextReceipts, NextRecoveries, NextScripts DEF RecipeInv
<1>3. CASE UNCHANGED hostVars
  <2>1. UNCHANGED <<jobs, locks, review, verified, stage, running>>
    BY <1>3 DEF hostVars, vars, journal, observed, recipes
  <2> QED
    BY <1>1, <2>1 DEF RecipeInv, ReceiptsConfirm, RecoveriesAreOfNetworks, ScriptsHoldGuests, Recipe, Stored,
                      CompleteUpTo, Planned, Holds, Resource
<1> QED
  BY <1>2, <1>3

\* A guest sees each script of a recipe once and in order, "apply" only where the
\* check asked for it, and never the scripts of two jobs at a time, whatever became
\* of the jobs that sent them (Service.Execute, Service.Reconcile, Engine.run).
THEOREM ScriptsAreReviewed == HostSpec => []ScriptsRunAsReviewed
<1>1. HostInit => HandlersInv /\ RecipeInv
  BY InitHandlers, InitRecipes
<1>2. HandlersInv /\ RecipeInv /\ [HostNext]_hostVars => (HandlersInv /\ RecipeInv)'
  BY NextHandlers, NextRecipes
<1>3. HandlersInv /\ RecipeInv => ScriptsRunAsReviewed
  <2> SUFFICES ASSUME HandlersInv, RecipeInv
               PROVE  ScriptsRunAsReviewed
    OBVIOUS
  <2>1. ASSUME NEW j \in Jobs
        PROVE  /\ \A i \in 2..Len(sent[j]) : sent[j][i - 1] < sent[j][i]
               /\ ApplyStage \in {sent[j][i] : i \in 1..Len(sent[j])} => stage[j][Check] = "needs-apply"
    BY DEF RecipeInv, StagesInv, StagesAreOrdered, IsSent
  <2>2. ASSUME NEW s \in running, NEW t \in running, s # t,
               Guest[jobs[s[1]].planID] = Guest[jobs[t[1]].planID]
        PROVE  FALSE
    <3>1. PICK j \in Jobs, k \in Jobs, a \in Stages, b \in Stages : s = <<j, a>> /\ t = <<k, b>>
      BY <2>2 DEF RecipeInv, StagesInv, GuestSetupTypeOK
    <3>2. stage[j][a] = Unknown /\ stage[k][b] = Unknown /\ Recipe(j) /\ Recipe(k) /\ Holds(j) /\ Holds(k)
      <4>1. \A m \in Jobs, c \in Stages : <<m, c>> \in running => stage[m][c] = Unknown /\ Holds(m)
        BY DEF RecipeInv, StagesInv, StagesAreOrdered, ScriptsHoldGuests
      <4>2. \A m \in Jobs, c \in Stages : stage[m][c] = Unknown => Recipe(m)
        BY ReceiptsAre DEF RecipeInv, StagesInv
      <4> QED
        BY <2>2, <3>1, <4>1, <4>2
    <3>3. CASE j = k
      <4>1. ASSUME NEW c \in Stages, NEW d \in Stages, c < d, stage[j][c] = Unknown, stage[j][d] = Unknown
            PROVE  FALSE
        <5>1. CompleteUpTo(j, d - 1)
          BY <4>1, ReceiptsAre DEF RecipeInv, StagesInv, StagesAreOrdered
        <5>2. c \in 1..(d - 1)
          BY <4>1 DEF Stages, Readiness, Check, ApplyStage, Verify
        <5> QED
          BY <4>1, <5>1, <5>2, ReceiptsAre DEF CompleteUpTo, Complete
      <4>2. a < b \/ b < a
        BY <2>2, <3>1, <3>3 DEF Stages, Readiness, Check, ApplyStage, Verify
      <4> QED
        BY <3>2, <3>3, <4>1, <4>2
    <3>4. CASE j # k
      <4>1. jobs[j].planID \in RecipePlans /\ jobs[k].planID \in RecipePlans
        BY <3>2, ReviewOfStored DEF Recipe, RecipePlans
      <4>2. Guest[jobs[j].planID] = Guest[jobs[k].planID]
        BY <2>2, <3>1
      <4>3. Resource(j) \cap Resource(k) # {}
        BY <4>1, <4>2, GuestsAreSetUpAlone DEF Resource
      <4> QED
        BY <3>2, <3>4, <4>3 DEF Holds
    <3> QED
      BY <3>3, <3>4
  <2> QED
    BY <2>1, <2>2 DEF ScriptsRunAsReviewed
<1> QED
  BY <1>1, <1>2, <1>3, PTL DEF HostSpec

-----------------------------------------------------------------------------
(* Sealed sets. *)

\* A capture that runs, and how far it is.
Capturing(j, ats) == Live(j) /\ jobs[j].planID \in CapturePlans /\ work[j].at \in ats

Between(p, copies, n) ==
  /\ copies \in Seq(0..MaxWrites) /\ Len(copies) = n
  /\ \A d \in 1..n : review[p].source[d] <= copies[d] /\ copies[d] <= source[d]

\* The disks only change forwards, so what was converted since the review lies
\* between the version that was reviewed and the present one.
CopiesFollow(j) ==
  LET p == jobs[j].planID IN
  /\ Capturing(j, {"check", "convert"}) =>
       /\ "i" \in DOMAIN work[j] /\ work[j].i \in CapturedDisks
       /\ Between(p, staging[p], work[j].i - 1)
  /\ Capturing(j, {"recheck"}) => Between(p, staging[p], DiskCount)
  /\ Capturing(j, {"publish", "name", "write"}) => staging[p] = review[p].source

ReviewsPrecede ==
  \A p \in CapturePlans : Planned(p) =>
    review[p].source \in Versions /\ \A d \in CapturedDisks : review[p].source[d] <= source[d]

StagingInv ==
  /\ source \in Versions /\ DOMAIN staging = CapturePlans
  /\ ReviewsPrecede
  /\ \A j \in Jobs : CopiesFollow(j)

-----------------------------------------------------------------------------
LEMMA CaptureIsCaptures ==
  ASSUME NEW j, HostWork(j), Kind[jobs[j].planID] \in CaptureKinds
  PROVE  CaptureWork(j)
BY DEF HostWork, IsAbout, NetworkKinds, AccessKinds, CaptureKinds, ImportKinds, MachineKinds, Lifecycle,
       PoolKinds, ConfigurationKinds, DefiningKinds

CaptureMoves(j) == IsAbout(j, CaptureKinds) /\ CaptureWork(j)

\* A plan that reads a set makes it durable.
Reads(p) == p \in BackupPlans \cup RestorePlans /\ PlanFromSet(p)

\* What is captured is changed by its own handler, its planning, and a guest.
LEMMA CapturesStep ==
  ASSUME HostNext
  PROVE  \/ UNCHANGED captures
         \/ \E j \in Jobs : CaptureMoves(j)
         \/ GuestWrites
         \/ \E p \in Plans : Reads(p)
         \/ CapturesLosePower /\ PowerLoss
<1>1. ASSUME NEW p \in Plannable, HostPlans(p)
      PROVE  UNCHANGED captures \/ Reads(p)
  BY <1>1 DEF HostPlans, PlanCapture, PlanRecovery, Reads
<1>2. Plannable \subseteq Plans \/ \A p \in Plannable : ~HostPlans(p)
  BY PlanSetsArePlans DEF Plannable
<1> QED
  BY <1>1, <1>2 DEF HostNext, HostWork, HostChanges, PowerLoss, CaptureMoves

\* One capture of a plan runs at a time.
LEMMA OneCaptureRuns ==
  ASSUME HandlersInv, NEW i \in Jobs, NEW j \in Jobs, Live(i), Live(j),
         jobs[i].planID \in CapturePlans, jobs[j].planID = jobs[i].planID
  PROVE  i = j
<1>1. RunnersAreExclusive
  BY DEF HandlersInv, AcceptanceInv, DoubtInv, OwnershipInv, Ownership, RunnersHold, RunnersAreExclusive, Holds
<1> QED
  BY <1>1, CapturesAreTheirOwn DEF RunnersAreExclusive, Resource

LEMMA BetweenStays ==
  ASSUME NEW p, NEW copies, NEW n \in 0..DiskCount, Between(p, copies, n),
         source \in Versions, source' \in Versions, review[p].source \in Versions,
         \A d \in CapturedDisks : source[d] <= source'[d],
         review'[p] = review[p]
  PROVE  Between(p, copies, n)'
<1>1. n <= DiskCount /\ \A d \in 1..n : d \in CapturedDisks
  BY CapturePlansAreComplete DEF CapturedDisks
<1>2. \A d \in 1..n : copies[d] \in Nat
  BY CapturePlansAreComplete DEF Between
<1> QED
  BY <1>1, <1>2, CapturePlansAreComplete, SMTT(30) DEF Between, Versions

LEMMA OneMoreCopy ==
  ASSUME NEW S, NEW copies \in Seq(S), NEW x \in S, NEW longer, longer = Append(copies, x)
  PROVE  /\ longer \in Seq(S) /\ Len(longer) = Len(copies) + 1
         /\ longer[Len(copies) + 1] = x
         /\ \A n \in 1..Len(copies) : longer[n] = copies[n]
OBVIOUS

\* What a capture that runs has converted follows its own steps.
LEMMA CaptureMovesFollow ==
  ASSUME HandlersInv, StagingInv, NEW j \in Jobs, CaptureMoves(j), Live(j), jobs[j].planID \in CapturePlans
  PROVE  CopiesFollow(j)'
<1> DEFINE p == jobs[j].planID
<1>1. /\ PlanOf(j) = p /\ p \in CapturePlans /\ Kind[p] = "capture" /\ review[p].source \in Versions
      /\ \A d \in CapturedDisks : review[p].source[d] <= source[d]
      /\ DOMAIN work = Jobs /\ "at" \in DOMAIN work[j]
      /\ KeepsEngine /\ jobs' = jobs /\ review' = review /\ runner' = runner
  BY LivePlan, CaptureFrame
     DEF CapturePlans, StagingInv, ReviewsPrecede, CaptureMoves, HandlersInv, WorkShape, KeepsEngine, vars,
         journal, volatile
<1>2. DiskCount \in Nat \ {0} /\ MaxWrites \in Nat
  BY CapturePlansAreComplete
<1>3. CASE StartCapture(j)
  <2>1. /\ staging'[p] = <<>> /\ source' = source
        /\ work'[j] = [at |-> "check", i |-> 1]
    BY <1>1, <1>3 DEF StartCapture, GoTo, StagingInv
  <2>2. Between(p, <<>>, 0)'
    BY DEF Between
  <2> QED
    BY <1>1, <1>2, <2>1, <2>2 DEF CopiesFollow, Capturing, CapturedDisks
<1>4. CASE CheckSource(j)
  <2>1. /\ staging' = staging /\ source' = source
        /\ work[j].at = "check" /\ work'[j] = [work[j] EXCEPT !.at = "convert"]
    BY <1>1, <1>4 DEF CheckSource, CaptureStep, In, Go, captures
  <2>2. work'[j].at = "convert" /\ ("i" \in DOMAIN work[j] => "i" \in DOMAIN work'[j] /\ work'[j].i = work[j].i)
    BY <1>1, <2>1
  <2>3. CopiesFollow(j) /\ Capturing(j, {"check", "convert"})
    BY <1>1, <2>1 DEF StagingInv, Capturing
  <2> QED
    BY <1>1, <2>1, <2>2, <2>3 DEF CopiesFollow, Capturing, Between
<1>5. CASE ConvertDisk(j)
  <2> PICK d : d = work[j].i
    OBVIOUS
  <2>1. /\ staging'[p] = Append(staging[p], source[d]) /\ source' = source
        /\ work[j].at = "convert"
        /\ IF d < DiskCount THEN GoTo(j, "check", d + 1) ELSE Go(j, "recheck")
    BY <1>1, <1>5 DEF ConvertDisk, CaptureStep, In, StagingInv
  <2>2. d \in CapturedDisks /\ Between(p, staging[p], d - 1) /\ source \in Versions
    BY <1>1, <2>1 DEF StagingInv, CopiesFollow, Capturing
  <2>3. Between(p, staging[p], d)'
    <3>1. d \in 1..DiskCount /\ source[d] \in 0..MaxWrites /\ review[p].source[d] <= source[d]
      BY <1>1, <2>2 DEF CapturedDisks, Versions
    <3>2. staging[p] \in Seq(0..MaxWrites) /\ Len(staging[p]) = d - 1
      BY <2>2 DEF Between
    <3>3. /\ staging'[p] \in Seq(0..MaxWrites) /\ Len(staging'[p]) = (d - 1) + 1
          /\ staging'[p][(d - 1) + 1] = source[d]
          /\ \A n \in 1..(d - 1) : staging'[p][n] = staging[p][n]
      <4>1. PICK copies \in Seq(0..MaxWrites) : copies = staging[p]
        BY <3>2
      <4>2. PICK x \in 0..MaxWrites : x = source[d]
        BY <3>1
      <4>3. PICK longer : longer = Append(copies, x)
        OBVIOUS
      <4>4. staging'[p] = longer
        BY <2>1, <4>1, <4>2, <4>3
      <4>5. /\ longer \in Seq(0..MaxWrites) /\ Len(longer) = Len(copies) + 1
            /\ longer[Len(copies) + 1] = x
            /\ \A n \in 1..Len(copies) : longer[n] = copies[n]
        BY <4>3, OneMoreCopy
      <4> QED
        BY <3>2, <4>1, <4>2, <4>4, <4>5
    <3>4. /\ Len(staging'[p]) = d /\ staging'[p][d] = source[d]
          /\ \A n \in 1..d : n = d \/ n \in 1..(d - 1)
      BY <1>2, <3>1, <3>3, SMTT(30)
    <3>5. \A n \in 1..d : review[p].source[n] <= staging'[p][n] /\ staging'[p][n] <= source[n]
      <4>1. \A n \in 1..(d - 1) : review[p].source[n] <= staging[p][n] /\ staging[p][n] <= source[n]
        BY <2>2 DEF Between
      <4>2. source[d] <= source[d]
        BY <1>2, <3>1
      <4> QED
        BY <3>1, <3>3, <3>4, <4>1, <4>2
    <3> QED
      BY <1>1, <2>1, <3>3, <3>4, <3>5 DEF Between
  <2>4. CASE d < DiskCount
    <3>1. work'[j] = [at |-> "check", i |-> d + 1]
      BY <1>1, <2>1, <2>4 DEF GoTo
    <3>2. d + 1 \in CapturedDisks /\ (d + 1) - 1 = d
      BY <1>2, <2>2, <2>4 DEF CapturedDisks
    <3> QED
      BY <1>1, <2>3, <3>1, <3>2 DEF CopiesFollow, Capturing
  <2>5. CASE ~(d < DiskCount)
    <3>1. work'[j].at = "recheck" /\ d = DiskCount
      BY <1>1, <1>2, <2>1, <2>2, <2>5 DEF Go, CapturedDisks
    <3> QED
      BY <1>1, <2>3, <3>1 DEF CopiesFollow, Capturing
  <2> QED
    BY <2>4, <2>5
<1>6. CASE RecheckSource(j)
  <2>1. /\ staging' = staging /\ source = review[p].source /\ work[j].at = "recheck" /\ work'[j].at = "publish"
    BY <1>1, <1>6 DEF RecheckSource, Unaltered, CaptureStep, In, Go, captures
  <2>2. Between(p, staging[p], DiskCount) /\ source \in Versions
    BY <1>1, <2>1 DEF StagingInv, CopiesFollow, Capturing
  <2>3. staging[p] = source
    <3>1. DOMAIN staging[p] = 1..DiskCount /\ \A d \in 1..DiskCount : staging[p][d] \in Nat /\ source[d] \in Nat
      BY <1>2, <2>2 DEF Between, Versions, CapturedDisks
    <3>2. \A d \in 1..DiskCount : staging[p][d] = source[d]
      BY <2>1, <2>2, <3>1 DEF Between
    <3>3. staging[p] = [d \in 1..DiskCount |-> staging[p][d]]
      BY <3>1, <1>2, <2>2 DEF Between
    <3>4. source = [d \in 1..DiskCount |-> source[d]]
      BY <2>2 DEF Versions, CapturedDisks
    <3> QED
      BY <3>2, <3>3, <3>4
  <2> QED
    BY <1>1, <2>1, <2>3 DEF CopiesFollow, Capturing
<1>7. CASE RecordPublication(j) \/ NamePartial(j)
  <2>1. /\ staging' = staging
        /\ \/ work[j].at = "publish" /\ work'[j].at = "name"
           \/ work[j].at = "name" /\ work'[j].at = "write"
    BY <1>1, <1>7 DEF RecordPublication, NamePartial, CaptureStep, In, Go
  <2> QED
    BY <1>1, <2>1 DEF StagingInv, CopiesFollow, Capturing
<1>8. CASE WriteMembers(j) \/ RenameSet(j) \/ InspectPublished(j) \/ RemoveStaging(j)
  <2>1. work'[j].at \in {"rename", "inspect", "clean", "ok"}
    BY <1>1, <1>8 DEF WriteMembers, RenameSet, InspectPublished, RemoveStaging, Go
  <2> QED
    BY <2>1 DEF CopiesFollow, Capturing
<1>9. CASE ObserveSet(j)
  <2>1. UNCHANGED <<staging, source, work>>
    BY <1>9 DEF ObserveSet
  <2> QED
    BY <1>1, <2>1 DEF StagingInv, CopiesFollow, Capturing, Live, Between
<1> QED
  BY <1>1, <1>3, <1>4, <1>5, <1>6, <1>7, <1>8, <1>9
     DEF CaptureMoves, CaptureWork, CaptureStep, Does, In, IntendBackup, Upload, RecordSnapshot, IntendRoundtrip,
         DownloadRoundtrip, RecordRoundtrip, IntendRecovery, DownloadSet, SealSet, RecordRecovery, IntendRestore,
         RestoreVolume, RecordVolume, DefineRestored, ObserveRecovery

Converting == {"check", "convert", "recheck", "publish", "name", "write", "rename"}

\* A capture that is at work was so before, or its own handler took a step.
LEMMA CapturingWas ==
  ASSUME HandlersInv, HostNext, NEW j \in Jobs, Capturing(j, Converting)'
  PROVE  /\ Live(j) /\ Stored(j) /\ jobs'[j].planID = jobs[j].planID
         /\ jobs[j].planID \in CapturePlans /\ Planned(jobs[j].planID)
         /\ work'[j] = work[j] \/ CaptureMoves(j)
<1>1. /\ TypeOK /\ WorkShape /\ [Next]_vars
      /\ \A m \in Jobs : Stored(m) => Stored(m)' /\ jobs'[m].planID = jobs[m].planID
  BY StepImplements, JobsAreKept DEF HandlersInv, AcceptanceInv, DoubtInv, OwnershipInv
<1>2. Live(j)
  BY <1>1, StartsAreNew, WorkStep DEF Capturing, Converting, HandlersInv, WorkIsStored, At, Live
<1>3. /\ Stored(j) /\ jobs'[j].planID = jobs[j].planID /\ jobs[j].planID \in CapturePlans
      /\ Planned(jobs[j].planID) /\ Kind[jobs[j].planID] = "capture"
  BY <1>1, <1>2, LivePlan DEF Capturing, CapturePlans
<1>4. HostWork(j) => CaptureMoves(j)
  BY <1>3, CaptureIsCaptures DEF CaptureMoves, IsAbout, CaptureKinds
<1>5. work'[j] = work[j] \/ HostWork(j)
  BY <1>1, WorkStep DEF Capturing, Converting
<1> QED
  BY <1>2, <1>3, <1>4, <1>5

\* Another job's capture leaves the copies alone.
LEMMA OthersLeaveCopies ==
  ASSUME HandlersInv, StagingInv, NEW i \in Jobs, CaptureMoves(i),
         NEW j \in Jobs, j # i, Live(j), jobs[j].planID \in CapturePlans
  PROVE  staging'[jobs[j].planID] = staging[jobs[j].planID] /\ work'[j] = work[j]
<1>1. work'[j] = work[j]
  BY CaptureFrame DEF Progresses, HandlersInv, WorkShape, CaptureMoves
<1>2. staging' = staging \/ (At(i, "execute") /\ Kind[PlanOf(i)] = "capture" /\ \E x : staging' = [staging EXCEPT ![PlanOf(i)] = x])
  BY DEF CaptureMoves, CaptureWork, CaptureStep, Does, captures,
       StartCapture, CheckSource, ConvertDisk, RecheckSource, RecordPublication,
       NamePartial, WriteMembers, RenameSet, InspectPublished, RemoveStaging,
       IntendBackup, Upload, RecordSnapshot, IntendRoundtrip, DownloadRoundtrip, RecordRoundtrip,
       IntendRecovery, DownloadSet, SealSet, RecordRecovery,
       IntendRestore, RestoreVolume, RecordVolume, DefineRestored, ObserveSet, ObserveRecovery
<1>3. At(i, "execute") /\ Kind[PlanOf(i)] = "capture" => PlanOf(i) # jobs[j].planID
  BY LivePlan, OneCaptureRuns DEF At, Live, CapturePlans
<1> QED
  BY <1>1, <1>2, <1>3 DEF StagingInv

LEMMA SourceGrows ==
  ASSUME StagingInv, HostNext
  PROVE  /\ source' \in Versions /\ \A d \in CapturedDisks : source[d] <= source'[d]
         /\ source' # source => GuestWrites
<1>0. source \in Versions /\ MaxWrites \in Nat
  BY CapturePlansAreComplete DEF StagingInv
<1>1. CASE source' = source
  BY <1>0, <1>1 DEF Versions
<1>2. CASE GuestWrites
  <2>1. PICK n \in CapturedDisks : source[n] < MaxWrites /\ source' = [source EXCEPT ![n] = @ + 1]
    BY <1>2 DEF GuestWrites
  <2>2. source'[n] = source[n] + 1 /\ \A d \in CapturedDisks : d # n => source'[d] = source[d]
    BY <1>0, <2>1 DEF Versions
  <2>3. \A d \in CapturedDisks : source[d] \in 0..MaxWrites
    BY <1>0 DEF Versions
  <2>4. \A d \in CapturedDisks : source'[d] \in 0..MaxWrites /\ source[d] <= source'[d]
    BY <1>0, <2>1, <2>2, <2>3
  <2>5. source' = [d \in CapturedDisks |-> source'[d]]
    BY <1>0, <2>1 DEF Versions
  <2> QED
    BY <1>2, <2>4, <2>5 DEF Versions
<1>3. source' = source \/ GuestWrites
  BY CapturesStep, ZenonT(40) DEF captures, CaptureMoves, CaptureWork, CaptureStep, Reads, PlanFromSet, CapturesLosePower,
       StartCapture, CheckSource, ConvertDisk, RecheckSource, RecordPublication,
       NamePartial, WriteMembers, RenameSet, InspectPublished, RemoveStaging,
       IntendBackup, Upload, RecordSnapshot, IntendRoundtrip, DownloadRoundtrip, RecordRoundtrip,
       IntendRecovery, DownloadSet, SealSet, RecordRecovery,
       IntendRestore, RestoreVolume, RecordVolume, DefineRestored, ObserveSet, ObserveRecovery
<1> QED
  BY <1>1, <1>2, <1>3

\* A plan is new only by planning.
LEMMA NewPlan ==
  ASSUME HandlersInv, HostNext, NEW p \in Plans, Planned(p)', ~Planned(p)
  PROVE  p \in Plannable /\ HostPlans(p) /\ UNCHANGED <<vars, work>>
<1>1. review' # review
  BY DEF Planned
<1>2. PICK q \in Plannable : HostPlans(q)
  BY <1>1, WorkFrame, ChangesFrame
     DEF HostNext, PowerLoss, KeepsEngine, HostWorkFails, ExecuteReturns, EngineSteps, ProcessSteps
<1>3. q = p
  BY <1>2, PlansFrame DEF HandlersInv, WorkShape, Planned
<1> QED
  BY <1>2, <1>3, PlansFrame

LEMMA NextStaging ==
  ASSUME HandlersInv, StagingInv, [HostNext]_hostVars
  PROVE  StagingInv'
<1>1. CASE UNCHANGED hostVars
  <2>1. UNCHANGED <<jobs, runner, review, work, source, staging>>
    BY <1>1 DEF hostVars, vars, journal, volatile, captures
  <2> QED
    BY <2>1 DEF StagingInv, ReviewsPrecede, CopiesFollow, Capturing, Between, Planned, Live
<1>2. CASE HostNext
  <2>1. /\ WorkShape /\ source \in Versions
        /\ \A p \in Plans : Planned(p) => Planned(p)' /\ review'[p] = review[p]
        /\ source' \in Versions /\ \A d \in CapturedDisks : source[d] <= source'[d]
    BY <1>2, ReviewsAreKept, SourceGrows DEF HandlersInv, StagingInv, Planned
  <2>2. DOMAIN staging' = CapturePlans
    BY <1>2, CapturesStep, ZenonT(40) DEF StagingInv, captures, CaptureMoves, CaptureWork, CaptureStep, Reads, PlanFromSet,
       CapturesLosePower, GuestWrites,
       StartCapture, CheckSource, ConvertDisk, RecheckSource, RecordPublication,
       NamePartial, WriteMembers, RenameSet, InspectPublished, RemoveStaging,
       IntendBackup, Upload, RecordSnapshot, IntendRoundtrip, DownloadRoundtrip, RecordRoundtrip,
       IntendRecovery, DownloadSet, SealSet, RecordRecovery,
       IntendRestore, RestoreVolume, RecordVolume, DefineRestored, ObserveSet, ObserveRecovery
  <2>3. ASSUME NEW p \in CapturePlans, Planned(p)'
        PROVE  review'[p].source \in Versions /\ \A d \in CapturedDisks : review'[p].source[d] <= source'[d]
    <3>1. p \in Plans /\ Kind[p] = "capture"
      BY DEF CapturePlans
    <3>2. CASE Planned(p)
      <4>1. review'[p] = review[p] /\ review[p].source \in Versions
            /\ \A d \in CapturedDisks : review[p].source[d] <= source[d]
        BY <2>1, <3>1, <3>2 DEF StagingInv, ReviewsPrecede
      <4>2. \A d \in CapturedDisks : review[p].source[d] \in Nat /\ source[d] \in Nat /\ source'[d] \in Nat
        BY <2>1, <4>1, CapturePlansAreComplete DEF Versions
      <4> QED
        BY <2>1, <4>1, <4>2
    <3>3. CASE ~Planned(p)
      <4>1. HostPlans(p)
        BY <1>2, <2>3, <3>1, <3>3, NewPlan
      <4>2. PlanCapture(p)
        BY <3>1, <4>1 DEF HostPlans, NetworkPlans, NetworkResumptions, GrantPlans, AccessPlans, AccessKinds,
           RecipePlans, BackupPlans, RestorePlans, RecoverPlans, PreparePlans, DiscardPlans, MachinePlans,
           MachineKinds, Lifecycle, PoolPlans, PoolKinds, ConfigurationPlans, ConfigurationKinds, DefiningKinds
      <4>3. review'[p] = [source |-> source] /\ source' = source
        BY <2>1, <3>1, <4>2 DEF PlanCapture, StorePlan, captures, WorkShape
      <4> QED
        BY <2>1, <4>3, CapturePlansAreComplete DEF Versions
    <3> QED
      BY <3>2, <3>3
  <2>4. ASSUME NEW j \in Jobs
        PROVE  CopiesFollow(j)'
    <3> DEFINE p == jobs[j].planID
    <3>1. CASE ~Capturing(j, Converting)'
      BY <3>1 DEF CopiesFollow, Capturing, Converting
    <3>2. CASE Capturing(j, Converting)'
      <4>1. /\ Live(j) /\ jobs'[j].planID = p /\ p \in CapturePlans /\ Planned(p)
            /\ work'[j] = work[j] \/ CaptureMoves(j)
        BY <1>2, <3>2, CapturingWas
      <4>2. /\ review'[p] = review[p] /\ review[p].source \in Versions
        BY <2>1, <4>1 DEF StagingInv, ReviewsPrecede, CapturePlans
      <4>3. CASE CaptureMoves(j)
        BY <4>1, <4>3, CaptureMovesFollow
      <4>4. CASE ~CaptureMoves(j)
        <5>1. staging'[p] = staging[p]
          <6>1. CASE \E i \in Jobs : CaptureMoves(i)
            BY <4>1, <4>4, <6>1, OthersLeaveCopies
          <6>2. CASE ~\E i \in Jobs : CaptureMoves(i)
            BY <1>2, <6>2, CapturesStep DEF captures, Reads, PlanFromSet, GuestWrites, CapturesLosePower
          <6> QED
            BY <6>1, <6>2
        <5>2. work'[j] = work[j] /\ CopiesFollow(j)
          BY <4>1, <4>4 DEF StagingInv
        <5>3. ASSUME NEW n \in 0..DiskCount, Between(p, staging[p], n)
              PROVE  Between(p, staging[p], n)'
          <6>1. PICK q, copies : q = p /\ copies = staging[p]
            OBVIOUS
          <6>2. Between(q, copies, n)'
            BY <2>1, <4>2, <5>3, <6>1, BetweenStays
          <6>3. p' = q /\ staging'[p'] = copies
            BY <4>1, <5>1, <6>1
          <6> QED
            BY <6>2, <6>3
        <5>4. DiskCount \in 0..DiskCount /\ \A d \in CapturedDisks : d - 1 \in 0..DiskCount
          BY CapturePlansAreComplete DEF CapturedDisks
        <5>5. \A ats : Capturing(j, ats)' => Capturing(j, ats)
          BY <4>1, <5>2 DEF Capturing
        <5> QED
          BY <4>1, <4>2, <5>1, <5>2, <5>3, <5>4, <5>5 DEF CopiesFollow
      <4> QED
        BY <4>3, <4>4
    <3> QED
      BY <3>1, <3>2
  <2> QED
    BY <2>1, <2>2, <2>3, <2>4 DEF StagingInv, ReviewsPrecede
<1> QED
  BY <1>1, <1>2

-----------------------------------------------------------------------------
SetRecord ==
  [at : {"absent", "partial", "unsealed", "sealed"}, data : Data, by : Jobs \cup {NoJob}, durable : BOOLEAN]

\* Data of set c that somebody reviewed or backed up.
Known(c, data) ==
  \/ \E p \in CapturePlans : SetOf[p] = c /\ Planned(p) /\ data = review[p].source
  \/ \E s \in repository : s.set = c /\ data = s.data

\* The name of the set is there for good.
Kept(c) == catalog[c].at = "sealed" \/ (catalog[c].at = "partial" /\ catalog[c].durable)

CatalogShape ==
  /\ catalog \in [CaptureIDs -> SetRecord]
  /\ repository \subseteq [by : Jobs \cup {NoJob}, set : CaptureIDs, data : Versions]

DataAreKnown ==
  \A c \in CaptureIDs :
    /\ catalog[c].data # Nothing => Known(c, catalog[c].data)
    /\ catalog[c].at = "sealed" => catalog[c].data # Nothing

SnapshotsAreOfSets == \A s \in repository : s.set \in Archived \/ Kept(s.set)

RecoveriesAreArchived ==
  \A p \in RecoverPlans : Planned(p) => SetOf[p] \in Archived /\ review[p].data \in Versions

\* Until it is renamed, a set that is being written is not taken for one.
PublishingIsPartial ==
  \A j \in Jobs :
    LET c == SetOf[jobs[j].planID] IN
    /\ Capturing(j, {"write", "rename"}) => catalog[c].at = "partial"
    /\ Capturing(j, {"rename"}) => catalog[c].data # Nothing

Lasts(c) == catalog[c].at = "sealed" /\ catalog[c].data # Nothing /\ catalog[c].durable

ConfirmedSetsLast ==
  \A j \in Jobs, i \in Nat :
    Stored(j) /\ Kind[jobs[j].planID] \in {"capture", "recover"} /\ <<j, i>> \in verified
      => Lasts(SetOf[jobs[j].planID])

CatalogInv ==
  /\ CatalogShape /\ DataAreKnown /\ SnapshotsAreOfSets /\ RecoveriesAreArchived
  /\ PublishingIsPartial /\ ConfirmedSetsLast

-----------------------------------------------------------------------------
Becomes(c, at, data, durable) ==
  catalog'[c].at = at /\ catalog'[c].data = data /\ catalog'[c].durable = durable

\* What a step may make of the set under an ID.
SetStep(c) ==
  LET old == catalog[c] IN
  \/ catalog'[c] = old
  \/ Becomes(c, old.at, old.data, TRUE)
  \/ old.at = "absent" /\ Becomes(c, "partial", Nothing, FALSE)
  \/ old.at = "absent" /\ \E d : (d = Nothing \/ Known(c, d)) /\ Becomes(c, "unsealed", d, FALSE)
  \/ old.data # Nothing /\ c \in Archived /\ Becomes(c, "sealed", old.data, TRUE)
  \/ /\ old.at = "partial"
     /\ \E p \in CapturePlans : SetOf[p] = c /\ Planned(p) /\ Becomes(c, "partial", review[p].source, TRUE)
  \/ /\ old.at = "partial" /\ old.data # Nothing /\ Becomes(c, "sealed", old.data, FALSE)
     /\ \E j \in Jobs : CaptureMoves(j) /\ Live(j) /\ jobs[j].planID \in CapturePlans /\ SetOf[jobs[j].planID] = c
  \/ PowerLoss /\ catalog'[c] \in MayRemain(old)

\* One set changes; what becomes of it says the rest.
LEMMA OneSetChanges ==
  ASSUME CatalogShape, NEW c \in CaptureIDs, NEW x \in SetRecord, catalog' = [catalog EXCEPT ![c] = x],
         SetStep(c)
  PROVE  catalog' \in [CaptureIDs -> SetRecord] /\ \A k \in CaptureIDs : SetStep(k)
<1>1. catalog' \in [CaptureIDs -> SetRecord] /\ \A k \in CaptureIDs : k # c => catalog'[k] = catalog[k]
  BY DEF CatalogShape
<1>2. \A k \in CaptureIDs : catalog'[k] = catalog[k] => SetStep(k)
  BY DEF SetStep
<1> QED
  BY <1>1, <1>2

LEMMA ReadingRefreshes ==
  ASSUME CatalogShape, NEW c \in CaptureIDs, Inspected(c)
  PROVE  catalog' \in [CaptureIDs -> SetRecord] /\ \A k \in CaptureIDs : SetStep(k)
<1>1. PICK x : x = Refreshed(catalog[c])
  OBVIOUS
<1>2. catalog[c] \in SetRecord
  BY DEF CatalogShape
<1>3. x \in SetRecord /\ x.at = catalog[c].at /\ x.data = catalog[c].data /\ x.durable = TRUE
  BY <1>1, <1>2 DEF Refreshed, SetRecord
<1>4. catalog' = [catalog EXCEPT ![c] = x]
  BY <1>1 DEF Inspected
<1>5. SetStep(c)
  BY <1>3, <1>4 DEF SetStep, Becomes, CatalogShape
<1> QED
  BY <1>3, <1>4, <1>5, OneSetChanges

LEMMA SealingSeals ==
  ASSUME CatalogShape, NEW c \in CaptureIDs, Seals(c), catalog[c].data # Nothing, c \in Archived
  PROVE  catalog' \in [CaptureIDs -> SetRecord] /\ \A k \in CaptureIDs : SetStep(k)
<1>1. PICK x : x = [catalog[c] EXCEPT !.at = "sealed", !.durable = TRUE]
  OBVIOUS
<1>2. catalog[c] \in SetRecord
  BY DEF CatalogShape
<1>3. x \in SetRecord /\ x.at = "sealed" /\ x.data = catalog[c].data /\ x.durable = TRUE
  BY <1>1, <1>2 DEF SetRecord
<1>4. catalog' = [catalog EXCEPT ![c] = x]
  BY <1>1, <1>2 DEF Seals, CatalogShape, SetRecord
<1>5. SetStep(c)
  BY <1>3, <1>4 DEF SetStep, Becomes, CatalogShape
<1> QED
  BY <1>3, <1>4, <1>5, OneSetChanges

LEMMA CatalogStep ==
  ASSUME HandlersInv, StagingInv, CatalogInv, HostNext
  PROVE  catalog' \in [CaptureIDs -> SetRecord] /\ \A c \in CaptureIDs : SetStep(c)
<1> DEFINE Goal == catalog' \in [CaptureIDs -> SetRecord] /\ \A c \in CaptureIDs : SetStep(c)
<1> USE DEF CatalogInv
<1>1. CASE catalog' = catalog
  BY <1>1 DEF CatalogShape, SetStep
<1>2. ASSUME NEW p \in Plans, Reads(p)
      PROVE  Goal
  BY <1>2, ReadingRefreshes DEF Reads, PlanFromSet, CaptureIDs
<1>3. CASE CapturesLosePower /\ PowerLoss
  <2>1. \A c \in CaptureIDs : catalog'[c] \in MayRemain(catalog[c])
    BY <1>3 DEF CapturesLosePower
  <2>2. ASSUME NEW r \in SetRecord, NEW x \in MayRemain(r)
        PROVE  x \in SetRecord
    <3>1. NoSet \in SetRecord
      BY DEF NoSet, SetRecord, Data
    <3>2. /\ [r EXCEPT !.data = Nothing] \in SetRecord
          /\ [r EXCEPT !.at = "partial", !.durable = TRUE] \in SetRecord
      BY <2>2 DEF SetRecord, Data
    <3>3. x \in {r, NoSet, [r EXCEPT !.data = Nothing], [r EXCEPT !.at = "partial", !.durable = TRUE]}
      BY <2>2 DEF MayRemain
    <3> QED
      BY <2>2, <3>1, <3>2, <3>3
  <2>3. DOMAIN catalog' = CaptureIDs /\ catalog' = [c \in CaptureIDs |-> catalog'[c]]
    BY <1>3 DEF CapturesLosePower
  <2> QED
    BY <1>3, <2>1, <2>2, <2>3 DEF CatalogShape, SetStep
<1>4. ASSUME NEW j \in Jobs, CaptureMoves(j), catalog' # catalog
      PROVE  Goal
  <2> DEFINE p == jobs[j].planID
             c == SetOf[p]
  <2>1. /\ Stored(j) /\ p \in Plans /\ Planned(p) /\ c \in CaptureIDs /\ catalog[c] \in SetRecord
    BY <1>4, ReviewOfStored DEF CaptureMoves, IsAbout, CaptureIDs, CatalogShape
  <2>2. ASSUME At(j, "execute")
        PROVE  Live(j) /\ PlanOf(j) = p
    BY <2>2, LivePlan DEF At, Live
  <2>3. CASE NamePartial(j)
    <3>1. PICK x : x = [NoSet EXCEPT !.at = "partial", !.by = j, !.durable = FALSE]
      OBVIOUS
    <3>2. x \in SetRecord /\ x.at = "partial" /\ x.data = Nothing /\ x.durable = FALSE
      BY <3>1 DEF NoSet, SetRecord, Data
    <3>3. catalog' = [catalog EXCEPT ![c] = x] /\ catalog[c].at = "absent"
      BY <2>2, <2>3, <3>1 DEF NamePartial, CaptureStep, Does
    <3>4. SetStep(c)
      BY <2>1, <3>2, <3>3 DEF SetStep, Becomes, CatalogShape
    <3> QED
      BY <2>1, <3>2, <3>3, <3>4, OneSetChanges
  <2>4. CASE WriteMembers(j)
    <3>1. /\ Capturing(j, {"write"}) /\ Capturing(j, {"write", "rename"}) /\ p \in CapturePlans
          /\ catalog' = [catalog EXCEPT ![c].data = staging[p], ![c].durable = TRUE]
      BY <2>1, <2>2, <2>4 DEF WriteMembers, CaptureStep, Does, In, Capturing, CapturePlans
    <3>2. staging[p] = review[p].source /\ review[p].source \in Versions /\ catalog[c].at = "partial"
      BY <2>1, <3>1 DEF StagingInv, CopiesFollow, Capturing, ReviewsPrecede, PublishingIsPartial
    <3>3. PICK x : x = [catalog[c] EXCEPT !.data = staging[p], !.durable = TRUE]
      OBVIOUS
    <3>4. x \in SetRecord /\ x.at = "partial" /\ x.data = review[p].source /\ x.durable = TRUE
      BY <2>1, <3>2, <3>3 DEF SetRecord, Data
    <3>5. catalog' = [catalog EXCEPT ![c] = x]
      BY <2>1, <3>1, <3>3 DEF CatalogShape, SetRecord
    <3>6. SetStep(c)
      BY <2>1, <3>1, <3>2, <3>4, <3>5 DEF SetStep, Becomes, CatalogShape
    <3> QED
      BY <2>1, <3>4, <3>5, <3>6, OneSetChanges
  <2>5. CASE RenameSet(j)
    <3>1. /\ Capturing(j, {"rename"}) /\ Capturing(j, {"write", "rename"}) /\ p \in CapturePlans /\ Live(j)
          /\ catalog' = [catalog EXCEPT ![c].at = "sealed", ![c].durable = FALSE]
      BY <2>1, <2>2, <2>5 DEF RenameSet, CaptureStep, Does, In, Capturing, CapturePlans
    <3>2. catalog[c].data # Nothing /\ catalog[c].at = "partial"
      BY <3>1 DEF PublishingIsPartial
    <3>3. PICK x : x = [catalog[c] EXCEPT !.at = "sealed", !.durable = FALSE]
      OBVIOUS
    <3>4. x \in SetRecord /\ x.at = "sealed" /\ x.data = catalog[c].data /\ x.durable = FALSE
      BY <2>1, <3>3 DEF SetRecord
    <3>5. catalog' = [catalog EXCEPT ![c] = x]
      BY <2>1, <3>1, <3>3 DEF CatalogShape, SetRecord
    <3>6. SetStep(c)
      BY <1>4, <2>1, <3>1, <3>2, <3>4, <3>5 DEF SetStep, Becomes, CatalogShape
    <3> QED
      BY <2>1, <3>4, <3>5, <3>6, OneSetChanges
  <2>6. CASE InspectPublished(j) \/ ObserveSet(j)
    BY <2>1, <2>2, <2>6, ReadingRefreshes DEF InspectPublished, ObserveSet, CaptureStep, Does
  <2>7. CASE DownloadSet(j)
    <3>1. p \in RecoverPlans
      BY <2>1, <2>2, <2>7 DEF DownloadSet, CaptureStep, Does, RecoverPlans
    <3>2. PICK s \in repository, whole \in BOOLEAN :
            /\ s.set = c /\ catalog[c].at = "absent"
            /\ catalog' = [catalog EXCEPT ![c] =
                 [at |-> "unsealed", data |-> IF whole THEN s.data ELSE Nothing, by |-> j, durable |-> FALSE]]
      BY <2>2, <2>7 DEF DownloadSet, CaptureStep, Does
    <3>3. PICK d : d = IF whole THEN s.data ELSE Nothing
      OBVIOUS
    <3>4. d \in Data /\ (d = Nothing \/ Known(c, d))
      BY <3>2, <3>3 DEF Data, Known, CatalogShape
    <3>5. PICK x : x = [at |-> "unsealed", data |-> d, by |-> j, durable |-> FALSE]
      OBVIOUS
    <3>6. x \in SetRecord /\ catalog' = [catalog EXCEPT ![c] = x]
      BY <3>2, <3>3, <3>4, <3>5 DEF SetRecord
    <3>7. SetStep(c)
      BY <2>1, <3>2, <3>4, <3>5, <3>6 DEF SetStep, Becomes, CatalogShape
    <3> QED
      BY <2>1, <3>6, <3>7, OneSetChanges
  <2>8. CASE SealSet(j) \/ ObserveRecovery(j)
    <3>1. p \in RecoverPlans /\ Seals(c) /\ Sealable(p)
      BY <2>1, <2>2, <2>8 DEF SealSet, ObserveRecovery, CaptureStep, Does, RecoverPlans
    <3>2. c \in Archived /\ catalog[c].data # Nothing
      BY <2>1, <3>1, CapturesAreTheirOwn DEF RecoveriesAreArchived, Sealable
    <3> QED
      BY <2>1, <3>1, <3>2, SealingSeals
  <2> QED
    BY <1>4, <2>3, <2>4, <2>5, <2>6, <2>7, <2>8
       DEF CaptureMoves, CaptureWork, captures,
           StartCapture, CheckSource, ConvertDisk, RecheckSource, RecordPublication, RemoveStaging,
           IntendBackup, Upload, RecordSnapshot, IntendRoundtrip, DownloadRoundtrip, RecordRoundtrip,
           IntendRecovery, RecordRecovery, IntendRestore, RestoreVolume, RecordVolume, DefineRestored
<1> QED
  BY <1>1, <1>2, <1>3, <1>4, CapturesStep DEF captures, GuestWrites

\* What a set may lose with the power.
LEMMA WhatRemains ==
  ASSUME NEW r \in SetRecord, NEW x \in MayRemain(r)
  PROVE  /\ r.durable => x = r
         /\ x.at = "sealed" => x = r
         /\ r.at = "sealed" => x = r \/ (x.at = "partial" /\ x.durable)
         /\ x.data = r.data \/ x.data = Nothing
<1>1. r.durable => x = r
  BY DEF MayRemain, SetRecord
<1>2. CASE ~r.durable /\ r.at = "partial"
  BY <1>2 DEF MayRemain, NoSet
<1>3. CASE ~r.durable /\ r.at = "unsealed"
  <2>1. x \in {r, [r EXCEPT !.data = Nothing], NoSet}
    BY <1>3 DEF MayRemain
  <2> QED
    BY <1>3, <2>1 DEF NoSet, SetRecord
<1>4. CASE ~r.durable /\ r.at \notin {"partial", "unsealed"}
  <2>1. x \in {r, [r EXCEPT !.at = "partial", !.durable = TRUE]}
    BY <1>4 DEF MayRemain
  <2> QED
    BY <1>4, <2>1 DEF SetRecord
<1> QED
  BY <1>1, <1>2, <1>3, <1>4 DEF SetRecord

\* Uploading adds a snapshot of a set that is there for good.
LEMMA RepositoryGrows ==
  ASSUME HandlersInv, CatalogInv, HostNext
  PROVE  /\ repository \subseteq repository'
         /\ \A s \in repository' \ repository :
              /\ s \in [by : Jobs \cup {NoJob}, set : CaptureIDs, data : Versions]
              /\ catalog[s.set].at = "sealed" /\ catalog' = catalog
<1>1. CASE repository' = repository
  BY <1>1
<1>2. ASSUME NEW j \in Jobs, CaptureMoves(j), Upload(j)
      PROVE  /\ repository \subseteq repository'
             /\ \A s \in repository' \ repository :
                  /\ s \in [by : Jobs \cup {NoJob}, set : CaptureIDs, data : Versions]
                  /\ catalog[s.set].at = "sealed" /\ catalog' = catalog
  <2> DEFINE c == SetOf[PlanOf(j)]
  <2>1. c \in CaptureIDs
    BY <1>2, LivePlan DEF Upload, CaptureStep, Does, At, Live, CaptureIDs
  <2>2. /\ Whole(c) /\ repository' = repository \cup {[by |-> j, set |-> c, data |-> catalog[c].data]}
        /\ catalog' = catalog
    BY <1>2 DEF Upload
  <2>3. catalog[c].data \in Versions
    BY <2>1, <2>2 DEF CatalogInv, CatalogShape, SetRecord, Data, Whole
  <2> QED
    BY <2>1, <2>2, <2>3 DEF Whole
<1>3. repository' = repository \/ \E j \in Jobs : CaptureMoves(j) /\ Upload(j)
  BY CapturesStep, ZenonT(40) DEF captures, CaptureMoves, CaptureWork, Reads, PlanFromSet, CapturesLosePower, GuestWrites,
       StartCapture, CheckSource, ConvertDisk, RecheckSource, RecordPublication,
       NamePartial, WriteMembers, RenameSet, InspectPublished, RemoveStaging,
       IntendBackup, RecordSnapshot, IntendRoundtrip, DownloadRoundtrip, RecordRoundtrip,
       IntendRecovery, DownloadSet, SealSet, RecordRecovery,
       IntendRestore, RestoreVolume, RecordVolume, DefineRestored, ObserveSet, ObserveRecovery
<1> QED
  BY <1>1, <1>2, <1>3

LEMMA KeptStays ==
  ASSUME CatalogInv, NEW c \in CaptureIDs, SetStep(c), Kept(c)
  PROVE  Kept(c)'
<1>1. catalog[c] \in SetRecord
  BY DEF CatalogInv, CatalogShape
<1>2. CASE catalog'[c] \in MayRemain(catalog[c])
  BY <1>1, <1>2, WhatRemains DEF Kept
<1> QED
  BY <1>2 DEF SetStep, Becomes, Kept

LEMMA KnownStays ==
  ASSUME HandlersInv, CatalogInv, HostNext, NEW c, NEW d, Known(c, d)
  PROVE  Known(c, d)'
<1>1. \A p \in CapturePlans : Planned(p) => Planned(p)' /\ review'[p] = review[p]
  BY ReviewsAreKept DEF HandlersInv, CapturePlans, Planned
<1> QED
  BY <1>1, RepositoryGrows DEF Known

LEMMA NextDataAreKnown ==
  ASSUME HandlersInv, StagingInv, CatalogInv, HostNext
  PROVE  CatalogShape' /\ DataAreKnown' /\ SnapshotsAreOfSets'
<1>1. catalog' \in [CaptureIDs -> SetRecord] /\ \A c \in CaptureIDs : SetStep(c)
  BY CatalogStep
<1>2. CatalogShape'
  BY <1>1, RepositoryGrows DEF CatalogInv, CatalogShape
<1>3. ASSUME NEW c \in CaptureIDs, NEW d, d = catalog'[c].data
      PROVE  (d # Nothing => Known(c, d)') /\ (catalog'[c].at = "sealed" => d # Nothing)
  <2>1. /\ catalog[c].data # Nothing => Known(c, catalog[c].data)
        /\ catalog[c].at = "sealed" => catalog[c].data # Nothing
        /\ catalog[c] \in SetRecord
    BY DEF CatalogInv, DataAreKnown, CatalogShape
  <2>2. (d # Nothing => Known(c, d)) /\ (catalog'[c].at = "sealed" => d # Nothing)
    <3>1. CASE catalog'[c] \in MayRemain(catalog[c])
      BY <1>3, <2>1, <3>1, WhatRemains
    <3>2. CASE catalog'[c] = catalog[c]
      BY <1>3, <2>1, <3>2
    <3>3. ASSUME NEW p \in CapturePlans, SetOf[p] = c, Planned(p), Becomes(c, "partial", review[p].source, TRUE)
          PROVE  Known(c, d) /\ catalog'[c].at # "sealed"
      BY <1>3, <3>3 DEF Becomes, Known
    <3> QED
      BY <1>1, <1>3, <2>1, <3>1, <3>2, <3>3 DEF SetStep, Becomes
  <2> QED
    BY <2>2, KnownStays
<1>4. ASSUME NEW s \in repository'
      PROVE  s.set \in Archived \/ Kept(s.set)'
  <2>1. CASE s \in repository
    <3>1. s.set \in CaptureIDs
      BY <2>1 DEF CatalogInv, CatalogShape
    <3> QED
      BY <1>1, <2>1, <3>1, KeptStays DEF CatalogInv, SnapshotsAreOfSets
  <2>2. CASE s \notin repository
    BY <1>4, <2>2, RepositoryGrows DEF Kept
  <2> QED
    BY <2>1, <2>2
<1> QED
  <2>1. ASSUME NEW c \in CaptureIDs
        PROVE  /\ catalog'[c].data # Nothing => Known(c, catalog[c].data)'
               /\ catalog'[c].at = "sealed" => catalog'[c].data # Nothing
    <3>1. PICK d : d = catalog'[c].data
      OBVIOUS
    <3>2. (d # Nothing => Known(c, d)') /\ (catalog'[c].at = "sealed" => d # Nothing)
      BY <1>3, <3>1
    <3> QED
      BY <3>1, <3>2 DEF Known
  <2> QED
    BY <1>2, <1>4, <2>1 DEF DataAreKnown, SnapshotsAreOfSets

LEMMA NextRecoveriesAreArchived ==
  ASSUME HandlersInv, CatalogInv, HostNext
  PROVE  RecoveriesAreArchived'
<1> SUFFICES ASSUME NEW p \in RecoverPlans, Planned(p)'
             PROVE  SetOf[p] \in Archived /\ review'[p].data \in Versions
  BY DEF RecoveriesAreArchived
<1>1. p \in Plans /\ Kind[p] = "recover" /\ SetOf[p] \in CaptureIDs
  BY DEF RecoverPlans, CaptureIDs
<1>2. CASE Planned(p)
  BY <1>1, <1>2, ReviewsAreKept DEF HandlersInv, CatalogInv, RecoveriesAreArchived
<1>3. CASE ~Planned(p)
  <2>1. HostPlans(p)
    BY <1>1, <1>3, NewPlan
  <2>2. PlanRecovery(p)
    BY <1>1, <2>1 DEF HostPlans, NetworkPlans, NetworkResumptions, GrantPlans, AccessPlans, AccessKinds,
       RecipePlans, CapturePlans, BackupPlans, RestorePlans, PreparePlans, DiscardPlans, MachinePlans,
       MachineKinds, Lifecycle, PoolPlans, PoolKinds, ConfigurationPlans, ConfigurationKinds, DefiningKinds
  <2>3. PICK s \in repository : s.set = SetOf[p] /\ StorePlan(p, [snapshot |-> s.by, data |-> s.data])
    BY <2>2 DEF PlanRecovery
  <2>4. review'[p].data = s.data /\ s.data \in Versions
    BY <1>1, <2>3 DEF StorePlan, HandlersInv, WorkShape, CatalogInv, CatalogShape
  <2>5. catalog[SetOf[p]].at = "absent"
    BY <2>2 DEF PlanRecovery
  <2> QED
    BY <2>3, <2>4, <2>5 DEF CatalogInv, SnapshotsAreOfSets, Kept
<1> QED
  BY <1>2, <1>3

LEMMA NextPublishing ==
  ASSUME HandlersInv, StagingInv, CatalogInv, HostNext
  PROVE  PublishingIsPartial'
<1> SUFFICES ASSUME NEW j \in Jobs, Capturing(j, {"write", "rename"})'
             PROVE  LET c == SetOf[jobs'[j].planID] IN
                    /\ catalog'[c].at = "partial"
                    /\ work'[j].at = "rename" => catalog'[c].data # Nothing
  BY DEF PublishingIsPartial, Capturing
<1> DEFINE p == jobs[j].planID
           c == SetOf[p]
<1>1. /\ Live(j) /\ Stored(j) /\ jobs'[j].planID = p /\ p \in CapturePlans /\ Planned(p)
      /\ work'[j] = work[j] \/ CaptureMoves(j)
  BY CapturingWas DEF Capturing, Converting
<1>2. /\ c \in CaptureIDs /\ c \notin Archived /\ p \in Plans /\ Kind[p] = "capture" /\ PlanOf(j) = p
      /\ catalog[c] \in SetRecord /\ DOMAIN work = Jobs /\ "at" \in DOMAIN work[j]
      /\ review[p].source # Nothing
  BY <1>1, CapturesAreTheirOwn, LivePlan
     DEF CaptureIDs, CapturePlans, CatalogInv, CatalogShape, HandlersInv, WorkShape, StagingInv, ReviewsPrecede
<1>3. CASE CaptureMoves(j)
  <2>1. work'[j].at \in {"write", "rename"}
    BY DEF Capturing
  <2>2. CASE NamePartial(j)
    <3>1. /\ work'[j].at = "write"
          /\ catalog'[c] = [NoSet EXCEPT !.at = "partial", !.by = j, !.durable = FALSE]
      BY <1>2, <2>2 DEF NamePartial, Go, CatalogInv, CatalogShape
    <3> QED
      BY <1>1, <3>1 DEF NoSet
  <2>3. CASE WriteMembers(j)
    <3>1. /\ Capturing(j, {"write"}) /\ Capturing(j, {"write", "rename"}) /\ Capturing(j, {"publish", "name", "write"})
          /\ catalog'[c] = [catalog[c] EXCEPT !.data = staging[p], !.durable = TRUE]
      BY <1>1, <1>2, <2>3 DEF WriteMembers, CaptureStep, In, Capturing, CatalogInv, CatalogShape, SetRecord
    <3>2. staging[p] = review[p].source /\ catalog[c].at = "partial"
      BY <3>1 DEF StagingInv, CopiesFollow, CatalogInv, PublishingIsPartial
    <3> QED
      BY <1>1, <1>2, <3>1, <3>2 DEF SetRecord
  <2>4. CASE ObserveSet(j)
    <3>1. work' = work /\ Inspected(c)
      BY <1>2, <2>4 DEF ObserveSet
    <3>2. /\ catalog'[c] = Refreshed(catalog[c])
          /\ Capturing(j, {"write", "rename"}) /\ (work'[j].at = "rename" => Capturing(j, {"rename"}))
      BY <1>1, <1>2, <3>1 DEF Inspected, CatalogInv, CatalogShape, Capturing
    <3> QED
      BY <1>1, <1>2, <3>2 DEF Refreshed, SetRecord, CatalogInv, PublishingIsPartial
  <2>5. CASE StartCapture(j) \/ CheckSource(j) \/ ConvertDisk(j) \/ RecheckSource(j) \/ RecordPublication(j)
                \/ RenameSet(j) \/ InspectPublished(j) \/ RemoveStaging(j)
    <3>1. work'[j].at \in {"check", "convert", "recheck", "publish", "name", "inspect", "clean", "ok"}
      BY <1>2, <2>5 DEF StartCapture, CheckSource, ConvertDisk, RecheckSource, RecordPublication, RenameSet,
                        InspectPublished, RemoveStaging, Go, GoTo
    <3> QED
      BY <2>1, <3>1
  <2> QED
    BY <1>2, <1>3, <2>2, <2>3, <2>4, <2>5
       DEF CaptureMoves, CaptureWork, CaptureStep, Does, IntendBackup, Upload, RecordSnapshot, IntendRoundtrip, DownloadRoundtrip, RecordRoundtrip,
           IntendRecovery, DownloadSet, SealSet, RecordRecovery,
           IntendRestore, RestoreVolume, RecordVolume, DefineRestored, ObserveRecovery
<1>4. CASE ~CaptureMoves(j)
  <2>1. /\ work'[j] = work[j] /\ Capturing(j, {"write", "rename"})
        /\ (work'[j].at = "rename" => Capturing(j, {"rename"}))
    BY <1>1, <1>4 DEF Capturing
  <2>2. /\ catalog[c].at = "partial" /\ (work'[j].at = "rename" => catalog[c].data # Nothing)
    BY <2>1 DEF CatalogInv, PublishingIsPartial
  <2>3. ~PowerLoss
    BY <2>1 DEF PowerLoss, Idly, Capturing
  <2>4. SetStep(c)
    BY <1>2, CatalogStep
  <2>5. ASSUME NEW q \in CapturePlans, SetOf[q] = c
        PROVE  q = p
    BY <1>1, <2>5, CapturesAreTheirOwn
  <2>6. ASSUME NEW i \in Jobs, CaptureMoves(i), Live(i), jobs[i].planID \in CapturePlans, SetOf[jobs[i].planID] = c
        PROVE  FALSE
    BY <1>1, <1>4, <2>5, <2>6, OneCaptureRuns
  <2> QED
    BY <1>1, <1>2, <2>2, <2>3, <2>4, <2>5, <2>6 DEF SetStep, Becomes
<1> QED
  BY <1>3, <1>4

LEMMA LastingStays ==
  ASSUME CatalogInv, StagingInv, HandlersInv, HostNext, NEW c \in CaptureIDs, Lasts(c)
  PROVE  Lasts(c)'
<1>1. catalog[c] \in SetRecord /\ SetStep(c)
  BY CatalogStep DEF CatalogInv, CatalogShape
<1>2. CASE catalog'[c] \in MayRemain(catalog[c])
  BY <1>1, <1>2, WhatRemains DEF Lasts
<1> QED
  BY <1>1, <1>2 DEF SetStep, Becomes, Lasts

LEMMA NextConfirmedSets ==
  ASSUME HandlersInv, StagingInv, CatalogInv, HostNext
  PROVE  ConfirmedSetsLast'
<1> SUFFICES ASSUME NEW j \in Jobs, NEW i \in Nat, Stored(j)', Kind[jobs'[j].planID] \in {"capture", "recover"},
                    <<j, i>> \in verified'
             PROVE  Lasts(SetOf[jobs[j].planID])'
  BY DEF ConfirmedSetsLast
<1>1. Stored(j)
  <2>1. CASE <<j, i>> \in verified
    BY <2>1 DEF HandlersInv, AcceptanceInv, Acceptances, NothingUnstoredVerified
  <2>2. CASE <<j, i>> \notin verified
    BY <2>2, ConfirmedWasDone
  <2> QED
    BY <2>1, <2>2
<1>2. jobs'[j].planID = jobs[j].planID
  BY <1>1, StepImplements, JobsAreKept DEF HandlersInv
<1> DEFINE p == jobs[j].planID
<1> PICK c : c = SetOf[p]
  OBVIOUS
<1>3. p \in Plans /\ c \in CaptureIDs /\ Kind[p] \in {"capture", "recover"}
  BY <1>1, <1>2, ReviewOfStored DEF CaptureIDs
<1>4. Lasts(c)'
  <2>1. CASE <<j, i>> \in verified
    BY <1>1, <1>3, <2>1, LastingStays DEF CatalogInv, ConfirmedSetsLast
  <2>2. CASE <<j, i>> \notin verified
    <3>1. HostDone(p, i, j) /\ UNCHANGED <<jobs, captures>>
      BY <2>2, ConfirmedWasDone
    <3>2. CapturesDone(p, j)
      <4>1. /\ Kind[p] \in CaptureKinds
            /\ Kind[p] \notin NetworkKinds \cup AccessKinds \cup {"recipe"} \cup ImportKinds
                 \cup MachineKinds \cup PoolKinds \cup ConfigurationKinds
        BY <1>3 DEF NetworkKinds, AccessKinds, CaptureKinds, ImportKinds, MachineKinds, Lifecycle, PoolKinds,
                    ConfigurationKinds, DefiningKinds
      <4> QED
        BY <3>1, <4>1, Zenon DEF HostDone
    <3>3. Whole(c) /\ catalog[c].durable
      <4>1. catalog[c] \in SetRecord
        BY <1>3 DEF CatalogInv, CatalogShape
      <4>2. Refreshed(catalog[c]) = catalog[c] => catalog[c].durable
        BY <4>1 DEF Refreshed, SetRecord
      <4> QED
        BY <1>3, <3>2, <4>2 DEF CapturesDone, CaptureDone, RecoveryDone
    <3> QED
      BY <3>1, <3>3 DEF captures, Whole, Lasts
  <2> QED
    BY <2>1, <2>2
<1> QED
  BY <1>2, <1>4 DEF Lasts

LEMMA InitCaptures == HostInit => StagingInv /\ CatalogInv
<1> SUFFICES ASSUME HostInit PROVE StagingInv /\ CatalogInv
  OBVIOUS
<1>1. (\A j \in Jobs : ~Stored(j) /\ ~Live(j)) /\ \A p \in Plans : ~Planned(p)
  BY DEF HostInit, HandlersInit, Init, JournalInit, Stored, Planned, Live, Idle
<1>2. FirstVersion \in Versions
  BY CapturePlansAreComplete DEF FirstVersion, Versions
<1>3. StagingInv
  BY <1>1, <1>2 DEF HostInit, CapturesInit, StagingInv, ReviewsPrecede, CopiesFollow, Capturing, CapturePlans
<1>4. \A c \in CaptureIDs : catalog[c] = NoSet
  BY DEF HostInit, CapturesInit
<1>5. NoSet \in SetRecord /\ NoSet.at = "absent" /\ NoSet.data = Nothing
  BY DEF NoSet, SetRecord, Data
<1>6. CatalogShape /\ SnapshotsAreOfSets
  BY <1>2, <1>5 DEF HostInit, CapturesInit, CatalogShape, SnapshotsAreOfSets, CaptureIDs
<1>7. DataAreKnown
  BY <1>4, <1>5 DEF DataAreKnown
<1>8. RecoveriesAreArchived /\ PublishingIsPartial /\ ConfirmedSetsLast
  BY <1>1 DEF RecoveriesAreArchived, RecoverPlans, PublishingIsPartial, Capturing, ConfirmedSetsLast
<1> QED
  BY <1>3, <1>6, <1>7, <1>8 DEF CatalogInv

CaptureInv == StagingInv /\ CatalogInv

LEMMA NextCaptures ==
  ASSUME HandlersInv, CaptureInv, [HostNext]_hostVars
  PROVE  CaptureInv'
<1>1. CASE HostNext
  BY <1>1, NextStaging, NextDataAreKnown, NextRecoveriesAreArchived, NextPublishing, NextConfirmedSets
     DEF CaptureInv, CatalogInv
<1>2. CASE UNCHANGED hostVars
  <2>1. UNCHANGED <<jobs, runner, review, work, verified, catalog, repository>>
    BY <1>2 DEF hostVars, vars, journal, volatile, observed, captures
  <2>2. CatalogInv'
    BY <2>1 DEF CaptureInv, CatalogInv, CatalogShape, DataAreKnown, SnapshotsAreOfSets, RecoveriesAreArchived,
                PublishingIsPartial, ConfirmedSetsLast, Capturing, Known, Kept, Lasts, Planned, Stored, Live
  <2> QED
    BY <2>2, NextStaging DEF CaptureInv
<1> QED
  BY <1>1, <1>2

\* A set that is sealed is one state of the machine, the one that was reviewed,
\* and a set that was reported stays, also when the power goes between rename and
\* sync (Execute, publish, SealRestored, Inspect, Reconcile of captures).
THEOREM SetsAreWhole == HostSpec => []SetsAreTrue
<1>1. HostInit => HandlersInv /\ CaptureInv
  BY InitHandlers, InitCaptures DEF CaptureInv
<1>2. HandlersInv /\ CaptureInv /\ [HostNext]_hostVars => (HandlersInv /\ CaptureInv)'
  BY NextHandlers, NextCaptures
<1>3. HandlersInv /\ CaptureInv => SetsAreTrue
  <2> SUFFICES ASSUME HandlersInv, CaptureInv PROVE SetsAreTrue
    OBVIOUS
  <2>1. SetsAreConsistent
    BY DEF SetsAreConsistent, CaptureInv, CatalogInv, DataAreKnown, Known
  <2>2. ASSUME NEW j \in Jobs, Stored(j), jobs[j].state = "succeeded", Kind[jobs[j].planID] \in {"capture", "recover"}
        PROVE  Whole(SetOf[jobs[j].planID])
    <3>1. LastStep(j) \in Nat
      BY <2>2, LastStepIsNat DEF HandlersInv, AcceptanceInv, DoubtInv, OwnershipInv
    <3>2. <<j, 0>> \in verified
      BY <2>2, <3>1 DEF HandlersInv, AcceptanceInv, DoubtInv, Progress, SuccessIsObserved
    <3> QED
      BY <2>2, <3>2 DEF CaptureInv, CatalogInv, ConfirmedSetsLast, Lasts, Whole
  <2> QED
    BY <2>1, <2>2 DEF SetsAreTrue, SetsSurvive
<1> QED
  BY <1>1, <1>2, <1>3, PTL DEF HostSpec

-----------------------------------------------------------------------------
(* Execute is what works: outside it a job's work is at rest. *)

WorkIsExecuted == \A j \in Jobs : ~At(j, "execute") => work[j].at = "idle"

LEMMA WorkExecutes ==
  ASSUME NEW j, HostWork(j)
  PROVE  At(j, "execute") \/ UNCHANGED work
<1>1. NetworkWork(j) => At(j, "execute")
  BY DEF NetworkWork, NetworkStep, In, CheckSubnet, ReserveSubnet, DefineNetwork, AskForFilter, CheckFilter,
         ActivateNetwork, Does
<1>2. AccessWork(j) => At(j, "execute") \/ UNCHANGED work
  BY DEF AccessWork, AccessStep, In, CancelAccess, AskForAccess, ObserveAccess, StoreAccessReceipt, Does
<1>3. RecipeWork(j) => At(j, "execute")
  BY DEF RecipeWork, IntendStage, SendScript, CancelScript, RecordStage, EndStage, RecipeStep, In, Does
<1>4. ASSUME NEW s, ScriptEnds(j, s) PROVE At(j, "execute") \/ UNCHANGED work
  BY <1>4 DEF ScriptEnds, In
<1>5. CaptureWork(j) => At(j, "execute") \/ UNCHANGED work
  BY DEF CaptureWork, CaptureStep, In, Does,
       StartCapture, CheckSource, ConvertDisk, RecheckSource, RecordPublication,
       NamePartial, WriteMembers, RenameSet, InspectPublished, RemoveStaging,
       IntendBackup, Upload, RecordSnapshot, IntendRoundtrip, DownloadRoundtrip, RecordRoundtrip,
       IntendRecovery, DownloadSet, SealSet, RecordRecovery,
       IntendRestore, RestoreVolume, RecordVolume, DefineRestored, ObserveSet, ObserveRecovery
<1>6. ImportWork(j) => At(j, "execute")
  BY DEF ImportWork, ImportStep, In, Does, StartPreparation, CopyPiece, RecheckOriginal, RecordArtifact,
       PublishCopies, SyncParent, CancelPreparation, RecordDiscard, BeginRemoval, EndRemoval
<1>7. MachineWork(j) => At(j, "execute") \/ UNCHANGED work
  BY DEF MachineWork, MachineStep, LiveStep, In, Does, CallMachine, CallAnswered, BootFails,
       AskToShutDown, SeeShutDown, GiveUpShutDown, CheckEdit, DefineEdit, ReadEditBack,
       SetProcessors, AskForMemory, SeeMemory, AskForMemoryBack, SeeMemoryBack,
       LiveRefused, LiveRechecked, Subscribe, ArmReboot, RequestReboot, RecordReboot,
       RemoveDefinition, RecordRemoval
<1>8. PoolWork(j) => At(j, "execute")
  BY DEF PoolWork, PoolStep, In, Does, CheckPool, ReservePool, DefinePool, StartPool, SetPoolAutostart, ReadPoolBack
<1>9. ConfigurationWork(j) => At(j, "execute")
  BY DEF ConfigurationWork, ConfigurationStep, In, Does, ReadyVolumes, CheckDefinition, ReadBase,
       DefineConfiguration, ReadDefinitionBack
<1> QED
  BY <1>1, <1>2, <1>3, <1>4, <1>5, <1>6, <1>7, <1>8, <1>9 DEF HostWork

LEMMA NextExecuted ==
  ASSUME HandlersInv, WorkIsExecuted, [HostNext]_hostVars
  PROVE  WorkIsExecuted'
<1>1. CASE UNCHANGED hostVars
  BY <1>1 DEF hostVars, vars, volatile, WorkIsExecuted, At
<1>2. ASSUME KeepsEngine, NEW m, Progresses(m), At(m, "execute") \/ UNCHANGED work
      PROVE  WorkIsExecuted'
  BY <1>2 DEF KeepsEngine, vars, volatile, Progresses, WorkIsExecuted, HandlersInv, WorkShape, At
<1>3. ASSUME NEW j, HostWork(j)
      PROVE  WorkIsExecuted'
  BY <1>2, <1>3, WorkExecutes, WorkFrame
<1>4. CASE HostChanges
  <2>1. CASE NetworkHelper \/ AccessHelper
    BY <1>2, <2>1, HelperFrame
  <2>2. CASE ~(NetworkHelper \/ AccessHelper)
    BY <1>4, <2>2, ChangesFrame DEF KeepsEngine, vars, volatile, WorkIsExecuted, At
  <2> QED
    BY <2>1, <2>2
<1>5. ASSUME NEW p, HostPlans(p)
      PROVE  WorkIsExecuted'
  BY <1>5, PlansFrame DEF vars, volatile, WorkIsExecuted, At
<1>6. ASSUME EngineMoves, NEW j \in Jobs, ~At(j, "execute")'
      PROVE  work'[j].at = "idle"
  <2>1. \/ work'[j] = work[j] /\ (runner'[j] = runner[j] \/ ~At(j, "execute"))
        \/ work'[j] = Idly
        \/ At(j, "execute") /\ UNCHANGED runner
    BY <1>6, EngineRuns DEF Busy
  <2> QED
    BY <1>6, <2>1 DEF WorkIsExecuted, Idly, At
<1>7. CASE PowerLoss
  BY <1>7 DEF PowerLoss, WorkIsExecuted, Idly
<1>8. EngineMoves => WorkIsExecuted'
  BY <1>6 DEF WorkIsExecuted
<1> QED
  BY <1>1, <1>3, <1>4, <1>5, <1>7, <1>8 DEF HostNext, EngineMoves

-----------------------------------------------------------------------------
(* What a preparation writes down and publishes is the source as it was      *)
(* reviewed, because the source only changes forwards; and what was          *)
(* published stays, because all who work at one destination name it as their *)
(* resource.                                                                 *)

VersionsPrecede ==
  \A p \in PreparePlans : Planned(p) => review[p].version \in 0..original

Removes(q, k) ==
  k \in Jobs /\ Stored(k) /\ jobs[k].planID \in PreparePlans /\ Destination[jobs[k].planID] \in ResourceIDs[q]

DiscardsAreBound == \A q \in DiscardPlans : Planned(q) => Removes(q, review[q].of)

\* A preparation, or a removal, that runs, and how far it is.
Preparing(j, ats) == Live(j) /\ jobs[j].planID \in PreparePlans /\ work[j].at \in ats
Removing(j, ats) == Live(j) /\ jobs[j].planID \in DiscardPlans /\ work[j].at \in ats

TakenSince(p, copies) ==
  \A d \in 1..Len(copies) : review[p].version <= copies[d] /\ copies[d] <= original

PreparationFollows(j) ==
  LET p == jobs[j].planID
      copies == folder[WorkFolder(p)].copies IN
  /\ Preparing(j, {"copy"}) => TakenSince(p, copies) /\ Len(copies) < PieceCount
  /\ Preparing(j, {"recheck"}) => TakenSince(p, copies) /\ Len(copies) = PieceCount
  /\ Preparing(j, {"record"}) => copies = AllCopied(review[p].version)

ArtifactsAreWhole ==
  \A p \in PreparePlans : artifacts[p] # NoFolder =>
    Planned(p) /\ artifacts[p].copies = AllCopied(review[p].version)

\* Images are on record as removed before they are, and all of them go.
RemovalFollows(j) ==
  LET q == jobs[j].planID IN
  /\ Removing(j, {"remove"}) => discarded[review[q].of] # NoJob
  /\ Removing(j, {"removing"}) => folder[Doomed(q, runner[j].i)].copies = <<>>

Stands(j) ==
  LET p == jobs[j].planID IN
  artifacts[p].by = j /\ discarded[j] = NoJob /\ j \notin lost /\ ~Misdirected(j)
    => folder[Destination[p]] = artifacts[p]

PreparedCopiesStand ==
  \A j \in Jobs, i \in Nat :
    Stored(j) /\ jobs[j].planID \in PreparePlans /\ <<j, i>> \in verified
      => artifacts[jobs[j].planID] # NoFolder /\ Stands(j)

ImportInv ==
  /\ ImportsTypeOK /\ WorkIsExecuted
  /\ VersionsPrecede /\ DiscardsAreBound
  /\ \A j \in Jobs : PreparationFollows(j) /\ RemovalFollows(j)
  /\ ArtifactsAreWhole /\ PreparedCopiesStand

-----------------------------------------------------------------------------
ImportMoves(j) == IsAbout(j, ImportKinds) /\ ImportWork(j)

\* Folders, records and the source are changed by their own handler, by the owner
\* of the source and by a loss of power.
LEMMA ImportsStep ==
  ASSUME HostNext
  PROVE  \/ UNCHANGED imports
         \/ \E j \in Jobs : ImportMoves(j)
         \/ EditSource
         \/ ImportsLosePower /\ PowerLoss
<1>1. ASSUME NEW p, HostPlans(p)
      PROVE  UNCHANGED imports
  BY <1>1 DEF HostPlans, PlanPreparation, PlanDiscard
<1> QED
  BY <1>1 DEF HostNext, HostWork, HostChanges, PowerLoss, ImportMoves

LEMMA ImportIsImports ==
  ASSUME NEW j, HostWork(j), Kind[jobs[j].planID] \in ImportKinds
  PROVE  ImportMoves(j)
BY DEF HostWork, IsAbout, NetworkKinds, AccessKinds, CaptureKinds, ImportKinds, MachineKinds, Lifecycle,
       PoolKinds, ConfigurationKinds, DefiningKinds, ImportMoves

\* Whose images a job works on: one job at a time works on those at a destination.
SiteOf(j) ==
  LET p == jobs[j].planID IN
  IF p \in PreparePlans THEN Destination[p] ELSE Destination[jobs[review[p].of].planID]

LEMMA OneJobAtASite ==
  ASSUME HandlersInv, DiscardsAreBound, NEW i \in Jobs, NEW j \in Jobs, Live(i), Live(j),
         jobs[i].planID \in PreparePlans \cup DiscardPlans, jobs[j].planID \in PreparePlans \cup DiscardPlans,
         SiteOf(i) = SiteOf(j)
  PROVE  i = j
<1>1. RunnersAreExclusive
  BY DEF HandlersInv, AcceptanceInv, DoubtInv, OwnershipInv, Ownership, RunnersHold, RunnersAreExclusive, Holds
<1>2. SiteOf(i) \in Resource(i) /\ SiteOf(j) \in Resource(j)
  BY LivePlan, ImportPlansAreComplete DEF SiteOf, Resource, DiscardsAreBound, Removes, PreparePlans
<1> QED
  BY <1>1, <1>2 DEF RunnersAreExclusive

\* A step of a handler, by the two kinds there are.
LEMMA ImportMovesAre ==
  ASSUME HandlersInv, ImportInv, NEW j \in Jobs, ImportMoves(j)
  PROVE  /\ At(j, "execute") /\ Live(j) /\ PlanOf(j) = jobs[j].planID /\ Planned(jobs[j].planID)
         /\ DOMAIN work = Jobs /\ \A m \in Jobs : "at" \in DOMAIN work[m]
         /\ KeepsEngine /\ jobs' = jobs /\ review' = review /\ runner' = runner
         /\ \/ /\ jobs[j].planID \in PreparePlans
               /\ \/ StartPreparation(j) \/ CopyPiece(j) \/ RecheckOriginal(j) \/ RecordArtifact(j)
                  \/ PublishCopies(j) \/ SyncParent(j) \/ CancelPreparation(j)
            \/ /\ jobs[j].planID \in DiscardPlans
               /\ RecordDiscard(j) \/ BeginRemoval(j) \/ EndRemoval(j)
<1>1. At(j, "execute")
  BY DEF ImportMoves, ImportWork, ImportStep, In, Does, StartPreparation, CopyPiece, RecheckOriginal, RecordArtifact,
       PublishCopies, SyncParent, CancelPreparation, RecordDiscard, BeginRemoval, EndRemoval
<1>2. Live(j)
  BY <1>1 DEF At, Live
<1>3. /\ PlanOf(j) = jobs[j].planID /\ Planned(jobs[j].planID) /\ jobs[j].planID \in Plans
  BY <1>2, LivePlan
<1>4. KeepsEngine /\ jobs' = jobs /\ review' = review /\ runner' = runner
  BY ImportFrame DEF KeepsEngine, vars, journal, volatile, ImportMoves
<1>5. \/ Kind[PlanOf(j)] = "prepare"
         /\ \/ StartPreparation(j) \/ CopyPiece(j) \/ RecheckOriginal(j) \/ RecordArtifact(j)
            \/ PublishCopies(j) \/ SyncParent(j) \/ CancelPreparation(j)
      \/ Kind[PlanOf(j)] = "discard" /\ (RecordDiscard(j) \/ BeginRemoval(j) \/ EndRemoval(j))
  BY DEF ImportMoves, ImportWork, ImportStep, Does, StartPreparation, CopyPiece, RecheckOriginal, RecordArtifact,
       PublishCopies, SyncParent, CancelPreparation, RecordDiscard, BeginRemoval, EndRemoval
<1> QED
  BY <1>1, <1>2, <1>3, <1>4, <1>5 DEF HandlersInv, WorkShape, PreparePlans, DiscardPlans

LEMMA SitesArePlaces ==
  ASSUME HandlersInv, ImportInv, NEW j \in Jobs, Live(j)
  PROVE  /\ jobs[j].planID \in PreparePlans =>
              /\ WorkFolder(jobs[j].planID) \in Places /\ Destination[jobs[j].planID] \in Places
              /\ WorkFolder(jobs[j].planID) # Destination[jobs[j].planID]
              /\ SiteOf(j) = Destination[jobs[j].planID]
         /\ jobs[j].planID \in DiscardPlans =>
              LET q == jobs[j].planID
                  made == jobs[review[q].of].planID IN
              /\ review[q].of \in Jobs /\ Stored(review[q].of) /\ made \in PreparePlans
              /\ SiteOf(j) = Destination[made]
              /\ Doomed(q, 0) = WorkFolder(made)
              /\ \A i : i # 0 => Doomed(q, i) = Destination[made]
              /\ \A i : Doomed(q, i) \in Places
<1>1. jobs[j].planID \in Plans /\ Planned(jobs[j].planID)
  BY LivePlan
<1>2. \A p \in PreparePlans : p \in Places /\ Destination[p] \in Places /\ p # Destination[p]
  BY ImportPlansAreComplete DEF Places, PreparePlans
<1>3. jobs[j].planID \in DiscardPlans => jobs[j].planID \notin PreparePlans
  BY DEF PreparePlans, DiscardPlans
<1> QED
  BY <1>1, <1>2, <1>3 DEF ImportInv, DiscardsAreBound, Removes, SiteOf, WorkFolder, Doomed

\* What a step does to the folders.
LEMMA FolderStep ==
  ASSUME HandlersInv, ImportInv, HostNext, NEW x \in Places
  PROVE  \/ folder'[x] = folder[x]
         \/ \E j \in Jobs :
              /\ ImportMoves(j) /\ Live(j) /\ jobs[j].planID \in PreparePlans
              /\ \/ x = WorkFolder(jobs[j].planID)
                 \/ x = Destination[jobs[j].planID] /\ ~Exists(x) /\ PublishCopies(j)
         \/ \E j \in Jobs :
              /\ ImportMoves(j) /\ Live(j) /\ jobs[j].planID \in DiscardPlans
              /\ x = Doomed(jobs[j].planID, runner[j].i) /\ (BeginRemoval(j) \/ EndRemoval(j))
         \/ ImportsLosePower /\ PowerLoss
<1>1. folder \in [Places -> Folder]
  BY DEF ImportInv, ImportsTypeOK
<1>2. ASSUME NEW j \in Jobs, ImportMoves(j), folder'[x] # folder[x]
      PROVE  \/ /\ Live(j) /\ jobs[j].planID \in PreparePlans
                /\ \/ x = WorkFolder(jobs[j].planID)
                   \/ x = Destination[jobs[j].planID] /\ ~Exists(x) /\ PublishCopies(j)
             \/ /\ Live(j) /\ jobs[j].planID \in DiscardPlans
                /\ x = Doomed(jobs[j].planID, runner[j].i) /\ (BeginRemoval(j) \/ EndRemoval(j))
  <2>1. PlanOf(j) = jobs[j].planID /\ Live(j)
    BY <1>2, ImportMovesAre
  <2>2. CASE /\ jobs[j].planID \in PreparePlans
             /\ \/ StartPreparation(j) \/ CopyPiece(j) \/ RecheckOriginal(j) \/ RecordArtifact(j)
                \/ PublishCopies(j) \/ SyncParent(j) \/ CancelPreparation(j)
    BY <1>1, <1>2, <2>1, <2>2 DEF imports, StartPreparation, CopyPiece, RecheckOriginal, RecordArtifact,
       PublishCopies, SyncParent, CancelPreparation
  <2>3. CASE /\ jobs[j].planID \in DiscardPlans
             /\ RecordDiscard(j) \/ BeginRemoval(j) \/ EndRemoval(j)
    BY <1>1, <1>2, <2>1, <2>3 DEF RecordDiscard, BeginRemoval, EndRemoval
  <2> QED
    BY <1>2, <2>2, <2>3, ImportMovesAre
<1> QED
  BY <1>2, ImportsStep DEF EditSource, imports

LEMMA FolderWith ==
  ASSUME NEW f \in [Places -> Folder], NEW x \in Places, NEW copies \in Seq(0..MaxEdits)
  PROVE  [f EXCEPT ![x].copies = copies] \in [Places -> Folder]
<1>1. [f[x] EXCEPT !.copies = copies] \in Folder
  BY DEF Folder
<1> QED
  BY <1>1

LEMMA FoldersAre ==
  /\ NoFolder \in Folder /\ <<>> \in Seq(0..MaxEdits)
  /\ \A j \in Jobs : [by |-> j, copies |-> <<>>] \in Folder
BY DEF NoFolder, Folder

LEMMA NextImportsType ==
  ASSUME HandlersInv, ImportInv, HostNext
  PROVE  ImportsTypeOK'
<1>1. ImportsTypeOK /\ PieceCount \in Nat \ {0} /\ MaxEdits \in Nat /\ NoFolder \in Folder
  BY ImportPlansAreComplete DEF ImportInv, NoFolder, Folder
<1>2. ASSUME NEW j \in Jobs, ImportMoves(j)
      PROVE  ImportsTypeOK'
  <2>1. PlanOf(j) = jobs[j].planID /\ Live(j)
    BY <1>2, ImportMovesAre
  <2>2. CASE /\ jobs[j].planID \in PreparePlans
             /\ \/ StartPreparation(j) \/ CopyPiece(j) \/ RecheckOriginal(j) \/ RecordArtifact(j)
                \/ PublishCopies(j) \/ SyncParent(j) \/ CancelPreparation(j)
    <3> PICK p \in PreparePlans : p = PlanOf(j)
      BY <2>1, <2>2
    <3>1. /\ WorkFolder(p) \in Places /\ Destination[p] \in Places
          /\ folder[WorkFolder(p)].by \in Jobs \cup {NoJob} /\ folder[WorkFolder(p)].copies \in Seq(0..MaxEdits)
      BY <1>1, <2>1, <2>2, SitesArePlaces DEF ImportsTypeOK, Folder
    <3>2. CASE StartPreparation(j) \/ CancelPreparation(j)
      <4>1. /\ \/ folder' = folder
               \/ \E new \in Folder : folder' = [folder EXCEPT ![WorkFolder(p)] = new]
            /\ UNCHANGED <<original, onDisk, artifacts, discarded, lost>>
        BY <3>2, FoldersAre DEF StartPreparation, CancelPreparation
      <4> QED
        BY <1>1, <3>1, <4>1 DEF ImportsTypeOK
    <3>6. CASE RecheckOriginal(j) \/ SyncParent(j)
      BY <1>1, <3>6 DEF ImportsTypeOK, imports, RecheckOriginal, SyncParent
    <3>3. CASE CopyPiece(j)
      <4>1. Append(folder[WorkFolder(p)].copies, original) \in Seq(0..MaxEdits)
        BY <1>1, <3>1 DEF ImportsTypeOK
      <4>2. folder' = [folder EXCEPT ![WorkFolder(p)].copies = Append(folder[WorkFolder(p)].copies, original)]
            /\ UNCHANGED <<original, onDisk, artifacts, discarded, lost>>
        BY <3>3 DEF CopyPiece
      <4> QED
        BY <1>1, <3>1, <4>1, <4>2, FolderWith DEF ImportsTypeOK
    <3>4. CASE RecordArtifact(j)
      BY <1>1, <3>1, <3>4 DEF ImportsTypeOK, RecordArtifact
    <3>5. CASE PublishCopies(j)
      <4>1. /\ folder' = [folder EXCEPT ![Destination[p]] = folder[WorkFolder(p)], ![WorkFolder(p)].copies = <<>>]
            /\ UNCHANGED <<original, onDisk, artifacts, discarded, lost>>
        BY <3>5 DEF PublishCopies
      <4>2. folder[WorkFolder(p)] \in Folder
        BY <1>1, <3>1 DEF ImportsTypeOK
      <4> QED
        <5>1. /\ [folder EXCEPT ![Destination[p]] = folder[WorkFolder(p)]] \in [Places -> Folder]
              /\ folder' = [[folder EXCEPT ![Destination[p]] = folder[WorkFolder(p)]] EXCEPT ![WorkFolder(p)].copies = <<>>]
          BY <1>1, <3>1, <4>1, <4>2 DEF ImportsTypeOK
        <5>2. folder' \in [Places -> Folder]
          BY <3>1, <5>1, FolderWith, FoldersAre
        <5> QED
          BY <1>1, <4>1, <5>2 DEF ImportsTypeOK
    <3> QED
      BY <2>2, <3>2, <3>3, <3>4, <3>5, <3>6
  <2>3. CASE /\ jobs[j].planID \in DiscardPlans
             /\ RecordDiscard(j) \/ BeginRemoval(j) \/ EndRemoval(j)
    <3>1. Doomed(PlanOf(j), runner[j].i) \in Places /\ review[PlanOf(j)].of \in Jobs
      BY <2>1, <2>3, SitesArePlaces
    <3>2. CASE RecordDiscard(j)
      BY <1>1, <3>1, <3>2 DEF ImportsTypeOK, RecordDiscard
    <3>3. CASE BeginRemoval(j)
      BY <1>1, <3>1, <3>3, FolderWith, FoldersAre DEF ImportsTypeOK, BeginRemoval
    <3>4. CASE EndRemoval(j)
      BY <1>1, <3>1, <3>4 DEF ImportsTypeOK, EndRemoval
    <3> QED
      BY <2>3, <3>2, <3>3, <3>4
  <2> QED
    BY <1>2, <2>2, <2>3, ImportMovesAre
<1>3. CASE EditSource
  BY <1>1, <1>3 DEF ImportsTypeOK, EditSource
<1>4. CASE ImportsLosePower
  <2>1. PICK taken \in SUBSET {x \in Places : folder[x] # onDisk[x]} :
          /\ folder' = [x \in Places |-> IF x \in taken THEN onDisk[x] ELSE folder[x]]
          /\ onDisk' = folder'
          /\ lost' = lost \cup ({folder[Destination[p]].by : p \in {q \in PreparePlans : Destination[q] \in taken}} \ {NoJob})
          /\ UNCHANGED <<original, artifacts, discarded>>
    BY <1>4 DEF ImportsLosePower
  <2>2. \A p \in PreparePlans : Destination[p] \in Places /\ folder[Destination[p]].by \in Jobs \cup {NoJob}
    BY <1>1 DEF ImportsTypeOK, Places, Folder
  <2>3. folder' \in [Places -> Folder] /\ lost' \subseteq Jobs
    BY <1>1, <2>1, <2>2 DEF ImportsTypeOK
  <2> QED
    BY <1>1, <2>1, <2>3 DEF ImportsTypeOK
<1> QED
  BY <1>1, <1>2, <1>3, <1>4, ImportsStep DEF ImportsTypeOK, imports

-----------------------------------------------------------------------------
AtWork(j) ==
  /\ Live(j) /\ jobs[j].planID \in PreparePlans \cup DiscardPlans
  /\ work[j].at \notin {"idle", "ok", "error"}

\* A job that is at work was so before, or its own handler took a step.
LEMMA AtWorkWas ==
  ASSUME HandlersInv, WorkIsExecuted, HostNext, NEW j \in Jobs, AtWork(j)'
  PROVE  /\ Live(j) /\ Stored(j) /\ jobs'[j].planID = jobs[j].planID /\ runner'[j] = runner[j]
         /\ jobs[j].planID \in PreparePlans \cup DiscardPlans /\ Planned(jobs[j].planID)
         /\ review'[jobs[j].planID] = review[jobs[j].planID]
         /\ (work'[j] = work[j] /\ AtWork(j)) \/ ImportMoves(j)
<1>1. /\ TypeOK /\ WorkShape /\ [Next]_vars
      /\ \A m \in Jobs : Stored(m) => Stored(m)' /\ jobs'[m].planID = jobs[m].planID
  BY StepImplements, JobsAreKept DEF HandlersInv, AcceptanceInv, DoubtInv, OwnershipInv
<1>2. work'[j] = work[j] \/ HostWork(j)
  BY <1>1, WorkStep DEF AtWork
<1>3. Live(j)
  BY <1>1, <1>2, StartsAreNew, WorkFrame DEF AtWork, HandlersInv, WorkIsStored
<1>4. /\ Stored(j) /\ jobs'[j].planID = jobs[j].planID /\ jobs[j].planID \in PreparePlans \cup DiscardPlans
      /\ Planned(jobs[j].planID) /\ jobs[j].planID \in Plans /\ Kind[jobs[j].planID] \in ImportKinds
  BY <1>1, <1>3, LivePlan DEF AtWork, PreparePlans, DiscardPlans, ImportKinds
<1>5. review'[jobs[j].planID] = review[jobs[j].planID]
  BY <1>1, <1>4, ReviewsAreKept
<1>6. CASE HostWork(j)
  BY <1>3, <1>4, <1>5, <1>6, ImportIsImports, WorkFrame DEF KeepsEngine, vars, volatile
<1>7. CASE work'[j] = work[j] /\ ~HostWork(j)
  <2>1. AtWork(j) /\ At(j, "execute")
    BY <1>3, <1>4, <1>7 DEF AtWork, WorkIsExecuted
  <2>2. ASSUME EngineMoves PROVE runner'[j] = runner[j]
    BY <1>7, <2>1, <2>2, EngineRuns DEF AtWork, Idly
  <2>3. ASSUME ~EngineMoves PROVE runner'[j] = runner[j]
    <3>1. runner' = runner \/ PowerLoss
      BY <2>3, WorkFrame, PlansFrame, ChangesFrame DEF HostNext, EngineMoves, KeepsEngine, vars, volatile
    <3>2. ~PowerLoss
      BY <1>7, <2>1 DEF PowerLoss, AtWork, Idly
    <3> QED
      BY <3>1, <3>2
  <2> QED
    BY <1>3, <1>4, <1>5, <1>7, <2>1, <2>2, <2>3
<1> QED
  BY <1>2, <1>6, <1>7

\* The source is only edited.
LEMMA OriginalGrows ==
  ASSUME HandlersInv, ImportInv, HostNext
  PROVE  original \in Nat /\ original' \in Nat /\ original <= original'
<1>1. original \in 0..MaxEdits /\ MaxEdits \in Nat
  BY ImportPlansAreComplete DEF ImportInv, ImportsTypeOK
<1>2. ASSUME NEW j \in Jobs, ImportMoves(j)
      PROVE  original' = original
  BY <1>2, ImportMovesAre DEF imports, StartPreparation, CopyPiece, RecheckOriginal, RecordArtifact, PublishCopies,
     SyncParent, CancelPreparation, RecordDiscard, BeginRemoval, EndRemoval
<1> QED
  BY <1>1, <1>2, ImportsStep DEF imports, EditSource, ImportsLosePower

LEMMA NewImports ==
  ASSUME HandlersInv, HostNext, NEW p \in Plans, Planned(p)', ~Planned(p)
  PROVE  /\ Kind[p] = "prepare" => PlanPreparation(p)
         /\ Kind[p] = "discard" => PlanDiscard(p)
<1>1. HostPlans(p)
  BY NewPlan
<1> QED
  BY <1>1 DEF HostPlans, NetworkPlans, NetworkResumptions, GrantPlans, AccessPlans, AccessKinds,
     RecipePlans, CapturePlans, BackupPlans, RestorePlans, RecoverPlans, PreparePlans, DiscardPlans, MachinePlans,
     MachineKinds, Lifecycle, PoolPlans, PoolKinds, ConfigurationPlans, ConfigurationKinds, DefiningKinds

LEMMA NextVersions ==
  ASSUME HandlersInv, ImportInv, HostNext
  PROVE  VersionsPrecede'
<1> SUFFICES ASSUME NEW p \in PreparePlans, Planned(p)'
             PROVE  review'[p].version \in 0..original'
  BY DEF VersionsPrecede
<1>1. p \in Plans /\ Kind[p] = "prepare"
  BY DEF PreparePlans
<1>2. CASE Planned(p)
  <2>1. review'[p] = review[p] /\ review[p].version \in 0..original
    BY <1>1, <1>2, ReviewsAreKept DEF HandlersInv, ImportInv, VersionsPrecede
  <2> QED
    BY <2>1, OriginalGrows
<1>3. CASE ~Planned(p)
  <2>1. review'[p] = [version |-> original] /\ original' = original
    BY <1>1, <1>3, NewImports DEF PlanPreparation, StorePlan, HandlersInv, WorkShape, imports
  <2> QED
    BY <2>1, OriginalGrows
<1> QED
  BY <1>2, <1>3

LEMMA NextDiscards ==
  ASSUME HandlersInv, ImportInv, HostNext
  PROVE  DiscardsAreBound'
<1> SUFFICES ASSUME NEW q \in DiscardPlans, Planned(q)'
             PROVE  Removes(q, review[q].of)'
  BY DEF DiscardsAreBound
<1>1. q \in Plans /\ Kind[q] = "discard"
  BY DEF DiscardPlans
<1>2. /\ WorkShape /\ TypeOK
      /\ \A m \in Jobs : Stored(m) => Stored(m)' /\ jobs'[m].planID = jobs[m].planID
  BY StepImplements, JobsAreKept DEF HandlersInv, AcceptanceInv, DoubtInv, OwnershipInv
<1>3. CASE Planned(q)
  BY <1>1, <1>2, <1>3, ReviewsAreKept DEF ImportInv, DiscardsAreBound, Removes
<1>4. CASE ~Planned(q)
  <2>1. PICK k \in Jobs :
          LET made == jobs[k].planID IN
          /\ Prepared(k) /\ ResourceIDs[q] = {Destination[made]}
          /\ StorePlan(q, [of |-> k, work |-> folder[WorkFolder(made)].by, images |-> folder[Destination[made]].by])
    BY <1>1, <1>4, NewImports DEF PlanDiscard
  <2>2. review'[q].of = k /\ Stored(k) /\ Kind[jobs[k].planID] = "prepare"
    BY <1>1, <1>2, <2>1 DEF StorePlan, WorkShape, Prepared
  <2>3. jobs[k].planID \in Plans
    BY <2>2, ReviewOfStored
  <2> QED
    BY <1>2, <2>1, <2>2, <2>3 DEF PreparePlans, Removes
<1> QED
  BY <1>3, <1>4

LEMMA TakenStays ==
  ASSUME HandlersInv, ImportInv, HostNext, NEW p \in PreparePlans, Planned(p),
         NEW copies \in Seq(0..MaxEdits), TakenSince(p, copies)
  PROVE  TakenSince(p, copies)'
<1>1. review'[p] = review[p] /\ review[p].version \in Nat /\ original \in Nat /\ original' \in Nat /\ original <= original'
  BY OriginalGrows, ReviewsAreKept DEF HandlersInv, ImportInv, VersionsPrecede, PreparePlans
<1>2. \A d \in 1..Len(copies) : copies[d] \in Nat
  BY ImportPlansAreComplete
<1> QED
  BY <1>1, <1>2 DEF TakenSince

\* The work folder of a preparation that runs is its own.
LEMMA WorkFolderStays ==
  ASSUME HandlersInv, ImportInv, HostNext, NEW j \in Jobs, Live(j), ~ImportMoves(j),
         jobs[j].planID \in PreparePlans
  PROVE  \/ folder'[WorkFolder(jobs[j].planID)] = folder[WorkFolder(jobs[j].planID)]
         \/ PowerLoss
<1> DEFINE p == jobs[j].planID
<1>0. /\ WorkFolder(p) \in Places /\ SiteOf(j) = Destination[p] /\ p \in Plans
      /\ \A q \in PreparePlans : Destination[q] # WorkFolder(p)
  BY SitesArePlaces, ImportPlansAreComplete DEF WorkFolder, PreparePlans
<1>1. ASSUME NEW i \in Jobs, ImportMoves(i), Live(i), jobs[i].planID \in PreparePlans,
             WorkFolder(p) = WorkFolder(jobs[i].planID)
      PROVE  FALSE
  <2>1. SiteOf(i) = SiteOf(j)
    BY <1>0, <1>1, SitesArePlaces DEF WorkFolder
  <2> QED
    BY <1>1, <2>1, OneJobAtASite DEF ImportInv
<1>2. ASSUME NEW i \in Jobs, ImportMoves(i), Live(i), jobs[i].planID \in DiscardPlans,
             WorkFolder(p) = Doomed(jobs[i].planID, runner[i].i)
      PROVE  FALSE
  <2>1. SiteOf(i) = SiteOf(j)
    BY <1>0, <1>2, SitesArePlaces DEF WorkFolder
  <2> QED
    BY <1>2, <2>1, OneJobAtASite DEF ImportInv
<1> QED
  BY <1>0, <1>1, <1>2, FolderStep

LEMMA PreparationMovesFollow ==
  ASSUME HandlersInv, ImportInv, HostNext, NEW j \in Jobs, ImportMoves(j), jobs[j].planID \in PreparePlans
  PROVE  PreparationFollows(j)'
<1>0. /\ Live(j) /\ PlanOf(j) = jobs[j].planID /\ Planned(jobs[j].planID)
      /\ DOMAIN work = Jobs /\ "at" \in DOMAIN work[j]
      /\ jobs' = jobs /\ review' = review /\ runner' = runner
      /\ \/ StartPreparation(j) \/ CopyPiece(j) \/ RecheckOriginal(j) \/ RecordArtifact(j)
         \/ PublishCopies(j) \/ SyncParent(j) \/ CancelPreparation(j)
      /\ jobs[j].planID \notin DiscardPlans
  BY ImportMovesAre DEF PreparePlans, DiscardPlans
<1> PICK p \in PreparePlans, x \in Places, copies \in Seq(0..MaxEdits) :
      p = jobs[j].planID /\ x = WorkFolder(p) /\ copies = folder[x].copies
  BY <1>0, SitesArePlaces DEF ImportInv, ImportsTypeOK, Folder
<1>1. /\ folder \in [Places -> Folder] /\ original \in 0..MaxEdits /\ review[p].version \in 0..original
      /\ MaxEdits \in Nat /\ PieceCount \in Nat \ {0}
  BY <1>0, ImportPlansAreComplete DEF ImportInv, ImportsTypeOK, VersionsPrecede
<1>2. CASE StartPreparation(j)
  <2>1. folder'[x].copies = <<>> /\ work'[j].at = "copy"
    BY <1>0, <1>1, <1>2 DEF StartPreparation, Go
  <2>2. TakenSince(p, <<>>)' /\ Len(<<>>) = 0
    BY DEF TakenSince
  <2> QED
    BY <1>0, <1>1, <2>1, <2>2 DEF PreparationFollows, Preparing
<1>3. CASE CopyPiece(j)
  <2> PICK longer : longer = Append(copies, original)
    OBVIOUS
  <2>1. /\ folder'[x].copies = longer /\ original' = original /\ work[j].at = "copy"
        /\ work'[j].at = IF Len(longer) < PieceCount THEN "copy" ELSE "recheck"
    BY <1>0, <1>1, <1>3 DEF CopyPiece, Go, ImportStep, In, Folder
  <2>2. TakenSince(p, copies) /\ Len(copies) < PieceCount
    BY <1>0, <2>1 DEF ImportInv, PreparationFollows, Preparing
  <2>3. /\ longer \in Seq(0..MaxEdits) /\ Len(longer) = Len(copies) + 1
        /\ longer[Len(copies) + 1] = original
        /\ \A n \in 1..Len(copies) : longer[n] = copies[n]
    BY <1>1, OneMoreCopy
  <2>4. \A n \in 1..Len(longer) : n = Len(copies) + 1 \/ n \in 1..Len(copies)
    BY <2>3
  <2>5. TakenSince(p, longer)'
    <3>1. review'[p].version = review[p].version /\ review[p].version <= original
      BY <1>0, <1>1
    <3>2. \A n \in 1..Len(copies) : review[p].version <= longer[n] /\ longer[n] <= original
      BY <2>2, <2>3 DEF TakenSince
    <3>3. original <= original
      BY <1>1
    <3>4. \A n \in 1..Len(longer) : review[p].version <= longer[n] /\ longer[n] <= original
      BY <2>3, <2>4, <3>1, <3>2, <3>3
    <3> QED
      BY <2>1, <3>1, <3>4 DEF TakenSince
  <2>6. Len(longer) <= PieceCount /\ Len(longer) \in Nat
    BY <1>1, <2>2, <2>3
  <2> QED
    BY <1>0, <1>1, <2>1, <2>5, <2>6 DEF PreparationFollows, Preparing
<1>4. CASE RecheckOriginal(j)
  <2>1. /\ folder' = folder /\ original = review[p].version /\ work[j].at = "recheck" /\ work'[j].at = "record"
    BY <1>0, <1>4 DEF RecheckOriginal, SourceAsReviewed, ImportStep, In, Go, imports
  <2>2. TakenSince(p, copies) /\ Len(copies) = PieceCount
    BY <1>0, <2>1 DEF ImportInv, PreparationFollows, Preparing
  <2>3. \A d \in 1..Len(copies) : copies[d] = review[p].version
    BY <1>1, <2>1, <2>2 DEF TakenSince
  <2>4. copies = AllCopied(review[p].version)
    <3>1. copies = [d \in 1..Len(copies) |-> copies[d]]
      OBVIOUS
    <3> QED
      BY <2>2, <2>3, <3>1 DEF AllCopied
  <2> QED
    BY <1>0, <2>1, <2>4 DEF PreparationFollows, Preparing, AllCopied
<1>5. CASE RecordArtifact(j) \/ PublishCopies(j) \/ SyncParent(j) \/ CancelPreparation(j)
  <2>1. work'[j].at \in {"rename", "sync", "ok", "canceled-safely"}
    BY <1>0, <1>5 DEF RecordArtifact, PublishCopies, SyncParent, CancelPreparation, Go
  <2> QED
    BY <2>1 DEF PreparationFollows, Preparing
<1> QED
  BY <1>0, <1>2, <1>3, <1>4, <1>5

LEMMA NextPreparation ==
  ASSUME HandlersInv, ImportInv, HostNext, NEW j \in Jobs
  PROVE  PreparationFollows(j)'
<1>1. CASE ~Preparing(j, {"copy", "recheck", "record"})'
  BY <1>1 DEF PreparationFollows, Preparing
<1>2. CASE Preparing(j, {"copy", "recheck", "record"})'
  <2>1. AtWork(j)'
    BY <1>2 DEF Preparing, AtWork
  <2>2. /\ Live(j) /\ jobs'[j].planID = jobs[j].planID /\ Planned(jobs[j].planID)
        /\ review'[jobs[j].planID] = review[jobs[j].planID]
        /\ (work'[j] = work[j] /\ AtWork(j)) \/ ImportMoves(j)
        /\ jobs[j].planID \in PreparePlans
    BY <1>2, <2>1, AtWorkWas DEF Preparing, ImportInv
  <2>3. CASE ImportMoves(j)
    BY <2>2, <2>3, PreparationMovesFollow
  <2>4. CASE ~ImportMoves(j)
    <3> PICK p \in PreparePlans, copies \in Seq(0..MaxEdits) : p = jobs[j].planID /\ copies = folder[WorkFolder(p)].copies
      BY <2>2, SitesArePlaces DEF ImportInv, ImportsTypeOK, Folder
    <3>1. ~PowerLoss
      BY <2>2, <2>4 DEF PowerLoss, AtWork, Idly
    <3>2. folder'[WorkFolder(p)].copies = copies
      BY <2>2, <2>4, <3>1, WorkFolderStays
    <3>3. TakenSince(p, copies) => TakenSince(p, copies)'
      BY <2>2, TakenStays
    <3>4. PreparationFollows(j) /\ Live(j)' /\ jobs'[j].planID = p /\ work'[j] = work[j]
      BY <1>2, <2>2, <2>4 DEF ImportInv, Preparing
    <3> QED
      BY <2>2, <3>2, <3>3, <3>4 DEF PreparationFollows, Preparing, AllCopied, WorkFolder
  <2> QED
    BY <2>3, <2>4
<1> QED
  BY <1>1, <1>2

LEMMA NextArtifacts ==
  ASSUME HandlersInv, ImportInv, HostNext
  PROVE  /\ ArtifactsAreWhole'
         /\ \A p \in PreparePlans : artifacts[p] # NoFolder => artifacts'[p] = artifacts[p]
<1>1. ASSUME NEW p \in PreparePlans
      PROVE  \/ artifacts'[p] = artifacts[p]
             \/ /\ Planned(p) /\ artifacts[p] = NoFolder
                /\ artifacts'[p].copies = AllCopied(review[p].version)
  <2>1. ASSUME NEW j \in Jobs, ImportMoves(j), artifacts'[p] # artifacts[p]
        PROVE  /\ Planned(p) /\ artifacts[p] = NoFolder
               /\ artifacts'[p].copies = AllCopied(review[p].version)
    <3>1. /\ PlanOf(j) = jobs[j].planID /\ Live(j) /\ Planned(jobs[j].planID)
          /\ RecordArtifact(j) /\ jobs[j].planID \in PreparePlans
      BY <2>1, ImportMovesAre DEF imports, StartPreparation, CopyPiece, RecheckOriginal, PublishCopies,
         SyncParent, CancelPreparation, RecordDiscard, BeginRemoval, EndRemoval
    <3>2. /\ p = jobs[j].planID /\ artifacts[p] = NoFolder
          /\ artifacts'[p] = folder[WorkFolder(p)] /\ work[j].at = "record"
      BY <2>1, <3>1 DEF RecordArtifact, ImportStep, In, ImportInv, ImportsTypeOK
    <3>3. Preparing(j, {"record"}) /\ PreparationFollows(j)
      BY <3>1, <3>2 DEF Preparing, ImportInv
    <3> QED
      BY <3>1, <3>2, <3>3 DEF PreparationFollows
  <2> QED
    BY <2>1, ImportsStep DEF imports, EditSource, ImportsLosePower
<1>2. \A p \in PreparePlans : Planned(p) => Planned(p)' /\ review'[p] = review[p]
  BY ReviewsAreKept DEF HandlersInv, PreparePlans, Planned
<1> QED
  BY <1>1, <1>2 DEF ArtifactsAreWhole, ImportInv, AllCopied

\* What a removal works on is its own.
LEMMA DoomedStays ==
  ASSUME HandlersInv, ImportInv, HostNext, NEW j \in Jobs, Live(j), ~ImportMoves(j),
         jobs[j].planID \in DiscardPlans, NEW x, x = Doomed(jobs[j].planID, runner[j].i)
  PROVE  folder'[x] = folder[x] \/ PowerLoss
<1> DEFINE made == jobs[review[jobs[j].planID].of].planID
<1>0. /\ x \in Places /\ SiteOf(j) = Destination[made] /\ made \in PreparePlans
      /\ x = WorkFolder(made) \/ x = Destination[made]
      /\ jobs[j].planID \notin PreparePlans
  BY SitesArePlaces DEF PreparePlans, DiscardPlans
<1>1. \A p, q \in PreparePlans : Destination[q] # WorkFolder(p) /\ (WorkFolder(p) = WorkFolder(q) => p = q)
  BY ImportPlansAreComplete DEF WorkFolder, PreparePlans
<1>2. ASSUME NEW i \in Jobs, ImportMoves(i), Live(i), jobs[i].planID \in PreparePlans,
             x = WorkFolder(jobs[i].planID) \/ x = Destination[jobs[i].planID]
      PROVE  FALSE
  <2>1. SiteOf(i) = SiteOf(j)
    <3> PICK p \in PreparePlans, m \in PreparePlans : p = jobs[i].planID /\ m = made
      BY <1>0, <1>2
    <3>1. SiteOf(i) = Destination[p]
      BY <1>2, SitesArePlaces
    <3>2. (x = WorkFolder(m) \/ x = Destination[m]) /\ (x = WorkFolder(p) \/ x = Destination[p])
      BY <1>0, <1>2
    <3>3. Destination[p] = Destination[m]
      BY <1>1, <3>2
    <3> QED
      BY <1>0, <3>1, <3>3
  <2> QED
    BY <1>2, <2>1, OneJobAtASite DEF ImportInv
<1>3. ASSUME NEW i \in Jobs, ImportMoves(i), Live(i), jobs[i].planID \in DiscardPlans,
             x = Doomed(jobs[i].planID, runner[i].i)
      PROVE  FALSE
  <2>1. SiteOf(i) = SiteOf(j)
    <3> PICK m \in PreparePlans : m = made
      BY <1>0
    <3> PICK p, n : p = jobs[review[jobs[i].planID].of].planID /\ n = runner[i].i
      OBVIOUS
    <3>1. /\ p \in PreparePlans /\ SiteOf(i) = Destination[p]
          /\ (n = 0 => x = WorkFolder(p)) /\ (n # 0 => x = Destination[p])
      BY <1>3, SitesArePlaces
    <3>2. x = WorkFolder(m) \/ x = Destination[m]
      BY <1>0
    <3>3. Destination[p] = Destination[m]
      BY <1>1, <3>1, <3>2
    <3> QED
      BY <1>0, <3>1, <3>3
  <2> QED
    BY <1>3, <2>1, OneJobAtASite DEF ImportInv
<1> QED
  BY <1>0, <1>2, <1>3, FolderStep

LEMMA DiscardedStays ==
  ASSUME HandlersInv, ImportInv, HostNext, NEW k, k \in Jobs
  PROVE  /\ discarded[k] # NoJob => discarded'[k] # NoJob
         /\ k \in lost => k \in lost'
<1>1. ASSUME NEW j \in Jobs, ImportMoves(j)
      PROVE  /\ discarded[k] # NoJob => discarded'[k] # NoJob
             /\ lost' = lost
  BY <1>1, ImportMovesAre DEF imports, StartPreparation, CopyPiece, RecheckOriginal, RecordArtifact, PublishCopies,
     SyncParent, CancelPreparation, RecordDiscard, BeginRemoval, EndRemoval, ImportInv, ImportsTypeOK
<1> QED
  BY <1>1, ImportsStep DEF imports, EditSource, ImportsLosePower

LEMMA NextRemoval ==
  ASSUME HandlersInv, ImportInv, HostNext, NEW j \in Jobs
  PROVE  RemovalFollows(j)'
<1>1. CASE ~Removing(j, {"remove", "removing"})'
  BY <1>1 DEF RemovalFollows, Removing
<1>2. CASE Removing(j, {"remove", "removing"})'
  <2>1. AtWork(j)'
    BY <1>2 DEF Removing, AtWork
  <2> DEFINE q == jobs[j].planID
  <2>2. /\ Live(j) /\ jobs'[j].planID = q /\ Planned(q) /\ runner'[j] = runner[j]
        /\ review'[q] = review[q]
        /\ (work'[j] = work[j] /\ AtWork(j)) \/ ImportMoves(j)
        /\ q \in DiscardPlans /\ q \notin PreparePlans
    BY <1>2, <2>1, AtWorkWas DEF Removing, ImportInv, PreparePlans, DiscardPlans
  <2> PICK k \in Jobs, x \in Places : k = review[q].of /\ x = Doomed(q, runner[j].i)
    BY <2>2, SitesArePlaces
  <2>3. Stored(k) /\ jobs'[k].planID = jobs[k].planID
    BY <2>2, SitesArePlaces, StepImplements, JobsAreKept DEF HandlersInv
  <2>4. Doomed(q, runner[j].i)' = x
    BY <2>2, <2>3 DEF Doomed, WorkFolder
  <2>5. /\ work'[j].at = "remove" => discarded'[k] # NoJob
        /\ work'[j].at = "removing" => folder'[x].copies = <<>>
    <3>1. CASE ImportMoves(j)
      <4>1. /\ PlanOf(j) = q /\ DOMAIN work = Jobs /\ "at" \in DOMAIN work[j]
            /\ RecordDiscard(j) \/ BeginRemoval(j) \/ EndRemoval(j)
        BY <2>2, <3>1, ImportMovesAre
      <4>2. CASE RecordDiscard(j)
        BY <4>1, <4>2, NullsAreNotValues DEF RecordDiscard, Go, ImportInv, ImportsTypeOK
      <4>3. CASE BeginRemoval(j)
        <5>1. folder' = [folder EXCEPT ![x].copies = <<>>] /\ work'[j].at = "removing"
          BY <4>1, <4>3 DEF BeginRemoval, Go
        <5> QED
          BY <5>1 DEF ImportInv, ImportsTypeOK, Folder
      <4>4. CASE EndRemoval(j)
        BY <4>1, <4>4 DEF EndRemoval, Go
      <4> QED
        BY <4>1, <4>2, <4>3, <4>4
    <3>2. CASE ~ImportMoves(j)
      <4>1. work'[j] = work[j] /\ ~PowerLoss /\ RemovalFollows(j)
        BY <2>2, <3>2 DEF PowerLoss, AtWork, Idly, ImportInv
      <4>2. folder'[x] = folder[x] /\ (discarded[k] # NoJob => discarded'[k] # NoJob)
        BY <2>2, <3>2, <4>1, DoomedStays, DiscardedStays
      <4> QED
        BY <2>2, <4>1, <4>2 DEF RemovalFollows, Removing
    <3> QED
      BY <3>1, <3>2
  <2> QED
    BY <2>2, <2>4, <2>5 DEF RemovalFollows, Removing
<1> QED
  BY <1>1, <1>2

\* Nobody touches the images of a preparation that stands, but a loss of power and
\* those who say so.
LEMMA StandingStays ==
  ASSUME HandlersInv, ImportInv, HostNext, NEW j \in Jobs, Stored(j), NEW p \in PreparePlans, p = jobs[j].planID,
         artifacts[p].by = j, folder[Destination[p]] = artifacts[p],
         discarded[j] = NoJob, j \notin lost', ~Misdirected(j)
  PROVE  folder'[Destination[p]] = artifacts[p]
<1> PICK d \in Places : d = Destination[p]
  BY DEF Places
<1>1. /\ folder[d].by = j /\ j # NoJob /\ artifacts[p] # NoFolder
      /\ \A q \in PreparePlans : WorkFolder(q) # d
  BY NullsAreNotValues, ImportPlansAreComplete DEF NoFolder, WorkFolder, PreparePlans
<1>2. folder[d].copies # <<>>
  BY <1>1, ImportPlansAreComplete DEF ImportInv, ArtifactsAreWhole, AllCopied
<1>3. ASSUME NEW i \in Jobs, ImportMoves(i), Live(i), jobs[i].planID \in PreparePlans,
             d = WorkFolder(jobs[i].planID) \/ ~Exists(d)
      PROVE  FALSE
  BY <1>1, <1>3 DEF Exists
<1>4. ASSUME NEW i \in Jobs, ImportMoves(i), Live(i), jobs[i].planID \in DiscardPlans,
             d = Doomed(jobs[i].planID, runner[i].i), BeginRemoval(i) \/ EndRemoval(i)
      PROVE  FALSE
  <2> DEFINE q == jobs[i].planID
  <2>1. /\ runner[i].i # 0 /\ PlanOf(i) = q /\ Stored(i) /\ Kind[q] = "discard"
    BY <1>1, <1>4, SitesArePlaces, LivePlan DEF DiscardPlans
  <2>2. RemovalFollows(i)
    BY DEF ImportInv
  <2>3. CASE BeginRemoval(i)
    <3>1. work[i].at = "remove" /\ review[q].images = j
      BY <1>1, <1>4, <2>1, <2>3 DEF BeginRemoval, In, Unreplaced, Reviewed
    <3>2. discarded[review[q].of] # NoJob
      BY <1>4, <2>2, <3>1 DEF RemovalFollows, Removing
    <3> QED
      BY <2>1, <3>1, <3>2 DEF Misdirected
  <2>4. CASE EndRemoval(i)
    <3>1. work[i].at = "removing"
      BY <2>4 DEF EndRemoval, ImportStep, In
    <3> QED
      BY <1>2, <1>4, <2>2, <3>1 DEF RemovalFollows, Removing
  <2> QED
    BY <1>4, <2>3, <2>4
<1>5. ImportsLosePower => folder'[d] = folder[d]
  <2> SUFFICES ASSUME ImportsLosePower PROVE folder'[d] = folder[d]
    OBVIOUS
  <2>1. PICK taken \in SUBSET {x \in Places : folder[x] # onDisk[x]} :
          /\ folder' = [x \in Places |-> IF x \in taken THEN onDisk[x] ELSE folder[x]]
          /\ lost' = lost \cup ({folder[Destination[q]].by : q \in {r \in PreparePlans : Destination[r] \in taken}} \ {NoJob})
    BY DEF ImportsLosePower
  <2>2. d \notin taken
    BY <1>1, <2>1
  <2> QED
    BY <2>1, <2>2
<1> QED
  BY <1>3, <1>4, <1>5, FolderStep

LEMMA NextCopiesStand ==
  ASSUME HandlersInv, ImportInv, HostNext
  PROVE  PreparedCopiesStand'
<1> SUFFICES ASSUME NEW j \in Jobs, NEW i \in Nat, Stored(j)', jobs'[j].planID \in PreparePlans, <<j, i>> \in verified'
             PROVE  artifacts'[jobs'[j].planID] # NoFolder /\ Stands(j)'
  BY DEF PreparedCopiesStand
<1>1. Stored(j)
  <2>1. CASE <<j, i>> \in verified
    BY <2>1 DEF HandlersInv, AcceptanceInv, Acceptances, NothingUnstoredVerified
  <2>2. CASE <<j, i>> \notin verified
    BY <2>2, ConfirmedWasDone
  <2> QED
    BY <2>1, <2>2
<1>2. \A m \in Jobs : Stored(m) => Stored(m)' /\ jobs'[m].planID = jobs[m].planID
  BY StepImplements, JobsAreKept DEF HandlersInv
<1> PICK p \in PreparePlans : p = jobs[j].planID
  BY <1>1, <1>2
<1>3. \A q \in Plans : Planned(q) => review'[q] = review[q]
  BY ReviewsAreKept DEF HandlersInv
<1>4. Misdirected(j) => Misdirected(j)'
  BY <1>2, <1>3, ReviewOfStored DEF Misdirected
<1>5. discarded[j] # NoJob => discarded'[j] # NoJob
  BY DiscardedStays
<1>6. CASE <<j, i>> \in verified
  <2>1. artifacts[p] # NoFolder /\ Stands(j) /\ artifacts'[p] = artifacts[p]
    BY <1>1, <1>6, NextArtifacts DEF ImportInv, PreparedCopiesStand
  <2>2. j \in lost => j \in lost'
    BY DiscardedStays
  <2>3. ASSUME artifacts[p].by = j, discarded'[j] = NoJob, j \notin lost', ~Misdirected(j)'
        PROVE  folder'[Destination[p]] = artifacts[p]
    BY <1>1, <1>4, <1>5, <2>1, <2>2, <2>3, StandingStays DEF Stands
  <2> QED
    BY <1>1, <1>2, <2>1, <2>3 DEF Stands
<1>7. CASE <<j, i>> \notin verified
  <2>1. HostDone(p, i, j) /\ UNCHANGED <<jobs, imports>>
    BY <1>7, ConfirmedWasDone
  <2>2. ImportsDone(p, i)
    <3>1. /\ Kind[p] \in ImportKinds /\ Kind[p] = "prepare"
          /\ Kind[p] \notin NetworkKinds \cup AccessKinds \cup {"recipe"} \cup CaptureKinds
               \cup MachineKinds \cup PoolKinds \cup ConfigurationKinds
      BY DEF PreparePlans, NetworkKinds, AccessKinds, CaptureKinds, ImportKinds, MachineKinds, Lifecycle, PoolKinds,
             ConfigurationKinds, DefiningKinds
    <3> QED
      BY <2>1, <3>1, Zenon DEF HostDone
  <2>3. PreparationDone(p)
    BY <2>2 DEF ImportsDone, PreparePlans
  <2> QED
    BY <1>1, <2>1, <2>3 DEF PreparationDone, Stands, imports
<1> QED
  BY <1>6, <1>7

LEMMA InitImports == HostInit => ImportInv
<1> SUFFICES ASSUME HostInit PROVE ImportInv
  OBVIOUS
<1>1. (\A j \in Jobs : ~Stored(j) /\ ~Live(j)) /\ \A p \in Plans : ~Planned(p)
  BY DEF HostInit, HandlersInit, Init, JournalInit, Stored, Planned, Live, Idle
<1>2. ImportsTypeOK
  BY FoldersAre, ImportPlansAreComplete DEF HostInit, ImportsInit, ImportsTypeOK
<1>3. WorkIsExecuted
  BY DEF HostInit, HandlersInit, Idly, WorkIsExecuted
<1>4. VersionsPrecede /\ DiscardsAreBound
  BY <1>1 DEF VersionsPrecede, DiscardsAreBound, PreparePlans, DiscardPlans
<1>5. ASSUME NEW j \in Jobs PROVE PreparationFollows(j) /\ RemovalFollows(j)
  BY <1>1 DEF PreparationFollows, RemovalFollows, Preparing, Removing
<1>6. ArtifactsAreWhole /\ PreparedCopiesStand
  BY <1>1 DEF ArtifactsAreWhole, PreparedCopiesStand, HostInit, ImportsInit
<1> QED
  BY <1>2, <1>3, <1>4, <1>5, <1>6 DEF ImportInv

LEMMA NextImports ==
  ASSUME HandlersInv, ImportInv, [HostNext]_hostVars
  PROVE  ImportInv'
<1>1. CASE HostNext
  BY <1>1, NextImportsType, NextExecuted, NextVersions, NextDiscards, NextPreparation, NextRemoval, NextArtifacts,
     NextCopiesStand DEF ImportInv
<1>2. CASE UNCHANGED hostVars
  <2>1. UNCHANGED <<jobs, runner, review, work, verified, imports>>
    BY <1>2 DEF hostVars, vars, journal, volatile, observed
  <2>2. ImportsTypeOK' /\ WorkIsExecuted' /\ VersionsPrecede' /\ DiscardsAreBound' /\ ArtifactsAreWhole'
    BY <2>1 DEF ImportInv, imports, ImportsTypeOK, WorkIsExecuted, VersionsPrecede, DiscardsAreBound, Removes,
                ArtifactsAreWhole, AllCopied, Planned, Stored, At
  <2>3. ASSUME NEW j \in Jobs PROVE PreparationFollows(j)' /\ RemovalFollows(j)'
    <3>1. PreparationFollows(j) /\ RemovalFollows(j)
      BY DEF ImportInv
    <3> QED
      BY <2>1, <3>1 DEF imports, PreparationFollows, RemovalFollows, Preparing, Removing, TakenSince, AllCopied,
                        WorkFolder, Doomed, Live
  <2>4. PreparedCopiesStand'
    BY <2>1 DEF ImportInv, PreparedCopiesStand, Stands, Misdirected, Stored, imports
  <2> QED
    BY <2>2, <2>3, <2>4 DEF ImportInv
<1> QED
  BY <1>1, <1>2

\* The images a new machine is offered are those of a preparation that succeeded:
\* all of them are at its destination and equal the source as it was reviewed,
\* whatever was interrupted, unless the power took back a rename that only
\* Reconcile had seen, or a removal reviewed for an earlier preparation took them
\* (Execute, Reconcile, Approved, registerSources).
THEOREM OfferedCopiesStand == HostSpec => []OfferedCopiesAreTrue
<1>1. HostInit => HandlersInv /\ ImportInv
  BY InitHandlers, InitImports
<1>2. HandlersInv /\ ImportInv /\ [HostNext]_hostVars => (HandlersInv /\ ImportInv)'
  BY NextHandlers, NextImports
<1>3. HandlersInv /\ ImportInv => OfferedCopiesAreTrue
  <2> SUFFICES ASSUME HandlersInv, ImportInv, NEW j \in Jobs, Offered(j), j \notin lost, ~Misdirected(j)
               PROVE  LET p == jobs[j].planID IN
                      folder[Destination[p]] = [by |-> j, copies |-> AllCopied(review[p].version)]
    BY DEF OfferedCopiesAreTrue
  <2> DEFINE p == jobs[j].planID
  <2>1. Stored(j) /\ p \in PreparePlans
    BY ReviewOfStored DEF Offered, Prepared, PreparePlans
  <2>2. LastStep(j) \in Nat
    BY <2>1, LastStepIsNat DEF HandlersInv, AcceptanceInv, DoubtInv, OwnershipInv
  <2>3. <<j, 0>> \in verified
    BY <2>1, <2>2 DEF HandlersInv, AcceptanceInv, DoubtInv, Progress, SuccessIsObserved, Offered, Prepared
  <2>4. artifacts[p] # NoFolder /\ folder[Destination[p]] = artifacts[p] /\ artifacts[p].by = j
    BY <2>1, <2>3 DEF ImportInv, PreparedCopiesStand, Stands, Offered
  <2>5. artifacts[p].copies = AllCopied(review[p].version) /\ artifacts[p] \in Folder
    BY <2>1, <2>4 DEF ImportInv, ArtifactsAreWhole, ImportsTypeOK
  <2> QED
    BY <2>4, <2>5 DEF Folder
<1> QED
  BY <1>1, <1>2, <1>3, PTL DEF HostSpec

=============================================================================
