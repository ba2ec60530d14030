-------------------------------- MODULE Host --------------------------------
(***************************************************************************)
(* The coordinator with the handlers that work on networks, on the access  *)
(* to disks, on guests, captures, imports, machines and storage pools, the *)
(* helper two of them call, and the host they share.  Coordinator and      *)
(* helper die separately and together, when the host loses power.          *)
(***************************************************************************)
EXTENDS Networks, Access, GuestSetup, Captures, Imports, Machines, Pools, Configurations

hostVars ==
  <<vars, review, work, call, networks, accesses, recipes, captures, imports, machines, pools, configurations>>

HostTypeOK ==
  /\ NetworksTypeOK /\ AccessTypeOK /\ GuestSetupTypeOK /\ CapturesTypeOK /\ ImportsTypeOK
  /\ MachinesTypeOK /\ PoolsTypeOK /\ ConfigurationsTypeOK

HostInit ==
  /\ HandlersInit /\ HelperInit
  /\ NetworksInit /\ AccessInit /\ GuestSetupInit /\ CapturesInit /\ ImportsInit
  /\ MachinesInit /\ PoolsInit /\ ConfigurationsInit

CaptureKinds == {"capture", "backup", "recover", "restore"}
ImportKinds == {"prepare", "discard"}

HostValid(p, owner) ==
  CASE Kind[p] \in NetworkKinds -> NetworkValid(p, owner)
    [] Kind[p] \in AccessKinds -> AccessValid(p, owner)
    [] Kind[p] = "recipe" -> RecipeValid(p, owner)
    [] Kind[p] \in CaptureKinds -> CaptureValid(p, owner)
    [] Kind[p] \in ImportKinds -> ImportValid(p, owner)
    [] Kind[p] \in MachineKinds -> MachineValid(p)
    [] Kind[p] \in PoolKinds -> PoolValid(p, owner)
    [] Kind[p] \in ConfigurationKinds -> ConfigurationValid(p, owner)

HostDone(p, i, j) ==
  CASE Kind[p] \in NetworkKinds -> NetworkDone(p, i, j)
    [] Kind[p] \in AccessKinds -> AccessDone(p, j)
    [] Kind[p] = "recipe" -> RecipeDone(i, j)
    [] Kind[p] \in CaptureKinds -> CapturesDone(p, j)
    [] Kind[p] \in ImportKinds -> ImportsDone(p, i)
    [] Kind[p] \in MachineKinds -> MachineDone(p, j)
    [] Kind[p] \in PoolKinds -> PoolDone(p, i, j)
    [] Kind[p] \in ConfigurationKinds -> ConfigurationDone(p, j)

\* Which handler the engine calls for job j.
IsAbout(j, kinds) == Stored(j) /\ Kind[jobs[j].planID] \in kinds

\* Whatever Execute is doing fails, before or after it took effect.
HostWorkFails(j) ==
  /\ Busy(j) /\ Go(j, "error")
  /\ KeepsEngine

\* What is not on a disk is gone; the helper's records are synced.
PowerLoss ==
  /\ Crash
  /\ work' = [j \in Jobs |-> Idly] /\ call' = NoCall
  /\ NetworksLosePower /\ GuestsLosePower /\ CapturesLosePower /\ ImportsLosePower
  /\ MachinesLosePower /\ PoolsLosePower /\ ConfigurationsLosePower
  /\ UNCHANGED <<review, accesses>>

\* What is planned looks at the host; only what reads a set may sync it.
HostPlans(p) ==
  \/ /\ \/ p \in NetworkPlans /\ PlanNetwork(p)
        \/ p \in NetworkResumptions /\ PlanNetworkResume(p)
     /\ UNCHANGED <<accesses, recipes, captures, imports, machines, pools, configurations>>
  \/ /\ \/ p \in GrantPlans /\ PlanGrant(p)
        \/ p \in AccessPlans \ GrantPlans /\ PlanRevocation(p)
     /\ UNCHANGED <<networks, recipes, captures, imports, machines, pools, configurations>>
  \/ /\ p \in RecipePlans /\ PlanRecipe(p)
     /\ UNCHANGED <<networks, accesses, call, captures, imports, machines, pools, configurations>>
  \/ /\ \/ p \in CapturePlans /\ PlanCapture(p)
        \/ p \in BackupPlans \cup RestorePlans /\ PlanFromSet(p)
        \/ p \in RecoverPlans /\ PlanRecovery(p)
     /\ UNCHANGED <<networks, accesses, recipes, call, imports, machines, pools, configurations>>
  \/ /\ \/ p \in PreparePlans /\ PlanPreparation(p)
        \/ p \in DiscardPlans /\ PlanDiscard(p)
     /\ UNCHANGED <<networks, accesses, recipes, call, captures, machines, pools, configurations>>
  \/ /\ p \in MachinePlans /\ PlanMachine(p)
     /\ UNCHANGED <<networks, accesses, recipes, call, captures, imports, pools, configurations>>
  \/ /\ p \in PoolPlans /\ PlanPool(p)
     /\ UNCHANGED <<networks, accesses, recipes, call, captures, imports, machines, configurations>>
  \/ /\ p \in ConfigurationPlans /\ PlanConfiguration(p)
     /\ UNCHANGED <<networks, accesses, recipes, call, captures, imports, machines, pools>>

\* The handlers at work.
HostWork(j) ==
  \/ /\ IsAbout(j, NetworkKinds) /\ NetworkWork(j)
     /\ UNCHANGED <<accesses, recipes, captures, imports, machines, pools, configurations>>
  \/ /\ IsAbout(j, AccessKinds) /\ AccessWork(j)
     /\ UNCHANGED <<networks, recipes, captures, imports, machines, pools, configurations>>
  \/ /\ IsAbout(j, {"recipe"}) /\ (RecipeWork(j) \/ \E s \in Stages : ScriptEnds(j, s))
     /\ UNCHANGED <<networks, accesses, call, captures, imports, machines, pools, configurations>>
  \/ /\ IsAbout(j, CaptureKinds) /\ CaptureWork(j)
     /\ UNCHANGED <<networks, accesses, recipes, call, imports, machines, pools, configurations>>
  \/ /\ IsAbout(j, ImportKinds) /\ ImportWork(j)
     /\ UNCHANGED <<networks, accesses, recipes, call, captures, machines, pools, configurations>>
  \/ /\ IsAbout(j, MachineKinds) /\ MachineWork(j)
     /\ UNCHANGED <<networks, accesses, recipes, call, captures, imports, pools, configurations>>
  \/ /\ IsAbout(j, PoolKinds) /\ PoolWork(j)
     /\ UNCHANGED <<networks, accesses, recipes, call, captures, imports, machines, configurations>>
  \/ /\ IsAbout(j, ConfigurationKinds) /\ ConfigurationWork(j)
     /\ UNCHANGED <<networks, accesses, recipes, call, captures, imports, machines, pools>>

\* What happens on the host besides.
HostChanges ==
  \/ (NetworkHelper \/ ReloadFirewall) /\ UNCHANGED <<accesses, recipes, captures, imports, machines, pools, configurations>>
  \/ AccessHelper /\ UNCHANGED <<networks, recipes, captures, imports, machines, pools, configurations>>
  \/ GuestWrites /\ UNCHANGED <<networks, accesses, recipes, call, imports, machines, pools, configurations>>
  \/ EditSource /\ UNCHANGED <<networks, accesses, recipes, call, captures, machines, pools, configurations>>
  \/ GuestActs /\ UNCHANGED <<networks, accesses, recipes, call, captures, imports, pools, configurations>>
  \/ OthersStartPool /\ UNCHANGED <<networks, accesses, recipes, call, captures, imports, machines, configurations>>
  \/ OthersMeddle /\ UNCHANGED <<networks, accesses, recipes, call, captures, imports, machines, pools>>

HostNext ==
  \/ \E p \in Plannable : HostPlans(p)
  \/ \E j \in Jobs : HostWork(j)
  \/ HostChanges
  \/ /\ \/ \E j \in Jobs :
             HostWorkFails(j) \/ ExecuteReturns(j) \/ EngineSteps(j, HostValid, HostDone)
        \/ ProcessSteps(HostDone)
     /\ UNCHANGED <<networks, accesses, recipes, call, captures, imports, machines, pools, configurations>>
  \/ PowerLoss

HostSpec == HostInit /\ [][HostNext]_hostVars
-----------------------------------------------------------------------------
(* What must hold. *)

Achieved(j) ==
  LET kind == Kind[jobs[j].planID] IN
  CASE kind \in NetworkKinds -> NetworkAchieved(j)
    [] kind \in AccessKinds -> AccessAchieved(j)
    [] kind = "recipe" -> RecipeAchieved(j)
    [] kind \in CaptureKinds -> CaptureAchieved(j)
    [] kind \in ImportKinds -> ImportAchieved(j)
    [] kind \in MachineKinds -> MachineAchieved(j)
    [] kind \in PoolKinds -> PoolAchieved(j)
    [] kind \in ConfigurationKinds -> ConfigurationAchieved(j)

Untouched(j) ==
  LET kind == Kind[jobs[j].planID] IN
  CASE kind \in NetworkKinds -> NetworkUntouched(j)
    [] kind \in AccessKinds -> AccessUntouched(j)
    [] kind = "recipe" -> RecipeUntouched(j)
    [] kind \in CaptureKinds -> CaptureUntouched(j)
    [] kind \in ImportKinds -> ImportUntouched(j)
    [] kind \in MachineKinds -> MachineUntouched(j)
    [] kind \in PoolKinds -> PoolUntouched(j)
    [] kind \in ConfigurationKinds -> ConfigurationUntouched(j)

\* The outcome written for a job that holds its locks is true of the host: a
\* success brought the reviewed change about, a failure or a cancellation left
\* no trace of it (Reconcile and Execute of the handlers, Engine.run,
\* Engine.Reconcile).
HostOutcomesAreTrue ==
  [][\A j \in Jobs :
       Stored(j) /\ Holds(j) /\ jobs'[j].state # jobs[j].state =>
         /\ jobs'[j].state = "succeeded" => Achieved(j)
         /\ jobs'[j].state \in {"failed", "canceled"} => Untouched(j)]_hostVars
=============================================================================
