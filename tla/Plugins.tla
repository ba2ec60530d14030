------------------------------ MODULE Plugins ------------------------------
(***************************************************************************)
(* Plugin installations and invocations (internal/plugins) as two handlers *)
(* of the operation engine.  A lifecycle plan carries the installation it  *)
(* saw, the one it wants and the invocations it lets finish; it commits by *)
(* a compare-and-put that checks the lock table in the same transaction.   *)
(* An invocation locks the version it is pinned to, calls the plugin and   *)
(* stores the result under the id of its plan.                             *)
(*                                                                         *)
(* One plugin is modelled: installations are independent of each other.    *)
(* Signatures, manifests and the worker's protocol are abstracted: sources *)
(* may fail any check, and a version is supported if its scopes are        *)
(* granted.  Every step below is a step of Engine or leaves it unchanged.  *)
(***************************************************************************)
EXTENDS Engine

CONSTANTS
  Versions,      \* package digests
  NoVersion,     \* the empty digest
  Lifecycle,     \* the resource "plugin:local:ID"
  Action,        \* Action[p]: what plan p does
  Target,        \* Target[p]: the package it installs or calls
  Inherited,     \* the installation that earlier operations left, or NoInstallation
  NoInstallation,
  NoPlan,        \* whatever plan wrote Inherited
  Unplanned      \* the plan was not made yet

Fresh == {"install", "update"}
Actions == Fresh \cup {"enable", "disable", "remove", "rollback", "grant", "revoke", "call"}

ASSUME PluginPlans ==
  /\ Resources = Versions \cup {Lifecycle} /\ Lifecycle \notin Versions
  /\ NoVersion \notin Versions /\ NoPlan \notin Plans
  /\ Action \in [Plans -> Actions] /\ Target \in [Plans -> Versions \cup {NoVersion}]
  /\ \A p \in Plans :
       /\ Steps[p] = 1
       /\ ResourceIDs[p] = IF Action[p] = "call" THEN {Target[p]} ELSE {Lifecycle}
       /\ Action[p] \in Fresh \cup {"call"} => Target[p] \in Versions
  /\ RecoveryPlans = {} /\ Retaining = {}

\* granted: the versions all of whose scopes are granted.
Installation ==
  [active : Versions, previous : Versions \cup {NoVersion}, enabled : BOOLEAN, removed : BOOLEAN,
   versions : SUBSET Versions, granted : SUBSET Versions, last : Plans \cup {NoPlan}]

ASSUME InheritedIsSound ==
  /\ NoInstallation \notin Installation
  /\ Inherited \in Installation \cup {NoInstallation}
  /\ Inherited # NoInstallation =>
       /\ Inherited.last = NoPlan
       /\ Inherited.active \in Inherited.versions
       /\ Inherited.previous \in Inherited.versions \cup {NoVersion}
       /\ Inherited.enabled => Inherited.active \in Inherited.granted

VARIABLES
  installation,  \* the metadata record "plugin-installation"
  packages,      \* versions unpacked and verified on disk
  results,       \* the job whose result is stored under each plan, or NoJob
  content,       \* the input each plan was made with, or Unplanned
  work,          \* how far Execute of each job has come
  activated      \* <<p, j>>: job j committed the installation of plan p

plugin == <<installation, packages, results, content, work, activated>>
pluginVars == <<vars, plugin>>

Content == [before : Installation \cup {NoInstallation}, after : Installation,
            finish : SUBSET Jobs]

ASSUME UnplannedIsNoContent == Unplanned \notin Content

PluginTypeOK ==
  /\ TypeOK
  /\ installation \in Installation \cup {NoInstallation}
  /\ packages \subseteq Versions
  /\ results \in [Plans -> Jobs \cup {NoJob}]
  /\ content \in [Plans -> Content \cup {Unplanned}]
  /\ work \in [Jobs -> {"idle", "checked", "staged", "called", "ok", "error"}]
  /\ activated \subseteq Plans \X Jobs

PluginInit ==
  /\ Init
  /\ installation = Inherited
  /\ packages = IF Inherited = NoInstallation THEN {} ELSE Inherited.versions
  /\ results = [p \in Plans |-> NoJob]
  /\ content = [p \in Plans |-> Unplanned]
  /\ work = [j \in Jobs |-> "idle"]
  /\ activated = {}

Installed == installation # NoInstallation /\ ~installation.removed
KnownVersions == IF installation = NoInstallation THEN {} ELSE installation.versions

\* Manager.activeJobs: running or uncertain invocations, by the locks they hold.
ActiveJobs == {locks[v] : v \in KnownVersions} \ {NoJob}

\* enabledSupport
Supported(i) == i.active \in i.granted

-----------------------------------------------------------------------------
(* Manager.Plan and Actions.Plan *)

Empty == [active |-> NoVersion, previous |-> NoVersion, enabled |-> FALSE, removed |-> FALSE,
          versions |-> {}, granted |-> {}, last |-> NoPlan]

\* The installation plan p aims at; grants: whether it grants every scope.
After(p, grants) ==
  LET old == IF installation = NoInstallation THEN Empty ELSE installation
      off == [old EXCEPT !.enabled = FALSE] IN
  IF Action[p] \in Fresh
    THEN [off EXCEPT !.previous = old.active, !.active = Target[p], !.removed = FALSE,
                     !.versions = @ \cup {Target[p]},
                     !.granted = IF grants THEN @ \cup {Target[p]} ELSE @ \ {Target[p]}]
    ELSE CASE Action[p] = "enable" -> [old EXCEPT !.enabled = TRUE]
           [] Action[p] = "disable" -> off
           [] Action[p] = "remove" -> [off EXCEPT !.removed = TRUE]
           [] Action[p] = "rollback" ->
                [off EXCEPT !.active = old.previous, !.previous = old.active]
           [] Action[p] = "grant" -> [off EXCEPT !.granted = @ \cup {old.active}]
           [] Action[p] = "revoke" -> [off EXCEPT !.granted = @ \ {old.active}]

\* Mutant of Applicable: rollback does not ask for a previous version.
ApplicableToFirstVersion(p) ==
  /\ IF Action[p] = "install" THEN ~Installed ELSE Installed
  /\ Action[p] \in Fresh => ~(Installed /\ installation.active = Target[p])

Applicable(p) ==
  /\ IF Action[p] = "install" THEN ~Installed ELSE Installed
  /\ Action[p] \in Fresh => ~(Installed /\ installation.active = Target[p])
  /\ Action[p] = "rollback" => installation.previous # NoVersion

PlanLifecycle(p) ==
  /\ phase = "serving" /\ content[p] = Unplanned
  /\ Action[p] # "call" /\ Applicable(p)
  /\ \E grants \in BOOLEAN :
       LET after == After(p, grants) IN
       /\ after.enabled => Supported(after)
       /\ content' = [content EXCEPT ![p] =
            [before |-> installation, after |-> after, finish |-> ActiveJobs]]
  /\ UNCHANGED <<vars, installation, packages, results, work, activated>>

\* An invocation remembers the version it is pinned to and its grants.
PlanCall(p) ==
  /\ phase = "serving" /\ content[p] = Unplanned
  /\ Action[p] = "call"
  /\ Installed /\ installation.enabled /\ installation.active = Target[p]
  /\ Supported(installation)
  /\ content' = [content EXCEPT ![p] =
       [before |-> installation, after |-> installation, finish |-> {}]]
  /\ UNCHANGED <<vars, installation, packages, results, work, activated>>

\* Manager.Validate; the source of a fresh package is outside.
ValidLifecycle(p) ==
  /\ ActiveJobs \subseteq content[p].finish
  /\ installation = content[p].before
  /\ Action[p] \in Fresh \/ content[p].after.active \in packages
  /\ content[p].after.enabled => Supported(content[p].after)

\* Actions.Validate
ValidCall(p) ==
  /\ Installed /\ installation.enabled /\ installation.active = Target[p]
  /\ Supported(installation) = Supported(content[p].before)
  /\ installation.active \in packages
  /\ Supported(installation)

Valid(p) == IF Action[p] = "call" THEN ValidCall(p) ELSE ValidLifecycle(p)

-----------------------------------------------------------------------------
(* Execute of both handlers, step by step. *)

PlanOf(j) == runner[j].row.planID
Does(j, kinds) == At(j, "execute") /\ Action[PlanOf(j)] \in kinds
Working(j, from, to) == work[j] = from /\ work' = [work EXCEPT ![j] = to]

Check(j) ==
  /\ At(j, "execute")
  /\ Working(j, "idle", IF Valid(PlanOf(j)) THEN "checked" ELSE "error")
  /\ UNCHANGED <<vars, installation, packages, results, content, activated>>

\* Extract, flush and rename without replacing; a package once there stays.
Stage(j) ==
  /\ Does(j, Fresh)
  /\ Working(j, "checked", "staged")
  /\ packages' = packages \cup {Target[PlanOf(j)]}
  /\ UNCHANGED <<vars, installation, results, content, activated>>

\* Mutant of Committable: compare and put, without a look at the locks.
CommittableUnlocked(p) == installation = content[p].before

\* Store.ComparePutWithResourceJobs
Committable(p) ==
  /\ installation = content[p].before
  /\ \A v \in content[p].after.versions : locks[v] \in content[p].finish \cup {NoJob}

\* Mutant of Stamped: the record does not name the plan that wrote it.
StampedWithoutPlan(p) == content[p].after

Stamped(p) == [content[p].after EXCEPT !.last = p]

Commit(j) ==
  LET p == PlanOf(j) IN
  /\ Does(j, Actions \ {"call"})
  /\ work[j] = IF Action[p] \in Fresh THEN "staged" ELSE "checked"
  /\ content[p].after.active \in packages
  /\ IF Committable(p)
       THEN /\ installation' = Stamped(p)
            /\ activated' = activated \cup {<<p, j>>}
            /\ work' = [work EXCEPT ![j] = "ok"]
       ELSE work' = [work EXCEPT ![j] = "error"] /\ UNCHANGED <<installation, activated>>
  /\ UNCHANGED <<vars, packages, results, content>>

\* The call of action.execute: from here on the plugin may have run.
Invoke(j) ==
  /\ Does(j, {"call"})
  /\ Working(j, "checked", "called")
  /\ UNCHANGED <<vars, installation, packages, results, content, activated>>

StoreResult(j) ==
  LET p == PlanOf(j) IN
  /\ Does(j, {"call"})
  /\ Working(j, "called", IF results[p] = NoJob THEN "ok" ELSE "error")
  /\ results' = [results EXCEPT ![p] = IF @ = NoJob THEN j ELSE @]
  /\ UNCHANGED <<vars, installation, packages, content, activated>>

\* A source, the disk, the worker or the journal fails.
WorkFails(j) ==
  /\ At(j, "execute") /\ work[j] \in {"idle", "checked", "staged", "called"}
  /\ work' = [work EXCEPT ![j] = "error"]
  /\ UNCHANGED <<vars, installation, packages, results, content, activated>>

\* Shutting the worker down fails after the result was stored.
ExecuteReturns(j) ==
  /\ \/ work[j] = "ok" /\ Execute(j, "ok")
     \/ (work[j] = "error" \/ (work[j] = "ok" /\ Does(j, {"call"}))) /\ Execute(j, "error")
  /\ work' = [work EXCEPT ![j] = "idle"]
  /\ UNCHANGED <<installation, packages, results, content, activated>>

\* Mutant of Observed: the record is there, whoever wrote it.
ObservedAnyPlan(p) ==
  IF Action[p] = "call" THEN results[p] # NoJob
  ELSE /\ installation # NoInstallation
       /\ [installation EXCEPT !.last = p] = Stamped(p)
       /\ installation.active \in packages

\* Reconcile of both handlers.
Observed(p) ==
  IF Action[p] = "call" THEN results[p] # NoJob
  ELSE installation = Stamped(p) /\ installation.active \in packages

-----------------------------------------------------------------------------

HandlerSteps(j) ==
  Check(j) \/ Stage(j) \/ Commit(j) \/ Invoke(j) \/ StoreResult(j) \/ WorkFails(j)
    \/ ExecuteReturns(j)

\* The engine, with the answers of these handlers.  Apply validates as well, but
\* a runner may change the installation before the job is accepted: only the
\* runner's own validation counts.
EngineSteps(j) ==
  /\ \/ \E k \in Keys, p \in Plans : content[p] # Unplanned /\ Apply(j, k, p)
     \/ Boundary(j) \/ ValidateFails(j) \/ ExecuteFailed(j) \/ StartVerifying(j)
     \/ At(j, "validate") /\ Valid(PlanOf(j)) /\ RecordIntent(j)
     \/ At(j, "reconcile") /\ Observed(PlanOf(j)) /\ StepVerified(j)
     \/ StepNotVerified(j) \/ Finish(j) \/ JournalWriteFails(j)
     \/ CancelRead(j) \/ ReconcileRead(j) \/ Recover(j)
  /\ UNCHANGED plugin

ProcessSteps ==
  \/ /\ \/ CancelWrite \/ ReconcileSettle \/ RequestFails \/ Open \/ Serve
        \/ ~MutexFree /\ Observed(request.row.planID) /\ ReconcileObserve
     /\ UNCHANGED plugin
  \/ /\ Crash
     /\ work' = [j \in Jobs |-> "idle"]
     /\ UNCHANGED <<installation, packages, results, content, activated>>

PluginNext ==
  \/ \E p \in Plans : PlanLifecycle(p) \/ PlanCall(p)
  \/ \E j \in Jobs : HandlerSteps(j) \/ EngineSteps(j)
  \/ ProcessSteps

PluginSpec == PluginInit /\ [][PluginNext]_pluginVars
-----------------------------------------------------------------------------
(* What must hold. *)

\* The approval under which job j calls its plugin: the installation still
\* enables that version, or the change that ended this let j finish.
Authorized(j) ==
  \/ /\ Installed /\ installation.enabled /\ Supported(installation)
     /\ installation.active = Target[PlanOf(j)]
  \/ /\ installation.last \in Plans
     /\ j \in content[installation.last].finish

\* No plugin is called after a disable, update, revocation or removal that did
\* not let that job finish, although the call starts some time after its checks
\* (Actions.Execute, Store.ComparePutWithResourceJobs).
InvocationsAreAuthorized ==
  [][\A j \in Jobs : work[j] = "checked" /\ work'[j] = "called" => Authorized(j)]_pluginVars

\* A reviewed change of the installation takes effect at most once, also when it
\* is applied again under another key after the installation looks as it did at
\* its review (Manager.Execute).
PlansActivateOnce ==
  \A p \in Plans : \A j, k \in Jobs :
    <<p, j>> \in activated /\ <<p, k>> \in activated => j = k

\* A lifecycle job that succeeded has its change on record; one that failed or
\* was canceled changed nothing (Manager.Execute, Manager.Reconcile).
OutcomesAreTrue ==
  \A j \in Jobs : Stored(j) /\ Action[jobs[j].planID] # "call" =>
    /\ jobs[j].state = "succeeded" => \E k \in Jobs : <<jobs[j].planID, k>> \in activated
    /\ jobs[j].state \in {"failed", "canceled"} => <<jobs[j].planID, j>> \notin activated

\* "The execution result is schema-checked and durably bound to the plan and
\* operation before success" (docs/adr/0004-plugin-installation-and-review.md):
\* an invocation that succeeded finds its own result (Actions.Result).
SuccessHasItsResult ==
  \A j \in Jobs : Stored(j) /\ Action[jobs[j].planID] = "call" /\ jobs[j].state = "succeeded" =>
    results[jobs[j].planID] = j
=============================================================================
