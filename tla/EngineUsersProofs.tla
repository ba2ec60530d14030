------------------------- MODULE EngineUsersProofs -------------------------
(***************************************************************************)
(* Two users of the engine keep its promises and one of their own: the     *)
(* plugin service, whose reviewed change of an installation takes effect   *)
(* at most once, and the command line that follows a job, which reads its  *)
(* events without a gap and reports no end that they have not told.  For   *)
(* any jobs, plans, versions and page size.                                *)
(***************************************************************************)
EXTENDS Plugins, Follower, EngineProofs

-----------------------------------------------------------------------------
(* Plugins: every step of the handlers is a step of the engine or none. *)

LEMMA InitImplements == PluginInit => Init
BY DEF PluginInit

LEMMA StepImplements == [PluginNext]_pluginVars => [Next]_vars
<1> SUFFICES ASSUME [PluginNext]_pluginVars, ~(UNCHANGED vars)
             PROVE  Next
  OBVIOUS
<1>1. PluginNext
  BY DEF pluginVars
<1>2. CASE \E p \in Plans : PlanLifecycle(p) \/ PlanCall(p)
  BY <1>2 DEF PlanLifecycle, PlanCall
<1>3. ASSUME NEW j \in Jobs, HandlerSteps(j)
      PROVE  Next
  <2>1. ExecuteReturns(j)
    BY <1>3 DEF HandlerSteps, Check, Stage, Commit, Invoke, StoreResult, WorkFails
  <2>2. \E outcome \in Outcome \ {"none"} : Execute(j, outcome)
    BY <2>1 DEF ExecuteReturns, Outcome
  <2> QED
    BY <2>2 DEF Next, Run
<1>4. ASSUME NEW j \in Jobs, EngineSteps(j)
      PROVE  Next
  BY <1>4 DEF EngineSteps, Next, Run
<1>5. CASE ProcessSteps
  BY <1>5 DEF ProcessSteps, Next
<1> QED
  BY <1>1, <1>2, <1>3, <1>4, <1>5 DEF PluginNext

\* The handlers are handlers: plans for plugins run as jobs of the engine
\* (Manager.Execute, Actions.Execute called by Engine.run).
THEOREM PluginsImplementEngine == PluginSpec => Spec
BY InitImplements, StepImplements, PTL DEF PluginSpec, Spec

\* Plugin jobs never work on one lock at a time, and keep their locks while an
\* effect of theirs is in doubt (Engine.run, Store.Update).
THEOREM PluginJobsAreSafe == PluginSpec => [](RunnersAreExclusive /\ DoubtKeepsLocks)
BY PluginsImplementEngine, Exclusion, DoubtIsGuarded, PTL

-----------------------------------------------------------------------------
(* The inductive invariant.  An activated plan will never again see the      *)
(* installation it was reviewed against, because every commit stamps the     *)
(* record with a plan that no review has seen before.                        *)

Activated(p) == \E j \in Jobs : <<p, j>> \in activated

StampedBy(i) == IF i = NoInstallation THEN NoPlan ELSE i.last

RecordsOK ==
  /\ installation \in Installation \cup {NoInstallation}
  /\ content \in [Plans -> Content \cup {Unplanned}]
  /\ activated \subseteq Plans \X Jobs

JobsArePlanned == \A j \in Jobs : Live(j) => content[PlanOf(j)] # Unplanned

StampIsActivated == StampedBy(installation) \in Plans => Activated(StampedBy(installation))

ReviewsSawActivated ==
  \A p \in Plans : content[p] # Unplanned =>
    LET stamp == StampedBy(content[p].before) IN stamp \in Plans => Activated(stamp)

ActivatedIsPast ==
  \A p \in Plans : Activated(p) =>
    content[p] # Unplanned /\ content[p].before # installation

OnceInv ==
  /\ RecordsOK /\ JobsArePlanned
  /\ StampIsActivated /\ ReviewsSawActivated /\ ActivatedIsPast
  /\ PlansActivateOnce

LEMMA InitOnce == PluginInit => OnceInv
<1> SUFFICES ASSUME PluginInit
             PROVE  OnceInv
  OBVIOUS
<1> USE InheritedIsSound, PluginPlans
<1>1. RecordsOK
  BY DEF PluginInit, RecordsOK
<1>2. \A j \in Jobs : ~Live(j)
  BY DEF PluginInit, Init, Live, Idle
<1>3. StampedBy(installation) = NoPlan
  BY DEF PluginInit, StampedBy
<1>4. StampIsActivated
  BY <1>3 DEF StampIsActivated
<1>5. ReviewsSawActivated /\ ActivatedIsPast /\ PlansActivateOnce
  BY DEF PluginInit, ReviewsSawActivated, ActivatedIsPast, PlansActivateOnce, Activated
<1> QED
  BY <1>1, <1>2, <1>4, <1>5 DEF OnceInv, JobsArePlanned

\* Manager.Plan aims at a well-formed installation.
LEMMA AfterType ==
  ASSUME RecordsOK, NEW p \in Plans, Action[p] # "call", Applicable(p), NEW g \in BOOLEAN
  PROVE  After(p, g) \in Installation
<1> DEFINE old == IF installation = NoInstallation THEN Empty ELSE installation
<1> USE PluginPlans, InheritedIsSound
<1>1. CASE Action[p] \in Fresh
  <2>1. Target[p] \in Versions
    BY <1>1
  <2>2. /\ old.active \in Versions \cup {NoVersion}
        /\ old.versions \subseteq Versions /\ old.granted \subseteq Versions
        /\ old.last \in Plans \cup {NoPlan}
    BY DEF RecordsOK, Installation, Empty
  <2>3. After(p, g) =
          [active |-> Target[p], previous |-> old.active, enabled |-> FALSE, removed |-> FALSE,
           versions |-> old.versions \cup {Target[p]},
           granted |-> IF g THEN old.granted \cup {Target[p]} ELSE old.granted \ {Target[p]},
           last |-> old.last]
    BY <1>1 DEF After, RecordsOK, Installation, Empty
  <2> QED
    BY <2>1, <2>2, <2>3 DEF Installation
<1>2. CASE Action[p] \notin Fresh
  <2>1. installation \in Installation
    BY <1>2 DEF Applicable, Installed, Fresh, RecordsOK
  <2>2. Action[p] \in {"enable", "disable", "remove", "rollback", "grant", "revoke"}
    BY <1>2 DEF Actions
  <2>3. Action[p] = "rollback" => installation.previous \in Versions
    BY <2>1 DEF Applicable, Installation
  <2>4. old = installation
    BY <2>1
  <2>5. CASE Action[p] \in {"enable", "disable", "remove"}
    BY <1>2, <2>1, <2>4, <2>5 DEF After, Installation
  <2>6. CASE Action[p] = "rollback"
    BY <1>2, <2>1, <2>3, <2>4, <2>6 DEF After, Installation
  <2>7. CASE Action[p] \in {"grant", "revoke"}
    BY <1>2, <2>1, <2>4, <2>7 DEF After, Installation
  <2> QED
    BY <2>2, <2>5, <2>6, <2>7
<1> QED
  BY <1>1, <1>2

LEMMA PlanOfLive ==
  ASSUME TypeOK, NEW j \in Jobs, Live(j)
  PROVE  PlanOf(j) \in Plans
<1>1. runner[j].row \in Row
  BY RunnerOfLive DEF RunnerState
<1> QED
  BY <1>1 DEF PlanOf, Row

\* A new plan records the installation as it is.
LEMMA ReviewOnce ==
  ASSUME TypeOK, OnceInv, NEW p \in Plans, PlanLifecycle(p) \/ PlanCall(p)
  PROVE  OnceInv'
<1> USE PluginPlans
<1>1. content[p] = Unplanned /\ UNCHANGED <<vars, installation, activated>>
  BY DEF PlanLifecycle, PlanCall
<1>2. ActiveJobs \subseteq Jobs
  BY DEF TypeOK, JournalTypeOK, ActiveJobs, KnownVersions, OnceInv, RecordsOK, Installation
<1>3. PICK after \in Installation, finish \in SUBSET Jobs :
        content' = [content EXCEPT ![p] =
          [before |-> installation, after |-> after, finish |-> finish]]
  <2>1. CASE PlanLifecycle(p)
    BY <1>2, <2>1, AfterType DEF PlanLifecycle, OnceInv
  <2>2. CASE PlanCall(p)
    BY <2>2 DEF PlanCall, OnceInv, RecordsOK, Installed
  <2> QED
    BY <2>1, <2>2
<1> DEFINE new == [before |-> installation, after |-> after, finish |-> finish]
<1>4. new \in Content /\ new # Unplanned /\ new.before = installation
  BY UnplannedIsNoContent DEF Content, OnceInv, RecordsOK
<1>5. /\ content' \in [Plans -> Content \cup {Unplanned}]
      /\ content'[p] = new
      /\ \A q \in Plans \ {p} : content'[q] = content[q]
  BY <1>3, <1>4 DEF OnceInv, RecordsOK
<1> HIDE DEF new
<1>6. RecordsOK'
  BY <1>1, <1>5 DEF OnceInv, RecordsOK
<1>7. \A q \in Plans : Activated(q)' <=> Activated(q)
  BY <1>1 DEF Activated
<1>8. ~Activated(p)
  BY <1>1 DEF OnceInv, ActivatedIsPast
<1>9. StampIsActivated'
  BY <1>1, <1>7 DEF OnceInv, StampIsActivated, StampedBy
<1>10. ReviewsSawActivated'
  BY <1>1, <1>4, <1>5, <1>7 DEF OnceInv, StampIsActivated, ReviewsSawActivated, StampedBy
<1>11. ActivatedIsPast'
  BY <1>1, <1>5, <1>7, <1>8 DEF OnceInv, ActivatedIsPast
<1>12. JobsArePlanned'
  <2> SUFFICES ASSUME NEW j \in Jobs, Live(j)'
               PROVE  content'[PlanOf(j)'] # Unplanned
    BY DEF JobsArePlanned
  <2>1. runner' = runner
    BY <1>1 DEF vars, volatile
  <2>2. Live(j) /\ PlanOf(j)' = PlanOf(j)
    BY <2>1 DEF Live, PlanOf
  <2>3. PlanOf(j) \in Plans
    BY <2>2, PlanOfLive
  <2>4. content[PlanOf(j)] # Unplanned
    BY <2>2 DEF OnceInv, JobsArePlanned
  <2> QED
    BY <1>1, <1>5, <2>2, <2>3, <2>4
<1>13. PlansActivateOnce'
  BY <1>1 DEF OnceInv, PlansActivateOnce
<1> QED
  BY <1>6, <1>9, <1>10, <1>11, <1>12, <1>13 DEF OnceInv

\* Nothing but a commit activates a plan, and no step changes the plan of a job.
LEMMA QuietOnce ==
  ASSUME OnceInv, UNCHANGED <<installation, content, activated>>, JobsArePlanned'
  PROVE  OnceInv'
BY DEF OnceInv, RecordsOK, StampIsActivated, ReviewsSawActivated, ActivatedIsPast,
       PlansActivateOnce, Activated, StampedBy

LEMMA SameJobs ==
  ASSUME JobsArePlanned, UNCHANGED content,
         \A k \in Jobs : Live(k)' => Live(k) /\ PlanOf(k)' = PlanOf(k)
  PROVE  JobsArePlanned'
BY DEF JobsArePlanned

\* The commit: its plan saw what is installed, so no plan saw its stamp.
LEMMA CommitOnce ==
  ASSUME TypeOK, OnceInv, NEW j \in Jobs, Commit(j)
  PROVE  OnceInv'
<1>1. UNCHANGED <<vars, content>> /\ Live(j)
  BY DEF Commit, Does, At, Live
<1>2. PICK p \in Plans : p = PlanOf(j) /\ content[p] # Unplanned
  BY <1>1, PlanOfLive DEF OnceInv, JobsArePlanned
<1>3. JobsArePlanned'
  BY <1>1, SameJobs DEF OnceInv, vars, volatile, Live, PlanOf
<1>4. CASE UNCHANGED <<installation, activated>>
  BY <1>1, <1>3, <1>4, QuietOnce
<1>5. CASE /\ installation = content[p].before
           /\ installation' = Stamped(p)
           /\ activated' = activated \cup {<<p, j>>}
  <2>1. content[p] \in Content
    BY <1>2 DEF OnceInv, RecordsOK
  <2>2. ~Activated(p)
    BY <1>2, <1>5 DEF OnceInv, ActivatedIsPast
  <2>3. Stamped(p) \in Installation /\ StampedBy(Stamped(p)) = p
    BY <1>2, <2>1, InheritedIsSound DEF Stamped, StampedBy, Content, Installation
  <2>4. /\ Activated(p)'
        /\ \A q \in Plans : Activated(q) => Activated(q)'
        /\ \A q \in Plans \ {p} : Activated(q)' => Activated(q)
    <3>1. <<p, j>> \in activated'
      BY <1>5
    <3>2. ASSUME NEW q \in Plans, NEW k \in Jobs
          PROVE  <<q, k>> \in activated' <=> <<q, k>> \in activated \/ (q = p /\ k = j)
      BY <1>5
    <3> QED
      BY <1>2, <3>1, <3>2 DEF Activated
  <2>5. RecordsOK'
    BY <1>1, <1>2, <1>5, <2>3 DEF OnceInv, RecordsOK
  <2>6. StampIsActivated'
    <3>1. StampedBy(installation)' = p
      BY <1>5, <2>3 DEF StampedBy
    <3> QED
      BY <2>4, <3>1 DEF StampIsActivated
  <2>7. ReviewsSawActivated'
    BY <1>1, <2>4 DEF OnceInv, ReviewsSawActivated, StampedBy
  <2>8. \A q \in Plans : content[q] # Unplanned => StampedBy(content[q].before) # p
    BY <1>2, <2>2 DEF OnceInv, ReviewsSawActivated
  <2>9. ActivatedIsPast'
    <3> SUFFICES ASSUME NEW q \in Plans, Activated(q)'
                 PROVE  content[q] # Unplanned /\ content[q].before # Stamped(p)
      BY <1>1, <1>5 DEF ActivatedIsPast
    <3>1. content[q] # Unplanned
      BY <1>2, <2>4 DEF OnceInv, ActivatedIsPast
    <3> QED
      BY <3>1, <2>3, <2>8
  <2>10. PlansActivateOnce'
    BY <1>5, <2>2 DEF OnceInv, PlansActivateOnce, Activated
  <2> QED
    BY <1>3, <2>5, <2>6, <2>7, <2>9, <2>10 DEF OnceInv
<1> QED
  BY <1>2, <1>4, <1>5 DEF Commit, Committable

\* The goroutine of a job keeps its plan; a job that starts has a planned one.
LEMMA EngineOnce ==
  ASSUME TypeOK, OnceInv, NEW j \in Jobs, EngineSteps(j)
  PROVE  OnceInv'
<1>1. UNCHANGED <<installation, content, activated>>
  BY DEF EngineSteps, plugin
<1>2. JobsArePlanned'
  <2>1. ASSUME NEW k \in Keys, NEW p \in Plans, content[p] # Unplanned, Apply(j, k, p)
        PROVE  JobsArePlanned'
    <3>1. runner' = [runner EXCEPT ![j] =
                       [[Idle EXCEPT !.pc = "boundary"] EXCEPT !.row = NewRow(p, NoJob)]]
      BY <2>1 DEF Apply, Start
    <3>2. PlanOf(j)' = p
      BY <3>1 DEF PlanOf, Idle, NewRow, TypeOK
    <3>3. \A k2 \in Jobs \ {j} : Live(k2)' = Live(k2) /\ PlanOf(k2)' = PlanOf(k2)
      BY <3>1 DEF Live, PlanOf, TypeOK
    <3> QED
      BY <1>1, <2>1, <3>2, <3>3 DEF JobsArePlanned, OnceInv
  <2>2. CASE ~(\E k \in Keys, p \in Plans : content[p] # Unplanned /\ Apply(j, k, p))
    <3>1. CASE runner' = [runner EXCEPT ![j] = Idle]
      BY <1>1, <3>1, SameJobs DEF OnceInv, Live, PlanOf, Idle, TypeOK
    <3>2. CASE UNCHANGED runner
      BY <1>1, <3>2, SameJobs DEF OnceInv, Live, PlanOf
    <3>3. ASSUME NEW row, NEW point, row.planID = PlanOf(j), Live(j), Continue(j, row, point)
          PROVE  JobsArePlanned'
      <4>1. runner' = [runner EXCEPT ![j] = [[runner[j] EXCEPT !.row = row] EXCEPT !.pc = point]]
        BY <3>3 DEF Continue, TypeOK
      <4>2. PlanOf(j)' = PlanOf(j)
        BY <3>3, <4>1, RunnerOfLive DEF PlanOf, RunnerState, TypeOK
      <4>3. \A k2 \in Jobs \ {j} : Live(k2)' = Live(k2) /\ PlanOf(k2)' = PlanOf(k2)
        BY <4>1 DEF Live, PlanOf, TypeOK
      <4> QED
        BY <1>1, <3>3, <4>2, <4>3, SameJobs DEF OnceInv
    <3>4. CASE Boundary(j)
      <4>1. Live(j)
        BY <3>4 DEF Boundary, At, Live
      <4>2. CASE Return(j, [AtBoundary(j) EXCEPT !.state =
                     IF KeepsLocks(j) THEN "recovery-required" ELSE "canceled"])
        BY <3>1, <4>2 DEF Return
      <4>3. CASE Continue(j, [AtBoundary(j) EXCEPT !.state = "validating"], "validate")
        <5>1. [AtBoundary(j) EXCEPT !.state = "validating"].planID = PlanOf(j)
          BY <4>1, RunnerOfLive DEF AtBoundary, PlanOf, RunnerState, Row
        <5> QED
          BY <3>3, <4>1, <4>3, <5>1
      <4> QED
        BY <3>4, <4>2, <4>3 DEF Boundary
    <3>5. ASSUME NEW state, NEW point, Live(j), Continue(j, Copy(j, state), point)
          PROVE  JobsArePlanned'
      <4>1. Copy(j, state).planID = PlanOf(j)
        BY <3>5, RunnerOfLive DEF Copy, PlanOf, RunnerState, Row
      <4> QED
        BY <3>3, <3>5, <4>1
    <3>6. CASE RecordIntent(j) \/ StartVerifying(j)
      BY <3>5, <3>6 DEF RecordIntent, StartVerifying, At, Live
    <3>7. CASE StepVerified(j)
      <4>1. Live(j)
        BY <3>7 DEF StepVerified, At, Live
      <4>2. runner[j] \in RunnerState
        BY <4>1, RunnerOfLive
      <4>3. runner'[j].row = runner[j].row /\ \A k2 \in Jobs \ {j} : runner'[k2] = runner[k2]
        BY <3>7, <4>2 DEF StepVerified, TypeOK, RunnerState
      <4> QED
        BY <1>1, <4>1, <4>3, SameJobs DEF OnceInv, Live, PlanOf
    <3>8. CASE \/ ValidateFails(j) \/ ExecuteFailed(j) \/ StepNotVerified(j) \/ Finish(j)
               \/ JournalWriteFails(j)
      BY <3>1, <3>8 DEF ValidateFails, ExecuteFailed, StepNotVerified, Finish, Return,
                        JournalWriteFails
    <3>9. CASE CancelRead(j) \/ ReconcileRead(j) \/ Recover(j)
      BY <3>2, <3>9 DEF CancelRead, ReconcileRead, Recover, volatile
    <3> QED
      BY <2>2, <3>4, <3>6, <3>7, <3>8, <3>9 DEF EngineSteps
  <2> QED
    BY <2>1, <2>2
<1> QED
  BY <1>1, <1>2, QuietOnce

LEMMA NextOnce ==
  ASSUME TypeOK, OnceInv, [PluginNext]_pluginVars
  PROVE  OnceInv'
<1>1. CASE \E p \in Plans : PlanLifecycle(p) \/ PlanCall(p)
  BY <1>1, ReviewOnce
<1>2. ASSUME NEW j \in Jobs, EngineSteps(j)
      PROVE  OnceInv'
  BY <1>2, EngineOnce
<1>3. ASSUME NEW j \in Jobs, HandlerSteps(j)
      PROVE  OnceInv'
  <2>1. CASE Commit(j)
    BY <2>1, CommitOnce
  <2>2. CASE Check(j) \/ Stage(j) \/ Invoke(j) \/ StoreResult(j) \/ WorkFails(j)
    <3>1. UNCHANGED <<vars, installation, content, activated>>
      BY <2>2 DEF Check, Stage, Invoke, StoreResult, WorkFails
    <3>2. JobsArePlanned'
      BY <3>1, SameJobs DEF OnceInv, vars, volatile, Live, PlanOf
    <3> QED
      BY <3>1, <3>2, QuietOnce
  <2>3. CASE ExecuteReturns(j)
    <3>1. UNCHANGED <<installation, content, activated>>
      BY <2>3 DEF ExecuteReturns
    <3>2. PICK outcome : Execute(j, outcome)
      BY <2>3 DEF ExecuteReturns
    <3>3. Live(j)
      BY <3>2 DEF Execute, At, Live
    <3>4. runner'[j].row = runner[j].row /\ \A k \in Jobs \ {j} : runner'[k] = runner[k]
      BY <3>2, <3>3, RunnerOfLive DEF Execute, TypeOK, RunnerState
    <3>5. JobsArePlanned'
      BY <3>1, <3>3, <3>4, SameJobs DEF OnceInv, Live, PlanOf
    <3> QED
      BY <3>1, <3>5, QuietOnce
  <2> QED
    BY <1>3, <2>1, <2>2, <2>3 DEF HandlerSteps
<1>4. CASE ProcessSteps
  <2>1. UNCHANGED <<installation, content, activated>>
    BY <1>4 DEF ProcessSteps, plugin
  <2>2. UNCHANGED runner \/ runner' = [k \in Jobs |-> Idle]
    BY <1>4 DEF ProcessSteps, CancelWrite, ReconcileSettle, RequestFails, Open, Serve,
                ReconcileObserve, Crash, volatile
  <2>3. JobsArePlanned'
    BY <2>1, <2>2, SameJobs DEF OnceInv, Live, PlanOf, Idle
  <2> QED
    BY <2>1, <2>3, QuietOnce
<1>5. CASE UNCHANGED pluginVars
  <2>1. UNCHANGED <<installation, content, activated, runner>>
    BY <1>5 DEF pluginVars, plugin, vars, volatile
  <2>2. JobsArePlanned'
    BY <2>1, SameJobs DEF OnceInv, Live, PlanOf
  <2> QED
    BY <2>1, <2>2, QuietOnce
<1> QED
  BY <1>1, <1>2, <1>3, <1>4, <1>5 DEF PluginNext

\* A reviewed change of an installation takes effect at most once, whatever other
\* changes come between its reviews and its commits (Manager.Execute,
\* Store.ComparePutWithResourceJobs).
THEOREM ActivationIsOnce == PluginSpec => []PlansActivateOnce
<1>1. PluginSpec => []TypeOK
  BY PluginsImplementEngine, TypeCorrect, PTL
<1>2. TypeOK /\ OnceInv /\ [PluginNext]_pluginVars => OnceInv'
  BY NextOnce
<1>3. OnceInv => PlansActivateOnce
  BY DEF OnceInv
<1> QED
  BY <1>1, <1>2, <1>3, InitOnce, PTL DEF PluginSpec

-----------------------------------------------------------------------------
(* Calls are authorized.  Between its checks and its call an invocation holds *)
(* the lock of its version, and a change may only be committed if it lets the *)
(* holders of the locks of all versions finish.  So the installation must     *)
(* know every version that was ever active.                                   *)

KnowsItsVersions(i) == i.active \in i.versions /\ i.previous \in i.versions \cup {NoVersion}

VersionsAreKept ==
  /\ installation # NoInstallation => KnowsItsVersions(installation)
  /\ \A p \in Plans : content[p] # Unplanned =>
       /\ KnowsItsVersions(content[p].after)
       /\ content[p].before # NoInstallation =>
            content[p].before.versions \subseteq content[p].after.versions

WorkIsExecuting ==
  /\ DOMAIN work = Jobs
  /\ \A j \in Jobs : ~At(j, "execute") => work[j] = "idle"

CheckedCall(j) == Does(j, {"call"}) /\ work[j] = "checked"

CheckedIsAuthorized ==
  \A j \in Jobs : CheckedCall(j) =>
    /\ installation # NoInstallation /\ Target[PlanOf(j)] \in installation.versions
    /\ Authorized(j)

CallInv == OwnershipInv /\ OnceInv /\ VersionsAreKept /\ WorkIsExecuting /\ CheckedIsAuthorized

LEMMA InitCalls == PluginInit => CallInv
<1> SUFFICES ASSUME PluginInit
             PROVE  CallInv
  OBVIOUS
<1>1. OwnershipInv /\ OnceInv
  BY InitImplements, InitOwnership, InitOnce
<1>2. VersionsAreKept
  BY InheritedIsSound DEF PluginInit, VersionsAreKept, KnowsItsVersions
<1>3. WorkIsExecuting /\ CheckedIsAuthorized
  BY DEF PluginInit, WorkIsExecuting, CheckedIsAuthorized, CheckedCall
<1> QED
  BY <1>1, <1>2, <1>3 DEF CallInv

\* What Manager.Plan aims at has all the versions there were.
LEMMA AfterVersions ==
  ASSUME RecordsOK, VersionsAreKept, NEW p \in Plans, Action[p] # "call", Applicable(p),
         NEW g \in BOOLEAN
  PROVE  /\ KnowsItsVersions(After(p, g))
         /\ installation # NoInstallation => installation.versions \subseteq After(p, g).versions
<1> DEFINE old == IF installation = NoInstallation THEN Empty ELSE installation
<1> USE PluginPlans, InheritedIsSound
<1>1. CASE Action[p] \in Fresh
  <2>1. old.active \in old.versions \cup {NoVersion}
    BY DEF VersionsAreKept, KnowsItsVersions, Empty
  <2>2. /\ After(p, g).active = Target[p] /\ After(p, g).previous = old.active
        /\ After(p, g).versions = old.versions \cup {Target[p]}
    BY <1>1 DEF After, RecordsOK, Installation, Empty
  <2> QED
    BY <2>1, <2>2 DEF KnowsItsVersions
<1>2. CASE Action[p] \notin Fresh
  <2>1. installation \in Installation /\ KnowsItsVersions(installation)
    BY <1>2 DEF Applicable, Installed, Fresh, RecordsOK, VersionsAreKept
  <2>2. Action[p] \in {"enable", "disable", "remove", "rollback", "grant", "revoke"}
    BY <1>2 DEF Actions
  <2>3. Action[p] = "rollback" => installation.previous # NoVersion
    BY DEF Applicable
  <2>4. After(p, g).versions = installation.versions
    BY <1>2, <2>1, <2>2 DEF After, Installation
  <2>5. CASE Action[p] = "rollback"
    <3>1. After(p, g).active = installation.previous /\ After(p, g).previous = installation.active
      BY <1>2, <2>1, <2>5 DEF After, Installation
    <3> QED
      BY <2>1, <2>3, <2>4, <2>5, <3>1 DEF KnowsItsVersions
  <2>6. CASE Action[p] # "rollback"
    <3>1. After(p, g).active = installation.active /\ After(p, g).previous = installation.previous
      BY <1>2, <2>1, <2>2, <2>6 DEF After, Installation
    <3> QED
      BY <2>1, <2>4, <3>1 DEF KnowsItsVersions
  <2> QED
    BY <2>5, <2>6
<1> QED
  BY <1>1, <1>2

LEMMA ReviewVersions ==
  ASSUME CallInv, NEW p \in Plans, PlanLifecycle(p) \/ PlanCall(p)
  PROVE  VersionsAreKept'
<1>1. content[p] = Unplanned /\ UNCHANGED installation /\ content \in [Plans -> Content \cup {Unplanned}]
  BY DEF PlanLifecycle, PlanCall, CallInv, OnceInv, RecordsOK
<1>2. PICK after, finish :
        /\ content' = [content EXCEPT ![p] =
             [before |-> installation, after |-> after, finish |-> finish]]
        /\ KnowsItsVersions(after)
        /\ installation # NoInstallation => installation.versions \subseteq after.versions
  <2>1. CASE PlanLifecycle(p)
    BY <2>1, AfterVersions DEF PlanLifecycle, CallInv, OnceInv
  <2>2. CASE PlanCall(p)
    BY <2>2 DEF PlanCall, CallInv, VersionsAreKept, Installed
  <2> QED
    BY <2>1, <2>2
<1> QED
  BY <1>1, <1>2 DEF CallInv, VersionsAreKept

\* A commit keeps all versions and lets those finish who hold one.
LEMMA CommitCalls ==
  ASSUME CallInv, NEW j \in Jobs, Commit(j)
  PROVE  VersionsAreKept' /\ CheckedIsAuthorized'
<1>1. TypeOK /\ Live(j) /\ UNCHANGED <<vars, content>>
  BY DEF CallInv, OwnershipInv, Commit, Does, At, Live
<1>2. PICK p \in Plans : p = PlanOf(j) /\ content[p] \in Content
  BY <1>1, PlanOfLive DEF CallInv, OnceInv, JobsArePlanned, RecordsOK
<1>3. CASE UNCHANGED installation /\ work' = [work EXCEPT ![j] = "error"]
  BY <1>1, <1>3 DEF CallInv, VersionsAreKept, CheckedIsAuthorized, CheckedCall, WorkIsExecuting,
                    Does, At, PlanOf, Authorized, Installed, vars, volatile
<1>4. CASE /\ Committable(p) /\ installation' = Stamped(p)
           /\ work' = [work EXCEPT ![j] = "ok"]
  <2>1. /\ Stamped(p).active = content[p].after.active
        /\ Stamped(p).previous = content[p].after.previous
        /\ Stamped(p).versions = content[p].after.versions
        /\ Stamped(p).last = p /\ Stamped(p) # NoInstallation
    BY <1>2, InheritedIsSound DEF Stamped, Content, Installation
  <2>2. content[p] # Unplanned
    BY <1>2, UnplannedIsNoContent
  <2>3. VersionsAreKept'
    BY <1>1, <1>4, <2>1, <2>2 DEF CallInv, VersionsAreKept, KnowsItsVersions
  <2>4. ASSUME NEW k \in Jobs, CheckedCall(k)'
        PROVE  Target[PlanOf(k)'] \in installation'.versions /\ k \in content[p].finish
    <3>1. CheckedCall(k) /\ PlanOf(k)' = PlanOf(k)
      BY <1>1, <1>4, <2>4 DEF CheckedCall, Does, At, PlanOf, CallInv, WorkIsExecuting, vars, volatile
    <3>2. installation # NoInstallation /\ Target[PlanOf(k)] \in installation.versions
      BY <3>1 DEF CallInv, CheckedIsAuthorized
    <3>3. Target[PlanOf(k)] \in content[p].after.versions
      BY <1>4, <2>2, <3>2 DEF Committable, CallInv, VersionsAreKept
    <3>4. Live(k) /\ PlanOf(k) = jobs[k].planID /\ Holds(k) /\ PlanOf(k) \in Plans
      BY <1>1, <3>1, PlanOfLive
         DEF CheckedCall, Does, At, Live, PlanOf, CallInv, OwnershipInv, Ownership, RunnersHold
    <3>5. Resource(k) = {Target[PlanOf(k)]}
      BY <3>1, <3>4, PluginPlans DEF Resource, CheckedCall, Does
    <3>6. locks[Target[PlanOf(k)]] = k
      BY <3>4, <3>5 DEF Holds
    <3>7. k \in content[p].finish \cup {NoJob}
      BY <1>4, <3>3, <3>6 DEF Committable
    <3> QED
      BY <1>4, <2>1, <3>1, <3>3, <3>7, NullsAreNotValues
  <2>5. ASSUME NEW k \in Jobs, CheckedCall(k)'
        PROVE  Authorized(k)'
    BY <1>1, <1>4, <2>1, <2>4, <2>5 DEF Authorized
  <2> QED
    BY <1>4, <2>1, <2>3, <2>4, <2>5 DEF CheckedIsAuthorized
<1> QED
  BY <1>2, <1>3, <1>4 DEF Commit

\* The other steps of the engine neither end nor disturb what is being executed.
LEMMA EngineKeepsExecuting ==
  ASSUME TypeOK, Ownership, NEW j \in Jobs, EngineSteps(j), NEW k \in Jobs, At(k, "execute")
  PROVE  runner'[k] = runner[k]
<1>1. \/ UNCHANGED runner
      \/ ~At(j, "execute") /\ \E new : runner' = [runner EXCEPT ![j] = new]
  <2>1. ASSUME NEW l \in Keys, NEW p \in Plans, Apply(j, l, p)
        PROVE  ~At(j, "execute") /\ \E new : runner' = [runner EXCEPT ![j] = new]
    BY <2>1 DEF Apply, Accept, Start, Ownership, RunnersHold, At, Live
  <2>2. ASSUME NEW row, NEW point, Continue(j, row, point)
        PROVE  \E new : runner' = [runner EXCEPT ![j] = new]
    BY <2>2 DEF Continue, TypeOK
  <2>3. CASE Boundary(j) \/ ValidateFails(j) \/ ExecuteFailed(j) \/ StartVerifying(j) \/ RecordIntent(j)
             \/ StepVerified(j) \/ StepNotVerified(j) \/ Finish(j) \/ JournalWriteFails(j)
    BY <2>2, <2>3 DEF Boundary, ValidateFails, ExecuteFailed, StartVerifying, RecordIntent, StepVerified,
                      StepNotVerified, Finish, JournalWriteFails, Return, At, TypeOK
  <2>4. CASE CancelRead(j) \/ ReconcileRead(j) \/ Recover(j)
    BY <2>4 DEF CancelRead, ReconcileRead, Recover, volatile
  <2> QED
    BY <2>1, <2>3, <2>4 DEF EngineSteps
<1> QED
  BY <1>1 DEF TypeOK

\* A step that changes no record and leaves the checked calls as they are.
LEMMA QuietCalls ==
  ASSUME CallInv, UNCHANGED <<installation, content>>,
         \A k \in Jobs : CheckedCall(k)' =>
           \/ CheckedCall(k) /\ PlanOf(k)' = PlanOf(k)
           \/ /\ Authorized(k)' /\ installation # NoInstallation
              /\ Target[PlanOf(k)'] \in installation.versions
  PROVE  VersionsAreKept' /\ CheckedIsAuthorized'
<1>1. VersionsAreKept'
  BY DEF CallInv, VersionsAreKept
<1>2. ASSUME NEW k \in Jobs, CheckedCall(k), PlanOf(k)' = PlanOf(k)
      PROVE  Authorized(k)'
  BY <1>2 DEF CallInv, CheckedIsAuthorized, Authorized, Installed
<1> QED
  BY <1>1, <1>2 DEF CallInv, CheckedIsAuthorized

LEMMA HandlersExecute ==
  ASSUME CallInv, NEW j \in Jobs, HandlerSteps(j)
  PROVE  WorkIsExecuting' /\ VersionsAreKept' /\ CheckedIsAuthorized'
<1>1. At(j, "execute") /\ DOMAIN work = Jobs /\ TypeOK
  BY DEF HandlerSteps, Check, Stage, Commit, Invoke, StoreResult, WorkFails, ExecuteReturns,
         Execute, Does, CallInv, WorkIsExecuting, OwnershipInv
<1>2. CASE Commit(j)
  BY <1>1, <1>2, CommitCalls DEF Commit, CallInv, WorkIsExecuting, At, vars, volatile
<1>3. CASE ExecuteReturns(j)
  <2>1. /\ UNCHANGED <<installation, content>> /\ work' = [work EXCEPT ![j] = "idle"]
        /\ \A k \in Jobs \ {j} : runner'[k] = runner[k]
    BY <1>1, <1>3 DEF ExecuteReturns, Execute, TypeOK
  <2>2. WorkIsExecuting'
    BY <1>1, <2>1 DEF CallInv, WorkIsExecuting, At
  <2>3. \A k \in Jobs : CheckedCall(k)' => CheckedCall(k) /\ PlanOf(k)' = PlanOf(k)
    BY <1>1, <2>1 DEF CheckedCall, Does, At, PlanOf
  <2> QED
    BY <2>1, <2>2, <2>3, QuietCalls
<1>4. CASE Check(j) \/ Stage(j) \/ Invoke(j) \/ StoreResult(j) \/ WorkFails(j)
  <2>1. UNCHANGED <<vars, installation, content>>
    BY <1>4 DEF Check, Stage, Invoke, StoreResult, WorkFails
  <2>2. PICK to : work' = [work EXCEPT ![j] = to] /\ (to = "checked" => Check(j))
    BY <1>4 DEF Check, Stage, Invoke, StoreResult, WorkFails, Working
  <2>3. WorkIsExecuting'
    BY <1>1, <2>1, <2>2 DEF CallInv, WorkIsExecuting, At, vars, volatile
  <2>4. ASSUME NEW k \in Jobs, CheckedCall(k)', ~CheckedCall(k)
        PROVE  Authorized(k)' /\ installation # NoInstallation /\ Target[PlanOf(k)'] \in installation.versions
    <3>1. k = j /\ Check(j) /\ to = "checked" /\ Does(j, {"call"}) /\ UNCHANGED runner
      BY <1>1, <2>1, <2>2, <2>4 DEF CheckedCall, Does, At, PlanOf, vars, volatile
    <3>2. Action[PlanOf(j)] = "call"
      BY <3>1 DEF Does
    <3>3. ValidCall(PlanOf(j))
      BY <1>1, <2>2, <3>1, <3>2 DEF Check, Working, Valid
    <3>4. Authorized(j) /\ installation # NoInstallation /\ installation.active = Target[PlanOf(j)]
      BY <3>3 DEF ValidCall, Authorized, Installed
    <3>5. Authorized(j)' /\ PlanOf(j)' = PlanOf(j)
      BY <2>1, <3>1, <3>4 DEF Authorized, Installed, PlanOf
    <3> QED
      BY <3>1, <3>4, <3>5 DEF CallInv, VersionsAreKept, KnowsItsVersions
  <2>5. \A k \in Jobs : PlanOf(k)' = PlanOf(k)
    BY <2>1 DEF PlanOf, vars, volatile
  <2> QED
    BY <2>1, <2>3, <2>4, <2>5, QuietCalls
<1> QED
  BY <1>2, <1>3, <1>4 DEF HandlerSteps

LEMMA NextCalls ==
  ASSUME CallInv, [PluginNext]_pluginVars
  PROVE  CallInv'
<1>1. OwnershipInv' /\ OnceInv'
  BY StepImplements, NextOwnership, NextOnce DEF CallInv, OwnershipInv
<1>2. CASE \E p \in Plans : PlanLifecycle(p) \/ PlanCall(p)
  <2>1. PICK p \in Plans : PlanLifecycle(p) \/ PlanCall(p)
    BY <1>2
  <2>2. UNCHANGED <<runner, installation, work>> /\ content[p] = Unplanned
    BY <2>1 DEF PlanLifecycle, PlanCall, vars, volatile
  <2>3. WorkIsExecuting'
    BY <2>2 DEF CallInv, WorkIsExecuting, At
  <2>4. installation # NoInstallation /\ installation.last \in Plans => content[installation.last] # Unplanned
    BY DEF CallInv, OnceInv, StampIsActivated, ActivatedIsPast, StampedBy
  <2>5. \A q \in Plans : content[q] # Unplanned => content'[q] = content[q]
    BY <2>1, <2>2 DEF PlanLifecycle, PlanCall, CallInv, OnceInv, RecordsOK
  <2>6. CheckedIsAuthorized'
    BY <2>2, <2>4, <2>5 DEF CallInv, CheckedIsAuthorized, CheckedCall, Does, At, PlanOf, Authorized, Installed
  <2> QED
    BY <1>1, <2>1, <2>3, <2>6, ReviewVersions DEF CallInv
<1>3. ASSUME NEW j \in Jobs, HandlerSteps(j)
      PROVE  CallInv'
  BY <1>1, <1>3, HandlersExecute DEF CallInv
<1>4. ASSUME NEW j \in Jobs, EngineSteps(j)
      PROVE  CallInv'
  <2>1. UNCHANGED <<installation, content, work>>
    BY <1>4 DEF EngineSteps, plugin
  <2>2. \A k \in Jobs : At(k, "execute") => runner'[k] = runner[k]
    BY <1>4, EngineKeepsExecuting DEF CallInv, OwnershipInv
  <2>3. WorkIsExecuting'
    BY <2>1, <2>2 DEF CallInv, WorkIsExecuting, At
  <2>4. \A k \in Jobs : CheckedCall(k)' => CheckedCall(k) /\ PlanOf(k)' = PlanOf(k)
    BY <2>1, <2>2 DEF CallInv, WorkIsExecuting, CheckedCall, Does, At, PlanOf
  <2> QED
    BY <1>1, <2>1, <2>3, <2>4, QuietCalls DEF CallInv
<1>5. CASE ProcessSteps \/ UNCHANGED pluginVars
  <2>1. /\ UNCHANGED <<installation, content>>
        /\ \/ UNCHANGED <<runner, work>>
           \/ runner' = [k \in Jobs |-> Idle] /\ work' = [k \in Jobs |-> "idle"]
    BY <1>5 DEF ProcessSteps, plugin, pluginVars, vars, CancelWrite, ReconcileSettle, RequestFails, Open,
                Serve, ReconcileObserve, Crash, volatile
  <2>2. WorkIsExecuting'
    BY <2>1 DEF CallInv, WorkIsExecuting, At
  <2>3. \A k \in Jobs : CheckedCall(k)' => CheckedCall(k) /\ PlanOf(k)' = PlanOf(k)
    BY <2>1 DEF CheckedCall, Does, At, PlanOf
  <2> QED
    BY <1>1, <2>1, <2>2, <2>3, QuietCalls DEF CallInv
<1> QED
  BY <1>2, <1>3, <1>4, <1>5 DEF PluginNext

\* No plugin is called after a change that did not let the call finish, although
\* the call starts some time after its checks (Actions.Execute,
\* Store.ComparePutWithResourceJobs).
THEOREM CallsAreAuthorized == PluginSpec => InvocationsAreAuthorized
<1>1. PluginSpec => []CallInv
  BY InitCalls, NextCalls, PTL DEF PluginSpec
<1>2. CallInv /\ [PluginNext]_pluginVars =>
        \A j \in Jobs : work[j] = "checked" /\ work'[j] = "called" => Authorized(j)
  <2> SUFFICES ASSUME CallInv, [PluginNext]_pluginVars, NEW j \in Jobs,
                      work[j] = "checked", work'[j] = "called"
               PROVE  Authorized(j)
    OBVIOUS
  <2>1. CASE \E k \in Jobs : HandlerSteps(k)
    <3>1. PICK k \in Jobs : HandlerSteps(k)
      BY <2>1
    <3>2. \E to : work' = [work EXCEPT ![k] = to] /\ (to = "called" => Invoke(k))
      BY <3>1 DEF HandlerSteps, Check, Stage, Commit, Invoke, StoreResult, WorkFails, ExecuteReturns, Working
    <3>3. k = j /\ Invoke(j)
      BY <3>2 DEF CallInv, WorkIsExecuting
    <3> QED
      BY <3>3 DEF Invoke, CallInv, CheckedIsAuthorized, CheckedCall
  <2>2. CASE ~(\E k \in Jobs : HandlerSteps(k))
    BY <2>2 DEF PluginNext, PlanLifecycle, PlanCall, EngineSteps, ProcessSteps, plugin, pluginVars
  <2> QED
    BY <2>1, <2>2
<1> QED
  BY <1>1, <1>2, PTL DEF PluginSpec, InvocationsAreAuthorized

-----------------------------------------------------------------------------
(* Outcomes are true.  A job that committed has only good news ahead: its     *)
(* Execute returns "ok", its one step is the last, and the states still       *)
(* written to its row are those of a change that took effect or is in doubt.  *)

\* Job j has committed its change.
Committed(j) == Stored(j) /\ <<jobs[j].planID, j>> \in activated

Settled(j) ==
  /\ jobs[j].state \notin {"failed", "canceled"}
  /\ runner[j].pc \in {"idle", "execute", "returned", "reconcile", "finish"}
  /\ At(j, "execute") => work[j] = "ok"
  /\ At(j, "returned") => runner[j].outcome = "ok"

ActivatedByJobs ==
  \A p \in Plans, j \in Jobs : <<p, j>> \in activated =>
    Stored(j) /\ jobs[j].planID = p /\ Action[p] # "call"

ConfirmedIsActivated ==
  \A j \in Jobs, i \in Nat :
    <<j, i>> \in verified /\ Stored(j) /\ Action[jobs[j].planID] # "call" => Activated(jobs[j].planID)

StoredIsPlanned == \A j \in Jobs : Stored(j) => content[jobs[j].planID] # Unplanned

OutcomeInv ==
  /\ AcceptanceInv /\ CallInv
  /\ StoredIsPlanned /\ ActivatedByJobs /\ ConfirmedIsActivated
  /\ \A j \in Jobs : Committed(j) => Settled(j)

LEMMA InitOutcomes == PluginInit => OutcomeInv
<1> SUFFICES ASSUME PluginInit
             PROVE  OutcomeInv
  OBVIOUS
<1>1. AcceptanceInv /\ CallInv
  BY InitImplements, InitAcceptance, InitCalls
<1>2. \A j \in Jobs : ~Stored(j)
  BY DEF PluginInit, Init, JournalInit, Stored
<1> QED
  BY <1>1, <1>2 DEF PluginInit, OutcomeInv, StoredIsPlanned, ActivatedByJobs, ConfirmedIsActivated, Committed

LEMMA OneStep ==
  ASSUME NEW j \in Jobs, jobs[j].planID \in Plans
  PROVE  LastStep(j) = 0
<1>1. Steps[jobs[j].planID] = 1
  BY PluginPlans
<1> QED
  BY <1>1 DEF LastStep

\* Only planned plans are applied, and a stored plan is never stored again.
LEMMA NextPlanned ==
  ASSUME OutcomeInv, [PluginNext]_pluginVars
  PROVE  StoredIsPlanned'
<1>1. TypeOK /\ \A j \in Jobs : Stored(j) => Stored(j)' /\ jobs'[j].planID = jobs[j].planID
  BY StepImplements, JobsAreKept DEF OutcomeInv, AcceptanceInv, DoubtInv, OwnershipInv
<1>2. ASSUME NEW p \in Plans, content[p] # Unplanned
      PROVE  content'[p] = content[p]
  BY <1>2 DEF PluginNext, PlanLifecycle, PlanCall, HandlerSteps, Check, Stage, Commit, Invoke, StoreResult,
              WorkFails, ExecuteReturns, EngineSteps, ProcessSteps, plugin, pluginVars, OutcomeInv, CallInv,
              OnceInv, RecordsOK
<1>3. ASSUME NEW j \in Jobs, Stored(j)
      PROVE  jobs[j].planID \in Plans
  BY <1>1, <1>3, RowOfStored DEF TypeOK, Row
<1>4. ASSUME NEW i \in Jobs, NEW k \in Keys, NEW p \in Plans, content[p] # Unplanned, Apply(i, k, p),
             NEW j \in Jobs, Stored(j)', ~Stored(j)
      PROVE  jobs'[j].planID = p
  BY <1>1, <1>4 DEF Apply, Accept, Stored, NewRow, TypeOK, JournalTypeOK
<1>5. ASSUME NEW j \in Jobs, Stored(j)', ~Stored(j)
      PROVE  \E i \in Jobs, k \in Keys, p \in Plans : content[p] # Unplanned /\ Apply(i, k, p)
  <2>1. ~(jobs' = jobs) /\ \A i, row : ~Update(i, row)
    BY <1>1, <1>5 DEF Stored, Update, TypeOK, JournalTypeOK
  <2> QED
    BY <2>1 DEF PluginNext, PlanLifecycle, PlanCall, HandlerSteps, Check, Stage, Commit, Invoke, StoreResult,
         WorkFails, ExecuteReturns, Execute, EngineSteps, ProcessSteps, pluginVars, Boundary, ValidateFails,
         RecordIntent, ExecuteFailed, StartVerifying, StepVerified, StepNotVerified, Finish, JournalWriteFails,
         CancelRead, ReconcileRead, Recover, CancelWrite, ReconcileObserve, ReconcileSettle, RequestFails,
         Open, Serve, Crash, Return, Continue, vars, journal
<1> QED
  BY <1>1, <1>2, <1>3, <1>4, <1>5 DEF StoredIsPlanned, OutcomeInv

\* What is left to show of a step that activates nothing.
LEMMA QuietOutcomes ==
  ASSUME OutcomeInv, [PluginNext]_pluginVars, UNCHANGED activated,
         \A j \in Jobs : Committed(j) => Settled(j)',
         \A j \in Jobs, i \in Nat : <<j, i>> \in verified' /\ <<j, i>> \notin verified =>
           Stored(j) /\ (Action[jobs[j].planID] = "call" \/ Activated(jobs[j].planID))
  PROVE  OutcomeInv'
<1>1. TypeOK /\ [Next]_vars /\ AcceptanceInv /\ AcceptanceInv'
  BY StepImplements, NextAcceptance DEF OutcomeInv, AcceptanceInv, DoubtInv, OwnershipInv
<1>2. \A j \in Jobs : Stored(j) => Stored(j)' /\ jobs'[j].planID = jobs[j].planID
  BY <1>1, JobsAreKept
<1>3. ActivatedByJobs'
  BY <1>2 DEF OutcomeInv, ActivatedByJobs
<1>4. ASSUME NEW j \in Jobs, Committed(j)'
      PROVE  Committed(j)
  <2>1. jobs'[j].planID \in Plans
    BY <1>1, <1>4, RowOfStored DEF Committed, AcceptanceInv, DoubtInv, OwnershipInv, TypeOK, JournalTypeOK, Stored, Row
  <2> QED
    BY <1>2, <1>4, <2>1 DEF Committed, OutcomeInv, ActivatedByJobs
<1>5. ASSUME NEW j \in Jobs, NEW i \in Nat, <<j, i>> \in verified', Stored(j)', Action[jobs'[j].planID] # "call"
      PROVE  \E k \in Jobs : <<jobs'[j].planID, k>> \in activated'
  <2>1. <<j, i>> \in verified => Stored(j)
    BY DEF OutcomeInv, AcceptanceInv, Acceptances, NothingUnstoredVerified
  <2>2. Stored(j) /\ Activated(jobs[j].planID)
    BY <1>2, <1>5, <2>1 DEF OutcomeInv, ConfirmedIsActivated
  <2> QED
    BY <1>2, <2>2 DEF Activated
<1>6. CallInv' /\ StoredIsPlanned'
  BY NextCalls, NextPlanned DEF OutcomeInv
<1> QED
  BY <1>1, <1>3, <1>4, <1>5, <1>6 DEF OutcomeInv, ConfirmedIsActivated, Activated

\* The look at the record that confirms a step finds the change of this plan.
LEMMA ObservedIsActivated ==
  ASSUME CallInv, NEW p \in Plans, Observed(p), Action[p] # "call", content[p] \in Content
  PROVE  Activated(p)
<1>1. StampedBy(installation) = p
  BY InheritedIsSound DEF Observed, Stamped, StampedBy, Content, Installation
<1> QED
  BY <1>1 DEF CallInv, OnceInv, StampIsActivated

\* A write leaves a committed job settled.
LEMMA WriteSettles ==
  ASSUME OutcomeInv, NEW j \in Jobs, NEW row \in Row, Update(j, row), row.planID = jobs[j].planID,
         UNCHANGED work, \A k \in Jobs \ {j} : runner'[k] = runner[k],
         Committed(j) => /\ row.state \notin {"failed", "canceled"}
                         /\ UNCHANGED runner \/ runner'[j].pc \in {"idle", "reconcile"}
  PROVE  \A k \in Jobs : Committed(k) => Settled(k)'
<1>1. TypeOK
  BY DEF OutcomeInv, CallInv, OwnershipInv
<1>2. jobs'[j].state = row.state /\ \A k \in Jobs : k # j => jobs'[k] = jobs[k]
  BY <1>1, UpdateEffect
<1> QED
  BY <1>2 DEF OutcomeInv, Settled, At

LEMMA CommitOutcomes ==
  ASSUME OutcomeInv, NEW j \in Jobs, Commit(j)
  PROVE  OutcomeInv'
<1>1. TypeOK /\ Ownership /\ Live(j) /\ UNCHANGED vars
  BY DEF OutcomeInv, CallInv, OwnershipInv, Commit, Does, At, Live
<1>2. PICK p \in Plans : p = PlanOf(j) /\ p = jobs[j].planID /\ Stored(j) /\ jobs[j].state \in Active
  BY <1>1, PlanOfLive DEF Ownership, RunnersHold, PlanOf
<1>3. AcceptanceInv' /\ CallInv' /\ StoredIsPlanned'
  <2>1. PluginNext
    BY DEF PluginNext, HandlerSteps
  <2> QED
    BY <2>1, StepImplements, NextAcceptance, NextCalls, NextPlanned DEF OutcomeInv
<1>4. At(j, "execute") /\ Action[p] # "call" /\ work[j] # "ok"
  BY <1>2 DEF Commit, Does
<1>5. /\ activated \subseteq activated' /\ activated' \subseteq activated \cup {<<p, j>>}
      /\ <<p, j>> \in activated' => <<p, j>> \in activated \/ work'[j] = "ok"
      /\ \A k \in Jobs \ {j} : work'[k] = work[k]
  BY <1>2 DEF Commit, OutcomeInv, CallInv, WorkIsExecuting
<1>6. ActivatedByJobs'
  BY <1>1, <1>2, <1>4, <1>5 DEF OutcomeInv, ActivatedByJobs, Stored, vars, journal
<1>7. ConfirmedIsActivated'
  BY <1>1, <1>5 DEF OutcomeInv, ConfirmedIsActivated, Activated, Stored, vars, journal, observed
<1>8. ~Committed(j)
  BY <1>4 DEF OutcomeInv, Settled
<1>9. ASSUME NEW k \in Jobs, Committed(k)'
      PROVE  Settled(k)'
  <2>1. CASE k = j
    <3>1. work'[j] = "ok"
      BY <1>1, <1>2, <1>5, <1>8, <1>9, <2>1 DEF Committed, Stored, vars, journal
    <3> QED
      BY <1>1, <1>2, <1>4, <2>1, <3>1 DEF Settled, At, Active, vars, journal, volatile
  <2>2. CASE k # j
    <3>1. Committed(k)
      BY <1>1, <1>5, <1>9, <2>2 DEF Committed, Stored, vars, journal
    <3> QED
      BY <1>1, <1>5, <2>2, <3>1 DEF OutcomeInv, Settled, At, vars, journal, volatile
  <2> QED
    BY <2>1, <2>2
<1> QED
  BY <1>3, <1>6, <1>7, <1>9 DEF OutcomeInv

\* The handlers leave what is committed alone, and return "ok" for it.
LEMMA HandlersSettle ==
  ASSUME OutcomeInv, NEW j \in Jobs, HandlerSteps(j)
  PROVE  OutcomeInv'
<1>1. TypeOK /\ At(j, "execute") /\ DOMAIN work = Jobs
  BY DEF HandlerSteps, Check, Stage, Commit, Invoke, StoreResult, WorkFails, ExecuteReturns,
         Execute, Does, OutcomeInv, CallInv, WorkIsExecuting, OwnershipInv
<1>2. [PluginNext]_pluginVars
  BY DEF PluginNext
<1>3. Committed(j) => work[j] = "ok" /\ Action[PlanOf(j)] # "call"
  <2>1. Live(j) /\ PlanOf(j) = jobs[j].planID /\ PlanOf(j) \in Plans
    BY <1>1, PlanOfLive DEF At, Live, PlanOf, OutcomeInv, CallInv, OwnershipInv, Ownership, RunnersHold
  <2> QED
    BY <1>1, <2>1 DEF OutcomeInv, Settled, Committed, ActivatedByJobs
<1>4. CASE Commit(j)
  BY <1>4, CommitOutcomes
<1>5. CASE Check(j) \/ Stage(j) \/ Invoke(j) \/ StoreResult(j) \/ WorkFails(j)
  <2>1. /\ UNCHANGED <<vars, activated>> /\ work[j] # "ok"
        /\ \A k \in Jobs \ {j} : work'[k] = work[k]
    BY <1>1, <1>5 DEF Check, Stage, Invoke, StoreResult, WorkFails, Working
  <2>2. \A k \in Jobs : Committed(k) => Settled(k)'
    BY <1>3, <2>1 DEF OutcomeInv, Settled, At, vars, journal, volatile
  <2>3. UNCHANGED verified
    BY <2>1 DEF vars, observed
  <2> QED
    BY <1>2, <2>1, <2>2, <2>3, QuietOutcomes
<1>6. CASE ExecuteReturns(j)
  <2>1. PICK outcome : Execute(j, outcome) /\ (outcome = "ok" \/ work[j] = "error" \/ Does(j, {"call"}))
    BY <1>6 DEF ExecuteReturns
  <2>2. Committed(j) => outcome = "ok"
    BY <1>3, <2>1 DEF Does
  <2>3. /\ UNCHANGED <<journal, verified, activated>>
        /\ \A k \in Jobs \ {j} : runner'[k] = runner[k] /\ work'[k] = work[k]
    BY <1>1, <1>6, <2>1 DEF ExecuteReturns, Execute, TypeOK
  <2>4. runner'[j].pc = "returned" /\ runner'[j].outcome = outcome
    <3>1. runner[j] \in RunnerState
      BY <1>1, RunnerOfLive DEF At, Live
    <3> QED
      BY <1>1, <2>1, <3>1 DEF Execute, TypeOK, RunnerState
  <2>5. \A k \in Jobs : Committed(k) => Settled(k)'
    BY <2>2, <2>3, <2>4 DEF OutcomeInv, Settled, At, journal
  <2> QED
    BY <1>2, <2>3, <2>5, QuietOutcomes
<1> QED
  BY <1>4, <1>5, <1>6 DEF HandlerSteps

\* The goroutine of a committed job is past every point where it could fail.
LEMMA EngineSettles ==
  ASSUME OutcomeInv, NEW j \in Jobs, EngineSteps(j)
  PROVE  OutcomeInv'
<1> DEFINE Settles == \A k \in Jobs : Committed(k) => Settled(k)'
<1>1. /\ TypeOK /\ Ownership /\ Progress /\ UNCHANGED <<activated, work, content>>
      /\ [PluginNext]_pluginVars
  BY DEF OutcomeInv, AcceptanceInv, DoubtInv, OwnershipInv, EngineSteps, plugin, PluginNext
<1>2. Live(j) => /\ Stored(j) /\ jobs[j].state \in Active /\ runner[j] \in RunnerState
                 /\ PlanOf(j) = jobs[j].planID /\ PlanOf(j) \in Plans
  BY <1>1, PlanOfLive, RunnerOfLive DEF Ownership, RunnersHold, PlanOf
<1>3. Committed(j) => Settled(j)
  BY DEF OutcomeInv
<1>4. CASE UNCHANGED <<journal, runner, verified>>
  <2>1. Settles
    BY <1>1, <1>4 DEF OutcomeInv, Settled, At, journal
  <2> QED
    BY <1>1, <1>4, <2>1, QuietOutcomes
<1>5. ASSUME NEW row \in Row, Update(j, row), row.planID = jobs[j].planID, UNCHANGED verified,
             \A k \in Jobs \ {j} : runner'[k] = runner[k],
             Committed(j) => /\ row.state \notin {"failed", "canceled"}
                             /\ UNCHANGED runner \/ runner'[j].pc \in {"idle", "reconcile"}
      PROVE  OutcomeInv'
  BY <1>1, <1>5, WriteSettles, QuietOutcomes
<1>6. ASSUME UNCHANGED journal, \A k \in Jobs \ {j} : runner'[k] = runner[k],
             runner'[j].pc \in {"idle", "finish"},
             \A k \in Jobs, i \in Nat : <<k, i>> \in verified' /\ <<k, i>> \notin verified =>
               Stored(k) /\ (Action[jobs[k].planID] = "call" \/ Activated(jobs[k].planID))
      PROVE  OutcomeInv'
  <2>1. Settles
    BY <1>1, <1>6 DEF OutcomeInv, Settled, At, journal
  <2> QED
    BY <1>1, <1>6, <2>1, QuietOutcomes
<1>7. ASSUME NEW k \in Keys, NEW p \in Plans, Apply(j, k, p)
      PROVE  OutcomeInv'
  <2>1. ~Stored(j) /\ UNCHANGED verified /\ \A m \in Jobs \ {j} : jobs'[m] = jobs[m] /\ runner'[m] = runner[m]
    BY <1>1, <1>7 DEF Apply, Accept, Start, TypeOK, JournalTypeOK, observed
  <2>2. Settles
    BY <1>1, <2>1 DEF OutcomeInv, Settled, At, Committed
  <2> QED
    BY <1>1, <2>1, <2>2, QuietOutcomes
<1>8. ASSUME Live(j), NEW state \in JobState, UNCHANGED verified,
             Return(j, Copy(j, state)) \/ Continue(j, Copy(j, state), "reconcile"),
             Committed(j) => state \notin {"failed", "canceled"}
      PROVE  OutcomeInv'
  <2>1. Copy(j, state) \in Row /\ Copy(j, state).state = state /\ Copy(j, state).planID = jobs[j].planID
    BY <1>1, <1>2, <1>8, CopyIs DEF PlanOf
  <2>2. /\ Update(j, Copy(j, state))
        /\ runner'[j].pc \in {"idle", "reconcile"} /\ \A k \in Jobs \ {j} : runner'[k] = runner[k]
    BY <1>1, <1>2, <1>8 DEF Return, Continue, TypeOK, Idle, RunnerState
  <2> QED
    BY <1>5, <1>8, <2>1, <2>2
<1>9. CASE Boundary(j) \/ ValidateFails(j) \/ RecordIntent(j)
  <2>1. Live(j) /\ ~Committed(j) /\ UNCHANGED verified
    BY <1>3, <1>9 DEF Boundary, ValidateFails, RecordIntent, At, Live, Settled, observed
  <2>2. PICK row \in Row : Update(j, row) /\ row.planID = jobs[j].planID
    <3>1. \A state \in JobState : Copy(j, state) \in Row /\ Copy(j, state).planID = jobs[j].planID
      BY <1>1, <1>2, <2>1, CopyIs DEF PlanOf
    <3>2. AtBoundary(j) \in Row /\ AtBoundary(j).planID = jobs[j].planID
      BY <1>1, <1>2, <2>1, BoundaryRow DEF AtBoundary, PlanOf, RunnerState, Row
    <3>3. \A state \in JobState : /\ [AtBoundary(j) EXCEPT !.state = state] \in Row
                                  /\ [AtBoundary(j) EXCEPT !.state = state].planID = jobs[j].planID
      BY <3>2 DEF Row
    <3> QED
      BY <1>9, <3>1, <3>3, StatesOfJobs DEF Boundary, ValidateFails, RecordIntent, Return, Continue
  <2>3. \A k \in Jobs \ {j} : runner'[k] = runner[k]
    BY <1>1, <1>9 DEF Boundary, ValidateFails, RecordIntent, Return, Continue, TypeOK
  <2> QED
    BY <1>5, <2>1, <2>2, <2>3
<1>10. CASE ExecuteFailed(j)
  <2>1. Live(j) /\ ~Committed(j) /\ UNCHANGED verified
    BY <1>3, <1>10 DEF ExecuteFailed, At, Live, Settled, observed
  <2> QED
    BY <1>8, <1>10, <2>1, StatesOfJobs DEF ExecuteFailed
<1>11. CASE StartVerifying(j) \/ StepNotVerified(j) \/ Finish(j)
  <2>1. Live(j) /\ UNCHANGED verified
    BY <1>11 DEF StartVerifying, StepNotVerified, Finish, At, Live, observed
  <2> QED
    BY <1>8, <1>11, <2>1, StatesOfJobs DEF StartVerifying, StepNotVerified, Finish
<1>12. CASE StepVerified(j) /\ Observed(PlanOf(j))
  <2>1. Live(j) /\ UNCHANGED journal
    BY <1>12 DEF StepVerified, At, Live
  <2>2. runner[j].i = LastStep(j)
    <3>1. LastStep(j) = 0
      BY <1>2, <2>1, OneStep
    <3>2. runner[j].i <= LastStep(j) /\ runner[j].i \in Nat
      BY <1>1, <1>2, <2>1 DEF Progress, RunnersProgress, RunnerProgress, RunnerState
    <3> QED
      BY <3>1, <3>2
  <2>3. /\ runner'[j].pc = "finish" /\ \A k \in Jobs \ {j} : runner'[k] = runner[k]
        /\ verified' = verified \cup {<<j, runner[j].i>>}
    BY <1>1, <1>2, <1>12, <2>1, <2>2 DEF StepVerified, TypeOK, RunnerState
  <2>4. Action[jobs[j].planID] = "call" \/ Activated(jobs[j].planID)
    <3>1. content[PlanOf(j)] \in Content
      BY <1>2, <2>1 DEF OutcomeInv, CallInv, OnceInv, JobsArePlanned, RecordsOK
    <3> QED
      BY <1>2, <1>12, <2>1, <3>1, ObservedIsActivated DEF OutcomeInv
  <2> QED
    BY <1>2, <1>6, <2>1, <2>3, <2>4
<1>13. CASE JournalWriteFails(j)
  <2>1. /\ UNCHANGED <<journal, verified>> /\ runner'[j].pc = "idle"
        /\ \A k \in Jobs \ {j} : runner'[k] = runner[k]
    BY <1>1, <1>13 DEF JournalWriteFails, TypeOK, Idle, observed
  <2> QED
    BY <1>6, <2>1
<1>14. CASE Recover(j)
  <2>1. jobs[j] \in Row /\ UNCHANGED <<runner, verified>>
    BY <1>1, <1>14, RowOfStored DEF Recover, Interrupted, TypeOK, volatile, observed
  <2> DEFINE row == [jobs[j] EXCEPT !.state = "recovery-required"]
  <2>2. row \in Row /\ row.planID = jobs[j].planID /\ row.state = "recovery-required"
    BY <2>1, RowWithState, StatesOfJobs DEF Row
  <2>3. Update(j, row)
    BY <1>14 DEF Recover
  <2> HIDE DEF row
  <2> QED
    BY <1>5, <2>1, <2>2, <2>3
<1>15. CASE CancelRead(j) \/ ReconcileRead(j)
  BY <1>4, <1>15 DEF CancelRead, ReconcileRead, observed
<1> QED
  BY <1>7, <1>9, <1>10, <1>11, <1>12, <1>13, <1>14, <1>15 DEF EngineSteps

LEMMA ProcessSettles ==
  ASSUME OutcomeInv, ProcessSteps
  PROVE  OutcomeInv'
<1>1. TypeOK /\ Ownership /\ UNCHANGED <<activated, content>> /\ [PluginNext]_pluginVars
  BY DEF OutcomeInv, CallInv, OwnershipInv, ProcessSteps, plugin, PluginNext
<1> DEFINE c == request.job
<1>2. ~MutexFree =>
        /\ c \in Jobs /\ request.row \in Row /\ Stored(c) /\ request.row.planID = jobs[c].planID
        /\ request.op = "cancel" => request.row.state \in Active
        /\ request.op = "settle" => request.row.state = "succeeded"
  BY <1>1 DEF TypeOK, RequestState, MutexFree, Ownership, RequestIsCurrent
<1>3. CASE CancelWrite \/ ReconcileSettle
  <2>1. UNCHANGED <<runner, work, verified>> /\ ~MutexFree /\ Update(c, request.row)
    BY <1>3 DEF CancelWrite, ReconcileSettle, ProcessSteps, Crash, plugin, observed
  <2>2. request.row.state \notin {"failed", "canceled"}
    BY <1>2, <1>3 DEF CancelWrite, ReconcileSettle, Active
  <2>3. \A k \in Jobs : Committed(k) => Settled(k)'
    BY <1>2, <2>1, <2>2, WriteSettles
  <2> QED
    BY <1>1, <2>1, <2>3, QuietOutcomes
<1>4. CASE RequestFails \/ Open \/ Serve \/ Crash
  <2>1. /\ UNCHANGED <<journal, verified>>
        /\ \/ UNCHANGED <<runner, work>>
           \/ runner' = [j \in Jobs |-> Idle]
    BY <1>4 DEF RequestFails, Open, Serve, Crash, ProcessSteps, plugin, volatile, observed
  <2>2. \A k \in Jobs : Committed(k) => Settled(k)'
    BY <2>1 DEF OutcomeInv, Settled, At, journal, Idle
  <2> QED
    BY <1>1, <2>1, <2>2, QuietOutcomes
<1>5. CASE ~MutexFree /\ Observed(request.row.planID) /\ ReconcileObserve /\ UNCHANGED plugin
  <2>1. UNCHANGED <<journal, runner, work>> /\ verified' = verified \cup {<<c, request.row.step>>}
    BY <1>5 DEF ReconcileObserve, plugin
  <2>2. \A k \in Jobs : Committed(k) => Settled(k)'
    BY <2>1 DEF OutcomeInv, Settled, At, journal
  <2>3. Stored(c) /\ (Action[jobs[c].planID] = "call" \/ Activated(jobs[c].planID))
    <3>1. jobs[c].planID \in Plans
      BY <1>2, <1>5 DEF Row
    <3>2. content[jobs[c].planID] \in Content
      BY <1>2, <1>5, <3>1 DEF OutcomeInv, StoredIsPlanned, CallInv, OnceInv, RecordsOK
    <3> QED
      BY <1>2, <1>5, <3>1, <3>2, ObservedIsActivated DEF OutcomeInv
  <2> QED
    BY <1>1, <1>2, <2>1, <2>2, <2>3, QuietOutcomes
<1> QED
  BY <1>3, <1>4, <1>5 DEF ProcessSteps

LEMMA NextOutcomes ==
  ASSUME OutcomeInv, [PluginNext]_pluginVars
  PROVE  OutcomeInv'
<1>1. CASE \/ \E p \in Plans : PlanLifecycle(p) \/ PlanCall(p)
           \/ UNCHANGED pluginVars
  <2>1. UNCHANGED <<vars, work, activated>>
    BY <1>1 DEF PlanLifecycle, PlanCall, pluginVars, plugin
  <2>2. \A k \in Jobs : Committed(k) => Settled(k)'
    BY <2>1 DEF OutcomeInv, Settled, At, vars, journal, volatile
  <2> QED
    BY <2>1, <2>2, QuietOutcomes DEF vars, observed
<1> QED
  BY <1>1, HandlersSettle, EngineSettles, ProcessSettles DEF PluginNext

\* A lifecycle job that succeeded has its change on record; one that failed or was
\* canceled changed nothing, although a crash or a request to cancel may come after
\* its commit (Manager.Execute, Manager.Reconcile, Engine.run).
THEOREM PluginOutcomes == PluginSpec => []OutcomesAreTrue
<1>1. PluginSpec => []OutcomeInv
  BY InitOutcomes, NextOutcomes, PTL DEF PluginSpec
<1>2. OutcomeInv => OutcomesAreTrue
  <2> SUFFICES ASSUME OutcomeInv, NEW j \in Jobs, Stored(j), Action[jobs[j].planID] # "call"
               PROVE  /\ jobs[j].state = "succeeded" => Activated(jobs[j].planID)
                      /\ jobs[j].state \in {"failed", "canceled"} => ~Committed(j)
    BY DEF OutcomesAreTrue, Activated, Committed
  <2>1. LastStep(j) = 0
    BY RowOfStored, OneStep DEF OutcomeInv, CallInv, OwnershipInv, TypeOK, Row
  <2>2. jobs[j].state = "succeeded" => <<j, 0>> \in verified
    BY <2>1 DEF OutcomeInv, AcceptanceInv, DoubtInv, Progress, SuccessIsObserved
  <2> QED
    BY <2>2 DEF OutcomeInv, ConfirmedIsActivated, Settled
<1> QED
  BY <1>1, <1>2, PTL

-----------------------------------------------------------------------------
(* The follower leaves the engine alone. *)

LEMMA FollowerStepImplements == [FollowerNext]_followVars => [Next]_vars
BY DEF FollowerNext, Follow, FollowApplied, FollowStep, FirstGet, Watch, EmitEvent, Drained,
       Get, EmitTerminal, Detach, WriteFails, Resume, Answers, followVars

LEMMA FollowerImplementsEngine == FollowerSpec => Spec
BY FollowerStepImplements, PTL DEF FollowerSpec, FollowerInit, Spec

-----------------------------------------------------------------------------
(* The inductive invariant. *)

\* The event table ends with the state of the row; a job without events waits.
LogTellsState ==
  Stored(Followed) =>
    jobs[Followed].state = IF log = <<>> THEN "queued" ELSE log[Len(log)]
NoLogUnstored == log # <<>> => Stored(Followed)

HasRead == {"watch", "emit", "get", "terminal", "done"}

Recorded(n) == \E i \in 1..Len(log) : i <= n /\ log[i] = last

\* A terminal state that was read is told by an event already in the table, thus
\* by one at the end of the page at the latest, unless there are more pages.
ReadingsAreRecorded ==
  Terminal(last) =>
    /\ pc \in {"watch", "emit"} => Recorded(Len(log))
    /\ pc = "emit" /\ ~full => Recorded(upTo)

CursorsAgree ==
  /\ from <= cursor
  /\ pc = "off" => cursor = from
  /\ pc = "emit" => cursor <= upTo

FollowInv ==
  /\ FollowerTypeOK
  /\ LogTellsState /\ NoLogUnstored
  /\ pc \in HasRead => Stored(Followed)
  /\ CursorsAgree /\ ReadingsAreRecorded
  /\ StreamIsComplete

LEMMA InitFollow == FollowerInit => FollowInv
<1> SUFFICES ASSUME FollowerInit
             PROVE  FollowInv
  OBVIOUS
<1>1. ~Stored(Followed) /\ log = <<>> /\ pc = "off"
  BY FollowerBounds DEF FollowerInit, Init, JournalInit, Stored
<1>2. EveryEventReadOnce
  BY DEF FollowerInit, EveryEventReadOnce
<1>3. FollowerTypeOK
  <2>1. <<>> \in Seq(JobState) /\ <<>> \in Seq(Nat) /\ "queued" \in JobState
    BY DEF JobState, Active
  <2> QED
    BY <2>1 DEF FollowerInit, FollowerTypeOK
<1> QED
  BY <1>1, <1>2, <1>3
     DEF FollowInv, LogTellsState, NoLogUnstored, HasRead, CursorsAgree, ReadingsAreRecorded,
         StreamIsComplete, EndIsLast, FollowerInit

-----------------------------------------------------------------------------
(* Steps of the engine: what is logged stays logged. *)

RowStays ==
  IF Stored(Followed) THEN Stored(Followed)' /\ jobs'[Followed].state = jobs[Followed].state
                      ELSE Stored(Followed)' => jobs'[Followed].state = "queued"

RowIsTold == Stored(Followed) /\ Stored(Followed)' /\ jobs'[Followed].state \in JobState

\* A step without an event leaves the state of the row alone, or stores the row.
LEMMA RowStep ==
  ASSUME AcceptanceInv, Next
  PROVE  IF events'[Followed] = events[Followed] THEN RowStays ELSE RowIsTold
<1> USE FollowerBounds, NullsAreNotValues
<1>1. JournalStep /\ TypeOK /\ JournalTypeOK /\ JournalTypeOK'
  BY NextJournal, NextType DEF AcceptanceInv, DoubtInv, OwnershipInv, TypeOK
<1>2. Stored(Followed)' => jobs'[Followed].state \in JobState
  BY <1>1 DEF JournalTypeOK, Stored, Row
<1>3. CASE UNCHANGED journal
  BY <1>3 DEF journal, Stored, RowStays
<1>4. ASSUME NEW j \in Jobs, NEW row \in Row, Writes(j, row)
      PROVE  IF events'[Followed] = events[Followed] THEN RowStays ELSE RowIsTold
  <2>1. /\ Stored(j) /\ jobs' = [jobs EXCEPT ![j] = Merged(j, row)]
        /\ events' = [events EXCEPT ![j] = @ + 1]
    BY <1>4 DEF Writes, Update
  <2>2. jobs[j] \in Row
    BY <1>1, <2>1, RowOfStored
  <2>3. Merged(j, row) \in Row
    BY <2>2 DEF Merged, Row
  <2>4. CASE j = Followed
    <3>1. jobs'[Followed] = Merged(j, row) /\ events'[Followed] # events[Followed]
      BY <1>1, <2>1, <2>4 DEF JournalTypeOK
    <3>2. Stored(Followed)'
      BY <2>3, <3>1 DEF Stored
    <3>3. RowIsTold
      BY <1>2, <2>1, <2>4, <3>2 DEF RowIsTold
    <3> QED
      BY <3>1, <3>3
  <2>5. CASE j # Followed
    BY <1>1, <2>1, <2>5 DEF JournalTypeOK, Stored, RowStays
  <2> QED
    BY <2>4, <2>5
<1>5. ASSUME NEW j \in Jobs, NEW k \in Keys, NEW q \in Request, Accepts(j, k, q)
      PROVE  events'[Followed] = events[Followed] /\ RowStays
  <2>1. ~Stored(j) /\ jobs' = [jobs EXCEPT ![j] = NewRow(q.planID, NoJob)] /\ events' = events
    BY <1>5 DEF Accepts, Accept
  <2> QED
    BY <1>1, <2>1 DEF JournalTypeOK, Stored, RowStays, NewRow
<1>6. ASSUME NEW j \in Jobs, NEW k \in Keys, NEW q \in Request, AcceptsRecovery(j, k, q)
      PROVE  IF events'[Followed] = events[Followed] THEN RowStays ELSE RowIsTold
  <2> DEFINE c == q.parent
  <2>1. /\ c \in Jobs /\ ~Stored(j) /\ Stored(c) /\ j # c
        /\ jobs' = [jobs EXCEPT ![j] = NewRow(q.planID, c),
                                ![c].state = "partial", ![c].recoveryOperationID = j]
        /\ events' = [events EXCEPT ![c] = @ + 1]
    BY <1>6 DEF AcceptsRecovery, AcceptRecovery, Recoverable
  <2>2. jobs[c] \in Row
    BY <1>1, <2>1, RowOfStored
  <2>3. [jobs[c] EXCEPT !.state = "partial", !.recoveryOperationID = j] \in Row
    BY <2>2 DEF Row, JobState, Finished
  <2>4. CASE c = Followed
    <3>1. jobs'[c] = [jobs[c] EXCEPT !.state = "partial", !.recoveryOperationID = j]
      BY <1>1, <2>1 DEF JournalTypeOK
    <3>2. events'[Followed] # events[Followed]
      BY <1>1, <2>1, <2>4 DEF JournalTypeOK
    <3>3. Stored(Followed)'
      BY <2>3, <2>4, <3>1 DEF Stored
    <3>4. RowIsTold
      BY <1>2, <2>1, <2>4, <3>3 DEF RowIsTold
    <3> QED
      BY <3>2, <3>4
  <2>5. CASE c # Followed
    BY <1>1, <2>1, <2>5 DEF JournalTypeOK, Stored, RowStays, NewRow
  <2> QED
    BY <2>4, <2>5
<1>7. ASSUME NEW j \in Jobs, Observes(j)
      PROVE  UNCHANGED journal
  BY <1>7 DEF Observes
<1> QED
  BY <1>1, <1>3, <1>4, <1>5, <1>6, <1>7 DEF JournalStep, journal

\* What is recorded stays so: the table only grows.
LEMMA LogGrows ==
  ASSUME FollowInv, AcceptanceInv, Next, Logged, UNCHANGED session
  PROVE  FollowInv'
<1> USE DEF FollowerTypeOK
<1>1. FollowerTypeOK
  BY DEF FollowInv
<1>2. IF events'[Followed] = events[Followed] THEN RowStays ELSE RowIsTold
  BY RowStep
<1>3. /\ log' \in Seq(JobState) /\ Len(log) <= Len(log')
      /\ \A i \in 1..Len(log) : log'[i] = log[i]
      /\ LogTellsState' /\ NoLogUnstored' /\ (Stored(Followed) => Stored(Followed)')
  <2>1. CASE events'[Followed] = events[Followed]
    BY <1>1, <1>2, <2>1 DEF FollowInv, Logged, LogTellsState, NoLogUnstored, RowStays
  <2>2. CASE events'[Followed] # events[Followed]
    <3> DEFINE state == jobs'[Followed].state
    <3>1. log' = Append(log, state) /\ state \in JobState /\ Stored(Followed)'
      BY <1>2, <2>2 DEF Logged, RowIsTold
    <3>2. /\ log' \in Seq(JobState) /\ Len(log') = Len(log) + 1 /\ log'[Len(log')] = state
          /\ \A i \in 1..Len(log) : log'[i] = log[i]
      BY <1>1, <3>1
    <3>3. log' # <<>> /\ Len(log) \in Nat
      BY <1>1, <3>2
    <3> QED
      BY <3>1, <3>2, <3>3 DEF LogTellsState, NoLogUnstored
  <2> QED
    BY <2>1, <2>2
<1>4. UNCHANGED <<pc, streaming, from, cursor, upTo, full, last, lines>>
  BY DEF session
<1>5. ASSUME NEW n \in Nat, NEW m \in Nat, n <= m, Recorded(n)
      PROVE  Recorded(m)'
  <2>1. PICK i \in 1..Len(log) : i <= n /\ log[i] = last
    BY <1>5 DEF Recorded
  <2>2. i \in 1..Len(log') /\ i <= m /\ log'[i] = last'
    BY <1>1, <1>3, <1>4, <1>5, <2>1
  <2> QED
    BY <2>2, <1>4 DEF Recorded
<1>6. ReadingsAreRecorded'
  BY <1>1, <1>3, <1>4, <1>5 DEF FollowInv, ReadingsAreRecorded
<1>7. StreamIsComplete'
  BY <1>1, <1>3, <1>4, <1>5 DEF FollowInv, StreamIsComplete, EveryEventReadOnce, EndIsLast, Recorded
<1>8. FollowerTypeOK' /\ CursorsAgree'
  BY <1>1, <1>3, <1>4 DEF FollowInv, CursorsAgree
<1>9. (pc \in HasRead => Stored(Followed))'
  BY <1>3, <1>4 DEF FollowInv, HasRead
<1> HIDE DEF FollowerTypeOK
<1> QED
  BY <1>3, <1>6, <1>7, <1>8, <1>9 DEF FollowInv

-----------------------------------------------------------------------------
(* Steps of the follower. *)

\* A terminal reading of the row is in the event table by then.
LEMMA TerminalIsRecorded ==
  ASSUME FollowInv, Stored(Followed), Terminal(jobs[Followed].state)
  PROVE  \E i \in 1..Len(log) : log[i] = jobs[Followed].state
<1>1. log # <<>>
  BY DEF FollowInv, LogTellsState, Terminal, Finished
<1>2. Len(log) \in 1..Len(log)
  BY <1>1 DEF FollowInv, FollowerTypeOK
<1> QED
  BY <1>1, <1>2 DEF FollowInv, LogTellsState

LEMMA RowStateType ==
  ASSUME TypeOK, Stored(Followed)
  PROVE  jobs[Followed].state \in JobState
BY FollowerBounds DEF TypeOK, JournalTypeOK, Row, Stored

\* Reading the row.
LEMMA ReadingKeeps ==
  ASSUME TypeOK, FollowInv, FollowApplied \/ FirstGet \/ Get
  PROVE  FollowInv'
<1> USE DEF FollowInv, FollowerTypeOK
<1>1. /\ Stored(Followed) /\ UNCHANGED <<vars, log, from, cursor, upTo, full, lines>>
      /\ last' = jobs[Followed].state
      /\ pc' \in {"watch", "terminal", "get"} /\ streaming' \in BOOLEAN
      /\ pc' = "terminal" => ~streaming'
  BY DEF FollowApplied, FirstGet, Get, Answers, HasRead
<1>2. UNCHANGED <<jobs, events>> /\ last' \in JobState
  BY <1>1, RowStateType DEF vars, journal
<1>3. Terminal(last') => Recorded(Len(log))'
  BY <1>1, TerminalIsRecorded DEF Recorded
<1>4. LogTellsState' /\ NoLogUnstored' /\ Stored(Followed)'
  BY <1>1, <1>2 DEF LogTellsState, NoLogUnstored, Stored
<1>5. EveryEventReadOnce'
  BY <1>1 DEF StreamIsComplete, EveryEventReadOnce
<1>6. ReadingsAreRecorded'
  BY <1>1, <1>3 DEF ReadingsAreRecorded
<1>7. EndIsLast'
  BY <1>1 DEF EndIsLast
<1>8. FollowerTypeOK'
  BY <1>1, <1>2 DEF Calls
<1>9. CursorsAgree'
  BY <1>1 DEF CursorsAgree, FollowApplied, FirstGet, Get
<1> QED
  BY <1>4, <1>5, <1>6, <1>7, <1>8, <1>9 DEF StreamIsComplete

\* A page: behind a page that is not full there was nothing more.
LEMMA WatchKeeps ==
  ASSUME FollowInv, Watch
  PROVE  FollowInv'
<1> USE DEF FollowInv, FollowerTypeOK
<1>1. /\ pc = "watch" /\ pc' = "emit" /\ Stored(Followed)
      /\ UNCHANGED <<vars, log, streaming, from, cursor, last, lines>>
      /\ upTo' = PageEnd /\ full' = (PageEnd = cursor + Page)
  BY DEF Watch, Answers
<1>2. /\ PageEnd \in Nat /\ cursor <= PageEnd
      /\ PageEnd # cursor + Page => Len(log) <= PageEnd
  BY FollowerBounds DEF PageEnd
<1>3. LogTellsState' /\ NoLogUnstored' /\ Stored(Followed)'
  BY <1>1 DEF vars, journal, LogTellsState, NoLogUnstored, Stored
<1>4. ReadingsAreRecorded'
  <2>1. SUFFICES ASSUME Terminal(last')
                 PROVE  Recorded(Len(log))' /\ (~full' => Recorded(upTo)')
    BY <1>1 DEF ReadingsAreRecorded
  <2>2. Recorded(Len(log))
    BY <1>1, <2>1 DEF ReadingsAreRecorded
  <2>3. PICK i \in 1..Len(log) : log[i] = last
    BY <2>2 DEF Recorded
  <2>4. Len(log) \in Nat
    OBVIOUS
  <2>5. i <= Len(log') /\ log'[i] = last' /\ i \in 1..Len(log')
    BY <1>1, <2>3, <2>4
  <2>6. ~full' => Len(log) <= PageEnd
    BY <1>1, <1>2, Zenon
  <2>7. ~full' => i <= upTo'
    BY <1>1, <1>2, <2>4, <2>6
  <2> QED
    BY <2>5, <2>7 DEF Recorded
<1>5. StreamIsComplete'
  BY <1>1 DEF StreamIsComplete, EveryEventReadOnce, EndIsLast
<1> QED
  BY <1>1, <1>2, <1>3, <1>4, <1>5 DEF CursorsAgree

LEMMA EmitKeeps ==
  ASSUME FollowInv, EmitEvent
  PROVE  FollowInv'
<1> USE DEF FollowInv, FollowerTypeOK
<1>1. /\ pc = "emit" /\ cursor < upTo /\ cursor' = cursor + 1 /\ lines' = Append(lines, cursor')
      /\ UNCHANGED <<vars, log, pc, streaming, from, upTo, full, last>>
  BY DEF EmitEvent
<1>2. LogTellsState' /\ NoLogUnstored' /\ (Stored(Followed) => Stored(Followed)')
  BY <1>1 DEF vars, journal, LogTellsState, NoLogUnstored, Stored
<1>3. lines' \in Seq(Nat) /\ EveryEventReadOnce'
  <2> DEFINE n == cursor - from
  <2>1. n \in Nat /\ cursor' - from' = n + 1 /\ cursor' = from + (n + 1)
    BY <1>1 DEF CursorsAgree
  <2>2. lines = [i \in 1..n |-> from + i]
    BY DEF StreamIsComplete, EveryEventReadOnce
  <2> HIDE DEF n
  <2>3. lines \in Seq(Nat) /\ Len(lines) = n
    BY <2>1, <2>2
  <2>4. lines' = [i \in 1..(n + 1) |-> IF i <= n THEN lines[i] ELSE cursor']
    BY <1>1, <2>1, <2>3
  <2>5. \A i \in 1..(n + 1) : (IF i <= n THEN lines[i] ELSE cursor') = from + i
    BY <2>1, <2>2
  <2>6. lines' = [i \in 1..(n + 1) |-> from + i]
    BY <2>4, <2>5
  <2> QED
    BY <1>1, <2>1, <2>6 DEF EveryEventReadOnce
<1> QED
  BY <1>1, <1>2, <1>3 DEF CursorsAgree, ReadingsAreRecorded, Recorded, StreamIsComplete, EndIsLast

\* Control alone moves: the page is drained, the end told, the stream broken or
\* resumed.
LEMMA ControlKeeps ==
  ASSUME FollowInv, Drained \/ EmitTerminal \/ Detach \/ WriteFails \/ Resume
  PROVE  FollowInv'
<1> USE DEF FollowInv, FollowerTypeOK
<1>1. UNCHANGED <<vars, log, streaming, from, cursor, upTo, full, last, lines>>
  BY DEF Drained, EmitTerminal, Detach, WriteFails, Resume
<1>2. LogTellsState' /\ NoLogUnstored' /\ (Stored(Followed) => Stored(Followed)')
  BY <1>1 DEF vars, journal, LogTellsState, NoLogUnstored, Stored
<1>3. EveryEventReadOnce'
  BY <1>1 DEF StreamIsComplete, EveryEventReadOnce
<1>4. CASE Drained
  <2>1. /\ pc = "emit" /\ cursor = upTo /\ pc' \in {"watch", "terminal", "get"}
        /\ pc' = "terminal" => ~full /\ Terminal(last)
    BY <1>4 DEF Drained
  <2>2. pc' = "terminal" => Terminal(last) /\ Recorded(cursor)
    BY <2>1 DEF ReadingsAreRecorded
  <2>3. EndIsLast'
    BY <1>1, <2>1, <2>2 DEF EndIsLast, Recorded
  <2>4. ReadingsAreRecorded'
    BY <1>1, <2>1 DEF ReadingsAreRecorded, Recorded
  <2>5. CursorsAgree'
    BY <1>1, <2>1 DEF CursorsAgree
  <2>6. FollowerTypeOK' /\ Stored(Followed)'
    BY <1>1, <1>2, <2>1 DEF HasRead, Calls
  <2> HIDE DEF FollowerTypeOK
  <2> QED
    BY <1>2, <1>3, <2>3, <2>4, <2>5, <2>6 DEF StreamIsComplete
<1>5. CASE EmitTerminal
  BY <1>1, <1>2, <1>3, <1>5
     DEF EmitTerminal, CursorsAgree, StreamIsComplete, EndIsLast, ReadingsAreRecorded, HasRead
<1>6. CASE Detach \/ WriteFails \/ Resume
  BY <1>1, <1>2, <1>3, <1>6
     DEF Detach, WriteFails, Resume, Calls, CursorsAgree, StreamIsComplete, EndIsLast,
         ReadingsAreRecorded, HasRead
<1> QED
  BY <1>4, <1>5, <1>6

LEMMA FollowKeeps ==
  ASSUME FollowInv, Follow
  PROVE  FollowInv'
<1> USE DEF FollowInv, FollowerTypeOK
<1>1. /\ pc = "off" /\ pc' = "first" /\ streaming' = TRUE
      /\ cursor' = from' /\ from' \in Nat
      /\ UNCHANGED <<vars, log, upTo, full, last, lines>>
  BY FollowerBounds DEF Follow
<1>2. LogTellsState' /\ NoLogUnstored'
  BY <1>1 DEF vars, journal, LogTellsState, NoLogUnstored, Stored
<1>3. EveryEventReadOnce'
  <2>1. cursor = from /\ cursor - from = 0
    BY <1>1 DEF CursorsAgree
  <2>2. cursor' = from' /\ from' \in Nat
    BY <1>1
  <2>3. lines = <<>>
    BY <2>1 DEF StreamIsComplete, EveryEventReadOnce
  <2> QED
    <3> HIDE DEF FollowInv, FollowerTypeOK
    <3>1. cursor' - from' = 0
      <4>1. \A a \in Nat : a - a = 0
        OBVIOUS
      <4> QED
        BY <2>2, <4>1, Zenon
    <3>2. lines' = <<>>
      BY <1>1, <2>3
    <3> QED
      BY <3>1, <3>2 DEF EveryEventReadOnce
<1> QED
  BY <1>1, <1>2, <1>3 DEF CursorsAgree, ReadingsAreRecorded, StreamIsComplete, EndIsLast, HasRead, Calls

LEMMA NextFollow ==
  ASSUME FollowInv, AcceptanceInv, [FollowerNext]_followVars
  PROVE  FollowInv'
<1>1. TypeOK
  BY DEF AcceptanceInv, DoubtInv, OwnershipInv
<1>2. CASE UNCHANGED followVars
  <2>1. UNCHANGED <<jobs, log, pc, streaming, from, cursor, upTo, full, last, lines>>
    BY <1>2 DEF followVars, session, vars, journal
  <2> QED
    BY <2>1 DEF FollowInv, FollowerTypeOK, LogTellsState, NoLogUnstored, CursorsAgree, Stored,
                ReadingsAreRecorded, Recorded, StreamIsComplete, EveryEventReadOnce, EndIsLast
<1> QED
  BY <1>1, <1>2, LogGrows, ReadingKeeps, WatchKeeps, EmitKeeps, ControlKeeps, FollowKeeps
     DEF FollowerNext, FollowStep

\* The consumer reads every event once and in order, and the line that reports
\* the end comes behind the event that recorded it (followOperation).
THEOREM StreamsAreWhole == FollowerSpec => []StreamIsComplete
<1>1. FollowerSpec => []AcceptanceInv
  BY FollowerImplementsEngine, AcceptanceInvHolds, PTL
<1>2. FollowerInit => FollowInv
  BY InitFollow
<1>3. FollowInv /\ AcceptanceInv /\ [FollowerNext]_followVars => FollowInv'
  BY NextFollow
<1>4. FollowInv => StreamIsComplete
  BY DEF FollowInv
<1> QED
  BY <1>1, <1>2, <1>3, <1>4, PTL DEF FollowerSpec
=============================================================================
