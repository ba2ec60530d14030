# Verification of Virmill

Virmill manages libvirt virtual machines for one user at a time of one host. Everything that changes the host is a
*reviewed plan*: it is computed, shown, acknowledged, applied once as a durable *job*, and either confirmed by
observation or left *recovery-required* with its resources locked. The modules here model that core and the components
built on it, TLC checks them on small instances, and TLAPS proves the main safety properties for every value of the
constants.

`src/...` below is relative to the repository; `PROJECT.json` maps every definition to the lines it stands for.

## 1. The system

```
 CLI / TUI --frames--> transport --calls--> app service --plans--> engine --transactions--> journal (SQLite)
                                                                     |                         ^
                                                                     +--> handlers ------------+  metadata records
                                                                            |
                                              libvirt, files, helper process, plugins, restic, guests
```

| component | state | operations | what is hard | what makes it correct |
|---|---|---|---|---|
| journal (`internal/store`) | jobs, locks, deduplication, events, metadata | accept, accept a recovery, update, compare-and-put | rows are read and written back by several actors in separate transactions | locks and rows agree; a key belongs to one job; a request to cancel is never lost |
| engine (`internal/operations`) | a goroutine per job, a mutex | apply, run, note, cancel, reconcile, recover | requests and runners interleave; crash between effect and record; failing writes | exclusion, no replay, locks as long as anything is in doubt, success only by observation |
| transport (`internal/transport/local`) | listener, slots, connections, heavy-read token | serve, close | two calls of Close race with accept; clients hang up | slots and token accounted for; shutdown ends and is quiet |
| event follower (`internal/ui/cli/events_stream.go`) | cursor, page, last state | follow, page, end | alternating reads of row and events | every event once and in order; the end is announced |
| plugins (`internal/plugins`) | installations, packages, results | plan, install, update, roll back, enable, grant, invoke | approval read before, used after; one plan applied twice | calls only while approved; a change takes effect once |
| creation (`internal/creating`) | receipts, proofs, dispositions, ownership | create, resume, accept, retain, delete | lost answers, partial volumes, stale reviews, chains of recoveries | machines are complete, dispositions and outcomes are true |
| import (`internal/importing`) | staged and published copies, hand-over records | stage, publish, hand over, discard | crash around the rename; discard against use | a published copy is complete; a released one is not offered |
| disks (`internal/app/disk_*.go`, `vm_clone.go`, `creating/disk_add*`) | volumes and definitions | grow, move, remove, clone, add, dispose | several effects, each of which may fail half way | nothing is freed while it may be referenced |
| machines (`internal/app/service.go`, `resource_*`, `reboot.go`, `removal.go`) | state, saved image, definition, running resources, receipts | lifecycle, edit, live change, reboot, undefine | guests act on their own and answer late | a reported outcome was so |
| networks and pools (`internal/app/network_*`, `storage_pool_*`, `internal/network`) | reservations, definitions | allocate, define, start | check and reservation are separate; crash between them | ranges do not overlap; definitions have a reservation |
| privileged helper (`internal/helper`), storage access | grants, rule journal | single-use signed requests, grant, revoke | lost answers, crash in a rule set, nested grants | every effect is journalled before; revocation restores |
| captures (`internal/coldstore`, `coldcapture`), local backup | capture sets, snapshots | publish, seal, restore, back up | rename and catalogue, answers of external tools | a set under its final name is complete |
| guest setup (`internal/guestsetup`) | stage receipts | run stages in a guest | lost answers | a stage runs at most once |
| terminal workspace (`internal/ui/tui`) | one program value, commands under way, the saved setup on disk | keys, answers, automatic steps of one approval, autosave | answers come after the user went elsewhere; a lost answer; writes that overtake each other; two windows | a review is one job; what starts on its own was approved; a sent setup is remembered |
| update (`internal/update`), probes, XML and image helpers, CLI rendering | little or none | downloads, reads, pure functions | - | - |

They interact in three ways: clients call the coordinator over one socket; handlers are called by the engine
(`Validate`, `Execute`, `Reconcile`) and write metadata of their own; and all of them share the lock table. The hazards
that follow are listed in `PROJECT.json`, each at its line with the properties that would catch it.

## 2. Modules

| module | extends | models |
|---|---|---|
| `Journal` | | the transactions on jobs, locks, keys and events (`store.go`, `recovery_accept.go`) |
| `Engine` | `Journal` | `Engine.Apply`, `run`, `Note`, `Cancel`, `Reconcile`, `Recover`, crash and restart; safety and liveness |
| `Lease` | | what the engine promises about resources, without jobs' states |
| `EngineLease` | `Engine` | the refinement mapping: `owner <- locks`, `doubt <- ` resources of jobs in doubt |
| `Transport` | | `Server.Serve`, `Close`, heavy reads, and the teardown in `cmd/virmilld` |
| `Follower` | `Engine` | one CLI process following one job, and its consumer |
| `Workspace` | | the terminal workspace setting up a VM, its saved setup, the coordinator as it sees it |
| `Clients` | `Follower`, `Workspace` | either of the two clients that outlive one answer |
| `Plugins` | `Engine` | lifecycle and invocation handlers and the records they write |
| `Creation` | `Engine` | creation, its recoveries, the calls of the hypervisor backend, the hand-over and removal of copies |
| `Handlers` | `Engine` | what every handler has in common: planning, `Execute` in steps, `Validate`, `Reconcile`, the process that dies |
| `Disks` | `Handlers` | growth, move, removal and clone of disks, a single disk added and its dispositions |
| `Helper` | `Handlers` | the privileged helper: one call at a time, which may lose its answer |
| `Networks` | `Helper` | creation of a network and its resumption, the helper's journal of firewall rules |
| `Access` | `Helper` | grants and revocations of access to disks, the access lists of files and directories |
| `GuestSetup` | `Handlers` | recipes run in a guest, their stages, receipts and scripts |
| `Captures` | `Handlers` | capture of a machine's disks, catalogue and seal, backup, recovery and restoration |
| `Imports` | `Handlers` | preparation of images, their publication by rename, and their removal |
| `Machines` | `Handlers` | lifecycle, next-boot edits, live changes, reboot and removal of one machine, and its guest |
| `Pools` | `Handlers` | creation of a storage pool, start of one that exists |
| `Definitions` | | the saved definition of a machine, its reviewed edits and the digests they are confirmed by (`internal/backend/xmlpatch`) |
| `Configurations` | `Handlers`, `Definitions` | edits of the saved definition, and the step that defines an added disk, a moved disk or a clone |
| `Host` | the eight above, from `Networks` on | these handlers under one engine on one host |
| `EngineProofs` | `EngineLease` | theorems about the engine and its lease |
| `EngineUsersProofs` | `Plugins`, `Follower`, `EngineProofs` | theorems about two users of the engine |
| `TransportProofs`, `CreationProofs`, `HostProofs`, `DisksProofs` | the module they are about; the last three also `EngineProofs` | theorems about it |
| `HostOutcomesProofs` | `HostProofs` | theorems about what the handlers of the host report |
| `WorkspaceProofs` | `Workspace` | theorems about the terminal workspace |
| `MC*` | | constants for TLC |

**Journal and engine.** A transaction is one action; rows are records. The runner of job `j` is `runner[j]`: its
program counter, its step, *its own copy* of the row, the outcome of the last call. A request (`Cancel`, `Reconcile`) is
two or three transactions under the mutex, with the row it read kept in `request`: that runners' transactions come
between is what most properties are about. `begun`, `verified` and `undone` are history: which steps were executed,
confirmed, or proved to be without effect. `Crash` forgets runners and the request; `Recover` marks each interrupted
job; `Serve` waits for all. Handlers answer freely in `Engine`; the modules that extend it say when they answer what.
A refused request changes nothing and has no action.

**Plugins and creation** add handlers. Each handler step is an action that either leaves the engine alone or is
conjoined with the engine action it belongs to, so that `PluginSpec` and `CreationSpec` imply `Spec`; this is proved, not
assumed. In `Creation`, `work[j]` says how far `Execute` or `Reconcile` of job `j` has come and at which volume; `receipt`,
`proof`, `disposition`, `ownership` and `handed` are the metadata records and `review` the input of a plan made earlier;
`prepared`, `volume` and `vm` are the host. What a handler checks is an operator named for the check (`SourceServes`,
`VMAbsent`, `Inherits`, `AsReviewed`). Any step may fail, also after its effect (`WorkFails`), which is a lost answer.

**Handlers and the modules on it.** Planning observes the host and stores what it saw (`review[p]`, `StorePlan`); the plan
is applied later, perhaps twice. `work[j].at` is how far `Execute` of job `j` has come and `work[j].i` at which item;
it ends in one of `Results`: `ok`, `error`, `canceled-safely` (`SafeError`), `not-done`. A module of handlers gives `Handlers`
two operators: `Valid(p, owner)`, what `Validate` answers, and `Done(p, i, j)`, what `Reconcile` answers, and these are
the guards under which the engine's steps may happen (`EngineSteps`, `ProcessSteps`). Every record a handler stores and
every effect on the host is an action of its own, so a crash falls between any two. A handler's work may fail before or
after its effect at any point.

- `Disks`: `volume` is what the storage pools hold (absent, torn, blank, or whose bytes), `definition` the saved
  definitions of the machines; a plan locks its machines, the volumes it found and those it makes; `receipt` how many effects of a job are on record, `disposition` how an addition was closed.
- `Helper` and `Networks`: `reserved` is the reservation, `network` the definition and whether it runs, `filter` the rules
  firewalld has. `call` is the one call the helper works on: it writes the intent of each rule (`ruleIntent`), adds the
  rule, and may die between any two steps, leaving a torn record (`torn`). Another administrator may reload firewalld,
  which drops what is not permanent.
- `Access`: `file` is the access list of one file with its ctime; `accessIntent` and `accessResult` are the helper's
  journal, `accessReceipt` the coordinator's record. Grants of several users nest.
- `GuestSetup`: `stage` has the receipts, `sent` the scripts sent for each job, `running` those a guest runs; a script
  goes on when the connection is lost.
- `Captures`: `source` is the version of each disk, `staging` and `catalog` a set before and after its rename, with
  whether it is durable, `repository` and `backup` what the tool has stored and what the coordinator knows of it. Guests
  started by other tools write to the source.
- `Imports`: `folder` is what stands at each work folder and destination and `onDisk` what a loss of power leaves of it;
  the source may be edited between review and copy; `lost` is history: what a loss of power took back.
- `Machines`: `machine` is what libvirt holds (its state, saved image, saved definition, what it runs with) and what was asked
  of the balloon; values are the old or the reviewed one. `rebooted` are the jobs whose subscription saw a reboot,
  `machineReceipt` the receipts of reboots and removals; `called` and `reached` are history: whose call took effect, and
  for whom the machine was as reviewed. The guest shuts down, reboots and answers on its own (`GuestActs`).
- `Pools`: `pool` is each pool's state and autostart, `poolReserved` the reservation of a new one. Other tools start pools.
- `Definitions` and `Configurations`: a definition is a record with its devices in document order; an edit is a pair, what it
  refuses (`CanEject`) and what it gives (`Ejected`). `saved` and `live` are what libvirt holds, `clone` the definition of the
  clone, `basis` what the job at work read last. A define replaces the whole definition, and libvirt files, groups and places
  devices as it likes (`AsKept`, external), which is what the digests must look through. Other administrators define, start
  and stop the machine at any time. `defined`, `fulfilled` and `author` are history.
- `Host`: joins the last eight. The coordinator may die (`Crash` of the engine), the helper may die, and
  the host may lose power (`PowerLoss`), which takes both and what is not on a disk.

**Workspace** has an action per key and per message that `Update` handles: `m` is the program's value, with the form, review,
job page and approval (`chain`) it shows and one field per kind of answer it waits for (`asked`, `load`, `checking`,
`opening`, `apply`); a reply to something forgotten is dropped, as the tokens of `Pending` do. `saves` are the writes of the
saved setup under way, each with the `apply` call it guards; `file` and `writer` are the document and whether this
window's generation is still that of the file. `accepted` are the coordinator's jobs, accepted once per key (what
`OneJobPerKey` promises); `strays` are calls whose caller gave up and which may still arrive. `Clients` joins it with
`Follower`: the two share nothing but the coordinator, so a behaviour has one of them.

**Transport** has one action per statement that blocks or changes shared state in the accept loop, the connection
goroutine, the watcher of a heavy read and both calls of `Close`. **Follower** keeps the cursor and page of the process
and the lines its consumer has read.

*Abstracted everywhere:* ids, times, messages, wording, digests (a review is the record it digests), JSON and SQL
encodings (loss-free here), parsing and schema checks of inputs. *Mutant operators* ("Mutant of X") stand before the
definition they vary: each is a plausible bug, and replacing X by it makes TLC refute the property it is listed with.

## 3. Runs

| run | instance | shows |
|---|---|---|
| `engine_jobs` | 2 jobs, 4 plans (one step, two steps, two steps retaining effects, recovery), 2 resources, 1 cancel, 1 note, failing writes | type, exclusion, lock ownership, doubt keeps locks, earned success, no replay, cancellation, linked recoveries, one job per key, and that the engine implements `Lease` |
| `engine_progress` | 2 jobs, fairness | jobs come to rest, nothing hangs |
| `transport` | 2 clients, 1 slot, fairness | accounting of slots and token, quiet teardown; requests, heavy reads and shutdown end |
| `plugins` | 2 jobs out of 5 kinds of plan, 2 versions | authorised invocations, single activation, true outcomes |
| `clients` | command line: 1 job with more than 8 events, pages of 2; workspace: 5 keys, 1 failure, 4 plans, 4 jobs, 2 settings | order, completeness and the end of the stream; following ends; one job per review, remembered submissions, approved automatic steps, a busy window waits for something |
| `creation` | 3 jobs: a creation and recoveries of all 4 kinds, also of each other, 2 volumes, 1 cancel | true outcomes, recorded release, complete machines, true dispositions |
| `disks` | 11 pairs of operations on a machine with two disks, 2 jobs | disks are whole, data survives, true outcomes |
| `host` | 25 groups of plans, 2 jobs (3 for grants), 3 definitions | filtered networks, exclusive ranges, kept grants, scripts once and as reviewed, consistent and surviving sets, true copies, recognised edits, true outcomes |
| `recovery_holds_locks`, `plugin_result`, `creation_unresolved`, `copies_serve_first` | smallest instances | the disagreements of section 6 |

What the properties of the three largest runs mean:

- `DisksAreWhole`: no machine that can start names a disk that is missing or half copied. `DataSurvives`: what a disk held is
  somewhere until someone reviewed its removal. `DiskOutcomesAreTrue`: a job that ends as succeeded has brought about what
  was reviewed, one that ends as failed or canceled has left nothing behind.
- `ActiveNetworksAreFiltered`: a network is active only with all its rules, each on record as the helper's own.
  `SubnetsAreExclusive`: no two reservations or definitions overlap. `GrantsAreKept`: whoever was granted access and not
  revoked has it, whatever others were granted and revoked in between. `ScriptsRunAsReviewed`: no script of a recipe
  starts twice for one job or before its predecessors, and a guest never runs scripts of two jobs. `SetsAreConsistent`: a set under its final name has all members, of one moment.
  `SetsSurvive`: a set a job reported outlives a loss of power. `OfferedCopiesAreTrue`: images offered to a new
  machine are those that were reviewed. `HostOutcomesAreTrue`: as for disks; of a machine, that it was as reviewed at some
  time since the job was accepted, since its guest may have moved on when the outcome is written. It has four mutants, for
  backups, machines, pools and added disks. Of a definition it says that the machine was as it had been reviewed but for what
  the request asks for (`Fulfils`), stated without the edit. `EditsAreConfirmed`: a definition that nobody else has changed
  since is recognised as the reviewed one in whatever form libvirt keeps it, now and after a lost answer, unless libvirt had to add
  a PCI controller for it.

- `OneJobPerReview`: however a lost submission is repeated, a reviewed plan becomes one job. `SubmissionsAreRemembered`: while
  nobody knows what became of a setup that was sent, the saved one does not read as one being edited, whatever writes were
  still on their way, whichever window or failure comes next. `AutomaticStepsWereApproved`: a job the workspace started on
  its own follows a confirmed review whose approval names its kind, its target and all it asks for.
  `BusyHasACause`: every window that refuses keys still waits for an answer.
- Properties that join two parts: `AcceptancesAreSingle` is `RecoveriesAreChained` and `OneJobPerKey`, `LimitsAreAccounted` is
  `SlotsAreAccounted` and `TokenIsInUse`, `CallsEnd` is `RequestsEnd` and `HeavyReadsEnd`, `SetsAreTrue` is
  `SetsAreConsistent` and `SetsSurvive`, `StreamIsComplete` is `EveryEventReadOnce` and `EndIsLast`; each part has a mutant of its own.

**Bounds and why they are enough.** Two jobs suffice for exclusion and for lock hand-over, which relate two jobs; a third
adds only chains of recoveries, which `creation` has. Two steps are needed for a
boundary between steps and for a reconcile of a step that is not the last. Two resources tell overlap from equality. One
cancel per behaviour meets every point of every job's life; a second one repeats the same write of the same flag. One
progress note suffices for the same reason. Two volumes give "none, one, all" and an intent between two deletions; the
follower's two events per page give empty, full and partial pages. Two clients on one slot give one that is served and
one that is refused or waits for it. Job ids and keys are interchangeable, hence symmetry in runs without liveness; in
the modules on `Handlers` a new job takes a fixed free name instead, which is cheaper.
Crashes and restarts are unbounded. Constants that bound: `MaxCancels`, `MaxNotes`, `MaxAfter`, `MaxReviews`, `Page`, `Slots`, `N`.
Write failures are off (`WritesMayFail = FALSE`) outside the engine's runs, which
cover them; a crash at the same point covers their effect on the host. Progress notes are off there too: they change
no field that handlers read.

In `disks` and `host`, `PlanSets` bounds which plans meet in one behaviour and `Turns` as which of its jobs a plan may be
applied: plans that share no record, file or lock cannot disturb one another, so each set has plans of one subsystem and a
behaviour with several subsystems is an interleaving of behaviours with one. Within a set the plans are made at any time;
of two like plans (`net1`, `net2`; two recipes; two preparations; two pools) it does not matter which one is first, a
capture precedes what is done with it, and a revocation comes third, after two grants of either order or of one user. The
other plans are applied in any order, also twice. `PieceCount` = 2 and `DiskCount` = 2 give a torn copy; `MaxEdits` = 1 and
`MaxWrites` = 1 are one change of the source by other tools at any point, and what is checked compares two versions.
`MaxMeddling` = 1 is one definition, start or stop by another administrator at any point. `MCBases` are a machine that boots by
legacy classes and one that boots by device, with a channel, spare processors and firmware variables; `MACs` are one
address that is taken and one that is free. The plans on one
machine meet in pairs where the second needs what the first leaves (`pause` and `hard-stop`, `save` and `start`,
`autostart` and `undefine`, an edit and a live change); all of them take the lock of their machine. A machine is followed
only in behaviours with a plan about it.

In `clients`, three keys take a setup from its form through its one review to the last automatic step; the other two
(`MaxKeys` = 5) and the failure (`MaxFaults` = 1: a lost or failed answer, a failing write, another window, a quit, a death, a
failed job) come at any point. Four plans and jobs (`MaxReviews`, `MaxJobs`) are preparation, creation, start and removal; a
fifth is refused like any call that fails. One settings value starts the VM, both remove the prepared copy.

Deadlock is checked in every run but `clients` and `copies_serve_first`: a restart or another request is always possible, or
the system comes to a deliberate stop that the models make explicit. A window whose keys are used up waits for ever.

## 4. Fairness

- `Engine`: weak fairness of a runner's steps (goroutines that can run do, handlers return), *strong* fairness of the step
  boundary, which needs the mutex (Go's `sync.Mutex` hands over to a waiter after 1 ms, so it does not starve),
  weak fairness of requests' ends and of `Open`, `Recover`, `Serve` (`Restart=on-failure` in
  `packaging/systemd/virmilld.service:12`). Crashes are never required to stop: `JobsComeToRest` says "if they do".
- `Transport`: goroutines that can run do, light calls return, heavy ones return once their context is canceled. Clients
  are not fair: they may neither send nor hang up.
- `Follower`: the process goes on, and calls to a serving coordinator return. `Workspace` has safety properties only.

Liveness is checked without symmetry.

## 5. Proofs

All proofs hold for every value of the constants, under the named assumptions of the modules: `PlansAreComplete` and
`NullsAreNotValues` (plans name resources, have a step and an author; sentinels are not values), `PlanKinds`, `Bounds`,
`PluginPlans` and `InheritedIsSound` (one step per plan and the locks it names; the installation found at the start was
stored by an earlier coordinator, whose versions are never dropped), `CreationPlans` and `CreationNulls`, `CreationsLock` (a creation
locks its machine, the name and the pool, `service_linux.go:258`), `NoConnIsNone` (a sentinel), and
`NetworksAreAllocatedAlone`: any two network creations share a resource, because `networkResources`
(`network_creation.go:39`) puts the host-wide `network-allocation` into each; and `DisksDiffer`, a machine starts with disks of its own, and
`RequestsAreValid`, what the validators of disk requests accept (`vm_clone.go:40`, `disk_removal.go:41` and their like: one target for a growth,
a move or an addition, at least one for a clone or a removal, names of their own for the copies, the machines and new
volumes among the resources of the plan); and `GuestsAreSetUpAlone`: recipes for one
machine share a resource, because `resources` (`guestsetup/service.go:118`) names the machine in each; and
`FilesAreChangedAlone`: changes of access to a file share a resource, because every request names its machine
(`storageaccess/service_linux.go:155`); `MachinesAreChangedAlone`: so do the operations on one machine (`service.go:547`, `reboot.go:44`,
`removal.go:78`, `resource_live.go:211`); `NetworkPlansAreComplete`, of which the proofs need that what is resumed is a creation
(`network_creation.go:408`); and `CapturesAreTheirOwn`: each capture draws a new ID (`coldcapture/service_linux.go:163`) and names it as a resource (`:250`), and
a version of the disks is not "no data"; and `NilIsNothing`: the workspace's absent value (Go's nil or zero value) is none
of its numbers, settings or records. TLC evaluates each in some run.

- **`EngineProofs`**: `TypeCorrect`, `NoLockOutlivesItsJob`, `Exclusion`. Exclusion is not inductive: a cancel request can
  write an old row over that of a finished job, whose locks are gone. The invariant `OwnershipInv` adds that copies held by
  runners and requests describe the job they name (`RunnersHold`, `NotesAreCurrent`, `RequestIsCurrent`), that there are
  neither before `Serve` (`QuietUntilServing`), and that locks serve unfinished jobs. One lemma says what `Update` does to
  locks; each action is then a use of it.
  `DoubtIsGuarded`, `SuccessIsEarned`: `DoubtInv` adds `Progress`: steps before the runner's are
  confirmed (`Confirmed`), later ones not begun (`BegunBelow`), the row, the runner's copy and a request's copy agree on the
  step, and `undone` holds what the safe errors promised. Locks can then only go when no effect is in doubt. That a job
  awaiting recovery holds its locks *without* a doubt is not true (section 6).
  `AcceptedOnce`, `NoStepIsReplayed`, `CancellationsLast`, `CancellationEnds`, `EngineIsLease`, and
  `DoubtMovesOnlyWhole`. `AcceptanceInv` adds to `DoubtInv` that links lead to stored jobs (`LinksAreStored`), that no copy
  waiting to be written back carries a link, so that writing it cannot undo one (`CopiesAreUnlinked`: an acceptance of a
  recovery needs a parent without a goroutine, and the mutex), and that keys and jobs match one to one (`KeysNameJobs`).
  `JournalStep` and its lemma `NextJournal` say that any step of the engine observes, writes one row, accepts, accepts a recovery, or
  leaves the journal alone; each action property and the step simulation to `Lease` is then a case split over five
  disjuncts instead of over all actions. An observation or a write must be shown to keep the lease of what is in doubt:
  that is `DoubtInv`.
- **`EngineUsersProofs`**: `PluginsImplementEngine`, hence `PluginJobsAreSafe`; and `ActivationIsOnce` from `OnceInv`: an activated
  plan never again sees the installation it was reviewed against, because each commit stamps the record with a plan that
  no earlier review has seen. `CallsAreAuthorized` from `CallInv`: a job between its checks and its call holds the lock of
  its version (`RunnersHold`), the installation knows every version that was ever active (`VersionsAreKept`), so a change
  commits only if it lets that job finish. `PluginOutcomes` from `OutcomeInv`: the goroutine of a job that committed is
  past every point where it could fail (`Settled`), and what a reconcile confirms is a change on record.
  Of the follower, `StreamsAreWhole`. `FollowInv` adds that the event table ends with the state of the row
  (`LogTellsState`), that what the process last read was on record (`ReadingsAreRecorded`), and that cursor, page and
  page are in order (`CursorsAgree`). What a step may do to the followed row is `JournalStep` again.
- **`CreationProofs`**: `CreationImplementsEngine`, hence `CreationJobsAreSafe`; and `ReleaseComesAfterRecord` from
  `HandOverInv`: a job that fills volumes is inside `Execute` of a creation, and from its second volume on, or once it
  uploads, the hand-over is on record.
  `CreationTypeCorrect`, `VMsStayComplete`, `DispositionsStayTrue` and `CreationReportsAreTrue` from `CreationInv`. Its half
  `BaseInv` ties jobs to reviews (`ReviewsFit`, `RecoveriesFit`) and says when a handler may be at work (`WorkIsAsked`). The
  other, `RecipeInv`, says for each job and the recipe it is about what the handler may assume at each of its stages (`Stage`),
  what was seen of a job that is complete (`Observations`), and that a creation which is given up without a recovery has left
  nothing (`Remains`). Two jobs are never at work on one recipe, since a recovery covers the locks of the recipe's creation and
  these are not empty (`OneHolder`); a job that is only asked about meanwhile must be complete already, or it would still
  hold the locks (`OthersAreComplete`, from `DoubtKeepsLocks`), and what it finds it then finds again (`AccomplishedStays`). So a
  step needs to be examined for its own job and recipe only (`RecipeStep`). Around the handlers the engine may idle a job, confirm
  what was observed, or end it, and nothing else that matters to a recipe (`Passes`, `QuietRecipe`). `VMsAreComplete` is thus
  `Coherent` and `DispositionsAreTrue` is `Pinned`, neither of which is inductive alone: a machine is defined after its volumes were
  read, and a disposition committed after they were observed.
- **`TransportProofs`**: `LimitsHold`, `TransportTypes` (no slot count below zero), `TeardownAwaitsAll`. The slots in use are
  those of the goroutines that have not begun to end *and* that of the connection the accept loop has admitted but not yet started
  (`WithSlot`); counting needs that this one is not yet among the goroutines (`AdmitsOneAtATime`, `NewOnesAreUnserved`). Of the
  deferred calls the first gives back the slot, so that connections may be registered for a moment that have none (`Lingering`). Teardown is quiet because the deferred
  `Close` starts only when the loop has ended, so that nothing is spawned while it waits (`QuietInv`).
- **`HostProofs`**: `HostImplementsEngine`, hence `HostJobsAreSafe`, by frame lemmas: what each step of a handler leaves alone.
  On `HandlersInv` (the engine's invariant, and `work[j]` is idle for jobs not accepted) rest the results
  about networks, access and recipes, and those about sets and copies.
  `ActiveIsFiltered` from `FilterInv`: a network whose job is about to start it is already guarded, and rules only grow but
  for a reload, which keeps those of a network that has them all. `SubnetsDiffer` from
  `SubnetInv`: between a job's check and its reservation nobody else reserves, since two such jobs would share the lock on
  allocation and `RunnersAreExclusive` forbids it. `GrantsLast` from `AccessInv`: an intent of the helper adds
  its author or takes away only its author (`IntentsAreSound`), a revocation is one of a recorded grant
  (`RevocationsNameGrants`), and a job observed complete finds its entry (`ConfirmedGrantsLast`); that only such jobs are
  reported is `SuccessIsObserved` of the engine. `ScriptsAreReviewed` from `RecipeInv`: a script that still runs belongs to
  a stage with an intent and no receipt, so its job can neither end nor be observed complete and keeps the machine
  (`ScriptsHoldGuests`, `LocksEnd`); stages are noted in order and a receipt is never replaced (`StagesInv`,
  `ReceiptsConfirm`); and nobody takes over from a recipe, since recovery plans are those of networks
  (`RecoveriesAreOfNetworks`).
- **`HostProofs`**, second half: `SetsAreWhole` from `CaptureInv`: what was converted since the review lies between the reviewed
  and the present version, because the disks only change forwards, so after the recheck it is the reviewed one
  (`StagingInv`); what can become of the set under an ID in one step is `SetStep`, a set stays partial until its own
  capture renames it (`PublishingIsPartial`), snapshots are of sets whose name is there for good (`SnapshotsAreOfSets`),
  and a set that was confirmed is sealed, whole and durable (`ConfirmedSetsLast`). `OfferedCopiesStand` from `ImportInv`:
  between the first copy and the receipt the work folder is the preparation's own, and what is in it lies between the
  reviewed and the present version of the source (`PreparationFollows`); whoever works on images at a destination holds the
  resource that is named for it (`OneJobAtASite`), so that images which stand are touched by a loss of power or by a removal
  that says so, either on record (`RemovalFollows`) or in its review (`Misdirected`). The attempt to prove it without
  the last exception failed on a run of three jobs, which TLC then confirmed (section 6).
- **`HostOutcomesProofs`**: `SeenStaysDone` and, from it, `HostReportsAreTrue`: every clause of `HostOutcomesAreTrue` but the success
  of a change of a definition. Its inductive invariant is `HandledInv`, the invariants of `HostProofs` above, with `EffectsInv`. The engine
  writes a success only of a job that was observed complete and is on its way to the record (`Assured`), and an ending without effect
  only of a job that has begun no step (`Untried`) or whose handler says so (`Declines`); which handlers ever say so is `DeclinesAreFew`.
  `EffectsInv` says of each family what a job in these three positions finds on the host. A network nobody tried to create is not there, one
  that was seen active runs (`NetworksStand`). A call to the helper is that of a job at work, a revocation brings back the readers its grant found, and
  a seen grant is what the file has (`AccessesStand`). A receipt says that its script was sent (`ReceiptsWereSent`). Snapshots have
  the content of their set, volumes of a restored machine that of the review, and both carry the name of a job that was begun (`CapturesStand`). A
  folder is its maker's alone until the receipt is written (`ImportsStand`). Machines and pools are what `Reconcile` saw (`MachinesStand`, `PoolsStand`).
  For each family one lemma shows that a seen effect is `Achieved`, one that the other two positions mean `Untouched`. That others do not disturb
  an effect meanwhile is the lock they would need (`Holds`) where there is one, and otherwise that they only add. The attempt showed that the property asked for too
  much of a pool: two pools that exist before any plan may share a folder, and starting one of them is no untruth (`OwnFolder`).
- **`DisksProofs`**: `DisksImplementEngine` by the same frame lemmas, hence `DiskJobsAreSafe`; then `DisksStayWhole` and
  `NoDataIsLost` from one invariant, `DataInv`. A step of a handler is *calm* (it writes no volume and no definition), writes one
  volume, or replaces one definition. What makes a write harmless is that nobody uses the volume: new volumes are in no definition until
  they are complete (`MadeAreFree`, and `MakersSeeTheReview`: whoever makes volumes still sees the definition of the
  review), those about to be deleted are in none any more (`DoomedAreFree`), and no other job can bring either into a
  definition, since whoever could would hold the same lock. A new definition is harmless because the volumes it names are filled with
  what was at those targets (`Sharp`: no volume has two users; `Whole`; `ReviewsAreSharp`: a plan saw volumes that only its machine
  uses), and stay so until the job ends (`GuardedAreKept`). `DataIsSafe` says where each original disk's data is: in the volume
  of a user, in one that a job guards, or gone by an accepted removal. The first attempts failed for good reasons: the model
  locked machines but not the volumes of a plan, which each plan names (`local-file|` and the path, `vm_clone.go:57`); what a disk may hold was
  stated for a clone of an original only, and TLC's instance has neither clones of clones nor a clone of an added, blank disk.
  `DiskReportsAreTrue` from `OutcomeInv`: the engine writes a success only of a job whose step was observed complete (`Assured`,
  `OutcomesHaveReason`), what was observed and what an operation says it left alone (`Declined`) concern only volumes and machines
  the plan has locked, and no other job's step writes those (`LocksKeepOutcomes`, `LockedStay`); a disk that a disposition accepted
  stays in use while the disposition holds its locks (`AcceptedIsUsed`), which is why its mere record is proof enough.
- **`WorkspaceProofs`**: `StepIs` sorts every step of the workspace into five kinds, so that the invariants need not look at
  forty actions: steps that send nothing and leave the saved setup alone (`QuietStep`), steps by which the user decides about it
  (`FreshStep`), plans and submissions, writes that end, and what happens elsewhere. `Reasonable` (`WorkspaceIsReasonable`) has
  the types, that documents and pages name jobs that exist, and a cause for being busy from which
  `BusyHasACause` follows (`BusyWindowsWait`): a resumed preparation being checked counts only while its question
  is not shown again. `ReviewsBecomeOneJob` from `Sound`: everything sent, to be sent once a write ends, abandoned on the way or
  accepted has a plan and a key that were handed out, and two of them with one plan have one key and with one key one plan and one
  approval; the review on screen agrees with whatever was sent for it (`OnScreen`). `AutomaticStepsAreCovered` from
  `Approving`: a call the workspace makes on its own is covered when it is *made* and stays covered (`CoveredLasts`, since jobs only
  grow and succeed); the approval a window follows is the one its first job carries (`Follows`), and the review on screen fits
  it (`Fits`). `SentSetupsAreRemembered` from `Posted` and `Remembering`: each call is in one write at most and the window waits for
  it, nothing that is being edited is written after the write that sends (`Guards`), and while nobody knows the answer neither
  the file, the window nor any write on its way holds a setup being edited.

*Model-checked only:* liveness and everything with `ENABLED`, out of the prover's reach; and what depends on the edits of a definition:
`EditsAreConfirmed`, and of `HostOutcomesAreTrue` that a definition reported as changed is what was asked for (that one reported as not
changed was not touched is proved). The edits filter, regroup and rewrite sequences of devices with `SelectSeq`; that a
definition is recognised afterwards is a fact about these operators for sequences of any length, to be shown by induction over the sequence.

## 6. Disagreements found

1. `recovery_holds_locks`: `Engine.Cancel` writes back a row it read before the runner ended the job; a restart then marks the
   job recovery-required although its locks are gone, against the comment at `engine.go:337`.
2. `plugin_result`: an invocation plan applied under a second key is reconciled as succeeded on the first job's result,
   against `docs/adr/0004-plugin-installation-and-review.md:44`.
3. `creation_unresolved`: a creation that stops before its first receipt keeps its locks, and every recovery and
   reconciliation refuses it because the receipt is missing, against `docs/creation-cleanup.md:3`.
4. `copies_serve_first`: the workspace takes the start of *any* machine for the start of the machine it is setting up, and then
   removes the prepared copy, which was approved for after the creation, before or without one, against
   `docs/adr/0058-remove-prepared-copies.md:30`.

Each is a short trace of the model; the properties of the passing runs are stated so that they hold nevertheless.

Observed while modelling and not counted as disagreements; the models have each of them, and the properties are stated
to allow for it:

- The first `Close` may return while the accept loop still holds a connection it has not registered; the journal's file
  lock keeps a second coordinator out until then, and the second `Close` sweeps it.
- Interrupted moves and clones, changes of access, recipes, captures, backups, recoveries, restorations, imports and
  discards have no recovery plan: when their `Reconcile` cannot confirm them their locks are held for good. The same holds
  of a network creation that stops before its reservation, which also keeps the host-wide lock on allocation.
- Disks that were added, and originals a move has kept, cannot be removed by disk removal: the receipt of the addition
  names the volume for good, and removal only takes disks the machine names.
- A torn record in the helper's journal makes every later call for that network fail.
- `Reconcile` of an import does not sync the folder it finds, and a discard does not sync the one it removed from: a loss
  of power may take back either.
- An import that is prepared again after its images were discarded, and brought back by a loss of power, finds the plan's receipt
  in its way and asks for a recovery. `Reconcile` (`disks_linux.go:552`, `install_linux.go:455`, `stage_linux.go:1065`)
  compares the folder with the plan's receipt and never with the calling operation: the job succeeds on images that another
  job of the plan made, and `Approved` refuses it later (`approved_linux.go:91`). `HostOutcomesAreTrue` therefore asks
  for the images of some job of the plan.
- The removal of prepared copies and a creation share no lock; between the check for a user and the removal a creation
  may be accepted. It then fails at its own check of the copy.
- The removal of prepared copies goes by their destination. When the copies of one preparation are gone and those of
  another were published at the same place, removing the first takes the second's (`discard_linux.go:150`; three plans, so no
  run makes them all; `OfferedCopiesAreTrue` names the exception `Misdirected`).
- A user who was granted access to a file twice loses it with the revocation of the first grant.
- A shutdown that is not answered within a minute ends as failed, and the guest may still obey. A live change of memory that
  ends as failed after it asked for the earlier size may show the new one for a moment: the guest answers in its own time.
- A plain start of a machine with a saved image resumes that image. If the answer is lost and the guest shuts down before
  the machine is looked at, the job ends as failed without effect, and the image is gone; only `restore-saved` looks for it
  (`service.go:743`).
- A disposition of an unfinished disk addition that is interrupted before its record waits for a recovery that neither it nor
  the addition can be given any more (`disk_add_dispose_linux.go:105`), although `disk_add_linux.go:71` says that every addition
  needs a reviewed way out.
- Settings edited between the approval and the automatic creation are applied unreviewed in one corner: `Chain.Sent` is set when
  the hardware was read (`workspace.go:911`), Esc while the plan is awaited keeps the approval, and a later Preview of edited
  settings does not update it, so `chainPlanArrived` compares two old values. `AutomaticStepsWereApproved` therefore
  speaks of kind, target and acknowledgements, not of settings.
- The job an automatic step starts while another form is open closes that form as submitted, and every accepted job is written
  into a saved setup that is still marked as sent (`setupAccepted`). `SubmissionsAreRemembered` therefore does not say which
  job is remembered.
- Esc on a review does not drop a plan that is still awaited: confirm a creation, leave its review, press Preview once more, let the
  first answer close the form (`workspace.go:1036`) and open another prepared image. The late plan for the first image then arrives,
  `chainOfferFor` (`workspace_import_chain.go:99`) makes its offer from the form now open, and `startChain` (`:231`) takes the image of that
  form for the source. The approval, given for a machine made from the first image, ends with the removal of the second,
  although a step is "applied automatically only when it is the expected step for the approved images" (`:16`). It takes more keys than the
  run has; the proof of `AutomaticStepsWereApproved` found it, and the property therefore names the removed copy only
  when the approval began with its preparation.
- Esc on a review and again while its submission is awaited, then reading the hardware again, clears the mark of the
  submission (`workspace.go:885`) and the next autosave replaces it; `openNewVM` replaces it without the question about
  saved setups. Both count as the user's decision here (`unconfirmed` ends).
- A resumption that is left before its images were read keeps `draftResume` set, and with it autosave is off.
- libvirt cannot compare and define: an edit by another administrator between the last reading and the define is overwritten. A
  moved disk is defined from what is saved then, so an edit between the review and that reading is kept (`disk_move_linux.go:541`);
  all other edits refuse it.
- A clone whose interface libvirt gives an address of the original fails its read-back; a later reconcile, which looks at name
  and volumes only (`cloneState`), confirms it.
- A guest agent channel, or a disk on the PCI bus, for a machine without a free PCI slot makes libvirt add a controller. No comparison
  admits it (`guest_agent.go:383`), so the edit takes effect and its job still ends in need of a recovery, which a channel does not have;
  `EditsAreConfirmed` excepts it (`Crowded`), and the run has such a machine.
- The recovery of a backup into the catalogue it was taken from is always refused (`restic/tool_linux.go:343`).

## 7. Not modelled

`PROJECT.json` lists every component with its status. Left out for good:

- rendering, forms, parsing and the XML of cold restoration, USB and memory balloon: pure functions whose errors are unit-testable; host probes: reads; the
  hypervisor's own behaviour beyond the calls named; interference by other tools where the plans warn of it ("External
  tools can race observations", `cleanup_linux.go:139`), except where a module says otherwise;
- within modelled components: seeds, NVRAM bindings, device policies, free space and the reference graph of a deletion
  in `Creation` (each can only refuse); the worker protocol of plugins; frames and peer credentials of the transport; reading of
  archives and image formats in `Imports` (a version of the source stands for its content); the schema of manifests
  in `Captures`; positions in the XML text and devices no edit looks at in `Definitions`; the folder a pool start prepares in `Pools`;
  the search order of a free range in `Networks` (any that overlaps none); signatures of grants in `Access`;
- in the terminal workspace: the forms of actions other than setting up a VM, the quick New VM flow, the creation of networks
  and pools from a VM form, pickers and views. What they send is covered by the requests of `Engine`, which come in any
  order from any client;
- updating: one process downloads, verifies and renames a release under a file lock.

## 8. What is left

1. The hand-offs of the terminal workspace to network and pool creation and its New VM flow.
2. Should induction over sequences come within reach of the installed provers: `EditsAreConfirmed`, and with it the rest of
   `HostOutcomesAreTrue`.
