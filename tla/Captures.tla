------------------------------ MODULE Captures ------------------------------
(***************************************************************************)
(* Protecting a stopped machine: its disks are captured as one immutable   *)
(* set in a catalog (internal/coldcapture, internal/coldstore), a set is   *)
(* backed up into a restic repository and recovered from there             *)
(* (internal/localbackup, internal/backend/restic), and a new machine is   *)
(* restored from a set (coldcapture/restore_linux.go).                     *)
(*                                                                         *)
(* A set is named by its capture ID.  Its data are the versions of the     *)
(* disks it holds, all or none of them; hashes and sizes, which tell an    *)
(* incomplete set, are not spelled out.  Others may start and stop the     *)
(* captured machine with their own tools, and its guest then writes.       *)
(***************************************************************************)
EXTENDS Handlers, Sequences

CONSTANTS
  SetOf,      \* SetOf[p]: the capture set plan p makes or reads
  Archived,   \* sets only the repository has when the behaviour begins
  TakenHere,  \* those of them that this catalog had under the same path
  DiskCount,  \* the disks of the captured machine
  MaxWrites,  \* bound on the versions of each of them
  Nothing     \* no data, or not all of them

ASSUME CapturePlansAreComplete ==
  /\ DiskCount \in Nat \ {0} /\ MaxWrites \in Nat
  /\ SetOf \in [Plans -> STRING] /\ TakenHere \subseteq Archived /\ Archived \subseteq STRING
  /\ \A p \in Plans :
       Kind[p] \in {"capture", "backup", "recover", "restore"} => Steps[p] = 1 /\ p \notin RecoveryPlans

VARIABLES
  source,       \* the version of each disk of the machine
  staging,      \* capture plans: the disks converted in its private folder
  publication,  \* "cold-capture-publication" of each plan: its job
  catalog,      \* the set under each ID
  repository,   \* restic snapshots: the job they are tagged with, set, data
  backup,       \* the progress record of each backup and recovery job
  roundtrip,    \* what a backup job restored to verify it
  restored      \* restore plans: receipt, volumes and definition

captures == <<source, staging, publication, catalog, repository, backup, roundtrip, restored>>

CapturePlans == {p \in Plans : Kind[p] = "capture"}
RestorePlans == {p \in Plans : Kind[p] = "restore"}
BackupPlans == {p \in Plans : Kind[p] = "backup"}
RecoverPlans == {p \in Plans : Kind[p] = "recover"}
CaptureIDs == {SetOf[p] : p \in Plans} \cup Archived
CapturedDisks == 1..DiskCount
Versions == [CapturedDisks -> 0..MaxWrites]
Data == Versions \cup {Nothing}
CaptureInput == [source : Versions] \cup [data : Versions] \cup [snapshot : Jobs \cup {NoJob}, data : Versions]

\* Each capture plan draws a new ID and names it as a resource; no version of
\* the disks is no data.
ASSUME CapturesAreTheirOwn ==
  /\ Nothing \notin Versions
  /\ \A p, q \in CapturePlans :
       ResourceIDs[p] # {} /\ SetOf[p] \notin Archived /\ (SetOf[p] = SetOf[q] => p = q)

CapturesTypeOK ==
  /\ source \in Versions
  /\ staging \in [CapturePlans -> Seq(0..MaxWrites) \cup {Nothing}]
  /\ publication \in [CapturePlans -> Jobs \cup {NoJob}]
  /\ catalog \in [CaptureIDs -> [at : {"absent", "partial", "unsealed", "sealed"}, data : Data,
                                 by : Jobs \cup {NoJob}, durable : BOOLEAN]]
  /\ repository \subseteq [by : Jobs \cup {NoJob}, set : CaptureIDs, data : Versions]
  /\ backup \in [Jobs -> {"none", "intent", "snapshot-written", "roundtrip-intent", "restore-intent", "verified"}]
  /\ roundtrip \in [Jobs -> Data]
  /\ restored \in [RestorePlans -> [by : Jobs \cup {NoJob}, verified : Nat, volumes : Seq(0..MaxWrites), defined : BOOLEAN]]

NoSet == [at |-> "absent", data |-> Nothing, by |-> NoJob, durable |-> TRUE]
FirstVersion == [d \in CapturedDisks |-> 0]

\* An archived set was captured elsewhere, or here and its catalog was lost.
CapturesInit ==
  /\ source = FirstVersion
  /\ staging = [p \in CapturePlans |-> Nothing]
  /\ publication = [p \in CapturePlans |-> NoJob]
  /\ catalog = [c \in CaptureIDs |-> NoSet]
  /\ repository = {[by |-> NoJob, set |-> c, data |-> FirstVersion] : c \in Archived}
  /\ backup = [j \in Jobs |-> "none"]
  /\ roundtrip = [j \in Jobs |-> Nothing]
  /\ restored = [p \in RestorePlans |-> [by |-> NoJob, verified |-> 0, volumes |-> <<>>, defined |-> FALSE]]

-----------------------------------------------------------------------------
(* coldstore: what a reader of the catalog sees. *)

\* Inspect reads every member of a sealed set.
Whole(c) == catalog[c].at = "sealed" /\ catalog[c].data # Nothing

\* Mutant of Refreshed: a reader has no reason to sync anything.
RefreshedNot(set) == set

\* Inspect also syncs the members, the folders and the catalog.
Refreshed(set) == [set EXCEPT !.durable = TRUE]

Inspected(c) == catalog' = [catalog EXCEPT ![c] = Refreshed(@)]

\* SealRestored verifies every member before it seals and syncs the set.
Seals(c) == catalog' = [catalog EXCEPT ![c].at = "sealed", ![c].durable = TRUE]

-----------------------------------------------------------------------------
(* Planning and Validate. *)

CaptureValid(p, owner) ==
  CASE Kind[p] = "capture" -> source = review[p].source
    [] Kind[p] = "backup" -> Whole(SetOf[p]) /\ catalog[SetOf[p]].data = review[p].data
    [] Kind[p] = "recover" -> catalog[SetOf[p]].at = "absent"
    [] Kind[p] = "restore" ->
         /\ Whole(SetOf[p]) /\ catalog[SetOf[p]].data = review[p].data
         /\ ~restored[p].defined /\ restored[p].volumes = <<>>

PlanCapture(p) ==
  /\ StorePlan(p, [source |-> source])
  /\ UNCHANGED captures

\* A backup or a restoration is planned for a set that was just inspected.
PlanFromSet(p) ==
  /\ Whole(SetOf[p])
  /\ StorePlan(p, [data |-> catalog[SetOf[p]].data])
  /\ Inspected(SetOf[p])
  /\ UNCHANGED <<source, staging, publication, repository, backup, roundtrip, restored>>

\* The saved receipt names the snapshot and the digest of its manifest.
PlanRecovery(p) ==
  /\ catalog[SetOf[p]].at = "absent"
  /\ \E s \in repository :
       s.set = SetOf[p] /\ StorePlan(p, [snapshot |-> s.by, data |-> s.data])
  /\ UNCHANGED captures

-----------------------------------------------------------------------------
(* coldcapture: Execute of a capture. *)

CaptureStep(j, kind, at) == Does(j, kind) /\ In(j, at) /\ KeepsEngine
Unaltered(p) == source = review[p].source

\* A private folder is never used twice.
StartCapture(j) ==
  LET p == PlanOf(j) IN
  /\ CaptureStep(j, "capture", "idle") /\ Unaltered(p) /\ staging[p] = Nothing
  /\ staging' = [staging EXCEPT ![p] = <<>>]
  /\ GoTo(j, "check", 1)
  /\ UNCHANGED <<source, publication, catalog, repository, backup, roundtrip, restored>>

CheckSource(j) ==
  /\ CaptureStep(j, "capture", "check")
  /\ ~Canceled(j) /\ Unaltered(PlanOf(j))
  /\ Go(j, "convert")
  /\ UNCHANGED captures

\* The conversion reads what the disk holds by now.
ConvertDisk(j) ==
  LET p == PlanOf(j)
      d == work[j].i IN
  /\ CaptureStep(j, "capture", "convert")
  /\ staging' = [staging EXCEPT ![p] = Append(@, source[d])]
  /\ IF d < DiskCount THEN GoTo(j, "check", d + 1) ELSE Go(j, "recheck")
  /\ UNCHANGED <<source, publication, catalog, repository, backup, roundtrip, restored>>

\* Mutant of RecheckSource: the disks were checked before each conversion.
RecheckSourceNot(j) ==
  /\ CaptureStep(j, "capture", "recheck") /\ ~Canceled(j)
  /\ Go(j, "publish")
  /\ UNCHANGED captures

\* held.Recheck and Validate, once more after the last conversion.
RecheckSource(j) ==
  /\ CaptureStep(j, "capture", "recheck") /\ ~Canceled(j)
  /\ Unaltered(PlanOf(j))
  /\ Go(j, "publish")
  /\ UNCHANGED captures

RecordPublication(j) ==
  LET p == PlanOf(j) IN
  /\ CaptureStep(j, "capture", "publish") /\ publication[p] = NoJob
  /\ publication' = [publication EXCEPT ![p] = j]
  /\ Go(j, "name")
  /\ UNCHANGED <<source, staging, catalog, repository, backup, roundtrip, restored>>

\* publish: the name of the unfinished set.
NamePartial(j) ==
  LET c == SetOf[PlanOf(j)] IN
  /\ CaptureStep(j, "capture", "name") /\ catalog[c].at = "absent"
  /\ catalog' = [catalog EXCEPT ![c] = [NoSet EXCEPT !.at = "partial", !.by = j, !.durable = FALSE]]
  /\ Go(j, "write")
  /\ UNCHANGED <<source, staging, publication, repository, backup, roundtrip, restored>>

\* Every member is written, synced and read back before the set is renamed.
WriteMembers(j) ==
  LET p == PlanOf(j) IN
  /\ CaptureStep(j, "capture", "write")
  /\ catalog' = [catalog EXCEPT ![SetOf[p]].data = staging[p], ![SetOf[p]].durable = TRUE]
  /\ Go(j, "rename")
  /\ UNCHANGED <<source, staging, publication, repository, backup, roundtrip, restored>>

RenameSet(j) ==
  /\ CaptureStep(j, "capture", "rename")
  /\ catalog' = [catalog EXCEPT ![SetOf[PlanOf(j)]].at = "sealed", ![SetOf[PlanOf(j)]].durable = FALSE]
  /\ Go(j, "inspect")
  /\ UNCHANGED <<source, staging, publication, repository, backup, roundtrip, restored>>

InspectPublished(j) ==
  /\ CaptureStep(j, "capture", "inspect") /\ Whole(SetOf[PlanOf(j)])
  /\ Inspected(SetOf[PlanOf(j)])
  /\ Go(j, "clean")
  /\ UNCHANGED <<source, staging, publication, repository, backup, roundtrip, restored>>

RemoveStaging(j) ==
  /\ CaptureStep(j, "capture", "clean")
  /\ staging' = [staging EXCEPT ![PlanOf(j)] = Nothing]
  /\ Go(j, "ok")
  /\ UNCHANGED <<source, publication, catalog, repository, backup, roundtrip, restored>>

-----------------------------------------------------------------------------
(* localbackup: Execute of a backup, with the calls of restic. *)

BackedUp(j, progress) == backup' = [backup EXCEPT ![j] = progress]

IntendBackup(j) ==
  /\ CaptureStep(j, "backup", "idle") /\ ~Canceled(j)
  /\ BackedUp(j, "intent")
  /\ Go(j, "upload")
  /\ UNCHANGED <<source, staging, publication, catalog, repository, roundtrip, restored>>

Upload(j) ==
  LET c == SetOf[PlanOf(j)] IN
  /\ CaptureStep(j, "backup", "upload") /\ Whole(c)
  /\ repository' = repository \cup {[by |-> j, set |-> c, data |-> catalog[c].data]}
  /\ Go(j, "uploaded")
  /\ UNCHANGED <<source, staging, publication, catalog, backup, roundtrip, restored>>

RecordSnapshot(j) ==
  /\ CaptureStep(j, "backup", "uploaded")
  /\ BackedUp(j, "snapshot-written")
  /\ Go(j, "prepare")
  /\ UNCHANGED <<source, staging, publication, catalog, repository, roundtrip, restored>>

IntendRoundtrip(j) ==
  /\ CaptureStep(j, "backup", "prepare") /\ ~Canceled(j) /\ Whole(SetOf[PlanOf(j)])
  /\ BackedUp(j, "roundtrip-intent")
  /\ Go(j, "download")
  /\ UNCHANGED <<source, staging, publication, catalog, repository, roundtrip, restored>>

\* Whether restic brought back everything shows when the set is sealed.
DownloadRoundtrip(j) ==
  /\ CaptureStep(j, "backup", "download") /\ ~Canceled(j)
  /\ \E s \in repository :
       s.by = j /\ roundtrip' \in {roundtrip, [roundtrip EXCEPT ![j] = s.data]}
  /\ Go(j, "seal")
  /\ UNCHANGED <<source, staging, publication, catalog, repository, backup, restored>>

RecordRoundtrip(j) ==
  /\ CaptureStep(j, "backup", "seal") /\ ~Canceled(j)
  /\ roundtrip[j] = review[PlanOf(j)].data
  /\ BackedUp(j, "verified")
  /\ Go(j, "ok")
  /\ UNCHANGED <<source, staging, publication, catalog, repository, roundtrip, restored>>

-----------------------------------------------------------------------------
(* localbackup: Execute of a recovery. *)

IntendRecovery(j) ==
  /\ CaptureStep(j, "recover", "idle") /\ ~Canceled(j)
  /\ BackedUp(j, "restore-intent")
  /\ Go(j, "download")
  /\ UNCHANGED <<source, staging, publication, catalog, repository, roundtrip, restored>>

\* Tool.Restore refuses a destination that is the source of the snapshot.
MayDownload(s) == s.by = NoJob /\ s.set \notin TakenHere

DownloadSet(j) ==
  LET p == PlanOf(j)
      c == SetOf[p] IN
  /\ CaptureStep(j, "recover", "download") /\ ~Canceled(j) /\ catalog[c].at = "absent"
  /\ \E s \in repository, whole \in BOOLEAN :
       /\ s.set = c /\ s.by = review[p].snapshot /\ MayDownload(s)
       /\ catalog' = [catalog EXCEPT ![c] =
            [at |-> "unsealed", data |-> IF whole THEN s.data ELSE Nothing, by |-> j, durable |-> FALSE]]
  /\ Go(j, "seal")
  /\ UNCHANGED <<source, staging, publication, repository, backup, roundtrip, restored>>

Sealable(p) == catalog[SetOf[p]].data = review[p].data

SealSet(j) ==
  LET p == PlanOf(j) IN
  /\ CaptureStep(j, "recover", "seal") /\ Sealable(p)
  /\ Seals(SetOf[p])
  /\ Go(j, "record")
  /\ UNCHANGED <<source, staging, publication, repository, backup, roundtrip, restored>>

RecordRecovery(j) ==
  /\ CaptureStep(j, "recover", "record") /\ ~Canceled(j)
  /\ BackedUp(j, "verified")
  /\ Go(j, "ok")
  /\ UNCHANGED <<source, staging, publication, catalog, repository, roundtrip, restored>>

-----------------------------------------------------------------------------
(* coldcapture/restore_linux.go: Execute of a restoration. *)

Restores(p, now) == restored' = [restored EXCEPT ![p] = now]

\* ComparePut: one receipt for each plan.
IntendRestore(j) ==
  LET p == PlanOf(j) IN
  /\ CaptureStep(j, "restore", "idle") /\ restored[p].by = NoJob
  /\ Restores(p, [restored[p] EXCEPT !.by = j])
  /\ GoTo(j, "allocate", 1)
  /\ UNCHANGED <<source, staging, publication, catalog, repository, backup, roundtrip>>

\* AllocateVolume and PopulateVolume, and the record of the verified volume.
RestoreVolume(j) ==
  LET p == PlanOf(j)
      d == work[j].i IN
  /\ CaptureStep(j, "restore", "allocate")
  /\ ~Canceled(j) /\ ~restored[p].defined /\ Whole(SetOf[p])
  /\ Restores(p, [restored[p] EXCEPT !.volumes = Append(@, catalog[SetOf[p]].data[d])])
  /\ Go(j, "verified")
  /\ UNCHANGED <<source, staging, publication, catalog, repository, backup, roundtrip>>

RecordVolume(j) ==
  LET p == PlanOf(j)
      d == work[j].i IN
  /\ CaptureStep(j, "restore", "verified")
  /\ Restores(p, [restored[p] EXCEPT !.verified = d])
  /\ IF d < DiskCount THEN GoTo(j, "allocate", d + 1) ELSE Go(j, "define")
  /\ UNCHANGED <<source, staging, publication, catalog, repository, backup, roundtrip>>

\* DefineRestoredVM, and the receipt that it was defined.
DefineRestored(j) ==
  LET p == PlanOf(j) IN
  /\ CaptureStep(j, "restore", "define")
  /\ ~Canceled(j) /\ ~restored[p].defined
  /\ Restores(p, [restored[p] EXCEPT !.defined = TRUE])
  /\ Go(j, "ok")
  /\ UNCHANGED <<source, staging, publication, catalog, repository, backup, roundtrip>>

-----------------------------------------------------------------------------
(* Reconcile.  Looking at a set makes it durable, and a recovery that was    *)
(* interrupted after the download is sealed and recorded.                    *)

ObserveSet(j) ==
  LET p == jobs[j].planID IN
  /\ Reconciling(j) /\ Kind[p] = "capture" /\ Whole(SetOf[p])
  /\ Inspected(SetOf[p]) /\ catalog' # catalog
  /\ KeepsEngine
  /\ UNCHANGED <<source, staging, publication, repository, backup, roundtrip, restored, work>>

ObserveRecovery(j) ==
  LET p == jobs[j].planID IN
  /\ Reconciling(j) /\ Kind[p] = "recover"
  /\ backup[j] \in {"restore-intent", "verified"} /\ Sealable(p)
  /\ Seals(SetOf[p]) /\ BackedUp(j, "verified") /\ <<catalog, backup>>' # <<catalog, backup>>
  /\ KeepsEngine
  /\ UNCHANGED <<source, staging, publication, repository, roundtrip, restored, work>>

CaptureDone(p, j) ==
  /\ Whole(SetOf[p]) /\ Refreshed(catalog[SetOf[p]]) = catalog[SetOf[p]]
  /\ catalog[SetOf[p]].by = j /\ publication[p] = j

\* Mutant of BackupDone: the snapshot is there, so the backup is.
BackupDoneOnceUploaded(p, j) ==
  backup[j] # "none" /\ \E s \in repository : s.by = j

BackupDone(p, j) ==
  /\ backup[j] = "verified" /\ roundtrip[j] = review[p].data
  /\ Cardinality({s \in repository : s.by = j}) = 1

RecoveryDone(p, j) ==
  backup[j] = "verified" /\ Whole(SetOf[p]) /\ catalog[SetOf[p]].durable

RestoreDone(p, j) ==
  restored[p].by = j /\ restored[p].verified = DiskCount /\ restored[p].defined

CapturesDone(p, j) ==
  CASE Kind[p] = "capture" -> CaptureDone(p, j)
    [] Kind[p] = "backup" -> BackupDone(p, j)
    [] Kind[p] = "recover" -> RecoveryDone(p, j)
    [] Kind[p] = "restore" -> RestoreDone(p, j)

-----------------------------------------------------------------------------
(* The host. *)

\* Somebody starts the machine; its guest writes to a disk.  What it wrote
\* before a capture was planned tells nothing apart.
GuestWrites ==
  /\ \E p \in CapturePlans : Planned(p)
  /\ \E d \in CapturedDisks :
       source[d] < MaxWrites /\ source' = [source EXCEPT ![d] = @ + 1]
  /\ KeepsEngine
  /\ UNCHANGED <<staging, publication, catalog, repository, backup, roundtrip, restored, work>>

\* What is not synced may be lost: a name, a rename, recovered members.
MayRemain(set) ==
  IF set.durable THEN {set}
  ELSE CASE set.at = "partial" -> {set, NoSet}
         [] set.at = "unsealed" -> {set, [set EXCEPT !.data = Nothing], NoSet}
         [] OTHER -> {set, [set EXCEPT !.at = "partial", !.durable = TRUE]}

CapturesLosePower ==
  /\ \E left \in [CaptureIDs -> UNION {MayRemain(catalog[c]) : c \in CaptureIDs}] :
       /\ \A c \in CaptureIDs : left[c] \in MayRemain(catalog[c])
       /\ catalog' = left
  /\ UNCHANGED <<source, staging, publication, repository, backup, roundtrip, restored>>

CaptureWork(j) ==
  \/ StartCapture(j) \/ CheckSource(j) \/ ConvertDisk(j) \/ RecheckSource(j) \/ RecordPublication(j)
  \/ NamePartial(j) \/ WriteMembers(j) \/ RenameSet(j) \/ InspectPublished(j) \/ RemoveStaging(j)
  \/ IntendBackup(j) \/ Upload(j) \/ RecordSnapshot(j)
  \/ IntendRoundtrip(j) \/ DownloadRoundtrip(j) \/ RecordRoundtrip(j)
  \/ IntendRecovery(j) \/ DownloadSet(j) \/ SealSet(j) \/ RecordRecovery(j)
  \/ IntendRestore(j) \/ RestoreVolume(j) \/ RecordVolume(j) \/ DefineRestored(j)
  \/ ObserveSet(j) \/ ObserveRecovery(j)

-----------------------------------------------------------------------------
(* What must hold. *)

\* A sealed set is one state of the machine, the one that was reviewed: all of
\* its disks, none of them written between two conversions (Execute, publish,
\* SealRestored).
SetsAreConsistent ==
  \A c \in CaptureIDs : catalog[c].at = "sealed" =>
    \/ \E p \in CapturePlans : SetOf[p] = c /\ Planned(p) /\ catalog[c].data = review[p].source
    \/ \E s \in repository : s.set = c /\ catalog[c].data = s.data

\* A capture or recovery that was reported successful keeps its sealed set, also
\* when the host loses power, whichever of rename and sync the coordinator died
\* between (publish, Inspect, Reconcile).
SetsSurvive ==
  \A j \in Jobs :
    Stored(j) /\ jobs[j].state = "succeeded" /\ Kind[jobs[j].planID] \in {"capture", "recover"} =>
      Whole(SetOf[jobs[j].planID])

\* A set is what was reviewed and stays what was reported.
SetsAreTrue == SetsAreConsistent /\ SetsSurvive

CaptureAchieved(j) ==
  LET p == jobs[j].planID
      c == SetOf[p] IN
  CASE Kind[p] = "capture" -> Whole(c) /\ catalog[c].data = review[p].source
    [] Kind[p] = "backup" -> \E s \in repository : s.by = j /\ s.data = roundtrip[j]
    [] Kind[p] = "recover" -> Whole(c) /\ catalog[c].data = review[p].data
    [] Kind[p] = "restore" -> restored[p].defined /\ restored[p].volumes = review[p].data

CaptureUntouched(j) ==
  LET p == jobs[j].planID IN
  CASE Kind[p] \in {"capture", "recover"} -> catalog[SetOf[p]].by # j
    [] Kind[p] = "backup" -> \A s \in repository : s.by # j
    [] Kind[p] = "restore" -> restored[p].by # j
=============================================================================
