------------------------------ MODULE Imports ------------------------------
(***************************************************************************)
(* Preparing independent copies of disks for a new machine                 *)
(* (internal/importing: import.prepare, import.prepare-disks and           *)
(* import.prepare-install) and removing them again (import.discard).       *)
(*                                                                         *)
(* The three preparations differ in what they read; all work in a private  *)
(* folder named for their plan, write a receipt and publish by one rename. *)
(* A folder is known by the job that made it, which stands for its device  *)
(* and inode, and by the version of the source each copy in it was taken   *)
(* from.  What is not synced may come back, or go, with the power.         *)
(***************************************************************************)
EXTENDS Handlers, Sequences

CONSTANTS
  Destination,  \* Destination[p]: the folder a preparation publishes
  PieceCount,   \* the disks of a preparation
  MaxEdits      \* bound on the versions of the source

\* The resource "import-artifact" of a folder is named for it.
ASSUME ImportPlansAreComplete ==
  /\ PieceCount \in Nat \ {0} /\ MaxEdits \in Nat
  /\ Destination \in [Plans -> STRING] /\ {Destination[p] : p \in Plans} \cap Plans = {}
  /\ \A p \in Plans :
       /\ Kind[p] = "prepare" => Steps[p] = 1 /\ p \notin RecoveryPlans /\ Destination[p] \in ResourceIDs[p]
       /\ Kind[p] = "discard" => Steps[p] = 2 /\ p \notin RecoveryPlans \cup Retaining

VARIABLES
  original,   \* the version of the source files
  folder,     \* the work folder of each preparation, and its destination
  onDisk,     \* what of them a loss of power leaves
  artifacts,  \* "import-artifact" of each preparation plan
  discarded,  \* "import-discarded" of each preparation job: who removed it
  lost        \* history: preparations a loss of power took back

imports == <<original, folder, onDisk, artifacts, discarded, lost>>

PreparePlans == {p \in Plans : Kind[p] = "prepare"}
DiscardPlans == {p \in Plans : Kind[p] = "discard"}
WorkFolder(p) == p
Places == PreparePlans \cup {Destination[p] : p \in PreparePlans}
Folder == [by : Jobs \cup {NoJob}, copies : Seq(0..MaxEdits)]
NoFolder == [by |-> NoJob, copies |-> <<>>]
ImportInput ==
  [version : 0..MaxEdits] \cup [of : Jobs, work : Jobs \cup {NoJob}, images : Jobs \cup {NoJob}]

ImportsTypeOK ==
  /\ original \in 0..MaxEdits
  /\ folder \in [Places -> Folder] /\ onDisk \in [Places -> Folder]
  /\ artifacts \in [PreparePlans -> Folder]
  /\ discarded \in [Jobs -> Jobs \cup {NoJob}] /\ lost \subseteq Jobs

ImportsInit ==
  /\ original = 0
  /\ folder = [x \in Places |-> NoFolder] /\ onDisk = [x \in Places |-> NoFolder]
  /\ artifacts = [p \in PreparePlans |-> NoFolder]
  /\ discarded = [j \in Jobs |-> NoJob] /\ lost = {}

Exists(x) == folder[x].by # NoJob
AllCopied(version) == [i \in 1..PieceCount |-> version]

-----------------------------------------------------------------------------
(* Planning and Validate. *)

\* validate: the source as it was hashed, and nothing at the destination.
SourceAsReviewed(p) == original = review[p].version /\ ~Exists(Destination[p])

PlanPreparation(p) ==
  /\ ~Exists(Destination[p])
  /\ StorePlan(p, [version |-> original])
  /\ UNCHANGED imports

\* preparation: a successful one.
Prepared(k) == Stored(k) /\ jobs[k].state = "succeeded" /\ Kind[jobs[k].planID] = "prepare"

\* busy: a job that names the preparation and is not over.
InUse(k, self) ==
  \E i \in Jobs \ {k, self} :
    /\ Stored(i) /\ ~(Terminal(jobs[i].state) /\ jobs[i].state \notin {"partial", "recovery-required"})
    /\ Kind[jobs[i].planID] = "discard" /\ review[jobs[i].planID].of = k

\* Only discards that remove both folders, and find them; others have one step.
PlanDiscard(p) ==
  /\ \E k \in Jobs :
       LET made == jobs[k].planID IN
       /\ Prepared(k) /\ discarded[k] = NoJob /\ ~InUse(k, NoJob)
       /\ Exists(WorkFolder(made)) /\ Exists(Destination[made]) /\ ResourceIDs[p] = {Destination[made]}
       /\ StorePlan(p, [of |-> k, work |-> folder[WorkFolder(made)].by,
                        images |-> folder[Destination[made]].by])
  /\ UNCHANGED imports

\* observe and the comparison with the review.
Unreplaced(x, reviewed) == folder[x].by \in {reviewed, NoJob}

ImportValid(p, owner) ==
  CASE Kind[p] = "prepare" -> SourceAsReviewed(p)
    [] Kind[p] = "discard" ->
         LET k == review[p].of IN
         /\ Prepared(k) /\ ~InUse(k, owner)
         /\ Unreplaced(WorkFolder(jobs[k].planID), review[p].work)
         /\ Unreplaced(Destination[jobs[k].planID], review[p].images)

-----------------------------------------------------------------------------
(* Execute of a preparation. *)

ImportStep(j, kind, at) == Does(j, kind) /\ In(j, at) /\ KeepsEngine

StartPreparation(j) ==
  LET p == PlanOf(j) IN
  /\ ImportStep(j, "prepare", "idle") /\ SourceAsReviewed(p) /\ ~Exists(WorkFolder(p))
  /\ folder' = [folder EXCEPT ![WorkFolder(p)] = [by |-> j, copies |-> <<>>]]
  /\ Go(j, "copy")
  /\ UNCHANGED <<original, onDisk, artifacts, discarded, lost>>

\* The conversion reads the source as it is by now.
CopyPiece(j) ==
  LET x == WorkFolder(PlanOf(j))
      copies == Append(folder[x].copies, original) IN
  /\ ImportStep(j, "prepare", "copy") /\ ~Canceled(j)
  /\ folder' = [folder EXCEPT ![x].copies = copies]
  /\ Go(j, IF Len(copies) < PieceCount THEN "copy" ELSE "recheck")
  /\ UNCHANGED <<original, onDisk, artifacts, discarded, lost>>

\* Mutant of RecheckOriginal: the source was validated when Execute began.
RecheckOriginalNot(j) ==
  /\ ImportStep(j, "prepare", "recheck")
  /\ Go(j, "record")
  /\ UNCHANGED imports

\* validate once more, before anything is published.
RecheckOriginal(j) ==
  /\ ImportStep(j, "prepare", "recheck") /\ SourceAsReviewed(PlanOf(j))
  /\ Go(j, "record")
  /\ UNCHANGED imports

\* ComparePut: one receipt for each plan.
RecordArtifact(j) ==
  LET p == PlanOf(j) IN
  /\ ImportStep(j, "prepare", "record") /\ ~Canceled(j) /\ artifacts[p] = NoFolder
  /\ artifacts' = [artifacts EXCEPT ![p] = folder[WorkFolder(p)]]
  /\ Go(j, "rename")
  /\ UNCHANGED <<original, folder, onDisk, discarded, lost>>

\* RENAME_NOREPLACE; the work folder stays, without the copies.
PublishCopies(j) ==
  LET p == PlanOf(j) IN
  /\ ImportStep(j, "prepare", "rename") /\ ~Exists(Destination[p])
  /\ folder' = [folder EXCEPT ![Destination[p]] = folder[WorkFolder(p)], ![WorkFolder(p)].copies = <<>>]
  /\ Go(j, "sync")
  /\ UNCHANGED <<original, onDisk, artifacts, discarded, lost>>

\* All folders have one parent.
SyncParent(j) ==
  /\ ImportStep(j, "prepare", "sync")
  /\ onDisk' = folder
  /\ Go(j, "ok")
  /\ UNCHANGED <<original, folder, artifacts, discarded, lost>>

\* ErrCanceledSafely, before the receipt: the work folder is removed.
CancelPreparation(j) ==
  LET p == PlanOf(j) IN
  /\ Does(j, "prepare") /\ Canceled(j) /\ work[j].at \in {"idle", "copy", "recheck", "record"}
  /\ KeepsEngine /\ Go(j, "canceled-safely")
  /\ folder' = IF In(j, "idle") THEN folder ELSE [folder EXCEPT ![WorkFolder(p)] = NoFolder]
  /\ UNCHANGED <<original, onDisk, artifacts, discarded, lost>>

-----------------------------------------------------------------------------
(* Execute of a discard: first the work folder, then the images. *)

Doomed(p, i) ==
  LET made == jobs[review[p].of].planID IN
  IF i = 0 THEN WorkFolder(made) ELSE Destination[made]
Reviewed(p, i) == IF i = 0 THEN review[p].work ELSE review[p].images

\* "Recorded first, so an interrupted removal is never offered again."
RecordDiscard(j) ==
  LET k == review[PlanOf(j)].of IN
  /\ ImportStep(j, "discard", "idle") /\ runner[j].i = 1
  /\ discarded' = [discarded EXCEPT ![k] = IF @ = NoJob THEN j ELSE @]
  /\ Go(j, "remove")
  /\ UNCHANGED <<original, folder, onDisk, artifacts, lost>>

\* RemoveAll takes one file after another.
BeginRemoval(j) ==
  LET p == PlanOf(j)
      x == Doomed(p, runner[j].i) IN
  /\ Does(j, "discard") /\ KeepsEngine
  /\ In(j, "remove") \/ (In(j, "idle") /\ runner[j].i = 0)
  /\ Unreplaced(x, Reviewed(p, runner[j].i))
  /\ folder' = [folder EXCEPT ![x].copies = <<>>]
  /\ Go(j, "removing")
  /\ UNCHANGED <<original, onDisk, artifacts, discarded, lost>>

EndRemoval(j) ==
  LET x == Doomed(PlanOf(j), runner[j].i) IN
  /\ ImportStep(j, "discard", "removing")
  /\ folder' = [folder EXCEPT ![x] = NoFolder]
  /\ Go(j, "ok")
  /\ UNCHANGED <<original, onDisk, artifacts, discarded, lost>>

-----------------------------------------------------------------------------
(* Reconcile, and the host. *)

\* The published folder equals the receipt; it is not synced here.
PreparationDone(p) == artifacts[p] # NoFolder /\ folder[Destination[p]] = artifacts[p]

ImportsDone(p, i) ==
  CASE Kind[p] = "prepare" -> PreparationDone(p)
    [] Kind[p] = "discard" -> ~Exists(Doomed(p, i))

\* The owner of the source changes it after a preparation was reviewed.
EditSource ==
  /\ \E p \in PreparePlans : Planned(p)
  /\ original < MaxEdits /\ original' = original + 1
  /\ KeepsEngine
  /\ UNCHANGED <<folder, onDisk, artifacts, discarded, lost, work>>

ImportsLosePower ==
  /\ \E taken \in SUBSET {x \in Places : folder[x] # onDisk[x]} :
       LET left == [x \in Places |-> IF x \in taken THEN onDisk[x] ELSE folder[x]] IN
       /\ folder' = left /\ onDisk' = left
       /\ lost' = lost \cup ({folder[Destination[p]].by : p \in {q \in PreparePlans : Destination[q] \in taken}} \ {NoJob})
  /\ UNCHANGED <<original, artifacts, discarded>>

ImportWork(j) ==
  \/ StartPreparation(j) \/ CopyPiece(j) \/ RecheckOriginal(j) \/ RecordArtifact(j)
  \/ PublishCopies(j) \/ SyncParent(j) \/ CancelPreparation(j)
  \/ RecordDiscard(j) \/ BeginRemoval(j) \/ EndRemoval(j)

-----------------------------------------------------------------------------
(* What must hold. *)

\* Approved and registerSources: a successful preparation whose receipt is its
\* own, and that is not on record as removed.
Offered(j) ==
  Prepared(j) /\ artifacts[jobs[j].planID].by = j /\ discarded[j] = NoJob

\* A removal goes by the destination: one that was reviewed for an earlier
\* preparation takes the images that job j has published there since.
Misdirected(j) ==
  \E i \in Jobs :
    LET q == jobs[i].planID IN
    Stored(i) /\ Kind[q] = "discard" /\ review[q].images = j /\ review[q].of # j

\* The images of a preparation that is offered to a new machine stand at the
\* destination, all of them, taken from the source as it was reviewed, unless a
\* loss of power took back a rename that only Reconcile had seen, or a removal was
\* misdirected (Execute, Reconcile, Approved, registerSources).
OfferedCopiesAreTrue ==
  \A j \in Jobs :
    Offered(j) /\ j \notin lost /\ ~Misdirected(j) =>
      LET p == jobs[j].planID IN
      folder[Destination[p]] = [by |-> j, copies |-> AllCopied(review[p].version)]

\* Reconcile confirms by the receipt of the plan, whichever of its jobs wrote it:
\* a loss of power may bring removed images back for a job that found the receipt
\* in its way.  Removals are not synced, so it may bring the work folder back after
\* the discard went on to the images.
ImportAchieved(j) ==
  LET p == jobs[j].planID IN
  CASE Kind[p] = "prepare" ->
         \E k \in Jobs :
           /\ Stored(k) /\ jobs[k].planID = p
           /\ folder[Destination[p]] = [by |-> k, copies |-> AllCopied(review[p].version)]
    [] Kind[p] = "discard" -> ~Exists(Doomed(p, 1))

\* A discard that was canceled between its steps kept the images.
ImportUntouched(j) ==
  LET p == jobs[j].planID IN
  CASE Kind[p] = "prepare" -> j \notin {folder[WorkFolder(p)].by, folder[Destination[p]].by}
    [] Kind[p] = "discard" -> discarded[review[p].of] # j
=============================================================================
