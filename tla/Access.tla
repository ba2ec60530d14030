------------------------------- MODULE Access -------------------------------
(***************************************************************************)
(* Read access to the disk file of a stopped machine                       *)
(* (internal/storageaccess and, as root, internal/helper/access_linux.go): *)
(* a grant adds the reader to the file's ACL, a revocation brings back the *)
(* ACL its grant found.  Each is bound to the metadata it was reviewed     *)
(* with, of which ctime tells two equal ACLs apart.                        *)
(*                                                                         *)
(* There is one file, its ACL is the set of readers.  A grant plan is for  *)
(* its author, so two users share the file and the locks on it.            *)
(***************************************************************************)
EXTENDS Helper

CONSTANT NoRecord  \* no such record

Metadata == [readers : SUBSET Principals, ctime : Nat]
AccessInput == [grant : Jobs \cup {NoJob}, before : Metadata]
AccessIntent == [before : Metadata, desired : SUBSET Principals]
AccessKinds == {"grant", "revoke"}
TornRecord == [torn |-> TRUE]

AccessPlans == {p \in Plans : Kind[p] \in AccessKinds}
GrantPlans == {p \in Plans : Kind[p] = "grant"}

ASSUME AccessPlansAreComplete ==
  /\ \A p \in AccessPlans : Steps[p] = 1 /\ p \notin RecoveryPlans
  /\ NoRecord \notin AccessIntent \cup Metadata \cup {TornRecord}

\* Plan: every request names the machine, the pool and the file as resources.
ASSUME FilesAreChangedAlone ==
  \A p, q \in AccessPlans : ResourceIDs[p] \cap ResourceIDs[q] # {}

VARIABLES
  file,          \* the metadata of the file
  accessIntent,  \* helper journal: the intent of each job
  accessResult,  \* helper journal: the result of each job
  accessReceipt  \* "storage-access-v1" of each plan: whose result it is

accesses == <<file, accessIntent, accessResult, accessReceipt>>

AccessTypeOK ==
  /\ file \in Metadata
  /\ accessIntent \in [Jobs -> AccessIntent \cup {TornRecord, NoRecord}]
  /\ accessResult \in [Jobs -> Metadata \cup {TornRecord, NoRecord}]
  /\ accessReceipt \in [AccessPlans -> [job : Jobs, result : Metadata] \cup {NoRecord}]

AccessInit ==
  /\ file = [readers |-> {}, ctime |-> 0]
  /\ accessIntent = [j \in Jobs |-> NoRecord]
  /\ accessResult = [j \in Jobs |-> NoRecord]
  /\ accessReceipt = [p \in AccessPlans |-> NoRecord]

Readable(record) == record \notin {NoRecord, TornRecord}

-----------------------------------------------------------------------------
(* AccessExecutor.desired *)

\* DesiredRead: whoever could read before still can.
Granted(before, reader) == before.readers \cup {reader}

\* Mutant of MatchesAccess: the current ACL is not compared.
MatchesAnyAccess(current, readers) == current \in Metadata

\* MatchesAccess: the readers are those of the grant; ctime may have moved on.
MatchesAccess(current, readers) == current.readers = readers

\* A revocation needs the proof that its grant was carried out, and the file as
\* the grant left it: only the last of nested grants can be revoked.
Revocable(grant, before) ==
  /\ Readable(accessIntent[grant]) /\ Readable(accessResult[grant])
  /\ accessResult[grant].readers = accessIntent[grant].desired
  /\ MatchesAccess(before, accessIntent[grant].desired)

DesiredFor(p) ==
  IF Kind[p] = "grant"
    THEN Granted(review[p].before, Author[p])
    ELSE accessIntent[review[p].grant].before.readers

\* The checks of the helper, in modes "check" and "apply".
HelperAllows(p) ==
  /\ file = review[p].before
  /\ Kind[p] = "revoke" => Revocable(review[p].grant, file)

AccessValid(p, owner) == HelperFree /\ HelperAllows(p)

-----------------------------------------------------------------------------
(* Service.Plan; Engine.Plan validates what it stores. *)

PlanGrant(p) ==
  /\ HelperFree
  /\ StorePlan(p, [grant |-> NoJob, before |-> file])
  /\ UNCHANGED <<accesses, call>>

PlanRevocation(p) ==
  /\ HelperFree
  /\ \E j \in Jobs :
       /\ Stored(j) /\ jobs[j].state = "succeeded"
       /\ Kind[jobs[j].planID] = "grant" /\ Author[jobs[j].planID] = Author[p]
       /\ Revocable(j, file)
       /\ StorePlan(p, [grant |-> j, before |-> file])
  /\ UNCHANGED <<accesses, call>>

-----------------------------------------------------------------------------
(* Service.Execute *)

AccessStep(j) == In(j, "idle") /\ Kind[PlanOf(j)] \in AccessKinds /\ KeepsEngine

CancelAccess(j) ==
  /\ AccessStep(j) /\ Canceled(j)
  /\ Go(j, "canceled-safely")
  /\ UNCHANGED <<accesses, call>>

AskForAccess(j) ==
  /\ AccessStep(j) /\ ~Canceled(j)
  /\ Asks(j)
  /\ UNCHANGED accesses

-----------------------------------------------------------------------------
(* AccessExecutor.Execute, mode "apply". *)

SetsFor(at) ==
  /\ ~HelperFree /\ call.at = at
  /\ Kind[jobs[call.job].planID] \in AccessKinds
  /\ KeepsEngine

\* O_EXCL: a job has one intent.
IntendAccess ==
  LET j == call.job
      p == jobs[j].planID IN
  /\ SetsFor("received")
  /\ HelperAllows(p) /\ accessIntent[j] = NoRecord
  /\ accessIntent' = [accessIntent EXCEPT ![j] = [before |-> file, desired |-> DesiredFor(p)]]
  /\ Proceeds("set")
  /\ UNCHANGED <<file, accessResult, accessReceipt, work>>

\* SetACL: the metadata is compared once more on the held file.
SetACL ==
  LET intent == accessIntent[call.job] IN
  /\ SetsFor("set") /\ file = intent.before
  /\ file' = [readers |-> intent.desired, ctime |-> file.ctime + 1]
  /\ Proceeds("record")
  /\ UNCHANGED <<accessIntent, accessResult, accessReceipt, work>>

RecordAccess ==
  /\ SetsFor("record") /\ MatchesAccess(file, accessIntent[call.job].desired)
  /\ accessResult' = [accessResult EXCEPT ![call.job] = file]
  /\ Answers
  /\ UNCHANGED <<file, accessIntent, accessReceipt>>

\* The record in progress may stay behind, incomplete.
AccessBreaks ==
  LET j == call.job IN
  /\ SetsFor("received") \/ SetsFor("set") \/ SetsFor("record")
  /\ Breaks
  /\ \/ UNCHANGED <<accessIntent, accessResult>>
     \/ /\ call.at = "received" /\ accessIntent[j] = NoRecord
        /\ accessIntent' = [accessIntent EXCEPT ![j] = TornRecord]
        /\ UNCHANGED accessResult
     \/ /\ call.at = "record"
        /\ accessResult' = [accessResult EXCEPT ![j] = TornRecord]
        /\ UNCHANGED accessIntent
  /\ UNCHANGED <<file, accessReceipt>>

-----------------------------------------------------------------------------
(* Service.Reconcile asks the helper to observe.  The helper writes the     *)
(* result it finds missing, the coordinator the receipt.                    *)

ObservesAccess(j) ==
  /\ HelperFree
  /\ Readable(accessIntent[j])
  /\ MatchesAccess(file, accessIntent[j].desired)

ObserveAccess(j) ==
  /\ Reconciling(j) /\ Kind[jobs[j].planID] \in AccessKinds
  /\ ObservesAccess(j) /\ accessResult[j] = NoRecord
  /\ accessResult' = [accessResult EXCEPT ![j] = file]
  /\ KeepsEngine
  /\ UNCHANGED <<file, accessIntent, accessReceipt, work, call>>

ObservedAccess(j) == ObservesAccess(j) /\ accessResult[j] = file

StoreAccessReceipt(j) ==
  LET p == jobs[j].planID IN
  /\ Reconciling(j) /\ Kind[p] \in AccessKinds
  /\ ObservedAccess(j) /\ accessReceipt[p] = NoRecord
  /\ accessReceipt' = [accessReceipt EXCEPT ![p] = [job |-> j, result |-> file]]
  /\ KeepsEngine
  /\ UNCHANGED <<file, accessIntent, accessResult, work, call>>

AccessDone(p, j) ==
  ObservedAccess(j) /\ accessReceipt[p] = [job |-> j, result |-> file]

AccessWork(j) == CancelAccess(j) \/ AskForAccess(j) \/ ObserveAccess(j) \/ StoreAccessReceipt(j)

AccessHelper == IntendAccess \/ SetACL \/ RecordAccess \/ AccessBreaks

-----------------------------------------------------------------------------
(* What must hold. *)

HasGrant(u) ==
  \E j \in Jobs :
    Stored(j) /\ Kind[jobs[j].planID] = "grant" /\ Author[jobs[j].planID] = u /\ jobs[j].state = "succeeded"

Revokes(u) ==
  \E j \in Jobs : Stored(j) /\ Kind[jobs[j].planID] = "revoke" /\ Author[jobs[j].planID] = u

\* Whoever was told that they can read the disk can read it until they accept a
\* revocation themselves: revoking the grant of one user never takes away that
\* of another, nested one (AccessExecutor.desired, SetACL).
GrantsAreKept ==
  \A u \in Principals : HasGrant(u) /\ ~Revokes(u) => u \in file.readers

AccessAchieved(j) ==
  LET p == jobs[j].planID IN
  IF Kind[p] = "grant" THEN Author[p] \in file.readers ELSE file.readers = DesiredFor(p)
AccessUntouched(j) == file = review[jobs[j].planID].before
=============================================================================
