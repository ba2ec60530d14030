------------------------------ MODULE Journal ------------------------------
(***************************************************************************)
(* The durable job journal of the coordinator (internal/store).  Rows live *)
(* in one SQLite database with a single connection, so every action below  *)
(* is one transaction: it commits whole or leaves the journal unchanged.   *)
(* The conversion of a row to JSON and back loses nothing, hence rows are  *)
(* records.  Ids, times, messages and stored errors are abstracted away.   *)
(***************************************************************************)
EXTENDS Naturals, FiniteSets

CONSTANTS
  Jobs,         \* operation ids domain.ID() may draw
  Plans,        \* stored plans, immutable once saved
  Resources,    \* resource ids a plan may name
  Keys,         \* idempotency keys of clients
  Principals,   \* an actor uid on one connection
  ResourceIDs,  \* ResourceIDs[p]: the resources plan p locks
  Steps,        \* Steps[p]: how many steps plan p has
  Author,       \* Author[p]: the principal plan p was made for
  NoJob,        \* the empty operation id
  NoRow,        \* no row with this id in table jobs
  NoEntry       \* no row with this key in table dedup

ASSUME PlansAreComplete ==
  /\ ResourceIDs \in [Plans -> SUBSET Resources]
  /\ Steps \in [Plans -> Nat \ {0}]
  /\ Author \in [Plans -> Principals]

VARIABLES
  jobs,    \* table jobs: the row of each operation id, or NoRow
  locks,   \* table locks: the owner of each resource, or NoJob
  dedup,   \* table dedup: request and job of each key, or NoEntry
  events   \* table events: the last sequence number of each job

journal == <<jobs, locks, dedup, events>>

Finished == {"succeeded", "failed", "canceled", "partial"}
Unresolved == {"recovery-required", "interrupted"}
Active == {"queued", "validating", "running", "verifying"}
JobState == Active \cup Unresolved \cup Finished

\* domain.Terminal: no runner will continue such a job.
Terminal(state) == state \in Finished \cup {"recovery-required"}

Row == [planID : Plans, state : JobState, step : Nat, cancelRequested : BOOLEAN,
        recoveryOf : Jobs \cup {NoJob}, recoveryOperationID : Jobs \cup {NoJob}]

\* What requestHash stands for: who asks for which plan.  The parent is part of
\* a recovery plan's input; it is NoJob for every other plan.
Request == [by : Principals, planID : Plans, parent : Jobs \cup {NoJob}]

ASSUME NullsAreNotValues ==
  /\ NoJob \notin Jobs
  /\ NoRow \notin Row
  /\ NoEntry \notin [request : Request, job : Jobs]

JournalTypeOK ==
  /\ jobs \in [Jobs -> Row \cup {NoRow}]
  /\ locks \in [Resources -> Jobs \cup {NoJob}]
  /\ dedup \in [Keys -> [request : Request, job : Jobs] \cup {NoEntry}]
  /\ events \in [Jobs -> Nat]

JournalInit ==
  /\ jobs = [j \in Jobs |-> NoRow]
  /\ locks = [r \in Resources |-> NoJob]
  /\ dedup = [k \in Keys |-> NoEntry]
  /\ events = [j \in Jobs |-> 0]

Stored(j) == jobs[j] # NoRow
Resource(j) == ResourceIDs[jobs[j].planID]
Held(j) == {r \in Resources : locks[r] = j}

NewRow(p, parent) ==
  [planID |-> p, state |-> "queued", step |-> 0, cancelRequested |-> FALSE,
   recoveryOf |-> parent, recoveryOperationID |-> NoJob]

\* Mutant of Accept: the locks are replaced instead of inserted.
AcceptSeizing(j, k, request) ==
  LET p == request.planID IN
  /\ ~Stored(j)
  /\ dedup[k] = NoEntry
  /\ jobs' = [jobs EXCEPT ![j] = NewRow(p, NoJob)]
  /\ locks' = [r \in Resources |-> IF r \in ResourceIDs[p] THEN j ELSE locks[r]]
  /\ dedup' = [dedup EXCEPT ![k] = [request |-> request, job |-> j]]
  /\ UNCHANGED events

\* Store.Accept: the job, all its locks and its key in one transaction.
Accept(j, k, request) ==
  LET p == request.planID IN
  /\ ~Stored(j)
  /\ dedup[k] = NoEntry
  /\ \A r \in ResourceIDs[p] : locks[r] = NoJob      \* else RESOURCE_BUSY
  /\ jobs' = [jobs EXCEPT ![j] = NewRow(p, NoJob)]
  /\ locks' = [r \in Resources |-> IF r \in ResourceIDs[p] THEN j ELSE locks[r]]
  /\ dedup' = [dedup EXCEPT ![k] = [request |-> request, job |-> j]]
  /\ UNCHANGED events

\* Mutant of Recoverable: the state of the parent is not checked.
RecoverableWhileRunning(parent, p) ==
  /\ Stored(parent)
  /\ jobs[parent].recoveryOperationID = NoJob
  /\ Author[jobs[parent].planID] = Author[p]
  /\ \A r \in Resource(parent) : locks[r] = parent
  /\ Held(parent) \subseteq ResourceIDs[p]

\* What AcceptRecovery requires of the job a recovery plan names as its parent.
Recoverable(parent, p) ==
  /\ Stored(parent)
  /\ jobs[parent].state \in Unresolved
  /\ jobs[parent].recoveryOperationID = NoJob
  /\ Author[jobs[parent].planID] = Author[p]
  /\ Resource(parent) \subseteq ResourceIDs[p]
  /\ \A r \in Resource(parent) : locks[r] = parent
  /\ Held(parent) \subseteq ResourceIDs[p]

\* Mutant of AcceptRecovery: the key is not recorded with the child.
AcceptRecoveryUnkeyed(j, k, request) ==
  LET p == request.planID
      parent == request.parent IN
  /\ ~Stored(j)
  /\ dedup[k] = NoEntry
  /\ Recoverable(parent, p)
  /\ \A r \in ResourceIDs[p] \ Held(parent) : locks[r] = NoJob
  /\ jobs' = [jobs EXCEPT ![j] = NewRow(p, parent),
                          ![parent].state = "partial",
                          ![parent].recoveryOperationID = j]
  /\ locks' = [r \in Resources |-> IF r \in ResourceIDs[p] THEN j ELSE locks[r]]
  /\ events' = [events EXCEPT ![parent] = @ + 1]
  /\ UNCHANGED dedup

\* Store.AcceptRecovery: child in, parent "partial", every lock handed over.
AcceptRecovery(j, k, request) ==
  LET p == request.planID
      parent == request.parent IN
  /\ ~Stored(j)
  /\ dedup[k] = NoEntry
  /\ Recoverable(parent, p)
  /\ \A r \in ResourceIDs[p] \ Held(parent) : locks[r] = NoJob
  /\ jobs' = [jobs EXCEPT ![j] = NewRow(p, parent),
                          ![parent].state = "partial",
                          ![parent].recoveryOperationID = j]
  /\ locks' = [r \in Resources |-> IF r \in ResourceIDs[p] THEN j ELSE locks[r]]
  /\ dedup' = [dedup EXCEPT ![k] = [request |-> request, job |-> j]]
  /\ events' = [events EXCEPT ![parent] = @ + 1]

\* Mutant of Merged: the copy of the caller wins.
MergedBlindly(j, row) == row

\* Store.Update keeps a recorded cancellation whatever the caller's copy says.
Merged(j, row) ==
  [row EXCEPT !.cancelRequested = row.cancelRequested \/ jobs[j].cancelRequested]

\* Mutants of Released: one state too few, one too many.
ReleasedUnlessFailed(j, state) == IF state \in Finished \ {"failed"} THEN Held(j) ELSE {}
ReleasedWhenTerminal(j, state) == IF Terminal(state) THEN Held(j) ELSE {}

\* Update drops a job's locks with the row that finishes it.
Released(j, state) == IF state \in Finished THEN Held(j) ELSE {}

\* Store.Update: the whole row, its event and, at the end, its locks.
Update(j, row) ==
  /\ Stored(j)
  /\ jobs' = [jobs EXCEPT ![j] = Merged(j, row)]
  /\ events' = [events EXCEPT ![j] = @ + 1]
  /\ locks' = [r \in Resources |->
                 IF r \in Released(j, row.state) THEN NoJob ELSE locks[r]]
  /\ UNCHANGED dedup
=============================================================================
