\* Four plans of different shape on two shared resources, every engine action.
SPECIFICATION Spec
CONSTANTS
  Jobs = {j1, j2}
  Keys = {k1, k2}
  one = one many = many keeping = keeping repair = repair
  r1 = r1 r2 = r2 user = user
  Plans = {one, many, keeping, repair}
  Resources = {r1, r2}
  Principals = {user}
  ResourceIDs <- MCResourceIDs
  Steps <- MCSteps
  Author <- MCAuthor
  Retaining = {keeping}
  RecoveryPlans = {repair}
  NoJob = NoJob NoRow = NoRow NoEntry = NoEntry NoRequest = NoRequest
  WritesMayFail = TRUE
  MaxCancels = 1
  MaxNotes = 1
SYMMETRY Interchangeable
INVARIANTS
  TypeOK
  RunnersAreExclusive
  LocksServeUnfinishedJobs
  DoubtKeepsLocks
  SuccessIsObserved
  AcceptancesAreSingle
PROPERTIES
  NoReplay
  CancellationIsKept
  CancellationStopsSteps
  ImplementsLease
