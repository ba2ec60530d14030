\* A creation, its recovery and the recovery of that, with one cancellation.
SPECIFICATION CreationSpec
CONSTANTS
  Jobs = {j1, j2, j3}
  Keys = {k1, k2, k3}
  user = user machine = machine other = other files = files
  Plans = {"make", "resume", "delete", "retain", "accept"}
  RecoveryPlans = {"resume", "delete", "retain", "accept"}
  HandsOver = {"make"}
  Resources = {machine, other, files}
  Files = {files}
  Principals = {user}
  ResourceIDs <- MCResourceIDs
  Steps <- MCSteps
  Author <- MCAuthor
  Action <- MCAction
  N = 2
  Retaining = {}
  NoJob = NoJob NoRow = NoRow NoEntry = NoEntry NoRequest = NoRequest
  NoPlan = NoPlan NoReceipt = NoReceipt NoProof = NoProof NoDisposition = NoDisposition
  NoOwner = NoOwner Unplanned = Unplanned
  WritesMayFail = FALSE
  MaxCancels = 1
  MaxNotes = 0
  MaxReviews = 2
SYMMETRY Interchangeable
INVARIANTS
  CreationOutcomesAreTrue
  ReleaseIsRecorded
  VMsAreComplete
  DispositionsAreTrue
