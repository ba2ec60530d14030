\* A creation without a receipt.
SPECIFICATION CreationSpec
CONSTANTS
  Jobs = {j1}
  Keys = {k1}
  user = user machine = machine other = other files = files
  Plans = {"make"}
  RecoveryPlans = {}
  HandsOver = {"make"}
  Resources = {machine, other, files}
  Files = {files}
  Principals = {user}
  ResourceIDs <- MCResourceIDs
  Steps <- MCSteps
  Author <- MCAuthor
  Action <- MCAction
  N = 2
  Retaining = {}
  NoJob = NoJob NoRow = NoRow NoEntry = NoEntry NoRequest = NoRequest
  NoPlan = NoPlan NoReceipt = NoReceipt NoProof = NoProof NoDisposition = NoDisposition
  NoOwner = NoOwner Unplanned = Unplanned
  WritesMayFail = FALSE
  MaxCancels = 0
  MaxNotes = 0
  MaxReviews = 3
SYMMETRY Interchangeable
INVARIANTS
  UnresolvedCanBeClosed
