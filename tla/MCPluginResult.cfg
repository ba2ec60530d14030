\* One invocation, applied under two keys.
SPECIFICATION PluginSpec
CONSTANTS
  Jobs = {j1, j2}
  Keys = {k1, k2}
  v1 = v1 v2 = v2 user = user
  Versions = {v1, v2}
  NoVersion = NoVersion
  Lifecycle = Lifecycle
  Resources = {v1, v2, Lifecycle}
  Plans = {"call"}
  Principals = {user}
  ResourceIDs <- MCResourceIDs
  Steps <- MCSteps
  Author <- MCAuthor
  Action <- MCAction
  Target <- MCTarget
  Inherited <- MCInherited
  NoInstallation = NoInstallation NoPlan = NoPlan Unplanned = Unplanned
  Retaining = {}
  RecoveryPlans = {}
  NoJob = NoJob NoRow = NoRow NoEntry = NoEntry NoRequest = NoRequest
  WritesMayFail = FALSE
  MaxCancels = 0
  MaxNotes = 0
SYMMETRY Interchangeable
INVARIANT SuccessHasItsResult
