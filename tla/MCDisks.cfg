\* Two operations on the disks of one machine, applied at most once each.
SPECIFICATION DisksSpec
CONSTANTS
  Jobs = {j1, j2}
  Keys = {k1, k2}
  user = user machine = machine clone = clone
  d1 = d1 d2 = d2 m1 = m1 c1 = c1 c2 = c2 n3 = n3
  Plans = {"grow", "move", "move and keep", "clone", "remove", "add", "accept", "keep", "delete"}
  RecoveryPlans = {"accept", "keep", "delete"}
  Resources = {machine, clone, d1, d2, m1, c1, c2, n3}
  VMs = {machine, clone}
  Volumes = {d1, d2, m1, c1, c2, n3}
  Slots = {1, 2, 3}
  Principals = {user}
  ResourceIDs <- MCResourceIDs
  Steps <- MCSteps
  Author <- MCAuthor
  Kind <- MCKind
  Turns <- MCTurns
  PlanSets <- MCPlanSets
  Original <- MCOriginal
  Machine <- MCMachine
  NewMachine <- MCNewMachine
  Chosen <- MCChosen
  NewVolume <- MCNewVolume
  KeepsOld = {"move and keep"}
  Retaining = {}
  NoJob = NoJob NoRow = NoRow NoEntry = NoEntry NoRequest = NoRequest
  NoVolume = NoVolume Undefined = Undefined NoReceipt = NoReceipt
  NoDisposition = NoDisposition Unplanned = Unplanned
  WritesMayFail = FALSE
  MaxCancels = 1
  MaxNotes = 0
INVARIANTS
  DisksAreWhole
  DataSurvives
PROPERTY
  DiskOutcomesAreTrue
