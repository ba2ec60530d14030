SPECIFICATION Spec
CONSTANTS
  Jobs = {j1, j2}
  Keys = {k1, k2}
  one = one many = many keeping = keeping repair = repair
  r1 = r1 r2 = r2 user = user
  Plans = {keeping, repair}
  Resources = {r1}
  Principals = {user}
  ResourceIDs <- FewResourceIDs
  Steps <- FewSteps
  Author <- FewAuthor
  Retaining = {keeping}
  RecoveryPlans = {repair}
  NoJob = NoJob NoRow = NoRow NoEntry = NoEntry NoRequest = NoRequest
  WritesMayFail = TRUE
  MaxCancels = 1
  MaxNotes = 0
INVARIANT AwaitingRecoveryHolds
