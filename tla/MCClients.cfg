\* The followed job has more than eight events: several pages and a part.  Three
\* keys take a setup from its form to the last automatic step; two more and a
\* failure may come anywhere.
SPECIFICATION ClientsFairSpec
CONSTANTS
  Jobs = {j1}
  Followed = j1
  Keys = {k1}
  plan = plan user = user disk = disk
  Plans = {plan}
  Resources = {disk}
  Principals = {user}
  ResourceIDs <- MCResourceIDs
  Steps <- MCSteps
  Author <- MCAuthor
  Retaining = {}
  RecoveryPlans = {}
  NoJob = NoJob NoRow = NoRow NoEntry = NoEntry NoRequest = NoRequest
  WritesMayFail = FALSE
  MaxCancels = 1
  MaxNotes = 0
  Page = 2
  MaxAfter = 1
  Settings = {small, large}
  Starting = {small}
  Cleaning = {small, large}
  Nil = Nil
  MaxJobs = 4
  MaxReviews = 4
  MaxKeys = 5
  MaxFaults = 1
\* A window may wait for its next key while no job is running.
CHECK_DEADLOCK FALSE
INVARIANTS
  StreamIsComplete
  OneJobPerReview
  SubmissionsAreRemembered
  AutomaticStepsWereApproved
  BusyHasACause
PROPERTIES
  FollowingEnds
