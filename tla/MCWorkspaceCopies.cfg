\* Nothing fails: seven keys are enough to start a machine that was there
\* before, while a setup that also removes its copy is under way.
SPECIFICATION WorkspaceSpec
CONSTANTS
  Settings = {small, large}
  Starting = {small}
  Cleaning = {small, large}
  Nil = Nil
  MaxJobs = 4
  MaxReviews = 4
  MaxKeys = 7
  MaxFaults = 0
INVARIANT CopiesServeFirst
CHECK_DEADLOCK FALSE
