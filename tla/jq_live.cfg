SPECIFICATION FairSpec
CONSTANTS
  Jobs = {j1}
  Runners = {r1, r2}
  NoJob = NoJob
  NoRunner = NoRunner
  Windows <- TwoWindows
  MaxAttempts = 3
  DbRetries = 1
  Unlimited = Unlimited
  MaxRun = 1
  MaxFaults = 1
  MaxOps = 1
  Env <- Flapping
CHECK_DEADLOCK FALSE
PROPERTIES EveryJobSettles
