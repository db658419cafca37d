SPECIFICATION Spec
CONSTANTS
  Jobs = {j1, j2}
  Runners = {r1, r2}
  NoJob = NoJob
  NoRunner = NoRunner
  Windows <- TwoWindows
  MaxAttempts = 3
  DbRetries = 1
  Unlimited = Unlimited
  MaxRun = 2
  MaxFaults = 2
  MaxOps = 2
  Env <- Gentle
SYMMETRY RunnerSymmetry
CHECK_DEADLOCK FALSE
INVARIANTS RestartsCostNothing
 
