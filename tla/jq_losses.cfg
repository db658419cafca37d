SPECIFICATION Spec
CONSTANTS
  Jobs = {j1}
  Runners = {r1, r2}
  NoJob = NoJob
  NoRunner = NoRunner
  Windows <- TwoWindows
  MaxAttempts = 3
  DbRetries = 1
  Unlimited = Unlimited
  MaxRun = 1
  MaxFaults = 2
  MaxOps = 1
  Env <- Faulty
SYMMETRY RunnerSymmetry
CHECK_DEADLOCK FALSE
INVARIANTS NoStrandedPending  DoneHasTranscript
PROPERTIES LostClaimWritesNothing ImplementsLifecycle
