SPECIFICATION Spec
CONSTANTS
  Coordinators = {c1, c2}
  NoOne = NoOne
  BatchSize = 1
  Budgets <- OneBudget
  MaxJobs = 1
  MaxRuns = 2
  MaxSets = 1
  MaxFaults = 2
  Env <- Crashes
SYMMETRY AnyCoordinator
CHECK_DEADLOCK FALSE
INVARIANTS QuietIsIdle
