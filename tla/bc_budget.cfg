SPECIFICATION FairSpec
CONSTANTS
  Coordinators = {c1, c2}
  NoOne = NoOne
  BatchSize = 2
  Budgets <- SomeBudgets
  MaxJobs = 2
  MaxRuns = 2
  MaxSets = 1
  MaxFaults = 1
  Env <- Calm
INVARIANTS BudgetKept
PROPERTIES OneDriver  QueueDrains
