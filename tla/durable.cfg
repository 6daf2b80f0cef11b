\* Nine runs of one or two tasks, each with its own faults (MCDurableRun!MCScenarios).
SPECIFICATION FairSpec
CONSTANTS
  t1 = t1
  t2 = t2
  f1 = f1
  f2 = f2
  f3 = f3
  b1 = b1
  b2 = b2
  TaskId = {t1, t2, f1, f2, f3}
  ActivityTries = 2
  None = None
  Branch = {b1, b2}
  BranchOf <- BranchOfTask
  MaxAttempts = 2
  OwnCap = 4
  Scenarios <- MCScenarios
  FixOf <- Fixes
INVARIANTS TypeOK BoughtOnce AskIsLast CostIsReal BudgetHolds PushedIsApproved
PROPERTIES EndedStaysEnded RunEnds
CHECK_DEADLOCK FALSE
