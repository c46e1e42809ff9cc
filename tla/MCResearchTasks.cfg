SPECIFICATION Spec
CONSTANTS
  Task = {1, 2, 3}
  Planned = {1, 2}
  Deps <- MCDeps
  Executor = {e1, e2}
  None = None
  Entity = {1}
  MaxTries = 2
  Limit <- MCLimit
  Extensions = 1
SYMMETRY ExecutorSymmetry
CHECK_DEADLOCK FALSE
INVARIANTS
  BudgetKept
  DependenciesFirst
  LateSpendBounded
PROPERTIES
  SettledNotRerun
  StaleWorkerCannotComplete
