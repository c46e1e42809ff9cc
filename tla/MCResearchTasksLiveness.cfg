SPECIFICATION FairSpec
CONSTANTS
  Task = {1, 2}
  Planned = {1}
  Deps <- MCDeps
  Executor = {e1, e2}
  None = None
  Entity = {1}
  MaxTries = 1
  Limit <- SmallLimit
  Extensions = 0
CHECK_DEADLOCK FALSE
PROPERTY ExecutorsStop
