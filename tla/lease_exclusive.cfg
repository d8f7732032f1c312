SPECIFICATION Spec
CONSTANTS
  NumTasks = 2
  MultiAgent = {2}
  Addressed = {1}
  Workers = {w1, w2}
  Attempts = 3
  MaxAttempts <- MCMaxAttempts
  Lease = 1
  RowLocks = TRUE
  MayOverrun = TRUE
INVARIANTS
  LeaseExclusive
