SPECIFICATION Spec
CONSTANTS
  NumMessages = 3
  NumTasks = 2
  TaskOf <- MCTaskOf
  Events = {3}
  Consumers = {c1, c2}
  Attempts = 2
  MaxAttempts <- MCMaxAttempts
  Lease = 1
  RowLocks = TRUE
INVARIANTS
  ResponsesStored
