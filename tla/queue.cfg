SPECIFICATION Spec
CONSTANTS
  NumTasks = 3
  MultiAgent = {2}
  Addressed = {1, 3}
  Workers = {w1, w2}
  Attempts = 2
  MaxAttempts <- MCMaxAttempts
  Lease = 1
  RowLocks = TRUE
  MayOverrun = TRUE
INVARIANTS
  TypeOK
  ExecutionsBounded
  AttemptsDistinct
  OneMessagePerExecution
  CompletedHasMessage
  DeadLetterExhausted
