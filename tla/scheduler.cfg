SPECIFICATION FairSpec
CONSTANTS
  Workflows = {f1}
  NumRows = 2
  Schedulers = {p1}
  Requests = {r1, r2}
  Batch = 2
  Intervals = {2}
  Horizon = 2
  MaxCrashes = 1
INVARIANTS
  LateRunsBounded
PROPERTIES
  RunsSpaced
  DueServed
