SPECIFICATION Spec
CONSTANTS
  h1 = h1
  h2 = h2
  Sdk = sdk
  Holders = {h1, h2, sdk}
  Procs = {p1, p2}
  AccessLife = 2
  EatLife = 2
  RefreshLife = 2
  FailClosed = TRUE
  NumSteps = 2
  Tools <- MCTools
  Named <- MCNamed
  Follows <- MCFollows
  Needs <- MCNeeds
  Casts <- MCCasts
INVARIANTS UsableSessionListed RefusedOnlyWhenKilled
PROPERTIES RefreshedOnce StepsReachModel
CHECK_DEADLOCK FALSE
