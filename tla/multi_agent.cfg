SPECIFICATION MCSpec
CONSTANTS
  claude = claude
  perplexity = perplexity
  slack = slack
  NoAgent = NoAgent
  f = f
  g = g
  h = h
  Agents = {claude, perplexity, slack}
  Plans <- MCPlans
  MaxRetries = 3
  Callers = {c1, c2}
  MaxRows = 2
  MaxIssued = 4
  Servers = {s1, s2}
  Fields = {f, g, h}
  Foreign = {h}
  MaxMappings = 2
INVARIANTS
  PartsTypeOK
  StepsInOrder
  SettledRowHasResults
  CompletedRanPlan
  GrantKept
  HealedIsMapped
PROPERTIES
  NoStepRepeated
  RunSettles
CHECK_DEADLOCK FALSE
