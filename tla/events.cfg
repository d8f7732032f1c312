SPECIFICATION Spec
CONSTANTS
  a1 = a1
  a2 = a2
  Servers = {s1, s2}
  Agents <- MCAgents
  Protocols <- MCProtocols
  Speaks <- MCSpeaks
  Mappings <- MCMappings
  NumEvents = 3
  BatchSize = 2
  MaxLen = 2
  MaxStarts = 1
  KeyOf <- MCKeyOf
  MergedEvents = {1}
  TargetOf <- MCTargetOf
  Known <- MCKnown
INVARIANTS AtMostOnce FanOut NewestKept
PROPERTY StreamIsWorkedOff
CHECK_DEADLOCK FALSE
