SPECIFICATION Spec
CONSTANTS
  Callers = {c1, c2, c3}
  Targets = {t1}
  Keys = {k1, k2}
  Threshold = 2
  Cooldown = 1
  MaxTries = 1
  HasReasoner = TRUE
INVARIANTS
  HalfOpenSingleProbe
