SPECIFICATION FairSpec
CONSTANTS
  Callers = {c1, c2}
  Targets = {t1, t2}
  Keys = {k1, k2}
  Threshold = 2
  Cooldown = 2
  MaxTries = 2
  HasReasoner = TRUE
INVARIANTS
  TypeOK
  OvershootBounded
PROPERTIES
  BreakerRecovers
