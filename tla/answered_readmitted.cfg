SPECIFICATION FairSpec
CONSTANTS
  Callers = {c1, c2}
  Targets = {t1}
  Keys = {k1, k2}
  Threshold = 2
  Cooldown = 1
  MaxTries = 2
  HasReasoner = TRUE
PROPERTIES
  AnsweredNotReadmitted
