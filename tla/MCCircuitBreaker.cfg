CONSTANTS
  Callers = {c1, c2, c3}
  Threshold = 2
  ResetTicks = 2
  MaxAttempts = 2
SPECIFICATION FairSpec
INVARIANTS
  TypeOK
  ClosedBelowThreshold
PROPERTIES
  RecoversWithService
