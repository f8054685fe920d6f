CONSTANTS
  Jobs = {j1, p1}
  Poison = {p1}
  Workers = {w1, w2}
  MaxAttempts = 3
  TimedRuns = TRUE
  NoMessage = NoMessage
  MaxFaults = 1
SPECIFICATION FairSpec
INVARIANTS
  TypeOK
  OneCopy
  AttemptsCountRuns
  DeadLetterOnce
PROPERTIES
  EveryJobSettles
