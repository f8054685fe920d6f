CONSTANTS
  r1 = r1
  r2 = r2
  r3 = r3
  r4 = r4
  t1 = t1
  t2 = t2
  Requests <- MCRequests
  Turns <- MCTurns
  TurnOf <- MCTurnOf
  Memories = {m1, m2, m3, m4}
  NoMemory = NoMemory
  PoolSize = 2
SPECIFICATION FairSpec
INVARIANTS
  TypeOK
  OnlyCompleteVisible
  OneMemoryPerTurn
  JobsOfCommittedMemories
PROPERTIES
  WriteOnceSpec
  EveryRequestEnds
