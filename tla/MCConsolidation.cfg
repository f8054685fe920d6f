CONSTANTS
  Memories = {1, 2, 3}
  Keys = {"theme", "editor"}
  Values = {"dark", "light"}
  Candidates <- MCCandidates
  Queued = {2}
  Handlers = {h1}
  Sweeps = {s1}
  BatchSize = 2
  MaxFacts = 10
  MaxFaults = 1
SPECIFICATION FairSpec
INVARIANTS
  TypeOK
  
  SupersededByLater
  AuditExplains
  ConfidenceAddsUp
PROPERTIES
  SweepCatchesBatch
