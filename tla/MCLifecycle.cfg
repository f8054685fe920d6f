CONSTANTS
  Memories = {m1, m2}
  Similar <- AllPairs
  Floor = 0
  Cap = 1
  InitialStability = 0
  DecayArchive = 1
  ArchiveBelow = 1
  DecayIdle = 1
  DecayArchiveIdle = 1
  ArchiveIdle = 1
  Window = 1
  Retention = 1
  MinCluster = 2
  MaxSweeps = 2
  MaxSummaries = 2
  MaxFaults = 1
SPECIFICATION Spec
SYMMETRY MemorySymmetry
INVARIANTS
  TypeOK
  AuditTrail
  MergedOnce
PROPERTIES
  NothingComesBack
  CooldownRespected
  
