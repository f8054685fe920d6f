CONSTANTS
  Memories = {m1}
  Similar <- AllPairs
  Floor = 0
  Cap = 3
  InitialStability = 2
  DecayArchive = 2
  ArchiveBelow = 1
  DecayIdle = 1
  DecayArchiveIdle = 3
  ArchiveIdle = 2
  Window = 1
  Retention = 3
  MinCluster = 2
  MaxSweeps = 3
  MaxSummaries = 1
  MaxFaults = 2
SPECIFICATION Spec
PROPERTIES
  AbandonedLeave
