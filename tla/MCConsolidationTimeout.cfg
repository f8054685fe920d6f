CONSTANTS
  Memories = {1, 2}
  Keys = {"theme"}
  Values = {"dark", "light"}
  Candidates <- TimeoutCandidates
  Queued = {1, 2}
  Handlers = {h1, h2}
  Sweeps = {}
  BatchSize = 1
  MaxFacts = 6
  MaxFaults = 1
SPECIFICATION Spec
INVARIANTS
  TimeoutRollsBack
