CONSTANTS
  c1 = c1
  Given <- MCGiven
  Pairs <- MCPairs
  EvidenceOf <- MCEvidence
  Clients = {c1}
  Requests <- MCRequests
  BatchSize = 2
  TrustGap = 80
  TrustPenalty = 80
  ConfidencePenalty = 20
  MaxAttempts = 2
  Schemas = {TRUE, FALSE}
  MaxFacts = 4
  MaxFaults = 1
SPECIFICATION Spec
INVARIANTS
  TypeOK
  FeedbackCounted
  CorrectionComplete
PROPERTIES
  SupersededStays
  SettledTogether
