CONSTANTS
  mine = mine
  shared = shared
  known = known
  u1 = u1
  u2 = u2
  s1 = s1
  s2 = s2
  None = None
  Memories = {mine, shared}
  Users = {u1, u2}
  Sessions = {s1, s2}
  Owner <- MCOwner
  SessionOf <- MCSessionOf
  Private = {mine}
  Nearest = {shared}
  Edges <- SharedToMine
  Facts = {known}
  About <- MCAbout
  Matching = {known}
  Evidence <- MCEvidence
  K = 1
  Requests <- Everything
  Runs = {r1, r2}
  ResultTTL = 2
  ConfigTTL = 1
  MaxChanges = 1
  MaxVersion = 1
  MaxFaults = 1
SPECIFICATION Spec
INVARIANTS
  TypeOK
  PrivateToOwner
PROPERTIES
  ForgottenLeave
  ConfigSettles
