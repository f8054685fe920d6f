CONSTANTS
  f1 = f1
  f2 = f2
  Memories = {1, 2}
  Alike <- BothWays
  Sharing <- AllPairs
  Forgets = {f1, f2}
  Target <- MCTarget
  Runs = {r1, r2}
  MaxRetries = 1
SPECIFICATION Spec
SYMMETRY RunSymmetry
INVARIANTS
  TypeOK
  BuiltAreLinked
  DeletedEventOnce
