SPECIFICATION Spec
CONSTANTS
  A = A
  B = B
  Subnets = {A, B}
  Canisters = {0, 1, 2}
  Labels <- MCLabels
  Values <- MCValues
  MaxHeight = 8
  Tables <- Alternating
  ShardSize = 1
  Nestings <- RightNested
  MaxMoves = 1
  MaxPruned = 2
INVARIANTS ValidIsHosted HostedIsValid PruningOnlyHides
