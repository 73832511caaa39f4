SPECIFICATION Spec
CONSTANTS
  Options <- LoopOptions
  IngressExpiry = 3
  PollTimeout = 4
  InitialDelay = 1
  MaxInterval = 4
  Multiplier = 2
  HttpTimeout = 1
  Jitter = 1
  MaxStale = 2
  Skews <- SomeSkew
  Faulty = FALSE
  FalseRejects = FALSE
INVARIANTS TypeOK HonestNodeIsBelieved EndsInTime TimeoutIsNoLostAnswer
PROPERTIES BackoffRestartsOnce
