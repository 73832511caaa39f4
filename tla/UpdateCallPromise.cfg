SPECIFICATION FairSpec
CONSTANTS
  Options <- AllOptions
  IngressExpiry = 1
  PollTimeout = 2
  InitialDelay = 1
  MaxInterval = 2
  Multiplier = 2
  HttpTimeout = 1
  Jitter = 0
  MaxStale = 1
  Skews <- NoSkew
  Faulty = TRUE
  FalseRejects = FALSE
INVARIANTS AnswerIsReal
PROPERTIES KeepsPromise CallEnds
