SPECIFICATION Spec
CONSTANTS
  Options <- Verifying
  IngressExpiry = 1
  PollTimeout = 1
  InitialDelay = 1
  MaxInterval = 1
  Multiplier = 1
  HttpTimeout = 1
  Jitter = 0
  MaxStale = 1
  Skews <- NoSkew
  Faulty = FALSE
  FalseRejects = TRUE
INVARIANTS RejectedIsNotReplied
