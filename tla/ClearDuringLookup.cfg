SPECIFICATION Spec
CONSTANTS
  a = a
  b = b
  Nodes = {a, b}
  Tasks = {t1}
  TTL = 1
  Responses <- MCResponses
  VerifyModes <- Verified
  IngressExpiry = 1
  HttpTimeout = 1
  Failures = {"timeout"}
  MaxStale = 0
  Strangers <- MCStrangers
  StartBy = 0
  MaxClears = 1
INVARIANTS ClearForcesLookup
