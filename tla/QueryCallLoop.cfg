SPECIFICATION FairSpec
CONSTANTS
  a = a
  b = b
  Nodes = {a, b}
  Tasks = {t1, t2}
  TTL = 1
  Responses <- AllResponses
  VerifyModes = {TRUE, FALSE}
  IngressExpiry = 1
  HttpTimeout = 1
  Failures = {"timeout", "malformed"}
  MaxStale = 1
  Strangers <- MCStrangers
  StartBy = 0
  MaxClears = 1
INVARIANTS TypeOK SignerWasMember SignatureIsRecent GoodSignatureSuffices
PROPERTIES QueriesEnd
