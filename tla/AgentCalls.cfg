\* A request may be under way for one tick; calls and time stop.
SPECIFICATION Spec
CONSTANTS
  c1 = c1
  c2 = c2
  Calls = {c1, c2}
  Canisters <- MCCanisters
  Texts <- MCTexts
  Args = {"None", "DIDL00"}
  Logins <- MCLogins
  IngressExpiry = 1
  Window = 1
  Skews <- SomeSkew
  StartTime = 10
  MaxTime = 12
INVARIANTS TypeOK RunsOnce OwnExecution TextNamesCanister RefusedOnlyWhenExpired
CHECK_DEADLOCK FALSE
