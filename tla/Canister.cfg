\* DIDs of every form, with old and new wheels; a failed constructor stops.
SPECIFICATION Spec
CONSTANTS
  Programs <- MCPrograms
  Wheels = {"new", "old"}
  Load <- Loader
  Calls <- MCCalls
  Unfoldings = 6
  MaxDepth = 6
INVARIANTS TypeOK LoadsAsDeclared UsableIsBound CallsAsNamed
CHECK_DEADLOCK FALSE
