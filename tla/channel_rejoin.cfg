CONSTANTS
  Scenarios = {{"leave", "kick", "message"}}
  MaxJoins = 3
  MaxEvents = 3
  MaxResolves = 3
SPECIFICATION Spec
INVARIANTS ExistingKeyIsNewer
CHECK_DEADLOCK FALSE
