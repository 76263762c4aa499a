CONSTANTS
  Scenarios = {{"leave", "message", "fails"}, {"leave", "message"}, {"kick"}}
  MaxJoins = 3
  MaxEvents = 3
  MaxResolves = 5
SPECIFICATION Spec
INVARIANTS TypeOK HeldAlive OldKeysReadable Agrees
PROPERTIES KeyNeverOlder
CHECK_DEADLOCK FALSE
