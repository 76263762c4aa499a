CONSTANTS
  Conns = {c1, c2, c3}
  MaxValue = 3
SPECIFICATION FairSpec
INVARIANTS TypeOK StopWaits StopNotForgotten StoppedLast
PROPERTIES StopCompletes
CHECK_DEADLOCK FALSE
