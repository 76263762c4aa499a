SPECIFICATION Spec
CONSTANTS
  Params <- TcpOnly
  RetryCount = 4
CHECK_DEADLOCK FALSE
INVARIANT NeverAnsweredLate
