SPECIFICATION Spec
CONSTANTS
  Params <- UdpOnly
  RetryCount = 4
CHECK_DEADLOCK FALSE
INVARIANT VerifiedBeforeDone
