SPECIFICATION FairSpec
CONSTANTS
  Params <- TcpOnly
  RetryCount = 4
CHECK_DEADLOCK FALSE
PROPERTY NoKeyIsTold
