SPECIFICATION FairSpec
CONSTANTS
  Params <- AllParams
  RetryCount = 2
CHECK_DEADLOCK FALSE
INVARIANTS TypeOK KeyConfirmed CompletesOnce WokenForItsReason
PROPERTY ExchangeEnds
