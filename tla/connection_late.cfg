CONSTANTS
  Params <- RegisterOnly
  MaxValue <- MaxSignals
  MaxThreads = 0
SPECIFICATION Spec
INVARIANT NeverRunsFinished
