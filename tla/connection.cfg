CONSTANTS
  Params <- AllParams
  MaxValue <- MaxSignals
  MaxThreads = 2
SPECIFICATION FairSpec
INVARIANTS TypeOK RunsUnfinished OneEventAtATime FinishesAlone NothingOutlives
PROPERTIES KeepsLifecycle AttemptEnds
