CONSTANTS
  Params <- ResumeOnly
  MaxValue <- MaxSignals
  MaxThreads = 0
SPECIFICATION FairSpec
PROPERTY AttemptAlwaysEnds
