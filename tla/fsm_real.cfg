CONSTANTS
  Machine = Machine
  T1 = T1
  T2 = T2
  e1 = e1
  Threads = {T1}
  Real = {T1}
  Events = {e1}
  Timed = {}
  NoEvent = NoEvent
  NoFsm = NoFsm
  MaxValue = 2
  MaxPending = 2
SPECIFICATION FairSpec
INVARIANTS JoinerFindsThread
PROPERTIES SignalledWaiterRuns
CHECK_DEADLOCK FALSE
