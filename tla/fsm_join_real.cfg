CONSTANTS
  Machine = Machine
  T1 = T1
  T2 = T2
  e1 = e1
  Threads = {T1, T2}
  Real = {T1}
  Events = {e1}
  Timed = {}
  NoEvent = NoEvent
  NoFsm = NoFsm
  MaxValue = 1
  MaxPending = 1
SPECIFICATION Spec
INVARIANTS EveryJoinerFindsThread
CHECK_DEADLOCK FALSE
