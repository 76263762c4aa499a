CONSTANTS
  Machine = Machine
  T1 = T1
  T2 = T2
  e1 = e1
  Threads = {T1, T2}
  Real = {}
  Events = {e1}
  Timed = {Machine, T1}
  NoEvent = NoEvent
  NoFsm = NoFsm
  MaxValue = 2
  MaxPending = 2
SPECIFICATION Spec
INVARIANTS TypeOK NoLostWakeup ReentryAcquires OneActivation NoStaleTimeout ThreadsCounted JoinerFindsThread
CHECK_DEADLOCK FALSE
