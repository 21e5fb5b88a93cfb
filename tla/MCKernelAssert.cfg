SPECIFICATION Spec
CONSTANTS
  idle = idle
  low = low
  mid = mid
  high = high
  A = A
  Q = Q
  NULL = NULL
  Task = {idle, low, mid, high}
  Idle = idle
  Base <- Priorities
  TickMod = 4
  MaxPended = 1
  MaxNotified = 1
  MaxLock = 2
  Object = {A}
  Type <- MutexType
  Length <- MutexLength
  Calls <- MutexCalls
  IsrCalls = {}
INVARIANTS
  TakeAssert
