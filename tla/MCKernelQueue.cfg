SPECIFICATION Spec
CONSTANTS
  idle = idle
  low = low
  mid = mid
  high = high
  A = A
  Q = Q
  NULL = NULL
  Task = {idle, low, mid}
  Idle = idle
  Base <- QueuePriorities
  TickMod = 4
  MaxPended = 1
  MaxNotified = 1
  MaxLock = 1
  Object = {Q}
  Type <- QueueType
  Length <- QueueLength
  Calls <- QueueCalls
  IsrCalls <- QueueIsr
INVARIANTS
  WaitsExactly
  NoLostWakeup
PROPERTIES
  NeverEarly
