SPECIFICATION FairSpec
CONSTANTS
  idle = idle
  low = low
  mid = mid
  high = high
  A = A
  Q = Q
  NULL = NULL
  Task = {idle, low, mid, high}
  Idle = idle
  Base <- Priorities
  TickMod = 3
  MaxPended = 1
  MaxNotified = 1
  MaxLock = 2
  Object = {A}
  Type <- MutexType
  Length <- MutexLength
  Calls <- MutexCalls
  IsrCalls = {}
INVARIANTS
  RunsHighest
  ReadyBitsExact
  Inheritance
PROPERTIES
  TakeSucceeds
  AtomicObjects
