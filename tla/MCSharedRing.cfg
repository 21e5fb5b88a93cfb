SPECIFICATION Spec
CONSTANTS
    Size = 4
    CounterMod = 8
    MaxItems = 10
    MaxBatch = 3
INVARIANTS NoSlotRace LooksExact
PROPERTY ImplementsFifo
CHECK_DEADLOCK FALSE
