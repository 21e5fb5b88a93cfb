SPECIFICATION Spec
CONSTANTS
    Tasks = {emac, ip}
    ISR = isr
    NumBuffers = 3
    Threshold = 1
INVARIANTS TypeOK SemaphoreBacked OwnedOnce NoLeak GetSucceeds
