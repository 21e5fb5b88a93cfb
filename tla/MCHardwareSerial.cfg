SPECIFICATION FairSpec
CONSTANTS
    CounterMod = 4
    TxSize = 2
    RxSize = 2
    RxFifoDepth = 1
    MaxTx = 4
    MaxRx = 3
INVARIANTS InOrder NoStrandedBytes
PROPERTIES TxDrains WriteReturns
CHECK_DEADLOCK FALSE
