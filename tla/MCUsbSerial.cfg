SPECIFICATION Spec
CONSTANTS
    TxSize = 2
    RxSize = 4
    Packet = 2
    MaxTx = 3
    MaxRx = 4
    MaxBytes = 4
INVARIANTS TxExact TxNotStranded RxReenabled NeverDropsOldest
PROPERTIES RxInOrder
CHECK_DEADLOCK FALSE
