SPECIFICATION Spec
CONSTANTS
    Buffers = {b1, b2, b3, b4, b5}
    NumRx = 2
    NumTx = 2
    Frames = {"ours", "other", "error"}
    NULL = NULL
SYMMETRY Symmetry
INVARIANTS OneOwner TxCredits NoRxStall NoTxStall
