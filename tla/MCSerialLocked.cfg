CONSTANTS
    TxSize = 4
    Fifo = 2
    RxFifo = 0
    RxTrigger = 2
    MaxPuts = 6
SPECIFICATION SerialFairSpec
PROPERTIES PutcReturns
CHECK_DEADLOCK FALSE
