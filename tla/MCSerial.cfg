CONSTANTS
    TxSize = 4
    Fifo = 2
    RxFifo = 3
    RxTrigger = 2
    MaxPuts = 6
SPECIFICATION SerialFairSpec
INVARIANTS InOrder
PROPERTIES PutcReturnsUnlocked AllLeave
CHECK_DEADLOCK FALSE
